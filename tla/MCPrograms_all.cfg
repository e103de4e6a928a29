CONSTANTS
  Box = 2
  Solvers = {"c++", "lua"}
  Given <- ConsistentPuzzles
  Blank <- FiveBlanks
  Pid = {1, 2, 3, 4, 5, 6}
  Sh = 1
  NoFile = NoFile
  Fd = {0, 1, 2, 3, 4}
  OpenFile = {0, 1, 2, 3}
  Pipe = {0, 1}
  PIPESIZE = 1
  File = {"f", "g"}
  MAXARGS = 3
  Lines <- AllLines
  Tokens = {"say", "<", ">", "|", ";", "(", ")", "&", "f"}
  Longest = 3
  Least = 4
  Heap = 2
  Limit = 14
  Request = {2, 3, 5}
  MaxGaps = 1
  Char = {"a"}
  NUL = NUL
  NL = "nl"
  Cmds <- Files
  MAX = 5
  Past <- Commands
  MaxLines = 3
  BUFSIZE = 4
  Patterns <- AllPatterns
  Texts <- AllTexts
SPECIFICATION MCSpec
INVARIANTS SolvesCorrectly PromptMeansDone HeapIsTiled PrintsTheLines
PROPERTIES ProgramsEnd EditorKeepsLine
CHECK_DEADLOCK FALSE
