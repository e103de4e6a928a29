------------------------------ MODULE MCPrograms ----------------------------
(***************************************************************************)
(* The user programs for TLC, each in scenes of its own: the Sudoku search *)
(* (module Sudoku), the shell with what it runs (Shell), its line editor   *)
(* (LineEditor), grep (Grep), and a program that allocates memory          *)
(* (Umalloc).  The others stand still.                                     *)
(*                                                                         *)
(* Puzzles are 4 by 4: the last three rows of an answer with the cells of  *)
(* Blank emptied, under a first row of any numbers and empty cells.  Lines *)
(* are a few written out, and every short sequence of tokens; patterns and *)
(* texts are the short ones, and a few texts that fill the buffer.         *)
(***************************************************************************)
EXTENDS Sudoku

CONSTANTS Blank,                                          \* cells of rows 2 to 4
          Pid, Sh, NoFile, Fd, OpenFile, Pipe, PIPESIZE, File, MAXARGS, Lines,
          Tokens, Longest,                                \* of the short lines
          Least, Heap, Limit, Request, MaxGaps,
          Char, NUL, NL, Cmds, MAX, Past, MaxLines,
          BUFSIZE, Patterns, Texts

Answer == << <<1, 2, 3, 4>>, <<3, 4, 1, 2>>, <<2, 1, 4, 3>>, <<4, 3, 2, 1>> >>
Under(top) == [c \in Cell |-> IF c[1] = 1 THEN top[c[2]] ELSE IF c \in Blank THEN 0 ELSE Answer[c[1]][c[2]]]
AllPuzzles == {Under(top) : top \in [1 .. 4 -> 0 .. 4]}
ConsistentPuzzles == {puz \in AllPuzzles : Consistent(puz)}
FiveBlanks == {<<2, 1>>, <<2, 4>>, <<3, 1>>, <<3, 4>>, <<4, 2>>}

\* Nobody redirects to a program, and the longest lines run two things at once.
ShortLines ==
  {l \in UNION {[1 .. n -> Tokens] : n \in 0 .. Longest} :
     /\ \A i \in 1 .. Len(l) - 1 : l[i] \in {"<", ">"} => l[i + 1] # "say"
     /\ Len(l) = Longest => Cardinality({i \in 1 .. Len(l) : l[i] \in {"|", "&"}}) <= 1}
LongLines ==
  {<<"say", "|", "cat", "|", "head">>,
   <<"(", "say", ";", "say", ")", "|", "(", "head", ";", "cat", ")">>,
   <<"say", ">", "f", ";", "cat", "<", "f", "|", "cat", ">", "g", ";", "cat", "<", "g">>,
   <<"say", ">", "f", ";", "(", "head", ";", "cat", ")", "<", "f">>,
   <<"say", ">", "f", ";", "say", "|", "head", ">>", "f", ";", "cat", "<", "f">>,
   <<"say", ">", "f", ">", "g", ";", "cat", "<", "g", "<", "f">>,
   <<"say", "|", "(", "cat", ")", ">", "f", ";", "cat", "<", "f", "|", "say">>,
   <<"(", "say", "|", "cat", ")", "&", ";", "say", ">", "f">>,
   <<"(", "say", "&", ";", "cat", "<", "f", ")", "|", "cat">>,
   <<"say", "|", "cat", "|", "cat", "|", "cat">>,
   <<"(", "(", "say", "|", "head", ")", ";", "nothing", ")", ">", "f", ";", "cat", "<", "f">>}

AllLines == ShortLines \cup LongLines

UpTo(n, set) == UNION {[1 .. k -> set] : k \in 0 .. n}
Files == <<<<"a", "b">>, <<"b">>, <<"a", "b", "b">>>>
Commands == {<<<<"b">>, <<"a", "b", "a">>>>}
AllPatterns == UpTo(3, {"a", ".", "*", "^", "$"})
AllTexts == UpTo(3, {"a", "b", NL})
            \cup {<<"a", "b", NL, "a", NL>>, <<"a", "b", "a", "b", NL, "a", NL>>, <<"a", "a", NL, "b">>}

VARIABLES todo, state, parent, fds, pfd, pipe, file, off, screen, line, short,
          ptr, size, freep, brk, got, gaps,
          kept, at, historyidx, curbuf, history, testcmd, tabidx, cmdidx, command, dead,
          pattern, text, unread, buf, out, done,
          program    \* the one that runs

shell == <<todo, state, parent, fds, pfd, pipe, file, off, screen, line, short>>
heap  == <<ptr, size, freep, brk, got, gaps>>
typed == <<kept, at, historyidx, curbuf, history, testcmd, tabidx, cmdidx, command, dead>>
grep  == <<pattern, text, unread, buf, out, done>>

S == INSTANCE Shell
H == INSTANCE Umalloc
E == INSTANCE LineEditor WITH buf <- kept, i <- at
G == INSTANCE Grep

\* A search that stands still has not begun, and grep has read everything.
SearchStands ==
  /\ solver = "c++" /\ given = [c \in Cell |-> 0] /\ puzzle = given /\ stack = <<>> /\ next = <<1, 1>> /\ pc = "call"
GrepStands == pattern = <<>> /\ text = <<>> /\ unread = <<>> /\ buf = <<>> /\ out = <<>> /\ done = TRUE

MCInit ==
  /\ S!Init /\ H!Init /\ E!Init
  /\ program \in {"sudoku", "sh", "malloc", "edit", "grep"}
  /\ IF program = "sudoku" THEN Init ELSE SearchStands
  /\ IF program = "grep" THEN G!Init ELSE GrepStands
MCNext ==
  /\ \/ program = "sudoku" /\ Next /\ UNCHANGED <<shell, heap, typed, grep>>
     \/ program = "sh" /\ S!Next /\ UNCHANGED <<vars, heap, typed, grep>>
     \/ program = "malloc" /\ H!Next /\ UNCHANGED <<vars, shell, typed, grep>>
     \/ program = "edit" /\ E!Next /\ UNCHANGED <<vars, shell, heap, grep>>
     \/ program = "grep" /\ G!Next /\ UNCHANGED <<vars, shell, heap, typed>>
  /\ UNCHANGED program

allVars == <<vars, shell, heap, typed, grep, program>>
\* The search goes on, and so do the processes of the shell.
MCSpec ==
  /\ MCInit /\ [][MCNext]_allVars
  /\ WF_allVars(program = "sudoku" /\ MCNext)
  /\ WF_allVars(program = "sh" /\ line # S!NoLine /\ MCNext)

\* The properties of the programs.
PromptMeansDone == S!PromptMeansDone
HeapIsTiled == H!HeapIsTiled
PrintsTheLines == G!PrintsTheLines

\* The search ends, whatever it backs up over, and so does every line the shell
\* runs, in whatever order its processes get on (Sudoku.cpp:175, sh.c:123).
ProgramsEnd == (program = "sudoku" => Terminates) /\ S!EveryLineEnds

\* Under any keys the line is what was typed, erased, recalled and completed, and what
\* runs.  Nothing else comes into it but what an erase or a recall inside the line had
\* cut off, which comes back (sh.c:168-276).
EditorKeepsLine == E!ImplementsEditedLine /\ []E!BufferEnds
=============================================================================
