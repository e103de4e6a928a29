CONSTANTS
  init = init a = a b = b
  Proc = {init, a}
  InitProc = init
  NoProc = NoProc
  NVA = 1
  Page = {1,2,3,4,5}
  NoPage = NoPage
  Data = {Zero,One}
  Zero = Zero One = One
  Junk = Junk
  Kernels = {FALSE}
  KernelPages = {0}
  Image <- OnePage
  Calls = {"fork", "read"}
SPECIFICATION Spec
ACTION_CONSTRAINT LowestFree
PROPERTIES Isolation
CHECK_DEADLOCK FALSE
