CONSTANTS
  init = init a = a b = b
  Proc = {init, a, b}
  InitProc = init
  NoProc = NoProc
  NVA = 3
  Page = {1,2,3,4,5,6,7,8,9}
  NoPage = NoPage
  Data = {Zero,One}
  Zero = Zero One = One
  Junk = Junk
  Kernels = {TRUE, FALSE}
  KernelPages = {0,3}
  Image <- GuardData
  Calls = {"fork", "sbrk", "exec", "read", "exit"}
SPECIFICATION SceneSpec
VIEW Shape
INVARIANTS PageTableSound
PROPERTIES ImplementsPageRefs Isolation
CHECK_DEADLOCK FALSE
