SPECIFICATION Spec
CONSTANTS
  p1 = p1  p2 = p2  p3 = p3  sh = sh  cat = cat
  NoProc = NoProc  NoImage = NoImage  NoFrame = NoFrame  NoValue = NoValue
  Zero = Zero  Junk = Junk
  Proc = {p1, p2, p3}  InitProc = p1
  Image = {sh}  InitImage = sh
  Text <- NoText
  Data <- NoText
  MaxVPage = 1
  Frame = {f1, f2, f3, f4, f5, f6}
  Slot = {0}
  SwapCap = 1
  MaxPages = 2
  Value = {a}
  Calls = {"fork", "exit", "exec", "kill"}
  Accesses = {"write"}
SYMMETRY FrameSymmetry
INVARIANTS
  FrameOwnership
  ChildReserved
PROPERTIES
  ImplementsMemory
CHECK_DEADLOCK FALSE
