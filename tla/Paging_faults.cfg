SPECIFICATION Spec
CONSTANTS
  p1 = p1  p2 = p2  p3 = p3  sh = sh  cat = cat
  NoProc = NoProc  NoImage = NoImage  NoFrame = NoFrame  NoValue = NoValue
  Zero = Zero  Junk = Junk
  Proc = {p1}  InitProc = p1
  Image = {sh}  InitImage = sh
  Text <- NoText
  Data <- OnePageData
  MaxVPage = 4
  Frame = {f1, f2, f3, f4}
  Slot = {0, 1}
  SwapCap = 2
  MaxPages = 5
  Value = {a, b}
  Calls = {"lazy", "copy"}
  Accesses = {"read", "write"}
SYMMETRY FrameSymmetry
INVARIANTS
  SlotOwnership
  FifoIsResident
  FaultsAreSafe
PROPERTIES
  ImplementsLossyMemory
CHECK_DEADLOCK FALSE
