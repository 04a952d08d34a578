SPECIFICATION Spec
CONSTANTS
  p1 = p1  p2 = p2  p3 = p3  sh = sh  cat = cat
  NoProc = NoProc  NoImage = NoImage  NoFrame = NoFrame  NoValue = NoValue
  Zero = Zero  Junk = Junk
  Proc = {p1}  InitProc = p1
  Image = {sh}  InitImage = sh
  Text <- NoText
  Data <- OnePageData
  MaxVPage = 3
  Frame = {f1, f2, f3}
  Slot = {0}
  SwapCap = 1
  MaxPages = 4
  Value = {a}
  Calls = {"lazy"}
  Accesses = {"read", "write"}
SYMMETRY FrameSymmetry
PROPERTIES
  HeapKeepsData
CHECK_DEADLOCK FALSE
