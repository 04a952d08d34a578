SPECIFICATION Spec
CONSTANTS
  p1 = p1  p2 = p2
  Proc = {p1, p2}  Nobody = Nobody
  NINODES = 5
  NBLOCKS = 3
  MAXFILE = 1
  NFILE = 2
  Name = {"a", "b", "s1", "s2"}
  SwapName <- MCSwapName
  Plans <- MCReusePlans
  MaxCrashes = 0
INVARIANTS
  LastReferenceFrees
CHECK_DEADLOCK FALSE
