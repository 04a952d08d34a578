SPECIFICATION Spec
CONSTANTS
  p1 = p1  p2 = p2
  Proc = {p1, p2}  Nobody = Nobody
  NINODES = 4
  NBLOCKS = 2
  MAXFILE = 1
  NFILE = 2
  Name = {"a", "b", "s1", "s2"}
  SwapName <- MCSwapName
  Plans <- MCPlans
  MaxCrashes = 2
INVARIANTS
  WellFormed
  RefsAreHolders
  BlocksExact
  NothingLiveIsFree
PROPERTIES
  CallsReturn
CHECK_DEADLOCK FALSE
