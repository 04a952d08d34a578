SPECIFICATION Spec
CONSTANTS
  p1 = p1  p2 = p2  p3 = p3
  n1 = n1  n2 = n2  n3 = n3  n4 = n4  n5 = n5
  Proc = {p1, p2, p3}  Nobody = Nobody
  Block = {n1, n2, n3, n4, n5}  NoBlock = NoBlock
  Content = {old, new}  Blank = old
  NBUF = 4
  NUM = 5
  MaxPins = 2
  Plans <- MCPlans
INVARIANTS
  CacheConsistent
  PanicsOnlyWhenFull
  WriteIsDurable
PROPERTIES
  ImplementsBlockStore
  AllServed
CHECK_DEADLOCK FALSE
