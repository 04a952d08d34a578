SPECIFICATION FairSpec
CONSTANTS
  Proc = {p1, p2, p3}
  Block = {b1, b2}
  NoBlock = NoBlock  NotCached = NotCached  Torn = Torn
  Content = {old, new}  Blank = old
  LOGBLOCKS = 4
  MAXOPBLOCKS = 2
  OpBlocks = 1
INVARIANTS
  LogHasRoom
  PinsBalance
  IdleIsDurable
PROPERTIES
  ImplementsAtomicDisk
  SleepersWoken
