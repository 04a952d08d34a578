SPECIFICATION FairSpec
CONSTANTS
  NPROC = 3
  Cpu = {c1, c2}
  NoProc = NoProc  NoChan = NoChan  Lk = Lk
  Targets = {2}
  MaxPid = 3
  YieldAt = {"hold"}
INVARIANTS
  TableConsistent
  StacksExclusive
  SleepersHaveReason
PROPERTIES
  ImplementsFamily
  OrphansReaped
  LockWaitersRun
