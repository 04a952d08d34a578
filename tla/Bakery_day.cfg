SPECIFICATION Spec
CONSTANTS
  N = 6
  Horizon = 8
  MaxTime = 30
  MAX_CAPACITY = 4
  NUM_OVENS = 2
  NUM_CHEFS = 2
  SOFA_CAPACITY = 3
INVARIANTS
  ResourcesBalance
  NoOvertaking
PROPERTIES
  PaymentFirst
  EveryoneLeaves
CHECK_DEADLOCK FALSE
