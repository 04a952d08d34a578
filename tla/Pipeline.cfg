SPECIFICATION Spec
CONSTANTS
  Letter = {"a", "b", "c"}
  NL = "NL"
  EOF = "EOF"
  ERASE = "ERASE"
  KILLLINE = "KILLLINE"
  INPUT_BUF_SIZE = 2
  PIPESIZE = 2
  UINT = 4
  CHUNK = 3
  TXFIFO = 2
  RXFIFO = 1
  Scripts <- MCScripts
  Killable = {"left", "right"}
  MaxKills = 1
INVARIANTS
  PipelineConsistent
  LineDisciplineExact
  NothingLost
PROPERTIES
  ImplementsStream
  PipelineEnds
CHECK_DEADLOCK FALSE
