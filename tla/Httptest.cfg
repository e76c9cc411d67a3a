SPECIFICATION Spec
CONSTANT
  MaxChunks = 3
PROPERTY LetsOthersRun
PROPERTY TriesAgain
CHECK_DEADLOCK FALSE
