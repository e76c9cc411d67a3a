SPECIFICATION Spec
CONSTANTS
  GLOBAL_SCALE = 2
  TxBytes = 50000
  Dates <- MCDates
  StartTime = 0
  Later = {187500}
INVARIANT PictureFits
INVARIANT PartsDrawable
INVARIANT LitBeamNeverJumps
INVARIANT VerticesVisited
INVARIANT LabelClearOfHands
INVARIANT HandsReadable
PROPERTY HandsSweep
