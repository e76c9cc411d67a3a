SPECIFICATION Spec
CONSTANTS
  b1 = b1
  b2 = b2
  no_time = no_time
  time1 = time1
  time2 = time2
  too_long = too_long
  None = None
  TxBuffer1 = b1
  TxBuffer2 = b2
  Capacity = 5
  Samples <- MCSamples
  RestPoint = "rest"
  Face <- MCFace
  Frames = {no_time, time1, time2, too_long}
  BootFrame = no_time
  Hands <- MCHands
  DelayCoversStart = FALSE
  LineOutlastsArming = FALSE
  DmaMayFail = TRUE
INVARIANT BeamDrawsStrokes
INVARIANT PanicIsDark
PROPERTY ImplementsPipeline
PROPERTY TimeReachesScreen
CHECK_DEADLOCK FALSE
