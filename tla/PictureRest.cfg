SPECIFICATION Spec
CONSTANTS
  b1 = b1
  b2 = b2
  no_time = no_time
  am = am
  date1 = date1
  date2 = date2
  too_long = too_long
  None = None
  TxBuffer1 = b1
  TxBuffer2 = b2
  Capacity <- MCCapacity
  Samples <- MCSamples
  RestPoint <- MCRestPoint
  Face <- MCFace
  Frames = {no_time, am, date1, date2, too_long}
  BootFrame = no_time
  Hands <- MCFrames
INVARIANT RestPointSent
