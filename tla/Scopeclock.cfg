SPECIFICATION Spec
CONSTANTS
  b1 = b1
  b2 = b2
  face = face
  time1 = time1
  time2 = time2
  None = None
  TxBuffer1 = b1
  TxBuffer2 = b2
  Frames = {face, time1, time2}
  BootFrame = face
  Parts <- MCParts
  DelayCoversStart = TRUE
  LineOutlastsArming = TRUE
  DmaMayFail = TRUE
INVARIANT TypeOK
INVARIANT OneOwner
INVARIANT NoTearing
INVARIANT OneActivation
INVARIANT BeamNeverStranded
PROPERTY DarkTravel
PROPERTY FrameReachesScreen
PROPERTY ClockKeepsDrawing
PROPERTY ImplementsDisplay
CHECK_DEADLOCK FALSE
