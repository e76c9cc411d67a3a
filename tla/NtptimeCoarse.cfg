SPECIFICATION Spec
CONSTANTS
  None = None
  TIMEOUT = 3
  PROMPT = 1
  REFINEMENTS = 4
  RX_SLOTS = 2
  MaxLate = 2
PROPERTY CoarseMeasured
