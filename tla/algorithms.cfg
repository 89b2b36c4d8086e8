SPECIFICATION Spec
CONSTANTS
  Base = 256
  FrameBytes = {0, 1, 128, 165, 255}
  MaxFrame = 4
  WordBits = 6
INVARIANTS
  SerializationExact
  RingArithmetic
  FormatFits
  PathsAgree
