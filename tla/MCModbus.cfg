\* Frames of four characters and of six, one too many; arrivals at any moment.
SPECIFICATION Spec
CONSTANTS
  short = short
  large = large
  NoFrame = NoFrame
  Frames <- MCFrames
  Chars <- MCChars
  ChecksumChars = 1
  MAX_RESPONSE_SIZE = 4
  rx_timeout = 3
  LoopTime = 1
  UartSize = 2
  MaxFaults = 1
INVARIANTS
  TypeOK
  SilenceClears
  LineInv
PROPERTIES
  FrameDelivered
