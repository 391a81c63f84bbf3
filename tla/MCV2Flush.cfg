\* A settings answer of three notifications, the byte 0x7E at the beginning of one.
SPECIFICATION Spec
CONSTANTS
  Registers = {}
  AnswerSize <- MCAnswerSize
  Mtu = 87
  MaxOutstanding = 2
  MaxFaults = 2
  StrayLengths = {10, 150, 300}
PROPERTIES
  FlushedAtFrameStartOnly
