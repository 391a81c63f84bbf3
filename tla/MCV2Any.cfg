\* Polls and presses at any moment, split answers, faults, reconnects. The settings
\* answer takes three notifications, the last one shorter than a header.
SPECIFICATION LiveSpec
CONSTANTS
  Registers = {1}
  AnswerSize <- MCAnswerSize
  Mtu = 87
  MaxOutstanding = 2
  MaxFaults = 2
  StrayLengths = {10, 150, 300}
INVARIANTS
  TypeOK
  ClientInv
PROPERTIES
  UndamagedIsDecoded
  ChainKeepsCompleting
  SwitchesConverge
