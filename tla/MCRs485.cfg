\* Two devices polled at any moment, collisions, faults.
SPECIFICATION Spec
CONSTANTS
  first = first
  second = second
  NoFrame = NoFrame
  Chars <- MCChars
  ChecksumChars = 0
  MAX_RESPONSE_SIZE = 4
  rx_timeout = 2
  LoopTime = 1
  UartSize = 1
  MaxFaults = 1
  Devices <- MCTwoDevices
  Address <- MCAddress
  Override <- MCNoOverride
  Answers <- MCTwoAnswers
  MAX_NO_RESPONSE_COUNT = 1
  MaxRequests = 2
  Flaky = {0}
PROPERTIES
  DeliveredMeansOnline
