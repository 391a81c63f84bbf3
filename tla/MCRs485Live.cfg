\* One device, polls far enough apart, faults.
SPECIFICATION LiveSpec
CONSTANTS
  first = first
  second = second
  NoFrame = NoFrame
  Chars <- MCOneChars
  ChecksumChars = 1
  MAX_RESPONSE_SIZE = 4
  rx_timeout = 3
  LoopTime = 1
  UartSize = 4
  MaxFaults = 1
  Devices <- MCOneDevice
  Address <- MCOneAddress
  Override <- MCOneOverride
  Answers <- MCOneAnswer
  MAX_NO_RESPONSE_COUNT = 5
  MaxRequests = 1
  Flaky = {0}
PROPERTIES
  AliveComesOnline
  GoneGoesOffline
  FaultsExcuseSilence
