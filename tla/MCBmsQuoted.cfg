\* The frames the comments quote.
SPECIFICATION Spec
CONSTANTS
  first = first
  second = second
  third = third
  Devices <- MCDevices
  Address <- MCAddress
  Override <- MCOverride
  Answers <- MCQuoted
  MAX_NO_RESPONSE_COUNT = 5
INVARIANTS
  NothingOverread
