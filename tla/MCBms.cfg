\* Polls and frames in any order.
SPECIFICATION Spec
CONSTANTS
  first = first
  second = second
  third = third
  Devices <- MCDevices
  Address <- MCAddress
  Override <- MCOverride
  Answers <- MCAnswers
  MAX_NO_RESPONSE_COUNT = 5
INVARIANTS
  TypeOK
  OfflineIffSilent
  NoticedOnce
  OfflineShowsNothing
  OnlyUnguardedOverread
  OneFrameAtATime
