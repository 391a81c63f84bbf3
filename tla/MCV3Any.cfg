\* Polls at any moment, split answers, faults, reconnects.
SPECIFICATION Spec
CONSTANTS
  SystemCommands <- MCShortTable
  PackAddresses <- MCOnePack
  Mtu = 60
  MaxOutstanding = 3
  MaxFaults = 2
  StrayLengths = {5, 70, 260}
  ReportedPackCounts = {20}
INVARIANTS
  TypeOK
  PendingIsLastWritten
  OfflineIsClean
  BufferStaysBelowAFrame
  PackValuesAreItsOwn
