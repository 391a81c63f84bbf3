\* The whole command table, three packs, polls that wait for the answers, answers in
\* one to four notifications, faults, reconnects.
SPECIFICATION LiveSpec
CONSTANTS
  SystemCommands <- MCFullTable
  PackAddresses <- MCThreePacks
  Mtu = 60
  MaxOutstanding = 2
  MaxFaults = 3
  StrayLengths = {5, 70, 260}
  ReportedPackCounts = {3, 20}
INVARIANTS
  SystemValuesAreTheirOwn
  AtMostOneUnderWay
PROPERTIES
  IsPollChain
  StaleBytesAreFlushed
  ChainKeepsCompleting
  AllGroupsFilled
