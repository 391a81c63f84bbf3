\* The whole command table and a pack on a connection that loses nothing.
SPECIFICATION LiveSpec
CONSTANTS
  SystemCommands <- MCFullTable
  PackAddresses <- MCOnePack
  Mtu = 260
  MaxOutstanding = 2
  MaxFaults = 0
  StrayLengths = {260}
  ReportedPackCounts = {20}
PROPERTIES
  CoilsAreDecoded
