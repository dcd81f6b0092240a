SPECIFICATION FairSpec
CONSTANTS
  o1 = o1
  o2 = o2
  h1 = h1
  h2 = h2
  Ops = {o1, o2}
  Hashes = {h1, h2}
  Requests <- MCRequests
  Slots = 2
  MaxFaults = 1
  MaxRestarts = 1
  None = None
INVARIANTS ReceiptsAreKept  InstalledHasFiles
PROPERTIES InstallsAreWanted OperationsEnd
CHECK_DEADLOCK FALSE
