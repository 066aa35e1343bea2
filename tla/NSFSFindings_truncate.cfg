CONSTANTS
  Disks = {"fd0"}
  NEntries = 3
  NBlocks = 8
  SFS_ENTRYREFS = 2
  BLOCK_SIZE = 1
  Names <- MCNames
  StoredName <- MCStoredName
  Bytes = {"zero"}
  DiskErrorCode = 1
  Requests <- MCRequests
  Discipline <- AnyResize
  Fuel = {99}
SPECIFICATION SpecStore
VIEW Images
PROPERTY WritesKeepWhatIsBefore
