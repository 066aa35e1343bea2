CONSTANTS
  Disks = {"fd0"}
  NEntries = 3
  NBlocks = 8
  SFS_ENTRYREFS = 3
  BLOCK_SIZE = 1
  Names <- MCNames
  StoredName <- MCStoredName
  Bytes = {"zero"}
  DiskErrorCode = 1
  Requests <- LongWrites
  Discipline <- AnyGrowth
  Fuel = {99}
SPECIFICATION SpecStore
VIEW Images
INVARIANT BlocksOwnedOnce
