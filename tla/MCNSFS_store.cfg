CONSTANTS
  Disks = {"fd0", "hd0"}
  NEntries = 3
  NBlocks = 8
  SFS_ENTRYREFS = 2
  BLOCK_SIZE = 1
  Names <- MCNames
  StoredName <- MCStoredName
  Bytes = {"x", "y"}
  DiskErrorCode = 1
  Requests <- StoreRequests
  Discipline <- Careful
  Fuel <- Unlimited
SPECIFICATION SpecStore
PROPERTY ImplementsFileStore
VIEW UsedParts
