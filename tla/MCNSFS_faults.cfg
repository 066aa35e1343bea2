CONSTANTS
  Disks = {"fd0"}
  NEntries = 3
  NBlocks = 8
  SFS_ENTRYREFS = 2
  BLOCK_SIZE = 1
  Names <- MCNames
  StoredName <- MCStoredName
  Bytes = {"zero"}
  DiskErrorCode = 1
  Requests <- FaultRequests
  Discipline <- Careful
  Fuel = {0,1,2,3,4,5,6,7,99}
SPECIFICATION SpecStore
CONSTRAINT Sound
INVARIANTS
 BlocksOwnedOnce
 NoDataOverTable
PROPERTY FaultsStayLocal
VIEW Images
