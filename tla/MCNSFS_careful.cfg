CONSTANTS
  Disks = {"fd0"}
  NEntries = 4
  NBlocks = 9
  SFS_ENTRYREFS = 2
  BLOCK_SIZE = 1
  Names <- MCNames
  StoredName <- MCStoredName
  Bytes = {"zero"}
  DiskErrorCode = 1
  Requests <- MCRequests
  Discipline <- Careful
  Fuel <- Unlimited
SPECIFICATION Spec
INVARIANTS
  TypeOK
  BlocksOwnedOnce
  DeadRefsAreZero
  ChainsCarryTheSize
  ListingsMatchLookups
  EveryEntryUnderRoot
  NamesAreUnique
  NoDataOverTable
VIEW Images
