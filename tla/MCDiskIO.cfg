CONSTANTS
  Disks = {"fd0", "hd0"}
  ATADisks = {"hd0"}
  NBytes = 4
  DISK_SECTOR_SIZE = 2
  Bytes = {"old", "new"}
  Requests <- MCRequests
  MaxLevel = 2
  BiosFlags = {FALSE}
SPECIFICATION FairSpec
INVARIANTS
  TypeOK
  LocksKeepInterruptsOff
  ResultsAreTrue
  FailuresKeepTheRest
PROPERTY InterruptsComeBack
