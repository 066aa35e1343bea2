SPECIFICATION FairSpec
CONSTANTS
  HalfBytes = 2
  HeaderBytes = 2
  MaxBlock = 6
  Files <- MCFiles
INVARIANTS
  TypeOK
  PlayedInOrder
  SilentWhenStopped
PROPERTIES
  HeardInFull
  SoundEnds
