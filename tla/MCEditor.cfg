\* The program ends with ESC.
CHECK_DEADLOCK FALSE
SPECIFICATION Spec
CONSTANTS
  Chars = {"a"}
  SCREEN_WIDTH = 2
  SCREEN_HEIGHT = 3
  Room = 7
  MaxSize = 6
  DiskRoom = 3
  Files <- MCFiles
  Memories <- UsedOrClear
INVARIANTS
  TypeOK
  CursorOnItsChar
  PlacesAgree
  BufferFinishes
  
PROPERTIES
  OneCharAtATime
