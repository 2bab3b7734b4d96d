SPECIFICATION Spec
CONSTANTS
  NoName = NoName
  Names = {a}
  RoomNames = {general, dev}
  General = general
  TicksPerSecond = 2
  Timeout = 1
  MaxTime = 4
  Undecodable = FALSE
PROPERTY TimeoutLeavesAllRooms
