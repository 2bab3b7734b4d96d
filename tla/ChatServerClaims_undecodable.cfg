SPECIFICATION FairSpec
CONSTANTS
  NoName = NoName
  Names = {a}
  RoomNames = {general, dev}
  General = general
  TicksPerSecond = 2
  Timeout = 1
  MaxTime = 2
  Undecodable = TRUE
PROPERTY EveryRequestAnswered
CHECK_DEADLOCK FALSE
