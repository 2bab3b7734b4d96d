SPECIFICATION SystemSpec
CONSTANTS
  NoName = NoName
  Names = {a}
  Lurkers = {}
  RoomNames = {"general"}
  General = "general"
  Begins = {}
  TicksPerSecond = 1
  Timeout = 3
  MaxTime = 4
  Undecodable = FALSE
  PingPeriod = 1
  MaxDelay = 0
  MaxUnheard = 3
  MaxOrders = 1
  MaxCount = 2
  MaxCrashes = 0
PROPERTY OnlyDeadLoggedOff
CHECK_DEADLOCK FALSE
