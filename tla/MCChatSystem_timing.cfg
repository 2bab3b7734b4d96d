SPECIFICATION SystemSpec
CONSTANTS
  NoName = NoName
  Names = {a, b}
  Lurkers = {b}
  RoomNames = {"general"}
  General = "general"
  Begins = {}
  TicksPerSecond = 2
  Timeout = 5
  MaxTime = 6
  Undecodable = TRUE
  PingPeriod = 1
  MaxDelay = 1
  MaxUnheard = 1
  MaxOrders = 1
  MaxCount = 1
  MaxCrashes = 1
INVARIANTS SilenceBounded TokensLeftByCrashes StaysLoggedIn
PROPERTY EvictsOnlyUnheard
CHECK_DEADLOCK FALSE
