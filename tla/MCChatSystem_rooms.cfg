SPECIFICATION SystemSpec
CONSTANTS
  NoName = NoName
  Names = {a, b}
  Lurkers = {b}
  RoomNames = {"general", "g"}
  General = "general"
  Begins <- MCBegins
  TicksPerSecond = 3
  Timeout = 1
  MaxTime = 2
  Undecodable = FALSE
  PingPeriod = 1
  MaxDelay = 0
  MaxUnheard = 1
  MaxOrders = 1
  MaxCount = 2
  MaxCrashes = 1
INVARIANTS ClientsTypeOK MembersListen ListenersAreMembers NoRefusal
PROPERTY EvictsOnlyUnheard
CHECK_DEADLOCK FALSE
