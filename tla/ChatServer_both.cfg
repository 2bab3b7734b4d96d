SPECIFICATION FairSpec
CONSTANTS
  NoName = NoName
  Names = {a, b}
  RoomNames = {general, dev}
  General = general
  TicksPerSecond = 2
  Timeout = 1
  MaxTime = 2
  Undecodable = TRUE
INVARIANTS TypeOK RoomsWellFormed BusAgrees OneReply ListingComplete ListOnlyStale NobodySpared
PROPERTIES ImplementsDirectory SilentUserLoggedOff RequestAnswered
CHECK_DEADLOCK FALSE
