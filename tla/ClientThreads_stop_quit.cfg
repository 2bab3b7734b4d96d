SPECIFICATION FairSpec
CONSTANTS
  Events = {"quit"}
  MaxLines = 1
  MaxChat = 0
PROPERTY SignalStops
CHECK_DEADLOCK FALSE
