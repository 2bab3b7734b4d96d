SPECIFICATION FairSpec
CONSTANTS
  Topics = {general, own, other}
  Subscribed = {general, own}
  General = general
  Publishers = {"handler", "checker"}
  MaxMessages = 3
PROPERTY EveryMessageShown
CHECK_DEADLOCK FALSE
