SPECIFICATION FairSpec
CONSTANTS
  Topics = {general, own, other}
  Subscribed = {general, own}
  General = general
  Publishers = {"handler"}
  MaxMessages = 4
INVARIANTS TypeOK Aligned NothingLost
PROPERTIES ImplementsFeed EveryMessageShown
CHECK_DEADLOCK FALSE
