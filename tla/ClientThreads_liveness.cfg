SPECIFICATION FairSpec
CONSTANTS
  Events = {"type","quit","eof","ctrl_c","eintr","traffic","torn","bad_reply","server_stop"}
  MaxLines = 1
  MaxChat = 1
INVARIANTS LinesAnsweredOnce LoggedOutOnExit WaitsNowhereElse OnlyKnownHangs
PROPERTIES LineAnswered StopsUnlessHung
CHECK_DEADLOCK FALSE
