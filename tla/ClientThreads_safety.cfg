SPECIFICATION Spec
CONSTANTS
  Events = {"type","quit","eof","ctrl_c","early","traffic","bad_reply","server_stop"}
  MaxLines = 2
  MaxChat = 1
INVARIANTS TypeOK LinesAnsweredOnce LoggedOutOnExit
PROPERTY ImplementsConsole
CHECK_DEADLOCK FALSE
