--------------------------- MODULE ChatSystemClaims ---------------------------
(***************************************************************************)
(* What the server's comments say of its clients, where clients and server *)
(* together do something else.  Refuted by a run with the program's own    *)
(* times: a tick is the two seconds of the poll, the timeout is three.     *)
(***************************************************************************)
EXTENDS ChatSystem

\* "background loop checking dead connections" (server.go:62): whom the checker finds
\* dead has no running client, or one that has not logged in yet.  But a user who lists
\* the rooms or mistypes commands, each time within two seconds of the last, is found dead
\* while his client runs and is answered: neither carries the username to the server,
\* and each puts off the ping that does (chat_client_controller.c:185-200).
OnlyDeadLoggedOff ==
  [][\A c \in dead' \ dead : Running(c) => asked[c].kind = "login"]_systemVars
===============================================================================
