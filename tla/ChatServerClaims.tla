--------------------------- MODULE ChatServerClaims ---------------------------
(***************************************************************************)
(* What the comments, the names and the log messages of the server say of  *)
(* it, where the code does something else.  Each is refuted by a run.      *)
(***************************************************************************)
EXTENDS ChatServer

\* "1. remove user from all rooms" (server.go:74): the code that follows takes the user
\* out of General; it stays a member of every other room it joined.
TimeoutLeavesAllRooms ==
  [][checker = "evict" /\ checker' = "remove" =>
       \A r \in DOMAIN rooms' : victim' \notin rooms'[r]]_vars

\* "background loop checking dead connections" (server.go:62): a member of General whom
\* the checker does not watch is never found dead.  A login that overlaps the checker's
\* two steps leaves such a member.
MembersWatched ==
  main = "recv" /\ checker = "idle" => rooms[General] \subseteq DOMAIN lastSeen

\* While the checker is between the two calls with which it logs a user off, no handler is
\* between TouchUser and JoinRoom of a request of that user.  A lock that the checker holds
\* over its calls, and the handler over its own, would ensure it.  A lock of the checker
\* alone would not: all of an eviction can fall between a handler's TouchUser and its
\* JoinRoom, if the list is old (server.go:75-82, 111, 150-164).
Apart == checker = "remove" /\ main \in {"create", "join"} => req.user # victim

\* "Start runs main server loop" (server.go:47), which answers what it receives, and what
\* it does not know with "unknown request type" (server.go:140).  It does not answer what
\* it could not unmarshal, and its REP socket then never receives again (server.go:50-57).
EveryRequestAnswered == rep = "send" ~> rep = "recv"
===============================================================================
