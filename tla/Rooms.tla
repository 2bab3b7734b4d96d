-------------------------------- MODULE Rooms --------------------------------
(***************************************************************************)
(* RoomManager (internal/server/room.go): the table of chat rooms.         *)
(*                                                                         *)
(* A table is the Go map rooms: its domain is the set of rooms that exist  *)
(* and each room is mapped to its set of members.  Every operator below is *)
(* one method, which runs from beginning to end under RoomManager.mu, so a *)
(* caller applies it in a single step.                                     *)
(***************************************************************************)
EXTENDS Usernames

CONSTANTS
  RoomNames,  \* the room names a request can carry, the empty one included
  General     \* the welcome room, RoomNameGeneral

ASSUME RoomsAssumption == General \in RoomNames

IsTable(table) ==
  /\ DOMAIN table \subseteq RoomNames
  /\ table \in [DOMAIN table -> SUBSET Names]

MembersOf(table, r) == IF r \in DOMAIN table THEN table[r] ELSE {}

NewRoomManager == [r \in {General} |-> {}]

\* The two guards of JoinRoom and of LeaveRoom test the username; neither looks at
\* the name of the room.
Rejected(u) == u = NoName

JoinRoom(table, r, u) ==
  IF Rejected(u)
  THEN table
  ELSE [q \in DOMAIN table \cup {r} |->
          IF q = r THEN MembersOf(table, r) \cup {u} ELSE table[q]]

\* Faulty variants: the clean-up spares no room, and it does not wait for the last
\* member to leave.
LeaveRoomDropsGeneral(table, r, u) ==
  IF Rejected(u) \/ r \notin DOMAIN table
  THEN table
  ELSE IF table[r] \subseteq {u}
       THEN [q \in DOMAIN table \ {r} |-> table[q]]
       ELSE [table EXCEPT ![r] = @ \ {u}]

LeaveRoomDropsOthers(table, r, u) ==
  IF Rejected(u) \/ r \notin DOMAIN table
  THEN table
  ELSE IF r # General
       THEN [q \in DOMAIN table \ {r} |-> table[q]]
       ELSE [table EXCEPT ![r] = @ \ {u}]

\* Leaving a room one is not in still runs the clean-up of an empty room.
LeaveRoom(table, r, u) ==
  IF Rejected(u) \/ r \notin DOMAIN table
  THEN table
  ELSE IF table[r] \subseteq {u} /\ r # General
       THEN [q \in DOMAIN table \ {r} |-> table[q]]
       ELSE [table EXCEPT ![r] = @ \ {u}]

\* Faulty variant: the welcome room is not listed.
GetOtherRoomsInfo(table) ==
  {[name |-> r, members |-> table[r]] : r \in DOMAIN table \ {General}}

\* MemberCount is len(Members) under the same lock: the members stand for both.
GetRoomsInfo(table) == {[name |-> r, members |-> table[r]] : r \in DOMAIN table}
==============================================================================
