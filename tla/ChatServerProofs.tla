--------------------------- MODULE ChatServerProofs ---------------------------
(***************************************************************************)
(* Theorems about the chat server, for every set of users and rooms, every *)
(* timeout and an unbounded clock.                                         *)
(***************************************************************************)
EXTENDS ChatServer, ChatServerClaims, TLAPS

-------------------------------------------------------------------------------
\* The two tables

\* Joining, whatever the name of the room, yields a table of rooms (room.go:30-51).
LEMMA JoinRoomType ==
  ASSUME NEW table, IsTable(table), NEW r \in RoomNames, NEW u \in Names \cup {NoName}
  PROVE  IsTable(JoinRoom(table, r, u))
BY DEF IsTable, JoinRoom, Rejected, MembersOf

\* Leaving yields a table of rooms (room.go:53-72).
LEMMA LeaveRoomType ==
  ASSUME NEW table, IsTable(table), NEW r, NEW u
  PROVE  IsTable(LeaveRoom(table, r, u))
BY DEF IsTable, LeaveRoom, Rejected

\* Joining adds the user to the members of the room and changes no other room.
LEMMA JoinRoomMembers ==
  ASSUME NEW table, IsTable(table), NEW r \in RoomNames, NEW u \in Names, NEW q
  PROVE  MembersOf(JoinRoom(table, r, u), q) =
           IF q = r THEN MembersOf(table, q) \cup {u} ELSE MembersOf(table, q)
BY NamesAssumption DEF IsTable, JoinRoom, Rejected, MembersOf

\* Leaving takes the user from the members of the room and changes no other room: a
\* room that is cleaned up had no member left.
LEMMA LeaveRoomMembers ==
  ASSUME NEW table, IsTable(table), NEW r, NEW u, NEW q
  PROVE  MembersOf(LeaveRoom(table, r, u), q) =
           IF q = r THEN MembersOf(table, q) \ {u} ELSE MembersOf(table, q)
<1>1. CASE u = NoName
  BY <1>1, NamesAssumption DEF IsTable, LeaveRoom, Rejected, MembersOf
<1>2. CASE u # NoName
  BY <1>2 DEF IsTable, LeaveRoom, Rejected, MembersOf
<1> QED BY <1>1, <1>2

\* A well-formed table stays well-formed when somebody joins (room.go:42-49).
LEMMA JoinRoomWellFormed ==
  ASSUME NEW table, IsTable(table), NEW r \in RoomNames, NEW u \in Names \cup {NoName},
         General \in DOMAIN table, \A q \in DOMAIN table \ {General} : table[q] # {}
  PROVE  LET after == JoinRoom(table, r, u)
         IN  General \in DOMAIN after /\ \A q \in DOMAIN after \ {General} : after[q] # {}
BY DEF JoinRoom, Rejected, MembersOf, IsTable

\* A well-formed table stays well-formed when somebody leaves (room.go:64-70).
LEMMA LeaveRoomWellFormed ==
  ASSUME NEW table, IsTable(table), NEW r, NEW u,
         General \in DOMAIN table, \A q \in DOMAIN table \ {General} : table[q] # {}
  PROVE  LET after == LeaveRoom(table, r, u)
         IN  General \in DOMAIN after /\ \A q \in DOMAIN after \ {General} : after[q] # {}
BY DEF LeaveRoom, Rejected, IsTable

-------------------------------------------------------------------------------
\* Control

\* Which request is handled where; a join is only announced once it was acknowledged,
\* and that takes a name.
ControlOK ==
  /\ main # "recv" => req \in Requests
  /\ main = "touch" => req.kind \in Handled
  /\ main = "create" => req.kind = "login"
  /\ main = "join" => req.kind \in {"login", "join"}
  /\ main = "leave" => req.kind \in {"leave", "logout"}
  /\ main = "list" => req.kind = "list"
  /\ main = "remove" => req.kind = "logout"
  /\ main = "publish" => req.kind \in {"join", "leave", "room_msg", "direct_msg", "logout"}
  /\ main = "reply" /\ resp = Ack /\ req.kind = "join" => req.user \in Names
  /\ main = "publish" /\ req.kind = "join" => req.user \in Names
  /\ main = "publish" /\ req.kind = "logout" => resp = Ack

\* The request loop handles each kind of request at its own places (server.go:107-142).
LEMMA ControlCorrect == Spec => []ControlOK
<1>1. Init => ControlOK
  BY DEF Init, ControlOK
<1>2. ControlOK /\ [Next]_vars => ControlOK'
  <2> SUFFICES ASSUME ControlOK, [Next]_vars PROVE ControlOK'
    OBVIOUS
  <2> USE DEF ControlOK
  <2>1. CASE Receive
    BY <2>1 DEF Receive, Prepare, Refusal, Ack
  <2>2. CASE ReceiveGarbled
    BY <2>2 DEF ReceiveGarbled
  <2>3. CASE Touch
    <3>1. AfterTouch \in {"create", "join", "leave", "list", "reply"}
      BY DEF AfterTouch
    <3>2. /\ AfterTouch = "create" => req.kind = "login"
          /\ AfterTouch \in {"join", "leave", "list"} => AfterTouch = req.kind
          /\ AfterTouch = "reply" => req.kind # "join"
      BY DEF AfterTouch
    <3> QED BY <2>3, <3>1, <3>2 DEF Touch
  <2>4. CASE HandleLogin
    BY <2>4 DEF HandleLogin, Prepare, Refusal, Ack
  <2>5. CASE HandleJoinRoom
    <3>1. req.user \in Names \cup {NoName}
      BY <2>5 DEF HandleJoinRoom, Requests
    <3> QED BY <2>5, <3>1 DEF HandleJoinRoom, Prepare, Ack, Refusal, Rejected
  <2>6. CASE HandleLeaveRoom
    BY <2>6 DEF HandleLeaveRoom, Prepare
  <2>7. CASE HandleListRooms
    BY <2>7 DEF HandleListRooms, Prepare
  <2>8. CASE HandleLogout
    BY <2>8 DEF HandleLogout
  <2>9. CASE Reply
    BY <2>9 DEF Reply, Publishes
  <2>10. CASE Publish
    BY <2>10 DEF Publish
  <2>11. CASE CheckerStep
    BY <2>11 DEF CheckerStep, Scan, EvictFromRoom, EvictSession, NotifyEviction, mainVars
  <2>12. CASE Tick
    BY <2>12 DEF Tick, mainVars
  <2>13. CASE UNCHANGED vars
    BY <2>13 DEF vars
  <2> QED
    BY <2>1, <2>2, <2>3, <2>4, <2>5, <2>6, <2>7, <2>8, <2>9, <2>10, <2>11, <2>12, <2>13
    DEF Next, HandlerStep
<1> QED BY <1>1, <1>2, PTL DEF Spec

-------------------------------------------------------------------------------
\* Types

IsSessions(tokens, seen) ==
  /\ DOMAIN tokens \subseteq Tokens
  /\ tokens \in [DOMAIN tokens -> Names]
  /\ DOMAIN seen \subseteq Names
  /\ seen \in [DOMAIN seen -> Nat]

\* Logging a user in keeps the types of the session tables (session.go:27-48).
LEMMA LoginType ==
  ASSUME NEW tokens, NEW seen, IsSessions(tokens, seen),
         NEW u \in Names \cup {NoName}, NEW t \in Nat
  PROVE  IsSessions(CreateSession(tokens, u, t), TouchUser(seen, u, t))
<1>1. t \div TicksPerSecond \in Nat
  BY TicksAssumption
<1>2. CASE u = NoName
  BY <1>2 DEF IsSessions, CreateSession, TouchUser
<1>3. CASE u \in Names
  <2>1. TokenFor(u, t) \in Tokens
    BY <1>1, <1>3 DEF TokenFor, Tokens
  <2> QED BY <1>3, <2>1, NamesAssumption DEF IsSessions, CreateSession, TouchUser
<1> QED BY <1>2, <1>3

\* Removing a user keeps the types of the session tables (session.go:51-69).
LEMMA RemoveUserType ==
  ASSUME NEW tokens, NEW seen, IsSessions(tokens, seen), NEW u,
         NEW left \in WithoutOneToken(tokens, u)
  PROVE  IsSessions(left, Forget(seen, u))
BY DEF IsSessions, WithoutOneToken, TokensOf, Forget

\* Every request that is handled is about a name and a room.
LEMMA RequestFields ==
  ASSUME NEW q \in Requests \cup {Idle, Garbled}
  PROVE  q.user \in Names \cup {NoName} /\ q.room \in RoomNames
BY RoomsAssumption DEF Requests, Idle, Garbled

\* Every variable keeps its type; the empty username gets into no table.
THEOREM TypeCorrect == Spec => []TypeOK
<1>1. Init => TypeOK
  BY RoomsAssumption
  DEF Init, TypeOK, NewSessionManager, NewRoomManager, IsTable, Locations, NoReply,
      Announced, Tokens
<1>2. TypeOK /\ ControlOK /\ [Next]_vars => TypeOK'
  <2> SUFFICES ASSUME TypeOK, ControlOK, [Next]_vars PROVE TypeOK'
    OBVIOUS
  <2>a. req.user \in Names \cup {NoName} /\ req.room \in RoomNames
    BY RequestFields DEF TypeOK
  <2>b. IsSessions(users, lastSeen)
    BY DEF TypeOK, IsSessions
  <2>1. CASE Receive
    BY <2>1 DEF TypeOK, Receive, Prepare, Refusal, Locations, sessionVars, checkerVars
  <2>2. CASE ReceiveGarbled
    BY <2>2 DEF TypeOK, ReceiveGarbled, sessionVars, checkerVars
  <2>3. CASE Touch
    <3>1. IsSessions(CreateSession(users, req.user, now), lastSeen')
      BY <2>3, <2>a, <2>b, LoginType DEF Touch, TypeOK
    <3>2. main' \in Locations /\ resp'.status \in {"none", "OK", "ERROR"}
      BY <2>3, Zenon DEF Touch, TypeOK, AfterTouch, Ack, Locations
    <3> QED BY <2>3, <3>1, <3>2 DEF TypeOK, Touch, IsSessions, checkerVars
  <2>4. CASE HandleLogin
    <3>1. IsSessions(users', TouchUser(lastSeen, req.user, now))
      BY <2>4, <2>a, <2>b, LoginType DEF HandleLogin, TypeOK
    <3> QED BY <2>4, <3>1
      DEF TypeOK, HandleLogin, Prepare, Refusal, Locations, IsSessions, checkerVars
  <2>5. CASE HandleJoinRoom
    <3>1. IsTable(rooms')
      BY <2>5, <2>a, JoinRoomType DEF HandleJoinRoom, TypeOK
    <3> QED BY <2>5, <3>1
      DEF TypeOK, HandleJoinRoom, Prepare, Ack, Refusal, Locations, sessionVars, checkerVars
  <2>6. CASE HandleLeaveRoom
    <3>1. IsTable(rooms')
      BY <2>6, LeaveRoomType DEF HandleLeaveRoom, TypeOK
    <3> QED BY <2>6, <3>1
      DEF TypeOK, HandleLeaveRoom, Prepare, Ack, Locations, sessionVars, checkerVars
  <2>7. CASE HandleListRooms
    BY <2>7 DEF TypeOK, HandleListRooms, Prepare, Listing, Locations, sessionVars, checkerVars
  <2>8. CASE HandleLogout
    <3>1. IsSessions(users', lastSeen')
      BY <2>8, <2>b, RemoveUserType DEF HandleLogout
    <3> QED BY <2>8, <3>1 DEF TypeOK, HandleLogout, Ack, Locations, IsSessions, checkerVars
  <2>9. CASE Reply
    BY <2>9 DEF TypeOK, Reply, NoReply, Locations, sessionVars, checkerVars
  <2>10. CASE Publish
    <3>1. told' \in [Announced -> SUBSET Names]
      BY <2>10 DEF Publish, ControlOK, TypeOK, Heard
    <3> QED BY <2>10, <3>1 DEF TypeOK, Publish, Locations, sessionVars, checkerVars
  <2>11. CASE Scan
    BY <2>11 DEF TypeOK, Scan, GetDeadUsers, sessionVars, mainVars
  <2>12. CASE EvictFromRoom
    <3>1. IsTable(rooms')
      BY <2>12, LeaveRoomType DEF EvictFromRoom, TypeOK
    <3> QED BY <2>12, <3>1 DEF TypeOK, EvictFromRoom, sessionVars, mainVars
  <2>13. CASE EvictSession
    <3>1. IsSessions(users', lastSeen')
      BY <2>13, <2>b, RemoveUserType DEF EvictSession
    <3> QED BY <2>13, <3>1 DEF TypeOK, EvictSession, IsSessions, mainVars
  <2>14. CASE NotifyEviction
    BY <2>14 DEF TypeOK, NotifyEviction, sessionVars, mainVars
  <2>15. CASE Tick
    BY <2>15 DEF TypeOK, Tick, sessionVars, mainVars, checkerVars
  <2>16. CASE UNCHANGED vars
    BY <2>16 DEF TypeOK, vars
  <2> QED
    BY <2>1, <2>2, <2>3, <2>4, <2>5, <2>6, <2>7, <2>8, <2>9, <2>10, <2>11, <2>12, <2>13,
       <2>14, <2>15, <2>16 DEF Next, HandlerStep, CheckerStep
<1> QED BY <1>1, <1>2, ControlCorrect, PTL DEF Spec

-------------------------------------------------------------------------------
\* What one step does to the room table

\* Every step of either goroutine leaves the room table alone, or lets one user into
\* or out of one room; the checker and the logout touch General only.
LEMMA RoomsStep ==
  ASSUME TypeOK, ControlOK, [Next]_vars
  PROVE  \/ rooms' = rooms
         \/ HandleJoinRoom /\ rooms' = JoinRoom(rooms, req.room, req.user)
         \/ HandleLeaveRoom /\ rooms' = LeaveRoom(rooms, req.room, req.user)
         \/ EvictFromRoom /\ \E u \in Names : rooms' = LeaveRoom(rooms, General, u)
<1>1. CASE HandlerStep
  BY <1>1 DEF HandlerStep, Touch, HandleLogin, HandleJoinRoom, HandleLeaveRoom,
              HandleListRooms, HandleLogout, Reply, Publish
<1>2. CASE CheckerStep
  BY <1>2 DEF CheckerStep, Scan, EvictFromRoom, EvictSession, NotifyEviction, TypeOK
<1>3. CASE Receive \/ ReceiveGarbled \/ Tick
  BY <1>3 DEF Receive, ReceiveGarbled, Tick
<1>4. CASE UNCHANGED vars
  BY <1>4 DEF vars
<1> QED BY <1>1, <1>2, <1>3, <1>4 DEF Next

\* General always exists and no other room is ever empty.
THEOREM RoomsAreWellFormed == Spec => []RoomsWellFormed
<1>1. Init => RoomsWellFormed
  BY DEF Init, RoomsWellFormed, NewRoomManager
<1>2. RoomsWellFormed /\ TypeOK /\ ControlOK /\ [Next]_vars => RoomsWellFormed'
  <2> SUFFICES ASSUME RoomsWellFormed, TypeOK, ControlOK, [Next]_vars
               PROVE  RoomsWellFormed'
    OBVIOUS
  <2>a. req.user \in Names \cup {NoName} /\ req.room \in RoomNames /\ IsTable(rooms)
    BY RequestFields DEF TypeOK
  <2>1. CASE rooms' = rooms
    BY <2>1 DEF RoomsWellFormed
  <2>2. CASE rooms' = JoinRoom(rooms, req.room, req.user)
    BY <2>2, <2>a, JoinRoomWellFormed DEF RoomsWellFormed
  <2>3. ASSUME NEW r, NEW u, rooms' = LeaveRoom(rooms, r, u)
        PROVE  RoomsWellFormed'
    BY <2>3, <2>a, LeaveRoomWellFormed DEF RoomsWellFormed
  <2> QED BY <2>1, <2>2, <2>3, RoomsStep
<1> QED BY <1>1, <1>2, TypeCorrect, ControlCorrect, PTL DEF Spec

\* The server implements the directory of rooms: each step lets at most one user enter
\* or leave one room, and a clean-up takes no member along.
THEOREM ServerImplementsDirectory == Spec => ImplementsDirectory
<1>1. Init => Directory!Init
  BY DEF Init, Directory!Init, Membership, MembersOf, NewRoomManager
<1>2. TypeOK /\ ControlOK /\ [Next]_vars => [Directory!Next]_Membership
  <2> SUFFICES ASSUME TypeOK, ControlOK, [Next]_vars
               PROVE  Directory!Next \/ Membership' = Membership
    OBVIOUS
  <2>a. req.user \in Names \cup {NoName} /\ req.room \in RoomNames /\ IsTable(rooms)
    BY RequestFields DEF TypeOK
  <2>1. CASE rooms' = rooms
    BY <2>1 DEF Membership
  <2>2. CASE rooms' = JoinRoom(rooms, req.room, req.user)
    <3>1. CASE req.user = NoName
      BY <2>2, <3>1 DEF JoinRoom, Rejected, Membership
    <3>2. CASE req.user \in Names
      <4>1. \A q : MembersOf(rooms', q) =
              IF q = req.room THEN MembersOf(rooms, q) \cup {req.user} ELSE MembersOf(rooms, q)
        BY <2>2, <2>a, <3>2, JoinRoomMembers
      <4>2. Membership' = Membership \cup {<<req.room, req.user>>}
        BY <4>1, <2>a, <3>2 DEF Membership
      <4> QED BY <4>2, <2>a, <3>2 DEF Directory!Next, Directory!Enter
    <3> QED BY <2>a, <3>1, <3>2
  <2>3. ASSUME NEW r \in RoomNames, NEW u \in Names \cup {NoName},
               rooms' = LeaveRoom(rooms, r, u)
        PROVE  Directory!Next \/ Membership' = Membership
    <3>1. CASE u = NoName
      BY <2>3, <3>1 DEF LeaveRoom, Rejected, Membership
    <3>2. CASE u \in Names
      <4>1. \A q : MembersOf(rooms', q) =
              IF q = r THEN MembersOf(rooms, q) \ {u} ELSE MembersOf(rooms, q)
        BY <2>3, <2>a, LeaveRoomMembers
      <4>2. Membership' = Membership \ {<<r, u>>}
        BY <4>1 DEF Membership
      <4> QED BY <4>2, <3>2 DEF Directory!Next, Directory!Exit
    <3> QED BY <3>1, <3>2
  <2> QED BY <2>1, <2>2, <2>3, <2>a, RoomsStep, RoomsAssumption
<1> QED
  BY <1>1, <1>2, TypeCorrect, ControlCorrect, PTL DEF Spec, ImplementsDirectory, Directory!Spec

-------------------------------------------------------------------------------
\* One reply per request

\* The REP socket owes a reply throughout a handler and no longer once the reply is
\* sent: after it for a join, a leave or a message, before it for a logout, which
\* publishes first.  OneReply alone does not say where a handler is in between.
ReplyOwed ==
  /\ main = "recv" => (rep = "send" <=> req.kind = "garbled")
  /\ main \in Locations \ {"recv", "publish"} => rep = "send"
  /\ main = "publish" => (rep = "send" <=> req.kind = "logout")
  /\ main = "reply" => resp.status # "none"

\* Each step of a handler keeps to that order of replying and publishing.
LEMMA ReplyOwedAlways == Spec => []ReplyOwed
<1>1. Init => ReplyOwed
  BY DEF Init, ReplyOwed, Idle
<1>2. ReplyOwed /\ TypeOK /\ ControlOK /\ [Next]_vars => ReplyOwed'
  <2> SUFFICES ASSUME ReplyOwed, TypeOK, ControlOK, [Next]_vars PROVE ReplyOwed'
    OBVIOUS
  <2> USE DEF ReplyOwed, Locations
  <2>1. CASE Receive
    BY <2>1 DEF Receive, Prepare, Refusal
  <2>2. CASE ReceiveGarbled
    BY <2>2 DEF ReceiveGarbled, Garbled
  <2>3. CASE Touch
    BY <2>3 DEF Touch, AfterTouch, Ack, TypeOK, ControlOK
  <2>4. CASE HandleLogin
    BY <2>4 DEF HandleLogin, Prepare, Refusal
  <2>5. CASE HandleJoinRoom
    BY <2>5 DEF HandleJoinRoom, Prepare, Ack, Refusal
  <2>6. CASE HandleLeaveRoom
    BY <2>6 DEF HandleLeaveRoom, Prepare, Ack
  <2>7. CASE HandleListRooms
    BY <2>7 DEF HandleListRooms, Prepare, Listing
  <2>8. CASE HandleLogout
    BY <2>8 DEF HandleLogout, ControlOK
  <2>9. CASE Reply
    BY <2>9 DEF Reply, Publishes, Idle
  <2>10. CASE Publish
    BY <2>10 DEF Publish, ControlOK, Ack, Idle
  <2>11. CASE CheckerStep
    BY <2>11 DEF CheckerStep, Scan, EvictFromRoom, EvictSession, NotifyEviction, mainVars
  <2>12. CASE Tick
    BY <2>12 DEF Tick, mainVars
  <2>13. CASE UNCHANGED vars
    BY <2>13 DEF vars
  <2> QED
    BY <2>1, <2>2, <2>3, <2>4, <2>5, <2>6, <2>7, <2>8, <2>9, <2>10, <2>11, <2>12, <2>13
    DEF Next, HandlerStep
<1> QED BY <1>1, <1>2, TypeCorrect, ControlCorrect, PTL DEF Spec

\* Between two requests a reply is owed only for a request that could not be decoded.
THEOREM EveryHandlerRepliesOnce == Spec => []OneReply
<1>1. ReplyOwed => OneReply
  BY DEF ReplyOwed, OneReply, Locations
<1> QED BY <1>1, ReplyOwedAlways, PTL

-------------------------------------------------------------------------------
\* The bus and the table

\* Whether the handler has still to publish the change it has made.
Owed == main = "publish" \/ (main = "reply" /\ resp = Ack)

\* What a subscriber will know once the notification owed is out is what the table
\* says: the inductive form of BusAgrees, which is silent inside a handler.
BusWillAgree ==
  (IF Owed THEN Heard(req) ELSE told) = [r \in Announced |-> MembersOf(rooms, r)]

\* A subscriber of every topic knows the members of every room but General.
THEOREM BusFollowsTable == Spec => []BusAgrees
<1>1. Init => BusWillAgree
  BY DEF Init, BusWillAgree, Owed, MembersOf, NewRoomManager, Announced
<1>2. BusWillAgree /\ TypeOK /\ ControlOK /\ [Next]_vars => BusWillAgree'
  <2> SUFFICES ASSUME BusWillAgree, TypeOK, ControlOK, [Next]_vars PROVE BusWillAgree'
    OBVIOUS
  <2> DEFINE table(t) == [r \in Announced |-> MembersOf(t, r)]
  <2>a. req.user \in Names \cup {NoName} /\ req.room \in RoomNames /\ IsTable(rooms)
    BY RequestFields DEF TypeOK
  <2>b. ASSUME NEW u, rooms' = LeaveRoom(rooms, General, u)
        PROVE  table(rooms') = table(rooms)
    BY <2>b, <2>a, LeaveRoomMembers DEF Announced
  <2>c. ASSUME NEW q, q.kind \notin {"join", "leave"} \/ q.room \notin Announced
        PROVE  Heard(q) = told
    BY <2>c DEF Heard
  <2>1. CASE Receive
    BY <2>1 DEF Receive, BusWillAgree, Owed, Prepare, Refusal, Ack
  <2>2. CASE ReceiveGarbled
    BY <2>2 DEF ReceiveGarbled, BusWillAgree, Owed
  <2>3. CASE Touch
    <3>1. told = table(rooms)
      BY <2>3 DEF Touch, BusWillAgree, Owed
    <3>2. main' # "publish" /\ (main' = "reply" => req.kind \notin {"join", "leave"})
      BY <2>3 DEF Touch, AfterTouch
    <3>3. Owed' => Heard(req) = told
      BY <3>2, <2>c DEF Owed
    <3> QED BY <2>3, <3>1, <3>3 DEF Touch, BusWillAgree, Heard
  <2>4. CASE HandleLogin
    BY <2>4 DEF HandleLogin, BusWillAgree, Owed, Prepare, Refusal, Ack
  <2>5. CASE HandleJoinRoom
    <3>1. told = table(rooms) /\ told' = told /\ req' = req
      BY <2>5 DEF HandleJoinRoom, BusWillAgree, Owed
    <3>2. CASE req.user = NoName
      BY <2>5, <3>1, <3>2
      DEF HandleJoinRoom, BusWillAgree, Owed, Prepare, Refusal, Ack, Rejected, JoinRoom
    <3>3. CASE req.user \in Names
      <4>1. Owed'
        BY <2>5, <3>3, NamesAssumption DEF HandleJoinRoom, Owed, Prepare, Rejected
      <4>2. \A q : MembersOf(rooms', q) =
              IF q = req.room THEN MembersOf(rooms, q) \cup {req.user} ELSE MembersOf(rooms, q)
        BY <2>5, <2>a, <3>3, JoinRoomMembers DEF HandleJoinRoom
      <4>3. CASE req.room = General
        BY <3>1, <4>1, <4>2, <4>3, <2>c DEF BusWillAgree, Heard, Announced
      <4>4. CASE req.room # General
        <5>1. req.kind = "join" /\ req.room \in Announced
          BY <2>5, <2>a, <4>4 DEF HandleJoinRoom, ControlOK, Requests, Announced
        <5>2. Heard(req)' = [told EXCEPT ![req.room] = @ \cup {req.user}]
          BY <3>1, <5>1 DEF Heard
        <5> QED BY <3>1, <4>1, <4>2, <5>1, <5>2 DEF BusWillAgree
      <4> QED BY <4>3, <4>4
    <3> QED BY <2>a, <3>2, <3>3
  <2>6. CASE HandleLeaveRoom
    <3>1. told = table(rooms) /\ told' = told /\ req' = req
      BY <2>6 DEF HandleLeaveRoom, BusWillAgree, Owed
    <3>2. \A q : MembersOf(rooms', q) =
            IF q = req.room THEN MembersOf(rooms, q) \ {req.user} ELSE MembersOf(rooms, q)
      BY <2>6, <2>a, LeaveRoomMembers DEF HandleLeaveRoom
    <3>3. CASE req.room = General
      BY <3>1, <3>2, <3>3, <2>c DEF BusWillAgree, Heard, Announced
    <3>4. CASE req.room # General
      <4>1. req.kind = "leave" /\ req.room \in Announced
        BY <2>6, <2>a, <3>4 DEF HandleLeaveRoom, ControlOK, Requests, Announced
      <4>2. Owed'
        BY <2>6, <4>1 DEF HandleLeaveRoom, Owed, Prepare
      <4>3. Heard(req)' = [told EXCEPT ![req.room] = @ \ {req.user}]
        BY <3>1, <4>1 DEF Heard
      <4> QED BY <3>1, <3>2, <4>1, <4>2, <4>3 DEF BusWillAgree
    <3> QED BY <3>3, <3>4
  <2>7. CASE HandleListRooms
    <3>1. Heard(req) = told
      BY <2>7, <2>c DEF HandleListRooms, ControlOK
    <3> QED BY <2>7, <3>1 DEF HandleListRooms, BusWillAgree, Owed, Heard
  <2>8. CASE HandleLogout
    <3>1. Heard(req) = told
      BY <2>8, <2>c DEF HandleLogout, ControlOK
    <3> QED BY <2>8, <3>1 DEF HandleLogout, BusWillAgree, Owed, Heard
  <2>9. CASE Reply
    <3>1. CASE Publishes
      BY <2>9, <3>1 DEF Reply, Publishes, BusWillAgree, Owed, Heard
    <3>2. CASE ~Publishes
      <4>1. Owed => Heard(req) = told
        BY <2>9, <3>2, <2>c DEF Reply, Publishes, Owed
      <4> QED BY <2>9, <3>2, <4>1 DEF Reply, BusWillAgree, Owed
    <3> QED BY <3>1, <3>2
  <2>10. CASE Publish
    <3>1. told' = table(rooms) /\ rooms' = rooms
      BY <2>10 DEF Publish, BusWillAgree, Owed
    <3>2. CASE req.kind = "logout"
      <4>1. Heard(req)' = told'
        BY <2>10, <3>2 DEF Publish, Heard
      <4> QED BY <3>1, <4>1 DEF BusWillAgree
    <3>3. CASE req.kind # "logout"
      BY <2>10, <3>1, <3>3 DEF Publish, BusWillAgree, Owed
    <3> QED BY <3>2, <3>3
  <2>11. CASE CheckerStep
    <3>1. table(rooms') = table(rooms)
      BY <2>11, <2>b DEF CheckerStep, Scan, EvictFromRoom, EvictSession, NotifyEviction
    <3>2. UNCHANGED <<main, req, resp, told>>
      BY <2>11 DEF CheckerStep, Scan, EvictFromRoom, EvictSession, NotifyEviction, mainVars
    <3> QED BY <3>1, <3>2 DEF BusWillAgree, Owed, Heard
  <2>12. CASE Tick
    BY <2>12 DEF Tick, mainVars, BusWillAgree, Owed, Heard
  <2>13. CASE UNCHANGED vars
    BY <2>13 DEF vars, BusWillAgree, Owed, Heard
  <2> QED
    BY <2>1, <2>2, <2>3, <2>4, <2>5, <2>6, <2>7, <2>8, <2>9, <2>10, <2>11, <2>12, <2>13
    DEF Next, HandlerStep
<1>3. BusWillAgree => BusAgrees
  BY DEF BusWillAgree, BusAgrees, Owed
<1> QED BY <1>1, <1>2, <1>3, TypeCorrect, ControlCorrect, PTL DEF Spec

-------------------------------------------------------------------------------
\* Snapshots

\* Both snapshots the server works from, the list of dead users and the list of rooms,
\* grow old in one direction only.  The first needs that it lies in the past.
SnapshotsOK ==
  /\ scanned <= now
  /\ ListOnlyStale
  /\ ListingComplete

\* No step turns a snapshot the other way: a scan or a listing is right when it is made,
\* a heartbeat moves a time of the list only past the scan, and an eviction takes from the
\* rooms only (session.go:72-86, room.go:74-92, server.go:69-82).
LEMMA SnapshotsAlways == Spec => []SnapshotsOK
<1>1. Init => SnapshotsOK
  BY DEF Init, SnapshotsOK, ListOnlyStale, ListingComplete
<1>2. SnapshotsOK /\ TypeOK /\ ControlOK /\ [Next]_vars => SnapshotsOK'
  <2> SUFFICES ASSUME SnapshotsOK, TypeOK, ControlOK, [Next]_vars PROVE SnapshotsOK'
    OBVIOUS
  <2>a. ASSUME UNCHANGED <<dead, lastSeen, scanned>> PROVE ListOnlyStale'
    BY <2>a DEF SnapshotsOK, ListOnlyStale, Expired
  <2>b. ASSUME UNCHANGED <<main, req, resp, rooms>> PROVE ListingComplete'
    BY <2>b DEF SnapshotsOK, ListingComplete
  <2>c. ASSUME main' # "reply" \/ req'.kind # "list" PROVE ListingComplete'
    BY <2>c DEF ListingComplete
  <2>d. ASSUME NEW u, lastSeen' = Forget(lastSeen, u), UNCHANGED <<dead, scanned>>
        PROVE  ListOnlyStale'
    BY <2>d DEF SnapshotsOK, ListOnlyStale, Expired, Forget
  <2>1. CASE Receive \/ ReceiveGarbled
    <3>1. main' # "reply" \/ req'.kind # "list"
      BY <2>1 DEF Receive, ReceiveGarbled, Garbled, Prepare
    <3> QED BY <2>1, <3>1, <2>a, <2>c
            DEF Receive, ReceiveGarbled, SnapshotsOK, sessionVars, checkerVars
  <2>2. CASE Touch
    <3>1. ListOnlyStale'
      <4> SUFFICES ASSUME NEW u \in dead, u \in DOMAIN lastSeen'
                   PROVE  scanned > lastSeen'[u] + Timeout \/ lastSeen'[u] >= scanned
        BY <2>2 DEF Touch, checkerVars, ListOnlyStale, Expired
      <4>1. CASE u = req.user /\ req.user # NoName
        BY <2>2, <4>1 DEF Touch, TouchUser, SnapshotsOK
      <4>2. CASE ~(u = req.user /\ req.user # NoName)
        BY <2>2, <4>2 DEF Touch, TouchUser, SnapshotsOK, ListOnlyStale, Expired
      <4> QED BY <4>1, <4>2
    <3>2. main' # "reply" \/ req'.kind # "list"
      BY <2>2 DEF Touch, AfterTouch
    <3> QED BY <2>2, <3>1, <3>2, <2>c DEF Touch, SnapshotsOK, checkerVars
  <2>3. CASE HandleLogin \/ HandleJoinRoom \/ HandleLeaveRoom
    <3>1. req'.kind # "list"
      BY <2>3 DEF HandleLogin, HandleJoinRoom, HandleLeaveRoom, ControlOK
    <3> QED BY <2>3, <3>1, <2>a, <2>c
            DEF HandleLogin, HandleJoinRoom, HandleLeaveRoom, SnapshotsOK, sessionVars,
                checkerVars
  <2>4. CASE HandleListRooms
    <3>1. ListingComplete'
      <4>1. resp'.listing = GetRoomsInfo(rooms) /\ rooms' = rooms
        BY <2>4 DEF HandleListRooms, Prepare, Listing
      <4> SUFFICES ASSUME NEW r \in DOMAIN rooms
                   PROVE  \E entry \in GetRoomsInfo(rooms) :
                            entry.name = r /\ rooms[r] \subseteq entry.members
        BY <4>1 DEF ListingComplete
      <4> DEFINE own == [name |-> r, members |-> rooms[r]]
      <4>2. own \in GetRoomsInfo(rooms)
        BY DEF GetRoomsInfo
      <4>3. own.name = r /\ own.members = rooms[r]
        OBVIOUS
      <4> QED BY <4>2, <4>3
    <3> QED BY <2>4, <3>1, <2>a DEF HandleListRooms, SnapshotsOK, sessionVars, checkerVars
  <2>5. CASE HandleLogout
    BY <2>5, <2>c, <2>d DEF HandleLogout, SnapshotsOK, checkerVars
  <2>6. CASE Reply
    BY <2>6, <2>a, <2>c DEF Reply, SnapshotsOK, sessionVars, checkerVars
  <2>7. CASE Publish
    BY <2>7, <2>a, <2>c DEF Publish, SnapshotsOK, sessionVars, checkerVars
  <2>8. CASE Scan
    <3>1. ListOnlyStale'
      BY <2>8 DEF Scan, ListOnlyStale, Expired, GetDeadUsers, sessionVars
    <3>2. ListingComplete' /\ scanned' <= now'
      BY <2>8, <2>b DEF Scan, TypeOK, mainVars
    <3> QED BY <3>1, <3>2 DEF SnapshotsOK
  <2>9. CASE EvictFromRoom
    <3>1. PICK u \in Names : rooms' = LeaveRoom(rooms, General, u)
      BY <2>9 DEF EvictFromRoom, TypeOK
    <3>2. DOMAIN rooms' \subseteq DOMAIN rooms /\ \A r \in DOMAIN rooms' : rooms'[r] \subseteq rooms[r]
      BY <3>1 DEF LeaveRoom, TypeOK, IsTable
    <3>3. ListingComplete'
      BY <2>9, <3>2 DEF EvictFromRoom, mainVars, SnapshotsOK, ListingComplete
    <3> QED BY <2>9, <3>3, <2>a DEF EvictFromRoom, SnapshotsOK, sessionVars
  <2>10. CASE EvictSession
    BY <2>10, <2>b, <2>d DEF EvictSession, SnapshotsOK, mainVars
  <2>11. CASE NotifyEviction
    <3>1. ListOnlyStale'
      BY <2>11 DEF NotifyEviction, SnapshotsOK, ListOnlyStale, Expired, sessionVars
    <3>2. ListingComplete'
      BY <2>11, <2>b DEF NotifyEviction, mainVars
    <3>3. scanned' <= now'
      BY <2>11 DEF NotifyEviction, SnapshotsOK, TypeOK
    <3> QED BY <3>1, <3>2, <3>3 DEF SnapshotsOK
  <2>12. CASE Tick
    BY <2>12, <2>a, <2>b DEF Tick, SnapshotsOK, TypeOK, sessionVars, mainVars, checkerVars
  <2>13. CASE UNCHANGED vars
    BY <2>13, <2>a, <2>b DEF vars, SnapshotsOK
  <2> QED
    BY <2>1, <2>2, <2>3, <2>4, <2>5, <2>6, <2>7, <2>8, <2>9, <2>10, <2>11, <2>12, <2>13
    DEF Next, HandlerStep, CheckerStep
<1> QED BY <1>1, <1>2, TypeCorrect, ControlCorrect, PTL DEF Spec

\* The checker's list is only wrong about users that were heard of since it was made: who
\* is on it and still known was silent for the timeout at the scan, or spoke after it
\* (server.go:69-82, session.go:72-86).
THEOREM DeadListOnlyStale == Spec => []ListOnlyStale
<1>1. SnapshotsOK => ListOnlyStale
  BY DEF SnapshotsOK
<1> QED BY <1>1, SnapshotsAlways, PTL

\* The checker's list misses nobody either: a time that lies before the scan stays on the
\* list until the session of its user is removed (server.go:69-104, session.go:61-86).
THEOREM DeadListComplete == Spec => []NobodySpared
<1>1. Init => NobodySpared
  BY DEF Init, NobodySpared
<1>2. TypeOK /\ SnapshotsOK /\ NobodySpared /\ [Next]_vars => NobodySpared'
  <2> SUFFICES ASSUME TypeOK, SnapshotsOK, NobodySpared, [Next]_vars PROVE NobodySpared'
    OBVIOUS
  <2>a. ASSUME UNCHANGED checkerVars, \A u \in Names : Expired(u, scanned)' => Expired(u, scanned)
        PROVE  NobodySpared'
    BY <2>a DEF NobodySpared, checkerVars
  <2>b. ASSUME UNCHANGED <<lastSeen, checkerVars>> PROVE NobodySpared'
    BY <2>a, <2>b DEF Expired, checkerVars
  <2>1. CASE Touch
    <3>1. \A u \in Names : Expired(u, scanned)' => Expired(u, scanned)
      <4> SUFFICES ASSUME NEW u \in Names, Expired(u, scanned)' PROVE Expired(u, scanned)
        OBVIOUS
      <4>1. u \in DOMAIN lastSeen' /\ scanned > lastSeen'[u] + Timeout /\ scanned <= now
        BY <2>1 DEF Touch, Expired, checkerVars, SnapshotsOK
      <4>2. CASE req.user # NoName /\ u = req.user
        <5>1. lastSeen'[u] = now
          BY <2>1, <4>2 DEF Touch, TouchUser
        <5> QED BY <4>1, <5>1, ServerAssumption DEF TypeOK
      <4>3. CASE req.user = NoName \/ u # req.user
        BY <2>1, <4>1, <4>3 DEF Touch, TouchUser, Expired
      <4> QED BY <4>2, <4>3
    <3> QED BY <2>1, <2>a, <3>1 DEF Touch
  <2>2. CASE HandleLogout
    BY <2>2, <2>a DEF HandleLogout, Forget, Expired, checkerVars
  <2>3. CASE Receive \/ ReceiveGarbled \/ HandleLogin \/ HandleJoinRoom \/ HandleLeaveRoom
             \/ HandleListRooms \/ Reply \/ Publish \/ Tick \/ UNCHANGED vars
    BY <2>3, <2>b
    DEF Receive, ReceiveGarbled, HandleLogin, HandleJoinRoom, HandleLeaveRoom,
        HandleListRooms, Reply, Publish, Tick, vars, sessionVars, checkerVars
  <2>4. CASE Scan
    BY <2>4 DEF Scan, NobodySpared, GetDeadUsers, Expired, sessionVars
  <2>5. CASE EvictFromRoom
    BY <2>5 DEF EvictFromRoom, NobodySpared, Expired, sessionVars
  <2>6. CASE EvictSession
    BY <2>6 DEF EvictSession, NobodySpared, Expired, Forget
  <2>7. CASE NotifyEviction
    BY <2>7 DEF NotifyEviction, NobodySpared, Expired, sessionVars
  <2> QED BY <2>1, <2>2, <2>3, <2>4, <2>5, <2>6, <2>7 DEF Next, HandlerStep, CheckerStep
<1> QED BY <1>1, <1>2, TypeCorrect, SnapshotsAlways, PTL DEF Spec

\* A list of rooms that is sent misses neither a room nor a member, although the checker
\* runs between the reading of the table and the reply (room.go:74-92, server.go:233-246).
THEOREM ListingMissesNobody == Spec => []ListingComplete
<1>1. SnapshotsOK => ListingComplete
  BY DEF SnapshotsOK
<1> QED BY <1>1, SnapshotsAlways, PTL

-------------------------------------------------------------------------------
\* Members and sessions

InGeneral == MembersOf(rooms, General)

\* The inductive form of MembersWatched: who is in General is watched, at every step, since
\* a login touches its user before it joins, and whoever is to be forgotten has left.
WatchedOK ==
  /\ InGeneral \subseteq DOMAIN lastSeen
  /\ main \in {"create", "join"} => req.user \in DOMAIN lastSeen \cup {NoName}
  /\ main = "remove" => req.user \notin InGeneral
  /\ checker = "remove" => victim \notin InGeneral

\* Whoever joins General is watched, unless the checker is about to forget it.
LEMMA JoinWatched ==
  ASSUME TypeOK, ControlOK, Apart, WatchedOK, HandleJoinRoom
  PROVE  WatchedOK'
<1>a. /\ IsTable(rooms) /\ req.user \in Names \cup {NoName} /\ req.room \in RoomNames
      /\ rooms' = JoinRoom(rooms, req.room, req.user)
      /\ main = "join" /\ main' = "reply"
      /\ UNCHANGED <<lastSeen, req, checker, victim>>
  BY RequestFields DEF TypeOK, HandleJoinRoom, Prepare, sessionVars, checkerVars
<1>1. CASE req.user = NoName
  <2>1. rooms' = rooms
    BY <1>a, <1>1 DEF JoinRoom, Rejected
  <2> QED BY <1>a, <2>1 DEF WatchedOK, InGeneral
<1>2. CASE req.user \in Names
  <2>1. InGeneral' \subseteq InGeneral \cup {req.user}
    BY <1>a, <1>2, JoinRoomMembers DEF InGeneral
  <2>2. req.user \in DOMAIN lastSeen
    BY <1>a, <1>2, NamesAssumption DEF WatchedOK
  <2>3. checker = "remove" => victim # req.user
    BY <1>a DEF Apart
  <2> QED BY <1>a, <2>1, <2>2, <2>3 DEF WatchedOK
<1> QED BY <1>a, <1>1, <1>2

\* Whoever leaves a room leaves no member unwatched.
LEMMA LeaveWatched ==
  ASSUME TypeOK, WatchedOK, NEW r, NEW u, rooms' = LeaveRoom(rooms, r, u)
  PROVE  /\ InGeneral' \subseteq InGeneral
         /\ r = General => u \notin InGeneral'
BY LeaveRoomMembers DEF TypeOK, InGeneral

\* What the server's comment says of the checker holds as long as its two calls about a
\* user and a handler's calls about the same user exclude each other: whenever both
\* goroutines are at rest, every member of General is one whom the checker watches
\* (server.go:62, 75-82, 111, 150-164).
THEOREM MembersWatchedIfApart == Spec /\ []Apart => []MembersWatched
<1>1. Init => WatchedOK
  BY DEF Init, NewRoomManager, NewSessionManager, WatchedOK, InGeneral, MembersOf
<1>2. WatchedOK /\ Apart /\ TypeOK /\ ControlOK /\ [Next]_vars => WatchedOK'
  <2> SUFFICES ASSUME WatchedOK, Apart, TypeOK, ControlOK, [Next]_vars PROVE WatchedOK'
    OBVIOUS
  <2>a. rooms' = rooms => InGeneral' = InGeneral
    BY DEF InGeneral
  <2>1. CASE Receive \/ ReceiveGarbled
    <3>1. main' \in {"recv", "touch", "leave", "reply"}
      BY <2>1 DEF Receive, ReceiveGarbled, Prepare
    <3> QED BY <2>1, <2>a, <3>1 DEF Receive, ReceiveGarbled, WatchedOK, sessionVars, checkerVars
  <2>2. CASE Touch
    <3>1. DOMAIN lastSeen' = DOMAIN lastSeen \cup ({req.user} \ {NoName})
      BY <2>2 DEF Touch, TouchUser
    <3>2. main' # "remove"
      BY <2>2 DEF Touch, AfterTouch
    <3> QED BY <2>2, <2>a, <3>1, <3>2 DEF Touch, WatchedOK, checkerVars
  <2>3. CASE HandleLogin
    BY <2>3, <2>a DEF HandleLogin, Prepare, WatchedOK, checkerVars
  <2>4. CASE HandleJoinRoom
    BY <2>4, JoinWatched
  <2>5. CASE HandleLeaveRoom
    <3>1. req.kind = "logout" => req.room = General
      BY <2>5 DEF HandleLeaveRoom, ControlOK, Requests
    <3>2. main' \in {"remove", "reply"} /\ (main' = "remove" => req.kind = "logout")
      BY <2>5 DEF HandleLeaveRoom, Prepare
    <3>3. InGeneral' \subseteq InGeneral /\ (req.room = General => req.user \notin InGeneral')
      BY <2>5, LeaveWatched DEF HandleLeaveRoom
    <3> QED BY <2>5, <3>1, <3>2, <3>3 DEF HandleLeaveRoom, WatchedOK, sessionVars, checkerVars
  <2>6. CASE HandleListRooms \/ Reply \/ Publish
    <3>1. main' \in {"recv", "publish", "reply"}
      BY <2>6 DEF HandleListRooms, Reply, Publish, Prepare
    <3> QED BY <2>6, <2>a, <3>1
            DEF HandleListRooms, Reply, Publish, WatchedOK, sessionVars, checkerVars
  <2>7. CASE HandleLogout
    <3>1. DOMAIN lastSeen' = DOMAIN lastSeen \ {req.user} /\ req.user \notin InGeneral
      BY <2>7 DEF HandleLogout, Forget, WatchedOK
    <3> QED BY <2>7, <2>a, <3>1 DEF HandleLogout, WatchedOK, checkerVars
  <2>8. CASE Scan \/ NotifyEviction
    <3>1. checker' # "remove"
      BY <2>8 DEF Scan, NotifyEviction
    <3> QED BY <2>8, <2>a, <3>1 DEF Scan, NotifyEviction, WatchedOK, sessionVars, mainVars
  <2>9. CASE EvictFromRoom
    <3>1. InGeneral' \subseteq InGeneral /\ victim' \notin InGeneral'
      BY <2>9, LeaveWatched DEF EvictFromRoom
    <3> QED BY <2>9, <3>1 DEF EvictFromRoom, WatchedOK, sessionVars, mainVars
  <2>10. CASE EvictSession
    <3>1. DOMAIN lastSeen' = DOMAIN lastSeen \ {victim} /\ victim \notin InGeneral
      BY <2>10 DEF EvictSession, Forget, WatchedOK
    <3>2. main \in {"create", "join"} => req.user # victim
      BY <2>10 DEF EvictSession, Apart
    <3> QED BY <2>10, <2>a, <3>1, <3>2 DEF EvictSession, WatchedOK, mainVars
  <2>11. CASE Tick \/ UNCHANGED vars
    BY <2>11, <2>a DEF Tick, vars, WatchedOK, sessionVars, mainVars, checkerVars
  <2> QED
    BY <2>1, <2>2, <2>3, <2>4, <2>5, <2>6, <2>7, <2>8, <2>9, <2>10, <2>11
    DEF Next, HandlerStep, CheckerStep
<1>3. WatchedOK /\ RoomsWellFormed => MembersWatched
  BY DEF WatchedOK, InGeneral, MembersOf, RoomsWellFormed, MembersWatched
<1> QED
  BY <1>1, <1>2, <1>3, TypeCorrect, ControlCorrect, RoomsAreWellFormed, PTL DEF Spec
===============================================================================
