------------------------------ MODULE ChatServer ------------------------------
(***************************************************************************)
(* The chat server (internal/server/server.go): two goroutines over the    *)
(* session and room tables.                                                *)
(*                                                                         *)
(* main is the request loop of Start: it receives one request on the REP   *)
(* socket, runs its handler and replies.  checker is the goroutine of      *)
(* StartHeartbeatChecker, which logs off the users it has not heard of for *)
(* Timeout ticks.  Each method of SessionManager and RoomManager holds its *)
(* lock from beginning to end and is one step here; between two such calls *)
(* the other goroutine may run.                                            *)
(*                                                                         *)
(* The clients are the environment: any request may arrive next.           *)
(***************************************************************************)
EXTENDS Sessions, Rooms

CONSTANTS
  Timeout,      \* the ticks of silence after which a user is logged off
  MaxTime,      \* bound of the clock, for model checking
  Undecodable   \* whether a request may arrive that proto.Unmarshal refuses

ASSUME ServerAssumption ==
  /\ Timeout \in Nat
  /\ MaxTime \in Nat
  /\ Undecodable \in BOOLEAN

VARIABLES
  users,     \* SessionManager.users
  lastSeen,  \* SessionManager.lastSeen
  rooms,     \* RoomManager.rooms
  now,       \* the clock, in ticks
  main,      \* where the request loop is
  req,       \* the request it handles
  resp,      \* the reply it has prepared
  rep,       \* what the REP socket allows next: "recv" or "send"
  checker,   \* where the heartbeat checker is
  dead,      \* deadUsers: the rest of the list it works through
  victim,    \* the user it is logging off
  scanned,   \* history: when deadUsers was computed
  told       \* history: the members of each announced room, as the
             \* notifications published so far tell them

sessionVars == <<users, lastSeen>>
mainVars == <<main, req, resp, rep>>
checkerVars == <<checker, dead, victim, scanned>>
vars == <<users, lastSeen, rooms, now, main, req, resp, rep,
          checker, dead, victim, scanned, told>>

-------------------------------------------------------------------------------
\* Requests and replies

Handled == {"login", "join", "leave", "list", "room_msg", "direct_msg", "heartbeat"}

\* Only join and leave are about a room of the request's choice as far as the tables
\* go; the topic of a message does not touch them.  A login and a logout act on General.
Requests ==
  [kind : {"join", "leave"}, user : Names \cup {NoName}, room : RoomNames]
    \cup
  [kind : (Handled \ {"join", "leave"}) \cup {"logout"},
   user : Names \cup {NoName}, room : {General}]
    \cup
  [kind : {"unknown"}, user : {NoName}, room : {General}]

Garbled == [kind |-> "garbled", user |-> NoName, room |-> General]

Idle == [kind |-> "none", user |-> NoName, room |-> General]

Ack == [status |-> "OK", listing |-> {}]
Refusal == [status |-> "ERROR", listing |-> {}]
NoReply == [status |-> "none", listing |-> {}]
Listing(info) == [status |-> "OK", listing |-> info]

\* Login puts a user into General without a notification, so that General's
\* membership cannot be followed from the bus; that of the other rooms can.
Announced == RoomNames \ {General}

-------------------------------------------------------------------------------
Init ==
  /\ users = NewSessionManager.users
  /\ lastSeen = NewSessionManager.lastSeen
  /\ rooms = NewRoomManager
  /\ now = 0
  /\ main = "recv"
  /\ req = Idle
  /\ resp = NoReply
  /\ rep = "recv"
  /\ checker = "idle"
  /\ dead = {}
  /\ victim = NoName
  /\ scanned = 0
  /\ told = [r \in Announced |-> {}]

-------------------------------------------------------------------------------
\* The request loop

Prepare(reply) == main' = "reply" /\ resp' = reply

\* RecvEnvelope and the switch of handleEnvelope.
Receive ==
  /\ main = "recv"
  /\ rep = "recv"
  /\ rep' = "send"
  /\ req' \in Requests
  /\ \/ req'.kind \in Handled /\ main' = "touch" /\ resp' = resp
     \/ req'.kind = "logout" /\ req'.user # NoName /\ main' = "leave" /\ resp' = resp
     \/ req'.kind = "logout" /\ req'.user = NoName /\ Prepare(Refusal)
     \/ req'.kind = "unknown" /\ Prepare(Refusal)
  /\ UNCHANGED <<sessionVars, rooms, now, checkerVars, told>>

\* A request that arrives but cannot be unmarshalled: Start logs the error and goes
\* back to RecvBytes, on a REP socket that now owes a reply.  Every later RecvBytes
\* fails in the same way, so the loop does not leave this state.
ReceiveGarbled ==
  /\ Undecodable
  /\ main = "recv"
  /\ rep = "recv"
  /\ rep' = "send"
  /\ req' = Garbled
  /\ UNCHANGED <<sessionVars, rooms, now, main, resp, checkerVars, told>>

\* The step of a request that follows TouchUser.
AfterTouch ==
  CASE req.kind = "login" -> "create"
    [] req.kind \in {"join", "leave", "list"} -> req.kind
    [] OTHER -> "reply"

\* Faulty variant: a ping does not count as a sign of life.
TouchNoPing ==
  /\ main = "touch"
  /\ lastSeen' = IF req.kind = "heartbeat" THEN lastSeen ELSE TouchUser(lastSeen, req.user, now)
  /\ main' = AfterTouch
  /\ resp' = IF AfterTouch = "reply" THEN Ack ELSE resp
  /\ UNCHANGED <<users, rooms, now, req, rep, checkerVars, told>>

Touch ==
  /\ main = "touch"
  /\ lastSeen' = TouchUser(lastSeen, req.user, now)
  /\ main' = AfterTouch
  /\ resp' = IF AfterTouch = "reply" THEN Ack ELSE resp
  /\ UNCHANGED <<users, rooms, now, req, rep, checkerVars, told>>

\* handleLogin, up to the lock of the room table.
HandleLogin ==
  /\ main = "create"
  /\ users' = CreateSession(users, req.user, now)
  /\ IF req.user = NoName
     THEN Prepare(Refusal)
     ELSE main' = "join" /\ resp' = resp
  /\ UNCHANGED <<lastSeen, rooms, now, req, rep, checkerVars, told>>

\* Faulty variant: the error branch returns without a reply.
HandleJoinRoomSilently ==
  /\ main = "join"
  /\ rooms' = JoinRoom(rooms, req.room, req.user)
  /\ IF Rejected(req.user)
     THEN main' = "recv" /\ resp' = resp
     ELSE Prepare(Ack)
  /\ UNCHANGED <<sessionVars, now, req, rep, checkerVars, told>>

\* handleJoinRoom, and the second half of handleLogin.
HandleJoinRoom ==
  /\ main = "join"
  /\ rooms' = JoinRoom(rooms, req.room, req.user)
  /\ Prepare(IF Rejected(req.user) THEN Refusal ELSE Ack)
  /\ UNCHANGED <<sessionVars, now, req, rep, checkerVars, told>>

\* handleLeaveRoom drops the error of LeaveRoom and acknowledges in any case.
\* handleLogoutRequest takes the user out of General, and of no other room.
HandleLeaveRoom ==
  /\ main = "leave"
  /\ rooms' = LeaveRoom(rooms, req.room, req.user)
  /\ IF req.kind = "logout"
     THEN main' = "remove" /\ resp' = resp
     ELSE Prepare(Ack)
  /\ UNCHANGED <<sessionVars, now, req, rep, checkerVars, told>>

HandleListRooms ==
  /\ main = "list"
  /\ Prepare(Listing(GetRoomsInfo(rooms)))
  /\ UNCHANGED <<sessionVars, rooms, now, req, rep, checkerVars, told>>

HandleLogout ==
  /\ main = "remove"
  /\ lastSeen' = Forget(lastSeen, req.user)
  /\ users' \in WithoutOneToken(users, req.user)
  /\ main' = "publish"
  /\ resp' = Ack
  /\ UNCHANGED <<rooms, now, req, rep, checkerVars, told>>

\* Faulty variant: handleLeaveRoom without its notification.
PublishesNoLeave == resp = Ack /\ req.kind \in {"join", "room_msg", "direct_msg"}

\* What a handler publishes on the bus once the tables are up to date.
Publishes == resp = Ack /\ req.kind \in {"join", "leave", "room_msg", "direct_msg"}

\* SendEnvelope on the REP socket; a logout has published before.
Reply ==
  /\ main = "reply"
  /\ rep = "send"
  /\ rep' = "recv"
  /\ resp' = NoReply
  /\ IF Publishes
     THEN main' = "publish" /\ req' = req
     ELSE main' = "recv" /\ req' = Idle
  /\ UNCHANGED <<sessionVars, rooms, now, checkerVars, told>>

\* What a subscriber of every room's topic believes after the notification of q.
Heard(q) ==
  CASE q.kind = "join" /\ q.room \in Announced -> [told EXCEPT ![q.room] = @ \cup {q.user}]
    [] q.kind = "leave" /\ q.room \in Announced -> [told EXCEPT ![q.room] = @ \ {q.user}]
    [] OTHER -> told

\* PublishTopicEnvelope, from a handler.
Publish ==
  /\ main = "publish"
  /\ told' = Heard(req)
  /\ IF req.kind = "logout"
     THEN main' = "reply" /\ req' = req
     ELSE main' = "recv" /\ req' = Idle
  /\ UNCHANGED <<sessionVars, rooms, now, resp, rep, checkerVars>>

HandlerStep ==
  \/ Touch
  \/ HandleLogin
  \/ HandleJoinRoom
  \/ HandleLeaveRoom
  \/ HandleListRooms
  \/ HandleLogout
  \/ Reply
  \/ Publish

-------------------------------------------------------------------------------
\* The heartbeat checker

\* The ticker is left out: the checker may look at any time.
Scan ==
  /\ checker = "idle"
  /\ dead' = GetDeadUsers(lastSeen, now, Timeout)
  /\ dead' # {}
  /\ checker' = "evict"
  /\ scanned' = now
  /\ UNCHANGED <<sessionVars, rooms, now, mainVars, victim, told>>

\* LeaveRoom and RemoveUser refuse the empty name only, which is never in lastSeen.
EvictFromRoom ==
  /\ checker = "evict"
  /\ victim' \in dead
  /\ rooms' = LeaveRoom(rooms, General, victim')
  /\ checker' = "remove"
  /\ UNCHANGED <<sessionVars, now, mainVars, dead, scanned, told>>

EvictSession ==
  /\ checker = "remove"
  /\ lastSeen' = Forget(lastSeen, victim)
  /\ users' \in WithoutOneToken(users, victim)
  /\ checker' = "notify"
  /\ UNCHANGED <<rooms, now, mainVars, dead, victim, scanned, told>>

\* The notification goes to General, so told does not change.
NotifyEviction ==
  /\ checker = "notify"
  /\ dead' = dead \ {victim}
  /\ victim' = NoName
  /\ IF dead' = {}
     THEN checker' = "idle" /\ scanned' = 0
     ELSE checker' = "evict" /\ scanned' = scanned
  /\ UNCHANGED <<sessionVars, rooms, now, mainVars, told>>

CheckerStep == Scan \/ EvictFromRoom \/ EvictSession \/ NotifyEviction

-------------------------------------------------------------------------------
Tick ==
  /\ now < MaxTime
  /\ now' = now + 1
  /\ UNCHANGED <<sessionVars, rooms, mainVars, checkerVars, told>>

Next == Receive \/ ReceiveGarbled \/ HandlerStep \/ CheckerStep \/ Tick

Spec == Init /\ [][Next]_vars

\* Both goroutines are scheduled; a client owes the server nothing.
FairSpec == Spec /\ WF_vars(HandlerStep) /\ WF_vars(CheckerStep)

-------------------------------------------------------------------------------
\* Properties

Locations == {"recv", "touch", "create", "join", "leave", "list", "remove", "publish", "reply"}

\* Every table and variable keeps its type; in particular the empty username, which
\* any request may carry, gets into no table (session.go:28, 41, 52, room.go:31, 54).
TypeOK ==
  /\ DOMAIN users \subseteq Tokens
  /\ users \in [DOMAIN users -> Names]
  /\ DOMAIN lastSeen \subseteq Names
  /\ lastSeen \in [DOMAIN lastSeen -> Nat]
  /\ IsTable(rooms)
  /\ now \in Nat
  /\ main \in Locations
  /\ req \in Requests \cup {Idle, Garbled}
  /\ resp.status \in {"none", "OK", "ERROR"}
  /\ rep \in {"recv", "send"}
  /\ checker \in {"idle", "evict", "remove", "notify"}
  /\ dead \subseteq Names
  /\ victim \in Names \cup {NoName}
  /\ scanned \in Nat
  /\ told \in [Announced -> SUBSET Names]

\* General always exists and no other room outlives its last member, whatever
\* sequence of joins, leaves, logouts and evictions came before (room.go:22, 65-68).
RoomsWellFormed ==
  /\ General \in DOMAIN rooms
  /\ \A r \in DOMAIN rooms \ {General} : rooms[r] # {}

\* A subscriber who adds the user of every NOTIF_USER_JOINED and removes that of every
\* NOTIF_USER_LEFT knows the members of each room but General whenever the loop is
\* between two requests: no handler changes a table without telling.  It may tell of a
\* leave that was none, of a user who is not a member, which that subscriber does not
\* notice (server.go:188-231).
BusAgrees == main = "recv" => told = [r \in Announced |-> MembersOf(rooms, r)]

\* The loop is between two requests with a reply still owed only when it was given a
\* request it could not decode: every handler replies exactly once on every path,
\* error paths included (server.go:107-291), or the REP socket would refuse to receive.
OneReply ==
  /\ main = "recv" => (rep = "send" <=> req.kind = "garbled")
  /\ main = "reply" => rep = "send" /\ resp.status # "none"

\* The list of rooms that is sent names every room there is, with at least its present
\* members: between GetRoomsInfo and the reply the other goroutine can make the list
\* too long, never too short (server.go:233-246, room.go:74-92).
ListingComplete ==
  main = "reply" /\ req.kind = "list" =>
    \A r \in DOMAIN rooms : \E entry \in resp.listing :
      entry.name = r /\ rooms[r] \subseteq entry.members

Expired(u, t) == u \in DOMAIN lastSeen /\ t > lastSeen[u] + Timeout

\* A user on the checker's list who still has a session was silent for longer than
\* the timeout when the list was made, or has been heard of since then: the list is
\* only ever wrong by being old (server.go:69-82, session.go:72-86).
ListOnlyStale ==
  \A u \in dead : u \in DOMAIN lastSeen => Expired(u, scanned) \/ lastSeen[u] >= scanned

\* The other way round, whoever was silent for longer than the timeout when the list was
\* made, and still is, is on the list until it has been evicted: no heartbeat, logout or
\* new login that comes between the steps of an eviction lets a dead user slip through
\* (server.go:69-104, session.go:61-86).
NobodySpared ==
  checker # "idle" =>
    \A u \in Names : Expired(u, scanned) => u \in dead /\ (checker = "notify" => u # victim)

\* Who is members of what, as a set of pairs.
Membership == {m \in RoomNames \X Names : m[2] \in MembersOf(rooms, m[1])}

Directory == INSTANCE RoomDirectory WITH member <- Membership

\* Each step of either goroutine lets at most one user enter or leave one room: the
\* clean-up of empty rooms never takes a member along (room.go:62-70).
ImplementsDirectory == Directory!Spec

\* A user who stays silent past the timeout does not keep a session: it is heard of
\* again or logged off, whatever the request loop is doing (server.go:63-104).
SilentUserLoggedOff == \A u \in Names : Expired(u, now) ~> ~Expired(u, now)

\* Every request that can be decoded is answered, and the socket of the loop ready for the
\* next, on every path of every handler (server.go:50-59, 107-142).
RequestAnswered == rep = "send" /\ req # Garbled ~> rep = "recv"
===============================================================================
