---------------------------- MODULE PresenceProofs ----------------------------
(***************************************************************************)
(* A user who makes himself heard in time stays logged in: a theorem about *)
(* the two goroutines of the server, all clients and the clock together.   *)
(***************************************************************************)
EXTENDS SilenceProofs

-------------------------------------------------------------------------------
\* Session tables

\* A token names its owner (session.go:32).
Named(tokens) == \A t \in DOMAIN tokens : tokens[t] = t[1]

\* A login leaves the other users their tokens, and its own user has one then.
LEMMA LoginKeepsTokens ==
  ASSUME NEW tokens, Named(tokens), NEW u, NEW n, NEW c
  PROVE  /\ Named(CreateSession(tokens, u, n))
         /\ TokensOf(tokens, c) \subseteq TokensOf(CreateSession(tokens, u, n), c)
         /\ u # NoName => TokensOf(CreateSession(tokens, u, n), u) # {}
<1>1. TokenFor(u, n)[1] = u
  BY DEF TokenFor
<1> QED BY <1>1 DEF CreateSession, TokensOf, Named

\* RemoveUser leaves the other users their tokens.
LEMMA RemoveKeepsTokens ==
  ASSUME NEW tokens, NEW u, NEW left \in WithoutOneToken(tokens, u), NEW c, c # u
  PROVE  TokensOf(tokens, c) \subseteq TokensOf(left, c)
BY DEF WithoutOneToken, TokensOf

LEMMA TokensNamed == Spec => []Named(users)
<1>1. Init => Named(users)
  BY DEF Init, NewSessionManager, Named
<1>2. Named(users) /\ [Next]_vars => Named(users)'
  <2> SUFFICES ASSUME Named(users), [Next]_vars PROVE Named(users')
    OBVIOUS
  <2>1. CASE HandleLogin
    BY <2>1, LoginKeepsTokens DEF HandleLogin
  <2>2. ASSUME NEW u, users' \in WithoutOneToken(users, u) PROVE Named(users')
    BY <2>2 DEF WithoutOneToken, Named
  <2>3. CASE HandleLogout \/ EvictSession
    BY <2>2, <2>3 DEF HandleLogout, EvictSession
  <2>4. users' = users => Named(users')
    OBVIOUS
  <2> QED
    BY <2>1, <2>3, <2>4
    DEF Next, Receive, ReceiveGarbled, HandlerStep, Touch, HandleJoinRoom, HandleLeaveRoom,
        HandleListRooms, Reply, Publish, CheckerStep, Scan, EvictFromRoom, NotifyEviction,
        Tick, sessionVars, vars
<1> QED BY <1>1, <1>2, PTL DEF Spec

-------------------------------------------------------------------------------
\* Who is logged in

\* What those who type nothing ask for.
LurkersPing == \A c \in Lurkers : asked[c].kind \in {"none", "login", "heartbeat"}

LEMMA LurkersOnlyPing == SystemSpec => []LurkersPing
<1>a. Lurkers \subseteq Names
  BY SystemAssumption
<1>1. SystemInit => LurkersPing
  <2> SUFFICES ASSUME SystemInit, NEW c \in Lurkers PROVE asked[c] = Idle
    BY DEF LurkersPing, Idle
  <2> QED BY <1>a DEF SystemInit
<1>2. LurkersPing /\ ClientsTypeOK /\ [SystemNext]_systemVars => LurkersPing'
  <2> SUFFICES ASSUME LurkersPing, ClientsTypeOK, [SystemNext]_systemVars, NEW c \in Lurkers
               PROVE  asked'[c].kind \in {"none", "login", "heartbeat"}
    BY DEF LurkersPing
  <2> USE DEF ClientsTypeOK, Idle, Request
  <2>0. asked[c].kind \in {"none", "login", "heartbeat"} /\ c \in Names
    BY <1>a DEF LurkersPing
  <2>1. ASSUME NEW d \in Names, ControllerStep(d)
        PROVE  asked'[c].kind \in {"none", "login", "heartbeat"}
    <3>1. CASE d = c
      <4>1. Start(c) \/ Ping(c) \/ InstructJoin(c) \/ InstructLeave(c) \/ TakeReply(c) \/ Exit(c)
        BY <2>1, <3>1 DEF ControllerStep
      <4> QED
        BY <2>0, <4>1 DEF Start, Ping, Ask, InstructJoin, InstructLeave, Instruct, TakeReply, Exit
    <3>2. CASE d # c
      <4>1. ClientAlone(d)
        BY <2>1, PollEnds DEF ControllerStep, ClientAlone
      <4>2. asked'[c] = asked[c]
        BY <2>0, <3>2, <4>1
        DEF ClientAlone, Start, Ask, CommandLocal, InstructJoin, InstructLeave, Instruct,
            TakeReply, Exit, Crash, HandleCommand
      <4> QED BY <2>0, <4>2
    <3> QED BY <3>1, <3>2
  <2>2. ASSUME NEW d \in Names, Crash(d) \/ HandleCommand(d) \/ Deliver(d)
        PROVE  asked'[c].kind \in {"none", "login", "heartbeat"}
    <3>1. asked' = asked \/ asked' = [asked EXCEPT ![d] = Idle]
      BY <2>2 DEF Crash, HandleCommand, Deliver
    <3>2. asked'[c] \in {asked[c], Idle}
      BY <2>0, <3>1
    <3> QED BY <2>0, <3>2
  <2>3. ServerStep \/ TimePasses \/ UNCHANGED systemVars => asked' = asked
    BY DEF ServerStep, TouchClient, JoinClient, ReplyToClient, TimePasses, systemVars, clientVars
  <2> QED BY <2>0, <2>1, <2>2, <2>3 DEF SystemNext
<1> QED BY <1>1, <1>2, ClientsTypeCorrect, PTL DEF SystemSpec

\* The server does not count c among those who are logged in.
Absent(c) ==
  \/ phase[c] = "off"
  \/ /\ asked[c].kind = "login"
     /\ phase[c] = "sent" \/ (phase[c] = "served" /\ main = "touch")
  \/ /\ asked[c].kind = "logout"
     /\ phase[c] = "answered" \/ (phase[c] = "served" /\ main \in {"publish", "reply"})

\* The server works at the login of c and is at one of these places.
Entering(c, where) == phase[c] = "served" /\ asked[c].kind = "login" /\ main \in where

\* The three tables and the checker's list agree on c.
Present(c) ==
  /\ phase[c] # "stray" /\ (served = c => phase[c] = "served")
  /\ c \notin dead /\ victim # c
  /\ c \in DOMAIN lastSeen <=> ~Absent(c)
  /\ Absent(c) \/ Entering(c, {"create"}) \/ TokensOf(users, c) # {}
  /\ c \in Lurkers =>
       Absent(c) \/ Entering(c, {"create", "join"}) \/ c \in MembersOf(rooms, General)

\* The inductive form of StaysLoggedIn.
PresentOK == ~Stuck => \A c \in Names : Patient(c) /\ crashes[c] = 0 => Present(c)

\* What leaves the tables, the loop and the client as they are leaves c where it is.
LEMMA PresentUnchanged ==
  ASSUME NEW c, Present(c), UNCHANGED <<phase[c], asked[c]>>,
         UNCHANGED <<users, lastSeen, rooms, dead, victim>>,
         main' = main \/ phase[c] # "served",
         served' = c => phase[c] = "served"
  PROVE  Present(c)'
BY DEF Present, Absent, Entering

\* A client's own steps: it logs in and out by what the server does, not by what it asks.
LEMMA PresentOwnStep ==
  ASSUME Sound, RoutingOK, NEW c \in Names, Present(c), ClientAlone(c), crashes'[c] = 0,
         crashes[c] = 0
  PROVE  Present(c)'
<1>a. ClientsTypeOK
  BY DEF Sound
<1>b. UNCHANGED <<users, lastSeen, rooms, dead, victim, main, served>>
  BY ClientAloneUnchanged DEF vars
<1>1. SUFFICES ASSUME phase[c] # "served", phase'[c] \notin {"served", "stray"},
                      Absent(c)' <=> Absent(c)
               PROVE  Present(c)'
  <2>1. CASE Start(c)
    BY <1>a, <1>b, <2>1 DEF Start, ClientsTypeOK, Absent, Request, Present
  <2>2. ASSUME NEW q \in Asks(c), Ask(c, q) PROVE Present(c)'
    BY <1>1, <1>a, <2>2 DEF Ask, Asks, ClientsTypeOK, Absent
  <2>3. CASE CommandLocal(c)
    BY <1>1, <1>a, <1>b, <2>3 DEF CommandLocal, ClientsTypeOK, Absent
  <2>4. CASE InstructJoin(c) \/ InstructLeave(c) \/ TakeReply(c)
    <3>1. /\ phase[c] = "answered" /\ phase'[c] = "polling" /\ asked[c].kind # "logout"
      BY <1>a, <2>4 DEF InstructJoin, InstructLeave, Instruct, TakeReply, ClientsTypeOK
    <3> QED BY <1>1, <3>1 DEF Absent
  <2>5. CASE Exit(c)
    BY <1>1, <1>a, <2>5 DEF Exit, ClientsTypeOK, Absent
  <2>6. CASE Crash(c)
    BY <1>a, <2>6 DEF Crash, ClientsTypeOK
  <2>7. CASE HandleCommand(c)
    BY <1>b, <2>7, PresentUnchanged DEF HandleCommand, Present
  <2> QED BY <2>1, <2>2, <2>3, <2>4, <2>5, <2>6, <2>7 DEF ClientAlone
<1> QED BY <1>1, <1>b DEF Present, Entering

\* The steps of the others that the server takes no part in, and their requests.
LEMMA PresentOthers ==
  ASSUME Sound, RoutingOK, NEW c \in Names, Present(c), NEW d \in Names \ {c},
         ClientAlone(d) \/ Deliver(d)
  PROVE  Present(c)'
<1>a. ClientsTypeOK
  BY DEF Sound
<1>1. UNCHANGED <<phase[c], asked[c]>>
  BY <1>a, SilenceOthers
<1>2. CASE ClientAlone(d)
  BY <1>1, <1>2, ClientAloneUnchanged, PresentUnchanged DEF vars, Present
<1>3. CASE Deliver(d)
  <2>1. UNCHANGED <<users, lastSeen, rooms, dead, victim>> /\ served' = d /\ phase[c] # "served"
    BY <1>3, NamesAssumption
    DEF Deliver, Receive, ReceiveGarbled, sessionVars, checkerVars, RoutingOK
  <2> QED BY <1>1, <2>1, PresentUnchanged
<1> QED BY <1>2, <1>3

\* Its own request, which the server can read.
LEMMA PresentDelivered ==
  ASSUME Sound, RoutingOK, NEW c \in Names, Present(c), Deliver(c), ~Stuck'
  PROVE  Present(c)'
<1>a. ClientsTypeOK
  BY DEF Sound
<1>1. /\ phase[c] = "sent" /\ phase'[c] = "served" /\ asked'[c] = asked[c]
      /\ req' = asked[c] /\ served' = c /\ asked[c] \in Asked(c)
  BY <1>a DEF Deliver, ClientsTypeOK, Present, RoutingOK
<1>2. asked[c] # Garbled
  BY <1>1 DEF Stuck, Garbled
<1>3. /\ Receive
      /\ UNCHANGED <<users, lastSeen, rooms, dead, victim>>
  BY <1>2 DEF Deliver, Receive, sessionVars, checkerVars
<1>4. /\ asked[c].kind = "login" => main' = "touch"
      /\ asked[c].kind = "logout" => main' = "leave"
  <2>1. asked[c].kind = "logout" => asked[c].user # NoName
    BY <1>1, NamesAssumption DEF Asked, Asks, Request
  <2> QED BY <1>1, <1>3, <2>1 DEF Receive, Handled
<1> QED BY <1>1, <1>3, <1>4 DEF Present, Absent, Entering

\* Whose request it is that a handler works at.
LEMMA HandledFor ==
  ASSUME Sound, RoutingOK, NEW c \in Names, Present(c), main \notin {"recv", "publish"}
  PROVE  /\ req.user \in {served, NoName} /\ served \in Names
         /\ req.user = NoName => req.kind \in {"list", "garbled"}
         /\ served = c <=> phase[c] = "served"
         /\ served = c => req = asked[c]
         /\ req.user = c => served = c
<1>1. rep = "send" /\ served \in Names
  BY DEF Sound, ReplyOwed, TypeOK, RoutingOK, ClientsTypeOK
<1>2. req \in Asked(served)
  BY <1>1 DEF RoutingOK
<1> QED
  BY <1>1, <1>2, NamesAssumption DEF RoutingOK, Present, Asked, Asks, Request

\* The handlers, up to the reply: a login enters c into the three tables one by one, a logout
\* takes it out of them, and no other request does either.
LEMMA PresentTouched ==
  ASSUME Sound, RoutingOK, NEW c \in Names, Present(c), TouchClient
  PROVE  Present(c)'
<1>1. /\ main = "touch" /\ main' = AfterTouch /\ req.kind \in Handled
      /\ lastSeen' = TouchUser(lastSeen, req.user, now)
      /\ UNCHANGED <<phase, asked, served, users, rooms, dead, victim>>
  BY DEF TouchClient, Touch, checkerVars, Sound, ControlOK
<1>2. /\ AfterTouch \notin {"recv", "touch", "publish"}
      /\ req.kind = "login" <=> AfterTouch = "create"
      /\ req.kind # "logout"
  BY <1>1 DEF AfterTouch, Handled
<1>3. CASE req.user = c
  <2>1. c \in DOMAIN lastSeen' /\ phase[c] = "served" /\ asked[c] = req
    BY <1>1, <1>3, HandledFor, NamesAssumption DEF TouchUser
  <2> QED BY <1>1, <1>2, <2>1 DEF Present, Absent, Entering
<1>4. CASE req.user # c
  <2>1. c \in DOMAIN lastSeen' <=> c \in DOMAIN lastSeen
    BY <1>1, <1>4 DEF TouchUser
  <2>2. phase[c] = "served" => asked[c].kind = "list"
    BY <1>1, <1>4, HandledFor DEF Handled
  <2> QED BY <1>1, <1>2, <2>1, <2>2 DEF Present, Absent, Entering
<1> QED BY <1>3, <1>4

LEMMA PresentJoined ==
  ASSUME Sound, RoutingOK, NEW c \in Names, Present(c), JoinClient
  PROVE  Present(c)'
<1>1. /\ main = "join" /\ main' = "reply" /\ req.kind \in {"login", "join"}
      /\ rooms' = JoinRoom(rooms, req.room, req.user)
      /\ UNCHANGED <<phase, asked, served, users, lastSeen, dead, victim>>
  BY DEF JoinClient, HandleJoinRoom, Prepare, checkerVars, sessionVars, Sound, ControlOK
<1>2. IsTable(rooms) /\ req.user \in Names /\ req.room \in RoomNames
  BY <1>1, HandledFor, RequestFields DEF Sound, TypeOK
<1>3. MembersOf(rooms', General) =
        IF req.room = General THEN MembersOf(rooms, General) \cup {req.user}
                              ELSE MembersOf(rooms, General)
  BY <1>1, <1>2, JoinRoomMembers
<1>4. CASE phase[c] = "served"
  <2>1. req = asked[c] /\ req.user = c /\ (req.kind = "login" => req.room = General)
    BY <1>1, <1>2, <1>4, HandledFor, NamesAssumption DEF RoutingOK, Asked, Asks, Request
  <2> QED BY <1>1, <1>3, <1>4, <2>1 DEF Present, Absent, Entering
<1>5. CASE phase[c] # "served"
  BY <1>1, <1>3, <1>5 DEF Present, Absent, Entering
<1> QED BY <1>4, <1>5

LEMMA PresentReplied ==
  ASSUME Sound, RoutingOK, NEW c \in Names, Present(c), ReplyToClient
  PROVE  Present(c)'
<1>1. /\ main = "reply" /\ main' \in {"publish", "recv"} /\ served' = NoName
      /\ phase'[c] = IF c = served /\ phase[c] = "served" THEN "answered" ELSE phase[c]
      /\ UNCHANGED <<asked, users, lastSeen, rooms, dead, victim>>
  BY DEF ReplyToClient, Reply, checkerVars, sessionVars
<1>2. served = c <=> phase[c] = "served"
  BY <1>1, HandledFor
<1> QED BY <1>1, <1>2, NamesAssumption DEF Present, Absent, Entering

\* The checker's steps are about others, as long as c is not on its list.
LEMMA PresentChecked ==
  ASSUME Sound, NEW c \in Names, Present(c), CheckerStep, UNCHANGED clientVars, c \notin dead'
  PROVE  Present(c)'
<1>1. UNCHANGED <<phase, asked, served, main>>
  BY DEF CheckerStep, Scan, EvictFromRoom, EvictSession, NotifyEviction, mainVars, clientVars
<1>2. victim' # c
  BY NamesAssumption
  DEF CheckerStep, Scan, EvictFromRoom, EvictSession, NotifyEviction, mainVars, Present
<1>3. c \in MembersOf(rooms, General) => c \in MembersOf(rooms', General)
  <2>1. rooms' = rooms \/ (rooms' = LeaveRoom(rooms, General, victim') /\ victim' # c)
    BY <1>2 DEF CheckerStep, Scan, EvictFromRoom, EvictSession, NotifyEviction
  <2> QED BY <2>1, LeaveRoomMembers DEF Sound, TypeOK
<1>4. /\ c \in DOMAIN lastSeen' <=> c \in DOMAIN lastSeen
      /\ TokensOf(users, c) \subseteq TokensOf(users', c)
  <2>1. \/ UNCHANGED sessionVars
        \/ lastSeen' = Forget(lastSeen, victim) /\ users' \in WithoutOneToken(users, victim)
    BY DEF CheckerStep, Scan, EvictFromRoom, EvictSession, NotifyEviction
  <2>2. victim # c
    BY DEF Present
  <2> QED BY <2>1, <2>2, RemoveKeepsTokens DEF sessionVars, Forget
<1> QED BY <1>1, <1>2, <1>3, <1>4 DEF Present, Absent, Entering

LEMMA PresentHandled ==
  ASSUME Sound, RoutingOK, Named(users), LurkersPing, NEW c \in Names, Present(c), ServerAlone,
         ~CheckerStep
  PROVE  Present(c)'
<1>a. UNCHANGED <<phase, asked, served>>
  BY DEF ServerAlone, clientVars
<1>b. UNCHANGED <<dead, victim>>
  BY DEF ServerAlone, HandleLogin, HandleLeaveRoom, HandleListRooms, HandleLogout, Publish,
         checkerVars
<1>1. CASE HandleLogin
  <2>1. /\ main = "create" /\ req.kind = "login" /\ UNCHANGED <<lastSeen, rooms>>
        /\ users' = CreateSession(users, req.user, now)
    BY <1>1 DEF HandleLogin, Sound, ControlOK
  <2>2. main' = "join" /\ req.user # NoName
    BY <1>1, <2>1, HandledFor DEF HandleLogin
  <2>3. TokensOf(users, c) \subseteq TokensOf(users', c) /\ TokensOf(users', req.user) # {}
    BY <2>1, <2>2, LoginKeepsTokens
  <2>4. CASE phase[c] = "served"
    <3>1. asked[c].kind = "login" /\ req.user = c
      BY <2>1, <2>2, <2>4, HandledFor
    <3> QED BY <1>a, <1>b, <2>1, <2>2, <2>3, <2>4, <3>1 DEF Present, Absent, Entering
  <2>5. CASE phase[c] # "served"
    BY <1>a, <1>b, <2>1, <2>3, <2>5 DEF Present, Absent, Entering
  <2> QED BY <2>4, <2>5
<1>2. CASE HandleLeaveRoom
  <2>1. /\ main = "leave" /\ req.kind \in {"leave", "logout"} /\ main' \in {"remove", "reply"}
        /\ req.kind = "logout" => main' = "remove"
        /\ UNCHANGED <<users, lastSeen>> /\ rooms' = LeaveRoom(rooms, req.room, req.user)
    BY <1>2 DEF HandleLeaveRoom, Prepare, sessionVars, Sound, ControlOK
  <2>2. phase[c] = "served" => asked[c].kind = req.kind
    BY <2>1, HandledFor
  <2>3. c \in Lurkers => req.user # c
    BY <2>1, HandledFor DEF LurkersPing
  <2>4. c \in Lurkers /\ c \in MembersOf(rooms, General) => c \in MembersOf(rooms', General)
    BY <2>1, <2>3, LeaveRoomMembers DEF Sound, TypeOK
  <2> QED BY <1>a, <1>b, <2>1, <2>2, <2>4 DEF Present, Absent, Entering
<1>3. CASE HandleListRooms
  <2>1. /\ main = "list" /\ req.kind = "list" /\ main' = "reply"
        /\ UNCHANGED <<users, lastSeen, rooms>>
    BY <1>3 DEF HandleListRooms, Prepare, sessionVars, Sound, ControlOK
  <2>2. phase[c] = "served" => asked[c].kind = "list"
    BY <2>1, HandledFor
  <2> QED BY <1>a, <1>b, <2>1, <2>2 DEF Present, Absent, Entering
<1>4. CASE HandleLogout
  <2>1. /\ main = "remove" /\ req.kind = "logout" /\ main' = "publish" /\ rooms' = rooms
        /\ lastSeen' = Forget(lastSeen, req.user) /\ users' \in WithoutOneToken(users, req.user)
    BY <1>4 DEF HandleLogout, Sound, ControlOK
  <2>2. req.user = served
    BY <2>1, HandledFor
  <2>3. CASE served = c
    <3>1. phase[c] = "served" /\ asked[c].kind = "logout" /\ c \notin DOMAIN lastSeen'
      BY <2>1, <2>2, <2>3, HandledFor DEF Forget
    <3> QED BY <1>a, <1>b, <2>1, <3>1 DEF Present, Absent
  <2>4. CASE served # c
    <3>1. phase[c] # "served" /\ (c \in DOMAIN lastSeen' <=> c \in DOMAIN lastSeen)
      BY <2>1, <2>2, <2>4, HandledFor DEF Forget
    <3>2. TokensOf(users, c) \subseteq TokensOf(users', c)
      BY <2>1, <2>2, <2>4, RemoveKeepsTokens
    <3> QED BY <1>a, <1>b, <2>1, <3>1, <3>2 DEF Present, Absent, Entering
  <2> QED BY <2>3, <2>4
<1>5. CASE Publish
  <2>1. /\ main = "publish" /\ UNCHANGED <<users, lastSeen, rooms>>
        /\ main' = IF req.kind = "logout" THEN "reply" ELSE "recv"
    BY <1>5 DEF Publish, sessionVars
  <2>2. phase[c] = "served" => req.kind = "logout" /\ asked[c].kind = "logout"
    <3>1. phase[c] = "served" => rep = "send" /\ req = asked[c]
      BY NamesAssumption DEF RoutingOK, Sound, TypeOK
    <3> QED BY <2>1, <3>1 DEF Sound, ReplyOwed
  <2> QED BY <1>a, <1>b, <2>1, <2>2 DEF Present, Absent, Entering
<1> QED BY <1>1, <1>2, <1>3, <1>4, <1>5 DEF ServerAlone

\* Whom the server has not met it does not miss, and of whom it has met it hears in time.
LEMMA NotListed ==
  ASSUME Sound, RoutingOK, SilenceOK, IdleOK, UnheardOK, ~Stuck, [SystemNext]_systemVars,
         NEW c \in Names, Patient(c), Present(c)
  PROVE  c \notin dead'
<1> SUFFICES ASSUME c \in dead' \ dead PROVE FALSE
  BY DEF Present
<1>1. Silence(c) > Timeout /\ Timeout \in Nat
  BY FoundDeadSilent, ServerAssumption
<1>2. c \in DOMAIN lastSeen
  BY <1>1 DEF Silence
<1>3. Met(c)
  <2>1. Running(c) /\ ~Absent(c)
    BY <1>2 DEF Present, Absent, Running
  <2>2. phase[c] = "served" => main # "recv"
    <3>1. phase[c] = "served" => rep = "send"
      BY NamesAssumption DEF RoutingOK, Sound, TypeOK
    <3> QED BY <3>1 DEF Sound, ReplyOwed, Stuck
  <2>3. phase[c] = "polling" => asked[c].kind # "login"
    BY DEF RoutingOK, Idle
  <2>4. phase[c] \in {"polling", "sent", "served", "answered"}
    BY <2>1 DEF Running, Sound, ClientsTypeOK, Phases
  <2> QED BY <2>1, <2>2, <2>3, <2>4 DEF Met, Absent
<1>4. Silence(c) <= Timeout /\ Silence(c) \in Int
  BY <1>3, PatientHeard, SilenceType DEF Sound
<1> QED BY <1>1, <1>4

\* Who makes himself heard in time is where he logged in and where he did not log out.
LEMMA PresentCorrect == SystemSpec => []PresentOK
<1>1. SystemInit => PresentOK
  BY NamesAssumption
  DEF SystemInit, Init, NewSessionManager, PresentOK, Present, Absent, Idle
<1>2. /\ PresentOK /\ Sound /\ RoutingOK /\ SilenceOK /\ IdleOK /\ UnheardOK
      /\ LurkersPing /\ Named(users) /\ [SystemNext]_systemVars
      => PresentOK'
  <2> SUFFICES ASSUME PresentOK, Sound, RoutingOK, SilenceOK, IdleOK, UnheardOK,
                      LurkersPing, Named(users), [SystemNext]_systemVars, ~Stuck',
                      NEW c \in Names, Patient(c), crashes'[c] = 0
               PROVE  Present(c)'
    BY DEF PresentOK, Patient, Allowance
  <2>1. ~Stuck
    BY StuckForever
  <2>2. crashes[c] = 0
    <3>1. crashes[c] \in Nat
      BY DEF Sound, ClientsTypeOK
    <3>2. crashes' = crashes \/ \E d \in Names : crashes' = [crashes EXCEPT ![d] = @ + 1]
      BY SystemSteps
      DEF ClientAlone, Start, Ask, CommandLocal, InstructJoin, InstructLeave, Instruct,
          TakeReply, Exit, Crash, HandleCommand, Deliver, TouchClient, JoinClient,
          ReplyToClient, ServerAlone, TimePasses, clientVars, systemVars
    <3> QED BY <3>1, <3>2 DEF Sound, ClientsTypeOK
  <2>3. Present(c)
    BY <2>1, <2>2 DEF PresentOK
  <2>4. c \notin dead'
    BY <2>1, <2>3, NotListed
  <2>5. CASE ClientAlone(c)
    BY <2>2, <2>3, <2>5, PresentOwnStep
  <2>6. CASE Deliver(c)
    BY <2>3, <2>6, PresentDelivered
  <2>7. ASSUME NEW d \in Names \ {c}, ClientAlone(d) \/ Deliver(d) PROVE Present(c)'
    BY <2>3, <2>7, PresentOthers
  <2>8. CASE TouchClient
    BY <2>3, <2>8, PresentTouched
  <2>9. CASE JoinClient
    BY <2>3, <2>9, PresentJoined
  <2>10. CASE ReplyToClient
    BY <2>3, <2>10, PresentReplied
  <2>11. CASE ServerAlone
    BY <2>3, <2>4, <2>11, PresentChecked, PresentHandled DEF ServerAlone
  <2>12. CASE TimePasses \/ UNCHANGED systemVars
    <3>1. UNCHANGED <<phase, asked, served, main, users, lastSeen, rooms, dead, victim>>
      BY <2>12
      DEF TimePasses, Tick, sessionVars, mainVars, checkerVars, systemVars, vars, clientVars
    <3> QED BY <2>3, <3>1 DEF Present, Absent, Entering
  <2> QED BY <2>5, <2>6, <2>7, <2>8, <2>9, <2>10, <2>11, <2>12, SystemSteps
<1> QED
  BY <1>1, <1>2, SoundAlways, RoutingCorrect, SilenceCorrect, IdleCorrect, UnheardCorrect,
     LurkersOnlyPing, SystemRunsServer, TokensNamed, PTL
  DEF SystemSpec

\* A user who is logged in, makes himself heard in time and has not crashed before keeps his
\* session, a token and, if he joins and leaves nothing, his place in General, whatever the
\* other clients and the checker do.
THEOREM PatientUserStaysLoggedIn == SystemSpec => []StaysLoggedIn
<1>1. PresentOK /\ RoutingOK => StaysLoggedIn
  <2> SUFFICES ASSUME PresentOK, RoutingOK, NEW c \in Names, phase[c] = "polling",
                      Patient(c), crashes[c] = 0, ~Stuck
               PROVE  /\ c \in DOMAIN lastSeen
                      /\ TokensOf(users, c) # {}
                      /\ c \in Lurkers => c \in MembersOf(rooms, General)
    BY DEF StaysLoggedIn
  <2>1. Present(c) /\ phase[c] = "polling" /\ asked[c] = Idle
    BY DEF PresentOK, RoutingOK
  <2> QED BY <2>1 DEF Present, Absent, Entering, Idle
<1> QED BY <1>1, PresentCorrect, RoutingCorrect, PTL
===============================================================================
