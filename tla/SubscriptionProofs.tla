-------------------------- MODULE SubscriptionProofs --------------------------
(***************************************************************************)
(* Theorems about the rooms a user is a member of and the topics its       *)
(* client is subscribed to: the first are a set of the server, changed     *)
(* when a request is handled; the second a count of the client's receiver, *)
(* changed once the reply has come back and the order has been read.       *)
(***************************************************************************)
EXTENDS ChatSystemProofs

-------------------------------------------------------------------------------
\* Queues of orders

SaysLast(os, r) ==
  \E i \in 1..Len(os) :
    /\ os[i] = Order("+", r)
    /\ \A j \in i + 1..Len(os) : os[j] # Order("-", r)

Undisturbed(os, r) == \A j \in 1..Len(os) : os[j] # Order("-", r)

\* Whether the receiver will be subscribed to the topic of r when it has read its orders.
WillHear(os, s, r) == SaysLast(os, r) \/ (s[r] > 0 /\ Undisturbed(os, r))

Obeyed(s, o) == IF o.sign = "+" THEN Subscribed(s, o.room) ELSE Unsubscribed(s, o.room)

\* A queue counts from the last order about a room.
LEMMA OrderAppended ==
  ASSUME NEW os \in Seq(Orders), NEW s, NEW o \in Orders, NEW r \in RoomNames
  PROVE  WillHear(Append(os, o), s, r) <=>
           IF o.room = r THEN o.sign = "+" ELSE WillHear(os, s, r)
<1> DEFINE after == Append(os, o)
<1>1. /\ Len(after) = Len(os) + 1
      /\ \A i \in 1..Len(os) : after[i] = os[i]
      /\ after[Len(os) + 1] = o
      /\ Len(os) \in Nat
  BY AppendProperties, LenProperties
<1>2. /\ o = Order("+", r) <=> o.sign = "+" /\ o.room = r
      /\ o = Order("-", r) <=> o.sign = "-" /\ o.room = r
      /\ o.sign = "+" \/ o.sign = "-"
  BY DEF Order, Orders
<1> HIDE DEF after
<1>3. CASE o = Order("+", r)
  BY <1>1, <1>2, <1>3 DEF WillHear, SaysLast
<1>4. CASE o = Order("-", r)
  <2>1. ~SaysLast(after, r) /\ ~Undisturbed(after, r)
    BY <1>1, <1>2, <1>4 DEF SaysLast, Undisturbed
  <2> QED BY <2>1, <1>2, <1>4 DEF WillHear, after
<1>5. CASE o.room # r
  <2>1. SaysLast(after, r) <=> SaysLast(os, r)
    BY <1>1, <1>2, <1>5 DEF SaysLast
  <2>2. Undisturbed(after, r) <=> Undisturbed(os, r)
    BY <1>1, <1>2, <1>5 DEF Undisturbed
  <2> QED BY <2>1, <2>2, <1>5 DEF WillHear, after
<1> QED BY <1>2, <1>3, <1>4, <1>5

\* Reading an order does not take away a subscription that the queue promises.
LEMMA OrderObeyed ==
  ASSUME NEW os \in Seq(Orders), os # <<>>, NEW s \in [RoomNames -> Nat],
         NEW r \in RoomNames, WillHear(os, s, r)
  PROVE  WillHear(Tail(os), Obeyed(s, Head(os)), r)
<1> DEFINE rest == Tail(os)
<1> DEFINE o == Head(os)
<1>1. /\ Len(rest) = Len(os) - 1
      /\ \A i \in 1..Len(rest) : rest[i] = os[i + 1]
      /\ Len(os) \in Nat \ {0}
      /\ o = os[1]
      /\ o \in Orders
  BY HeadTailProperties, EmptySeq
<1>2. /\ o = Order("+", r) <=> o.sign = "+" /\ o.room = r
      /\ o = Order("-", r) <=> o.sign = "-" /\ o.room = r
      /\ o.room \in RoomNames
  BY <1>1 DEF Order, Orders
<1> HIDE DEF rest, o
<1>3. \A i \in 2..Len(os) : i - 1 \in 1..Len(rest) /\ rest[i - 1] = os[i]
  BY <1>1
<1>4. ASSUME SaysLast(os, r), o # Order("+", r) \/ ~Undisturbed(rest, r)
      PROVE  SaysLast(rest, r)
  <2>1. PICK i \in 1..Len(os) : /\ os[i] = Order("+", r)
                               /\ \A j \in i + 1..Len(os) : os[j] # Order("-", r)
    BY <1>4 DEF SaysLast
  <2>2. i # 1
    BY <1>4, <2>1, <1>1 DEF Undisturbed
  <2>3. \A j \in (i - 1) + 1..Len(rest) : rest[j] # Order("-", r)
    BY <2>1, <2>2, <1>1
  <2> QED BY <2>1, <2>2, <2>3, <1>3 DEF SaysLast
<1>5. CASE o = Order("+", r)
  <2>1. Obeyed(s, o)[r] > 0
    BY <1>5, <1>2 DEF Obeyed, Subscribed
  <2>2. SaysLast(rest, r) \/ Undisturbed(rest, r)
    BY <1>1, <1>4, <1>5 DEF WillHear, SaysLast, Undisturbed
  <2> QED BY <2>1, <2>2 DEF WillHear, rest, o
<1>6. CASE o # Order("+", r) /\ SaysLast(os, r)
  BY <1>4, <1>6 DEF WillHear, rest, o
<1>7. CASE o # Order("+", r) /\ ~SaysLast(os, r)
  <2>1. s[r] > 0 /\ Undisturbed(os, r)
    BY <1>7 DEF WillHear
  <2>2. o # Order("-", r)
    BY <2>1, <1>1 DEF Undisturbed
  <2>3. Obeyed(s, o)[r] = s[r]
    <3>1. o.room # r
      BY <1>1, <1>2, <1>7, <2>2 DEF Orders
    <3> QED BY <3>1 DEF Obeyed, Subscribed, Unsubscribed
  <2>4. Undisturbed(rest, r)
    BY <2>1, <1>1 DEF Undisturbed
  <2> QED BY <2>1, <2>3, <2>4 DEF WillHear, rest, o
<1> QED BY <1>5, <1>6, <1>7

-------------------------------------------------------------------------------
\* Who enters and who leaves a room

\* Only joining, leaving and the checker change the table of rooms.
LEMMA SystemRooms ==
  ASSUME [SystemNext]_systemVars
  PROVE  \/ rooms' = rooms
         \/ JoinClient /\ rooms' = JoinRoom(rooms, req.room, req.user)
         \/ /\ HandleLeaveRoom
            /\ UNCHANGED clientVars
            /\ rooms' = LeaveRoom(rooms, req.room, req.user)
         \/ \E u : rooms' = LeaveRoom(rooms, General, u)
<1>1. ASSUME NEW c \in Names, ClientAlone(c) PROVE rooms' = rooms
  BY <1>1, ClientAloneUnchanged DEF vars
<1>2. ASSUME NEW c \in Names, Deliver(c) PROVE rooms' = rooms
  BY <1>2 DEF Deliver, Receive, ReceiveGarbled
<1>3. TouchClient => rooms' = rooms
  BY DEF TouchClient, Touch
<1>4. JoinClient => rooms' = JoinRoom(rooms, req.room, req.user)
  BY DEF JoinClient, HandleJoinRoom
<1>5. ReplyToClient => rooms' = rooms
  BY DEF ReplyToClient, Reply
<1>6. CheckerStep => rooms' = rooms \/ \E u : rooms' = LeaveRoom(rooms, General, u)
  BY DEF CheckerStep, Scan, EvictFromRoom, EvictSession, NotifyEviction
<1>7. HandleLogin \/ HandleListRooms \/ HandleLogout \/ Publish => rooms' = rooms
  BY DEF HandleLogin, HandleListRooms, HandleLogout, Publish
<1>8. HandleLeaveRoom => rooms' = LeaveRoom(rooms, req.room, req.user)
  BY DEF HandleLeaveRoom
<1>9. TimePasses => rooms' = rooms
  BY DEF TimePasses, Tick
<1>10. UNCHANGED systemVars => rooms' = rooms
  BY DEF systemVars, vars
<1> QED
  BY <1>1, <1>2, <1>3, <1>4, <1>5, <1>6, <1>7, <1>8, <1>9, <1>10, SystemSteps DEF ServerAlone

\* A user enters a room only when its own request to join it, or its login, is handled.
LEMMA Enters ==
  ASSUME Sound, [SystemNext]_systemVars, NEW c \in Names, NEW r \in RoomNames,
         c \in MembersOf(rooms', r), c \notin MembersOf(rooms, r)
  PROVE  JoinClient /\ req.user = c /\ req.room = r
<1>1. IsTable(rooms) /\ req.user \in Names \cup {NoName} /\ req.room \in RoomNames
  BY RequestFields DEF Sound, TypeOK
<1>2. ~\E q, u : rooms' = LeaveRoom(rooms, q, u)
  BY <1>1, LeaveRoomMembers
<1>3. rooms' = JoinRoom(rooms, req.room, req.user) /\ JoinClient
  BY <1>2, SystemRooms
<1>4. req.user # NoName
  BY <1>3 DEF JoinRoom, Rejected
<1> QED BY <1>1, <1>3, <1>4, JoinRoomMembers

\* A user is taken from a room other than General only by its own request to leave it.
LEMMA Leaves ==
  ASSUME Sound, [SystemNext]_systemVars, NEW c \in Names, NEW r \in RoomNames,
         c \in MembersOf(rooms, r), c \notin MembersOf(rooms', r), r # General
  PROVE  HandleLeaveRoom /\ UNCHANGED clientVars /\ req.user = c /\ req.room = r
<1>1. IsTable(rooms) /\ req.user \in Names \cup {NoName} /\ req.room \in RoomNames
  BY RequestFields DEF Sound, TypeOK
<1>2. rooms' # JoinRoom(rooms, req.room, req.user)
  <2>1. CASE req.user = NoName
    BY <2>1 DEF JoinRoom, Rejected
  <2>2. CASE req.user \in Names
    BY <2>2, <1>1, JoinRoomMembers
  <2> QED BY <1>1, <2>1, <2>2
<1>3. ~\E u : rooms' = LeaveRoom(rooms, General, u)
  BY <1>1, LeaveRoomMembers
<1>4. HandleLeaveRoom /\ UNCHANGED clientVars /\ rooms' = LeaveRoom(rooms, req.room, req.user)
  BY <1>2, <1>3, SystemRooms
<1> QED BY <1>1, <1>4, LeaveRoomMembers

\* A request that is being handled is that of a client that waits for its reply, if the
\* user it names is there at all.
LEMMA HandledForUser ==
  ASSUME Sound, RoutingOK, main \notin {"recv", "publish"}, NEW c \in Names, Running(c),
         req.user = c
  PROVE  phase[c] = "served" /\ req = asked[c]
<1>1. rep = "send" /\ served \in Names
  BY DEF Sound, ReplyOwed, TypeOK, RoutingOK, ClientsTypeOK
<1>2. req.user \in {served, NoName}
  BY <1>1 DEF RoutingOK, Asked, Asks, Request
<1> QED BY <1>1, <1>2, NamesAssumption DEF RoutingOK, Running

-------------------------------------------------------------------------------
\* Members listen

Asking(c, kind, r) == asked[c].kind = kind /\ asked[c].room = r

\* The request of the client has been handled.
Finished(c) == phase[c] = "answered" \/ (phase[c] = "served" /\ main = "reply")

\* The inductive form of MembersListen: from the moment a user is a member, the topic
\* is subscribed to, or an order to do so is the last one about it, or will be given
\* when the reply is there; and it is given up only by a client that has left.
Hearing(c) ==
  /\ asked[c].kind = "login" => WillHear(orders[c], subs[c], General)
  /\ \A r \in RoomNames :
       /\ c \in MembersOf(rooms, r) =>
            \/ WillHear(orders[c], subs[c], r)
            \/ r \in kept[c]
            \/ Asking(c, "join", r)
       /\ Finished(c) /\ Asking(c, "leave", r) => c \notin MembersOf(rooms, r)

HearingOK == \A c \in Names : Running(c) => Hearing(c)

\* The steps of a client keep it.
LEMMA HearingOwnStep ==
  ASSUME Sound, RoutingOK, HearingOK, NEW c \in Names, ClientAlone(c), Running(c)'
  PROVE  Hearing(c)'
<1> USE DEF Hearing
<1>a. ClientsTypeOK /\ TypeOK
  BY DEF Sound
<1>b. rooms' = rooms /\ main' = main /\ req' = req
  BY ClientAloneUnchanged DEF vars
<1>1. CASE Start(c)
  <2>1. asked'[c] = Request("login", c, General) /\ phase'[c] = "sent"
    BY <1>1, <1>a DEF Start, ClientsTypeOK
  <2>2. /\ orders'[c] = <<FirstOrder>>
        /\ kept'[c] = {r \in Announced : c \in MembersOf(rooms, r)}
    BY <1>1, <1>a DEF Start, ClientsTypeOK
  <2>3. WillHear(orders'[c], subs'[c], General)
    BY <2>2 DEF WillHear, SaysLast, FirstOrder
  <2> QED BY <1>b, <2>1, <2>2, <2>3 DEF Request, Announced, Finished, Asking
<1>2. CASE Running(c)
  <2> Hearing(c)
    BY <1>2 DEF HearingOK
  <2>1. ASSUME NEW q \in Asks(c), Ask(c, q) PROVE Hearing(c)'
    <3>1. asked[c] = Idle /\ asked'[c] = q /\ phase'[c] = "sent"
      BY <2>1, <1>a DEF Ask, ClientsTypeOK, RoutingOK
    <3>2. orders' = orders /\ subs' = subs /\ kept' = kept
      BY <2>1 DEF Ask
    <3> QED BY <1>b, <3>1, <3>2 DEF Idle, Asks, Asking, Finished
  <2>2. CASE CommandLocal(c)
    BY <2>2, <1>b DEF CommandLocal, Asking, Finished
  <2>3. ASSUME NEW kind, NEW sign \in {"+", "-"}, Instruct(c, kind, sign),
               <<kind, sign>> \in {<<"join", "+">>, <<"leave", "-">>}
        PROVE  Hearing(c)'
    <3> DEFINE room == asked[c].room
    <3>1. /\ orders'[c] = Append(orders[c], Order(sign, room))
          /\ kept'[c] = kept[c] \ {room}
          /\ asked'[c] = Idle /\ phase'[c] = "polling" /\ subs' = subs
          /\ phase[c] = "answered" /\ asked[c].kind = kind
      BY <2>3, <1>a DEF Instruct, ClientsTypeOK
    <3>2. room \in RoomNames
      BY <1>a, RequestFields DEF ClientsTypeOK
    <3>3. \A r \in RoomNames :
            WillHear(orders'[c], subs'[c], r) <=>
              IF room = r THEN sign = "+" ELSE WillHear(orders[c], subs[c], r)
      <4>1. Order(sign, room) \in Orders /\ orders[c] \in Seq(Orders)
        BY <3>2, <1>a DEF Order, Orders, ClientsTypeOK
      <4> QED BY <3>1, <4>1, OrderAppended DEF Order
    <3>4. kind = "leave" => c \notin MembersOf(rooms, room)
      BY <3>1, <3>2 DEF Finished, Asking
    <3> QED BY <1>b, <2>3, <3>1, <3>2, <3>3, <3>4 DEF Idle, Finished, Asking
  <2>4. CASE TakeReply(c)
    <3>1. /\ asked'[c] = Idle /\ phase'[c] = "polling" /\ asked[c].kind # "join"
          /\ UNCHANGED <<orders, subs, kept>>
      BY <2>4, <1>a DEF TakeReply, ClientsTypeOK
    <3> QED BY <1>b, <3>1 DEF Idle, Finished, Asking
  <2>5. CASE HandleCommand(c)
    <3>1. /\ orders[c] # <<>> /\ orders[c] \in Seq(Orders) /\ subs[c] \in [RoomNames -> Nat]
          /\ orders'[c] = Tail(orders[c])
          /\ subs'[c] = Obeyed(subs[c], Head(orders[c]))
          /\ UNCHANGED <<phase, asked, kept>>
      BY <2>5, <1>a DEF HandleCommand, ClientsTypeOK, Obeyed
    <3>2. \A r \in RoomNames :
            WillHear(orders[c], subs[c], r) => WillHear(orders'[c], subs'[c], r)
      BY <3>1, OrderObeyed
    <3> QED BY <1>b, <3>1, <3>2, RoomsAssumption DEF Finished, Asking
  <2>6. ~Exit(c) /\ ~Crash(c)
    BY <1>a DEF Exit, Crash, Running, ClientsTypeOK
  <2>7. ~Start(c)
    BY <1>2 DEF Start, Running
  <2> QED BY <2>1, <2>2, <2>3, <2>4, <2>5, <2>6, <2>7
          DEF ClientAlone, InstructJoin, InstructLeave
<1>3. CASE ~Running(c)
  BY <1>1, <1>3, <1>a
  DEF ClientAlone, Ask, CommandLocal, InstructJoin, InstructLeave, Instruct, TakeReply,
      Exit, Crash, HandleCommand, Running, ClientsTypeOK
<1> QED BY <1>2, <1>3

\* Only the server finishes requests; one to leave is finished when the user has left.
LEMMA FinishedStep ==
  ASSUME Sound, RoutingOK, [SystemNext]_systemVars, NEW c \in Names, Running(c),
         UNCHANGED <<phase[c], asked[c]>>, NEW r \in RoomNames, Asking(c, "leave", r),
         Finished(c)', ~Finished(c)
  PROVE  c \notin MembersOf(rooms', r)
<1>1. phase[c] = "served" /\ main # "reply" /\ main' = "reply"
  BY DEF Finished
<1>2. rep = "send" /\ req = asked[c] /\ req.kind = "leave" /\ req.room = r /\ req.user = c
  BY <1>1, NamesAssumption DEF Sound, TypeOK, RoutingOK, Asking, Asked, Asks, Request
<1>3. HandleLeaveRoom
  <2>1. ASSUME NEW d \in Names PROVE ~ClientAlone(d) /\ ~Deliver(d)
    BY <1>1, <1>2, ClientAloneUnchanged DEF vars, Deliver, Receive, ReceiveGarbled
  <2>2. ~TouchClient
    BY <1>1, <1>2 DEF TouchClient, Touch, AfterTouch
  <2>3. ~JoinClient
    BY <1>2 DEF JoinClient, HandleJoinRoom, Sound, ControlOK
  <2>4. ~ReplyToClient /\ ~TimePasses /\ ~UNCHANGED systemVars
    BY <1>1 DEF ReplyToClient, Reply, TimePasses, Tick, mainVars, systemVars, vars
  <2>5. ~HandleLogin /\ ~HandleListRooms /\ ~HandleLogout /\ ~Publish
    BY <1>1, <1>2
    DEF HandleLogin, HandleListRooms, HandleLogout, Publish, Sound, ControlOK
  <2>6. ~CheckerStep
    BY <1>1 DEF CheckerStep, Scan, EvictFromRoom, EvictSession, NotifyEviction, mainVars
  <2> QED BY <2>1, <2>2, <2>3, <2>4, <2>5, <2>6, SystemSteps DEF ServerAlone
<1> QED BY <1>2, <1>3, LeaveRoomMembers DEF HandleLeaveRoom, Sound, TypeOK

\* The server, the clock and the other clients leave a client's variables alone, but
\* for the progress of its request and what JoinClient and TouchClient note of it.
LEMMA NotOwnStep ==
  ASSUME Sound, RoutingOK, [SystemNext]_systemVars, NEW c \in Names, ~ClientAlone(c), Running(c)'
  PROVE  /\ UNCHANGED <<asked[c], orders[c], subs[c], kept[c]>>
         /\ twice[c] \subseteq twice'[c]
         /\ Running(c)
         /\ \/ phase'[c] = phase[c]
            \/ Deliver(c) /\ phase[c] = "sent" /\ phase'[c] = "served" /\ main = "recv"
            \/ ReplyToClient /\ phase[c] = "served" /\ phase'[c] = "answered" /\ main = "reply"
<1> USE DEF Running
<1>a. ClientsTypeOK
  BY DEF Sound
<1>1. ASSUME NEW d \in Names \ {c}, ClientAlone(d)
      PROVE  UNCHANGED <<phase[c], asked[c], orders[c], subs[c], kept[c], twice[c]>>
  BY <1>1, <1>a
  DEF ClientsTypeOK, ClientAlone, Start, Ask, CommandLocal, InstructJoin, InstructLeave,
      Instruct, TakeReply, Exit, Crash, Gone, HandleCommand
<1>2. ASSUME NEW d \in Names \ {c}, Deliver(d)
      PROVE  UNCHANGED <<phase[c], asked[c], orders[c], subs[c], kept[c], twice[c]>>
  BY <1>2, <1>a DEF ClientsTypeOK, Deliver
<1>3. ASSUME Deliver(c)
      PROVE  /\ phase[c] = "sent" /\ phase'[c] = "served" /\ main = "recv"
             /\ UNCHANGED <<asked[c], orders[c], subs[c], kept[c], twice>>
  BY <1>3, <1>a DEF ClientsTypeOK, Deliver, Receive, ReceiveGarbled
<1>4. ASSUME ReplyToClient
      PROVE  /\ UNCHANGED <<asked[c], orders[c], subs[c], kept[c], twice>>
             /\ \/ phase'[c] = phase[c]
                \/ phase[c] = "served" /\ phase'[c] = "answered" /\ main = "reply"
  BY <1>4, <1>a DEF ClientsTypeOK, ReplyToClient, Reply
<1>5. ASSUME TouchClient \/ JoinClient \/ ServerAlone \/ TimePasses \/ UNCHANGED systemVars
      PROVE  UNCHANGED <<phase, asked, orders, subs, kept>> /\ twice[c] \subseteq twice'[c]
  BY <1>5, <1>a DEF ClientsTypeOK, TouchClient, JoinClient, ServerAlone, TimePasses, systemVars, clientVars
<1> QED BY <1>1, <1>2, <1>3, <1>4, <1>5, SystemSteps

\* Whoever enters a room has asked for it, or logs in.
LEMMA EntersAsked ==
  ASSUME Sound, RoutingOK, [SystemNext]_systemVars, NEW c \in Names, Running(c),
         NEW r \in RoomNames, c \in MembersOf(rooms', r), c \notin MembersOf(rooms, r)
  PROVE  /\ JoinClient /\ phase[c] = "served" /\ req = asked[c]
         /\ Asking(c, "join", r) \/ (asked[c].kind = "login" /\ r = General)
<1>1. JoinClient /\ req.user = c /\ req.room = r
  BY Enters
<1>2. main = "join" /\ req.kind \in {"login", "join"} /\ req \in Requests
  BY <1>1 DEF JoinClient, HandleJoinRoom, Sound, ControlOK
<1>3. phase[c] = "served" /\ req = asked[c]
  BY <1>1, <1>2, HandledForUser
<1>4. req.kind = "login" => req.room = General
  BY <1>2 DEF Requests
<1> QED BY <1>1, <1>2, <1>3, <1>4 DEF Asking

\* From the reply to a request on, membership keeps up with what the client will hear.
LEMMA HearingCorrect == SystemSpec => []HearingOK
<1>1. SystemInit => HearingOK
  BY DEF SystemInit, HearingOK, Running
<1>2. HearingOK /\ RoutingOK /\ Sound /\ [SystemNext]_systemVars => HearingOK'
  <2> SUFFICES ASSUME HearingOK, RoutingOK, Sound, [SystemNext]_systemVars,
                      NEW c \in Names, Running(c)'
               PROVE  Hearing(c)'
    BY DEF HearingOK
  <2>1. CASE ClientAlone(c)
    BY <2>1, HearingOwnStep
  <2>2. CASE ~ClientAlone(c)
    <3>1. Running(c) /\ Hearing(c) /\ UNCHANGED <<asked[c], orders[c], subs[c], kept[c]>>
      BY <2>2, NotOwnStep DEF HearingOK
    <3>2. asked[c].kind = "login" => WillHear(orders[c], subs[c], General)
      BY <3>1 DEF Hearing
    <3>3. ASSUME NEW r \in RoomNames, c \in MembersOf(rooms', r)
          PROVE  WillHear(orders[c], subs[c], r) \/ r \in kept[c] \/ Asking(c, "join", r)
      BY <3>1, <3>2, <3>3, EntersAsked DEF Hearing
    <3>4. ASSUME NEW r \in RoomNames, Asking(c, "leave", r), Finished(c)'
          PROVE  c \notin MembersOf(rooms', r)
      <4>1. CASE Finished(c)
        <5>1. c \notin MembersOf(rooms, r)
          BY <3>1, <3>4, <4>1 DEF Hearing
        <5> QED BY <3>1, <3>4, <5>1, EntersAsked DEF Asking
      <4>2. CASE ~Finished(c) /\ phase'[c] = phase[c]
        BY <3>1, <3>4, <4>2, FinishedStep
      <4>3. CASE Deliver(c) /\ phase'[c] = "served" /\ main = "recv"
        BY <3>4, <4>3 DEF Deliver, Receive, ReceiveGarbled, Handled, Asking, Finished
      <4>4. CASE phase[c] = "served" /\ main = "reply"
        BY <4>1, <4>4 DEF Finished
      <4> QED BY <2>2, <4>1, <4>2, <4>3, <4>4, NotOwnStep
    <3> QED BY <3>1, <3>3, <3>4 DEF Hearing, Asking
  <2> QED BY <2>1, <2>2
<1> QED BY <1>1, <1>2, SoundAlways, RoutingCorrect, PTL DEF SystemSpec

\* A member is shown what is written in its room, once what it was told is done.
THEOREM EveryMemberListens == SystemSpec => []MembersListen
<1>1. HearingOK /\ RoutingOK /\ Sound => MembersListen
  <2> SUFFICES ASSUME HearingOK, RoutingOK, Sound, NEW c \in Names, NEW r \in RoomNames,
                      Settled(c), c \in MembersOf(rooms, r)
               PROVE  subs[c][r] > 0 \/ r \in kept[c]
    BY DEF MembersListen
  <2>1. Hearing(c) /\ asked[c] = Idle /\ orders[c] = <<>>
    BY DEF Settled, HearingOK, RoutingOK, Running
  <2>2. ~SaysLast(orders[c], r)
    BY <2>1 DEF SaysLast
  <2> QED BY <2>1, <2>2 DEF Hearing, WillHear, Asking, Idle
<1> QED BY <1>1, HearingCorrect, SoundAlways, RoutingCorrect, PTL

-------------------------------------------------------------------------------
\* Listeners are members

\* No order subscribes to the topic of r when it is subscribed to.
NeverTwice(os, s, r) ==
  /\ s[r] <= 1
  /\ \A j \in 1..Len(os) : os[j] = Order("+", r) =>
       /\ s[r] = 0 \/ \E k \in 1..j - 1 : os[k] = Order("-", r)
       /\ \A i \in 1..j - 1 : os[i] = Order("+", r) =>
            \E k \in i + 1..j - 1 : os[k] = Order("-", r)

\* An order given to a receiver that will not be subscribed, or to unsubscribe, or about
\* another room, does not make a second subscription.
LEMMA AppendedOnce ==
  ASSUME NEW os \in Seq(Orders), NEW s \in [RoomNames -> Nat], NEW o \in Orders,
         NEW r \in RoomNames, NeverTwice(os, s, r),
         o = Order("+", r) => ~WillHear(os, s, r)
  PROVE  NeverTwice(Append(os, o), s, r)
<1> DEFINE after == Append(os, o)
<1>1. /\ Len(after) = Len(os) + 1
      /\ \A i \in 1..Len(os) : after[i] = os[i]
      /\ after[Len(os) + 1] = o
      /\ Len(os) \in Nat
  BY AppendProperties, LenProperties
<1> HIDE DEF after
<1> SUFFICES ASSUME NEW j \in 1..Len(after), after[j] = Order("+", r)
             PROVE  /\ s[r] = 0 \/ \E k \in 1..j - 1 : after[k] = Order("-", r)
                    /\ \A i \in 1..j - 1 : after[i] = Order("+", r) =>
                         \E k \in i + 1..j - 1 : after[k] = Order("-", r)
  BY DEF NeverTwice, after
<1>2. CASE j \in 1..Len(os)
  BY <1>1, <1>2 DEF NeverTwice
<1>3. CASE j = Len(os) + 1
  <2>1. ~SaysLast(os, r) /\ ~(s[r] > 0 /\ Undisturbed(os, r)) /\ s[r] \in Nat
    BY <1>1, <1>3 DEF WillHear
  <2>2. s[r] = 0 \/ \E k \in 1..j - 1 : after[k] = Order("-", r)
    BY <2>1, <1>1, <1>3 DEF Undisturbed
  <2>3. \A i \in 1..j - 1 : after[i] = Order("+", r) =>
          \E k \in i + 1..j - 1 : after[k] = Order("-", r)
    BY <2>1, <1>1, <1>3 DEF SaysLast
  <2> QED BY <2>2, <2>3
<1> QED BY <1>1, <1>2, <1>3

\* Reading an order keeps it so, and does not make the receiver hear what it will not.
LEMMA ObeyedOnce ==
  ASSUME NEW os \in Seq(Orders), os # <<>>, NEW s \in [RoomNames -> Nat],
         NEW r \in RoomNames, NeverTwice(os, s, r)
  PROVE  LET after == Obeyed(s, Head(os))
         IN  /\ NeverTwice(Tail(os), after, r)
             /\ WillHear(Tail(os), after, r) => WillHear(os, s, r)
<1> DEFINE rest == Tail(os)
<1> DEFINE o == Head(os)
<1> DEFINE after == Obeyed(s, o)
<1>1. /\ Len(rest) = Len(os) - 1
      /\ \A i \in 1..Len(rest) : rest[i] = os[i + 1]
      /\ Len(os) \in Nat \ {0}
      /\ o = os[1]
      /\ o \in Orders
  BY HeadTailProperties, EmptySeq
<1>2. /\ o = Order("+", r) <=> o.sign = "+" /\ o.room = r
      /\ o = Order("-", r) <=> o.sign = "-" /\ o.room = r
      /\ o.room \in RoomNames /\ o.sign \in {"+", "-"} /\ s[r] \in Nat
  BY <1>1 DEF Order, Orders
<1>3. after[r] = CASE o = Order("+", r) -> s[r] + 1
                   [] o = Order("-", r) -> 0
                   [] OTHER -> s[r]
  <2>1. s[r] <= 1
    BY DEF NeverTwice
  <2>2. CASE o = Order("+", r)
    BY <2>2, <1>2 DEF Obeyed, Subscribed, Order
  <2>3. CASE o = Order("-", r)
    BY <2>1, <2>3, <1>2 DEF Obeyed, Unsubscribed
  <2>4. CASE o.room # r
    BY <2>4, <1>2 DEF Obeyed, Unsubscribed, Subscribed
  <2> QED BY <2>2, <2>3, <2>4, <1>2 DEF Order
<1>4. Order("+", r) # Order("-", r)
  BY DEF Order
<1>5. o = Order("+", r) => s[r] = 0
  BY <1>1 DEF NeverTwice
<1>6. s[r] <= 1
  BY DEF NeverTwice
<1> HIDE DEF rest, o, after
<1>7. \A i \in 2..Len(os) : i - 1 \in 1..Len(rest) /\ rest[i - 1] = os[i]
  BY <1>1
<1>8. ASSUME NEW j \in 1..Len(rest), rest[j] = Order("+", r)
      PROVE  after[r] = 0 \/ \E k \in 1..j - 1 : rest[k] = Order("-", r)
  <2>1. os[j + 1] = Order("+", r) /\ j + 1 \in 1..Len(os)
    BY <1>1, <1>8
  <2>2. CASE o = Order("+", r)
    <3>1. PICK k \in 2..j : os[k] = Order("-", r)
      BY <2>1, <2>2, <1>1 DEF NeverTwice
    <3> QED BY <3>1, <1>1, <1>7
  <2>3. CASE o = Order("-", r)
    BY <2>3, <1>3, <1>4
  <2>4. CASE o \notin {Order("+", r), Order("-", r)}
    <3>1. s[r] = 0 \/ \E k \in 1..j : os[k] = Order("-", r)
      BY <2>1 DEF NeverTwice
    <3>2. after[r] = s[r]
      BY <2>4, <1>3
    <3>3. ASSUME NEW k \in 1..j, os[k] = Order("-", r)
          PROVE  \E l \in 1..j - 1 : rest[l] = Order("-", r)
      <4>1. k # 1
        BY <2>4, <3>3, <1>1
      <4>2. k - 1 \in 1..j - 1 /\ rest[k - 1] = os[k]
        BY <4>1, <3>3, <1>1, <1>7
      <4> QED BY <3>3, <4>2
    <3> QED BY <3>1, <3>2, <3>3
  <2> QED BY <2>2, <2>3, <2>4
<1>9. ASSUME NEW j \in 1..Len(rest), rest[j] = Order("+", r),
             NEW i \in 1..j - 1, rest[i] = Order("+", r)
      PROVE  \E k \in i + 1..j - 1 : rest[k] = Order("-", r)
  <2>1. /\ i + 1 \in 1..(j + 1) - 1 /\ os[i + 1] = Order("+", r)
        /\ j + 1 \in 1..Len(os) /\ os[j + 1] = Order("+", r)
    BY <1>1, <1>9
  <2>2. PICK k \in (i + 1) + 1..(j + 1) - 1 : os[k] = Order("-", r)
    BY <2>1 DEF NeverTwice
  <2>3. k - 1 \in i + 1..j - 1 /\ rest[k - 1] = os[k]
    BY <2>1, <2>2, <1>1
  <2> QED BY <2>2, <2>3
<1>10. NeverTwice(rest, after, r)
  BY <1>2, <1>3, <1>4, <1>5, <1>6, <1>8, <1>9 DEF NeverTwice
<1>11. ASSUME WillHear(rest, after, r) PROVE WillHear(os, s, r)
  <2>1. CASE SaysLast(rest, r)
    <3>1. PICK i \in 1..Len(rest) : /\ rest[i] = Order("+", r)
                                   /\ \A j \in i + 1..Len(rest) : rest[j] # Order("-", r)
      BY <2>1 DEF SaysLast
    <3>2. ASSUME NEW j \in (i + 1) + 1..Len(os) PROVE os[j] # Order("-", r)
      <4>1. j - 1 \in i + 1..Len(rest) /\ rest[j - 1] = os[j]
        BY <3>2, <1>1
      <4> QED BY <3>1, <4>1
    <3> QED BY <3>1, <3>2, <1>1 DEF WillHear, SaysLast
  <2>2. CASE after[r] > 0 /\ Undisturbed(rest, r)
    <3>1. o # Order("-", r)
      BY <2>2, <1>3, <1>4
    <3>2. CASE o = Order("+", r)
      <4>1. \A j \in 1 + 1..Len(os) : os[j] # Order("-", r)
        BY <2>2, <1>7 DEF Undisturbed
      <4> QED BY <3>2, <4>1, <1>1 DEF WillHear, SaysLast
    <3>3. CASE o # Order("+", r)
      <4>1. s[r] > 0
        BY <2>2, <3>1, <3>3, <1>3
      <4>2. Undisturbed(os, r)
        BY <2>2, <3>1, <1>1, <1>7 DEF Undisturbed
      <4> QED BY <4>1, <4>2 DEF WillHear
    <3> QED BY <3>2, <3>3
  <2> QED BY <1>11, <2>1, <2>2 DEF WillHear
<1> QED BY <1>10, <1>11 DEF rest, o, after

\* The inductive form of ListenersAreMembers, for a room not joined twice: the topic is,
\* or will be, subscribed to at most once, and then the user is a member or has just left.
Counted(c, r) ==
  /\ NeverTwice(orders[c], subs[c], r)
  /\ WillHear(orders[c], subs[c], r) =>
       /\ r \notin kept[c]
       /\ c \in MembersOf(rooms, r) \/ (Finished(c) /\ Asking(c, "leave", r))
  /\ Finished(c) /\ Asking(c, "join", r) =>
       ~WillHear(orders[c], subs[c], r) /\ c \in MembersOf(rooms, r)

Tracked(c) == RoomNames \ ({General} \cup twice[c])

CountedOK == \A c \in Names : Running(c) => \A r \in Tracked(c) : Counted(c, r)

\* The steps of a client keep it.
LEMMA CountedOwnStep ==
  ASSUME Sound, RoutingOK, CountedOK, NEW c \in Names, ClientAlone(c), Running(c)',
         NEW r \in Tracked(c)'
  PROVE  Counted(c, r)'
<1> USE DEF Counted
<1>a. ClientsTypeOK /\ TypeOK /\ r \in RoomNames /\ r # General
  BY DEF Sound, Tracked
<1>b. rooms' = rooms /\ main' = main /\ req' = req
  BY ClientAloneUnchanged DEF vars
<1>1. CASE Start(c)
  <2>1. /\ orders'[c] = <<FirstOrder>>
        /\ asked'[c] = Request("login", c, General)
        /\ phase'[c] = "sent"
    BY <1>1, <1>a DEF Start, ClientsTypeOK, RoutingOK, Running
  <2>2. subs'[c][r] = 0
    BY <1>1, <1>a DEF Start, ClientsTypeOK, RoutingOK, Running, NoSubscriptions
  <2>3. \A j \in 1..Len(orders'[c]) : orders'[c][j] # Order("+", r)
    BY <2>1, <1>a DEF FirstOrder, Order
  <2> QED BY <2>1, <2>2, <2>3 DEF Request, Finished, Asking, NeverTwice, WillHear, SaysLast
<1>2. CASE Running(c)
  <2>0. ~Exit(c) /\ ~Crash(c) /\ ~Start(c)
    BY <1>2, <1>a DEF Exit, Crash, Running, ClientsTypeOK, Start
  <2>z. twice' = twice
    BY <2>0 DEF ClientAlone, Ask, CommandLocal, InstructJoin, InstructLeave, Instruct,
                TakeReply, HandleCommand
  <2> Counted(c, r)
    BY <1>2, <2>z DEF CountedOK, Tracked
  <2>1. ASSUME NEW q \in Asks(c), Ask(c, q) PROVE Counted(c, r)'
    <3>1. phase[c] = "polling" /\ phase'[c] = "sent"
      BY <2>1, <1>a DEF Ask, ClientsTypeOK
    <3>2. orders' = orders /\ subs' = subs /\ kept' = kept
      BY <2>1 DEF Ask
    <3> QED BY <1>b, <3>1, <3>2 DEF Finished
  <2>2. CASE CommandLocal(c)
    BY <2>2, <1>b DEF CommandLocal, Asking, Finished
  <2>3. ASSUME NEW kind, NEW sign \in {"+", "-"}, Instruct(c, kind, sign),
               <<kind, sign>> \in {<<"join", "+">>, <<"leave", "-">>}
        PROVE  Counted(c, r)'
    <3> DEFINE room == asked[c].room
    <3>1. /\ orders'[c] = Append(orders[c], Order(sign, room))
          /\ kept'[c] = kept[c] \ {room}
          /\ phase'[c] = "polling" /\ subs' = subs
          /\ phase[c] = "answered" /\ asked[c].kind = kind
      BY <2>3, <1>a DEF Instruct, ClientsTypeOK
    <3>2. /\ Order(sign, room) \in Orders /\ Order(sign, room).room = room
          /\ Order(sign, room).sign = sign /\ orders[c] \in Seq(Orders)
          /\ subs[c] \in [RoomNames -> Nat]
      BY <1>a, RequestFields DEF Order, Orders, ClientsTypeOK
    <3>3. WillHear(orders'[c], subs'[c], r) <=>
            IF room = r THEN sign = "+" ELSE WillHear(orders[c], subs[c], r)
      BY <3>1, <3>2, <1>a, OrderAppended
    <3>4. Order(sign, room) = Order("+", r) => ~WillHear(orders[c], subs[c], r)
      BY <2>3, <3>1 DEF Order, Finished, Asking
    <3>5. NeverTwice(orders'[c], subs'[c], r)
      BY <3>1, <3>2, <3>4, <1>a, AppendedOnce
    <3> QED BY <1>b, <2>3, <3>1, <3>3, <3>5 DEF Finished, Asking
  <2>4. CASE TakeReply(c)
    <3>1. /\ phase[c] = "answered" /\ phase'[c] = "polling" /\ asked[c].kind # "leave"
          /\ UNCHANGED <<orders, subs, kept>>
      BY <2>4, <1>a DEF TakeReply, ClientsTypeOK
    <3> QED BY <1>b, <3>1 DEF Finished, Asking
  <2>5. CASE HandleCommand(c)
    <3>1. /\ orders[c] # <<>> /\ orders[c] \in Seq(Orders) /\ subs[c] \in [RoomNames -> Nat]
          /\ orders'[c] = Tail(orders[c])
          /\ subs'[c] = Obeyed(subs[c], Head(orders[c]))
          /\ UNCHANGED <<phase, asked, kept>>
      BY <2>5, <1>a DEF HandleCommand, ClientsTypeOK, Obeyed
    <3>2. /\ NeverTwice(orders'[c], subs'[c], r)
          /\ WillHear(orders'[c], subs'[c], r) => WillHear(orders[c], subs[c], r)
      BY <3>1, <1>a, ObeyedOnce
    <3> QED BY <1>b, <3>1, <3>2 DEF Finished, Asking
  <2> QED BY <2>0, <2>1, <2>2, <2>3, <2>4, <2>5 DEF ClientAlone, InstructJoin, InstructLeave
<1>3. CASE ~Running(c)
  BY <1>1, <1>3, <1>a
  DEF ClientAlone, Ask, CommandLocal, InstructJoin, InstructLeave, Instruct, TakeReply,
      Exit, Crash, HandleCommand, Running, ClientsTypeOK
<1> QED BY <1>2, <1>3

\* What is finished stays finished until the client takes the reply.
LEMMA FinishedStays ==
  ASSUME Sound, RoutingOK, [SystemNext]_systemVars, NEW c \in Names, ~ClientAlone(c),
         Running(c)', Finished(c)
  PROVE  Finished(c)'
<1>1. CASE phase'[c] # phase[c]
  BY <1>1, NotOwnStep DEF Finished
<1>2. CASE phase'[c] = phase[c] /\ phase[c] = "answered"
  BY <1>2 DEF Finished
<1>3. CASE phase'[c] = phase[c] /\ phase[c] = "served" /\ main = "reply"
  <2>1. \A d \in Names : ~Deliver(d)
    BY <1>3 DEF Deliver, Receive, ReceiveGarbled
  <2>2. ~ReplyToClient
    BY <1>3 DEF ReplyToClient, RoutingOK
  <2>3. \A d \in Names : ClientAlone(d) => main' = main
    BY ClientAloneUnchanged DEF vars
  <2>4. main' = main
    BY <1>3, <2>1, <2>2, <2>3, SystemSteps
    DEF TouchClient, Touch, JoinClient, HandleJoinRoom, ServerAlone, HandleLogin,
        HandleLeaveRoom, HandleListRooms, HandleLogout, Publish, CheckerStep, Scan,
        EvictFromRoom, EvictSession, NotifyEviction, mainVars, TimePasses, Tick,
        systemVars, vars
  <2> QED BY <1>3, <2>4 DEF Finished
<1> QED BY <1>1, <1>2, <1>3 DEF Finished

\* A request to join is finished by JoinClient.
LEMMA JoinFinished ==
  ASSUME Sound, RoutingOK, [SystemNext]_systemVars, NEW c \in Names, ~ClientAlone(c),
         Running(c)', asked[c].kind = "join", Finished(c)', ~Finished(c)
  PROVE  JoinClient /\ phase[c] = "served" /\ req = asked[c] /\ req.user = c
<1>1. phase[c] = "served" /\ main # "reply" /\ main' = "reply" /\ phase'[c] = phase[c]
  <2>1. ~(Deliver(c) /\ phase'[c] = "served" /\ main = "recv")
    BY DEF Deliver, Receive, ReceiveGarbled, Handled, Finished
  <2> QED BY <2>1, NotOwnStep DEF Finished
<1>2. rep = "send" /\ req = asked[c] /\ req.kind = "join" /\ req.user = c
  BY <1>1, NamesAssumption DEF Sound, TypeOK, RoutingOK, Asked, Asks, Request
<1>3. JoinClient
  <2>1. ASSUME NEW d \in Names PROVE ~ClientAlone(d) /\ ~Deliver(d)
    BY <1>1, <1>2, ClientAloneUnchanged DEF vars, Deliver, Receive, ReceiveGarbled
  <2>2. ~TouchClient
    BY <1>1, <1>2 DEF TouchClient, Touch, AfterTouch
  <2>3. ~ReplyToClient /\ ~TimePasses /\ ~UNCHANGED systemVars
    BY <1>1 DEF ReplyToClient, Reply, TimePasses, Tick, mainVars, systemVars, vars
  <2>4. ~HandleLogin /\ ~HandleLeaveRoom /\ ~HandleListRooms /\ ~HandleLogout /\ ~Publish
    BY <1>1, <1>2
    DEF HandleLogin, HandleLeaveRoom, HandleListRooms, HandleLogout, Publish, Sound, ControlOK
  <2>5. ~CheckerStep
    BY <1>1 DEF CheckerStep, Scan, EvictFromRoom, EvictSession, NotifyEviction, mainVars
  <2> QED BY <2>1, <2>2, <2>3, <2>4, <2>5, SystemSteps DEF ServerAlone
<1> QED BY <1>1, <1>2, <1>3

\* Subscriptions are no more than memberships, from the reply to a request on.
LEMMA CountedCorrect == SystemSpec => []CountedOK
<1>1. SystemInit => CountedOK
  BY DEF SystemInit, CountedOK, Running
<1>2. CountedOK /\ RoutingOK /\ Sound /\ [SystemNext]_systemVars => CountedOK'
  <2> SUFFICES ASSUME CountedOK, RoutingOK, Sound, [SystemNext]_systemVars,
                      NEW c \in Names, Running(c)', NEW r \in Tracked(c)'
               PROVE  Counted(c, r)'
    BY DEF CountedOK
  <2>1. CASE ClientAlone(c)
    BY <2>1, CountedOwnStep
  <2>2. CASE ~ClientAlone(c)
    <3>1. /\ Running(c) /\ UNCHANGED <<asked[c], orders[c], subs[c], kept[c]>>
          /\ r \in Tracked(c) /\ r \in RoomNames /\ r # General
      BY <2>2, NotOwnStep DEF Tracked
    <3>2. Counted(c, r)
      BY <3>1 DEF CountedOK
    <3>3. Finished(c) => Finished(c)'
      BY <2>2, FinishedStays
    <3>4. ASSUME c \in MembersOf(rooms, r), c \notin MembersOf(rooms', r)
          PROVE  Finished(c)' /\ ~Finished(c) /\ Asking(c, "leave", r)
      <4>1. HandleLeaveRoom /\ UNCHANGED clientVars /\ req.user = c /\ req.room = r
        BY <3>1, <3>4, Leaves
      <4>2. main = "leave" /\ req.kind \in {"leave", "logout"} /\ req \in Requests
        BY <4>1 DEF HandleLeaveRoom, Sound, ControlOK
      <4>3. phase[c] = "served" /\ req = asked[c]
        BY <3>1, <4>1, <4>2, HandledForUser
      <4>4. req.kind = "leave"
        BY <3>1, <4>1, <4>2 DEF Requests
      <4>5. main' = "reply"
        BY <4>1, <4>4 DEF HandleLeaveRoom, Prepare
      <4> QED BY <4>1, <4>2, <4>3, <4>4, <4>5 DEF Finished, Asking, clientVars
    <3>5. ASSUME Finished(c)', Asking(c, "join", r)
          PROVE  ~WillHear(orders[c], subs[c], r) /\ c \in MembersOf(rooms', r)
      <4>1. CASE Finished(c)
        BY <3>2, <3>4, <3>5, <4>1 DEF Counted
      <4>2. CASE ~Finished(c)
        <5>1. JoinClient /\ phase[c] = "served" /\ req = asked[c] /\ req.user = c
          BY <2>2, <3>5, <4>2, JoinFinished DEF Asking
        <5>2. req.room = r /\ req.kind = "join"
          BY <3>5, <5>1 DEF Asking
        <5>3. c \in MembersOf(rooms', r)
          BY <3>1, <5>1, <5>2, JoinRoomMembers DEF JoinClient, HandleJoinRoom, Sound, TypeOK
        <5>4. c \in MembersOf(rooms, r) => r \in kept[c]
          BY <3>1, <5>1, <5>2 DEF JoinClient, JoinsAgain, Tracked
        <5> QED BY <3>2, <4>2, <5>3, <5>4 DEF Counted
      <4> QED BY <4>1, <4>2
    <3>6. WillHear(orders[c], subs[c], r) =>
            c \in MembersOf(rooms', r) \/ (Finished(c)' /\ Asking(c, "leave", r))
      BY <3>2, <3>3, <3>4 DEF Counted
    <3> QED BY <3>1, <3>2, <3>5, <3>6 DEF Counted, Asking
  <2> QED BY <2>1, <2>2
<1> QED BY <1>1, <1>2, SoundAlways, RoutingCorrect, PTL DEF SystemSpec

\* Whoever is shown what is written in a room is a member of it, or of one whose name
\* begins its name, or has joined such a room twice; or the room begins with General.
THEOREM EveryListenerIsMember == SystemSpec => []ListenersAreMembers
<1>1. CountedOK => ListenersAreMembers
  <2> SUFFICES ASSUME CountedOK, NEW c \in Names, NEW r \in RoomNames, Settled(c), Hears(c, r)
               PROVE  \E q \in RoomNames :
                        /\ q = r \/ <<q, r>> \in Begins
                        /\ q = General \/ q \in twice[c] \/ c \in MembersOf(rooms, q)
    BY DEF ListenersAreMembers
  <2>1. PICK q \in RoomNames : subs[c][q] > 0 /\ (q = r \/ <<q, r>> \in Begins)
    BY DEF Hears
  <2>2. WillHear(orders[c], subs[c], q) /\ Running(c) /\ ~Finished(c)
    BY <2>1 DEF Settled, WillHear, Undisturbed, Running, Finished
  <2> QED BY <2>1, <2>2 DEF CountedOK, Counted, Tracked
<1> QED BY <1>1, CountedCorrect, PTL
===============================================================================
