--------------------------- MODULE ChatSystemProofs ---------------------------
(***************************************************************************)
(* Theorems about clients and server together, for any number of clients   *)
(* and rooms, every timeout and ping period, and any values of the bounds. *)
(***************************************************************************)
EXTENDS ChatSystem, ChatServerProofs, SequenceTheorems

-------------------------------------------------------------------------------
\* The server inside the system

\* What a client asks for once it is logged in: requests that carry its name, but for the
\* list of rooms and what the server cannot read.
Asks(c) ==
  {q \in Requests \cup {Garbled} :
     /\ q.kind # "login"
     /\ q.user = c \/ (q.user = NoName /\ q.kind \in {"list", "garbled"})}

\* However a poll ends, the client asks one of these, or answers the line by itself.
LEMMA PollEnds ==
  ASSUME NEW c \in Names, Ping(c) \/ Command(c)
  PROVE  CommandLocal(c) \/ \E q \in Asks(c) : Ask(c, q)
<1> USE RoomsAssumption
<1>1. CASE Ping(c)
  <2>1. Request("heartbeat", c, General) \in Asks(c)
    BY DEF Request, Asks, Requests, Handled
  <2> QED BY <1>1, <2>1 DEF Ping
<1>2. CASE CommandJoin(c)
  <2>1. \A r \in RoomNames : Request("join", c, r) \in Asks(c)
    BY DEF Request, Asks, Requests, Handled
  <2> QED BY <1>2, <2>1 DEF CommandJoin
<1>3. CASE CommandLeave(c)
  <2>1. \A r \in RoomNames : Request("leave", c, r) \in Asks(c)
    BY DEF Request, Asks, Requests, Handled
  <2> QED BY <1>3, <2>1 DEF CommandLeave
<1>4. CASE CommandMessage(c)
  <2>1. \A k \in {"room_msg", "direct_msg"} : Request(k, c, General) \in Asks(c)
    BY DEF Request, Asks, Requests, Handled
  <2> QED BY <1>4, <2>1 DEF CommandMessage
<1>5. CASE CommandList(c)
  <2>1. ListRequest \in Asks(c)
    BY DEF ListRequest, Request, Asks, Requests, Handled
  <2> QED BY <1>5, <2>1 DEF CommandList
<1>6. CASE CommandGarbled(c)
  <2>1. Garbled \in Asks(c)
    BY DEF Garbled, Asks
  <2> QED BY <1>6, <2>1 DEF CommandGarbled
<1>7. CASE Quit(c)
  <2>1. Request("logout", c, General) \in Asks(c)
    BY DEF Request, Asks, Requests, Handled
  <2> QED BY <1>7, <2>1 DEF Quit
<1> QED
  BY <1>1, <1>2, <1>3, <1>4, <1>5, <1>6, <1>7 DEF Command

\* The steps of a client that the server takes no part in.
ClientAlone(c) ==
  \/ Start(c)
  \/ \E q \in Asks(c) : Ask(c, q)
  \/ CommandLocal(c)
  \/ InstructJoin(c)
  \/ InstructLeave(c)
  \/ TakeReply(c)
  \/ Exit(c)
  \/ Crash(c)
  \/ HandleCommand(c)

\* The steps of the server that no client takes part in.
ServerAlone ==
  /\ \/ HandleLogin
     \/ HandleLeaveRoom
     \/ HandleListRooms
     \/ HandleLogout
     \/ Publish
     \/ CheckerStep
  /\ UNCHANGED clientVars

\* The steps of the system, by who takes part in them.
LEMMA SystemSteps ==
  ASSUME [SystemNext]_systemVars
  PROVE  \/ \E c \in Names : ClientAlone(c) \/ Deliver(c)
         \/ TouchClient
         \/ JoinClient
         \/ ReplyToClient
         \/ ServerAlone
         \/ TimePasses
         \/ UNCHANGED systemVars
<1>1. ASSUME NEW c \in Names, ControllerStep(c) PROVE ClientAlone(c)
  BY <1>1, PollEnds DEF ControllerStep, ClientAlone
<1> QED BY <1>1 DEF SystemNext, ServerStep, ServerAlone, ClientAlone

\* Clients leave the server's variables to the server.
LEMMA ClientAloneUnchanged ==
  ASSUME NEW c \in Names, ClientAlone(c)
  PROVE  UNCHANGED <<vars, served>>
BY DEF ClientAlone, Start, Ask, CommandLocal, InstructJoin, InstructLeave, Instruct, TakeReply,
       Exit, Crash, Gone, HandleCommand

\* The server behaves as it does with any environment: all that is proved of ChatServer
\* holds of the server inside the system.
THEOREM SystemRunsServer == SystemSpec => Spec
<1>1. SystemInit => Init
  BY DEF SystemInit
<1>2. [SystemNext]_systemVars => [Next]_vars
  <2> SUFFICES ASSUME [SystemNext]_systemVars PROVE [Next]_vars
    OBVIOUS
  <2>1. ASSUME NEW c \in Names, ClientAlone(c) PROVE UNCHANGED vars
    BY <2>1, ClientAloneUnchanged
  <2>2. ASSUME NEW c \in Names, Deliver(c) PROVE Next
    BY <2>2 DEF Deliver, Next
  <2>3. CASE TouchClient \/ JoinClient \/ ReplyToClient
    BY <2>3 DEF TouchClient, JoinClient, ReplyToClient, Next, HandlerStep
  <2>4. CASE ServerAlone
    BY <2>4 DEF ServerAlone, Next, HandlerStep
  <2>5. CASE TimePasses
    BY <2>5 DEF TimePasses, Next
  <2>6. CASE UNCHANGED systemVars
    BY <2>6 DEF systemVars
  <2> QED BY <2>1, <2>2, <2>3, <2>4, <2>5, <2>6, SystemSteps
<1> QED BY <1>1, <1>2, PTL DEF SystemSpec, Spec

-------------------------------------------------------------------------------
\* Types

\* A step of a client keeps the types of the clients' variables.
LEMMA ClientAloneTypes ==
  ASSUME ClientsTypeOK, TypeOK, NEW c \in Names, ClientAlone(c)
  PROVE  ClientsTypeOK'
<1> USE SystemAssumption DEF ClientsTypeOK
<1>0. served' = served
  BY ClientAloneUnchanged
<1>1. CASE Start(c)
  <2>1. Request("login", c, General) \in Requests
    BY DEF Request, Requests, Handled
  <2>2. <<FirstOrder>> \in Seq(Orders)
    BY RoomsAssumption DEF FirstOrder, Order, Orders
  <2>3. {r \in Announced : c \in MembersOf(rooms, r)} \in SUBSET RoomNames
    BY DEF Announced
  <2> QED BY <1>1, <2>1, <2>2, <2>3, RoomsAssumption DEF Start, Phases
<1>2. ASSUME NEW q \in Asks(c), Ask(c, q) PROVE ClientsTypeOK'
  BY <1>2 DEF Ask, Asks, Phases
<1>3. CASE CommandLocal(c)
  BY <1>3 DEF CommandLocal
<1>4. CASE InstructJoin(c) \/ InstructLeave(c)
  <2>1. asked[c].room \in RoomNames
    BY RequestFields
  <2>2. PICK s \in {"+", "-"} :
          /\ orders' = [orders EXCEPT ![c] = Append(@, Order(s, asked[c].room))]
          /\ kept' = [kept EXCEPT ![c] = @ \ {asked[c].room}]
          /\ phase' = [phase EXCEPT ![c] = "polling"]
          /\ asked' = [asked EXCEPT ![c] = Idle]
          /\ idle' = [idle EXCEPT ![c] = 0]
          /\ UNCHANGED <<vars, served, unheard, subs, twice, crashes>>
    BY <1>4 DEF InstructJoin, InstructLeave, Instruct
  <2>3. Order(s, asked[c].room) \in Orders
    BY <2>1 DEF Order, Orders
  <2> QED BY <2>2, <2>3 DEF Phases
<1>5. CASE TakeReply(c)
  BY <1>5 DEF TakeReply, Phases
<1>6. CASE Exit(c)
  BY <1>6 DEF Exit, Gone, Phases, NoSubscriptions
<1>7. CASE Crash(c)
  <2>1. phase' \in [Names -> Phases] /\ asked' \in [Names -> Requests \cup {Idle, Garbled}]
    BY <1>7 DEF Crash, Phases
  <2>2. crashes' \in [Names -> Nat]
    BY <1>7 DEF Crash
  <2> QED BY <1>7, <2>1, <2>2 DEF Crash, Gone, NoSubscriptions
<1>8. CASE HandleCommand(c)
  <2>1. orders[c] # <<>> /\ orders[c] \in Seq(Orders)
    BY <1>8 DEF HandleCommand
  <2>2. Head(orders[c]) \in Orders /\ Tail(orders[c]) \in Seq(Orders)
    BY <2>1, HeadTailProperties
  <2>3. ASSUME NEW r \in RoomNames
        PROVE  /\ Subscribed(subs[c], r) \in [RoomNames -> Nat]
               /\ Unsubscribed(subs[c], r) \in [RoomNames -> Nat]
    <3>1. subs[c] \in [RoomNames -> Nat]
      OBVIOUS
    <3>2. subs[c][r] \in Nat /\ (subs[c][r] > 0 => subs[c][r] - 1 \in Nat)
      BY <3>1
    <3> QED BY <3>1, <3>2 DEF Subscribed, Unsubscribed
  <2>4. Head(orders[c]).room \in RoomNames
    BY <2>2 DEF Orders
  <2> QED BY <1>8, <2>2, <2>3, <2>4 DEF HandleCommand
<1> QED
  BY <1>1, <1>2, <1>3, <1>4, <1>5, <1>6, <1>7, <1>8 DEF ClientAlone

\* The clients' variables keep their types.
THEOREM ClientsTypeCorrect == SystemSpec => []ClientsTypeOK
<1>1. SystemInit => ClientsTypeOK
  BY SystemAssumption DEF SystemInit, ClientsTypeOK, Phases, NoSubscriptions
<1>2. ClientsTypeOK /\ TypeOK /\ [SystemNext]_systemVars => ClientsTypeOK'
  <2> SUFFICES ASSUME ClientsTypeOK, TypeOK, [SystemNext]_systemVars PROVE ClientsTypeOK'
    OBVIOUS
  <2> USE DEF ClientsTypeOK
  <2>1. ASSUME NEW c \in Names, ClientAlone(c) PROVE ClientsTypeOK'
    BY <2>1, ClientAloneTypes
  <2>2. ASSUME NEW c \in Names, Deliver(c) PROVE ClientsTypeOK'
    BY <2>2 DEF Deliver, Phases
  <2>3. CASE TouchClient
    BY <2>3 DEF TouchClient
  <2>4. CASE JoinClient
    <3>1. req.room \in RoomNames
      BY RequestFields DEF TypeOK
    <3> QED BY <2>4, <3>1 DEF JoinClient
  <2>5. CASE ReplyToClient
    BY <2>5 DEF ReplyToClient, Phases
  <2>6. CASE ServerAlone
    BY <2>6 DEF ServerAlone, clientVars
  <2>7. CASE TimePasses
    BY <2>7 DEF TimePasses
  <2>8. CASE UNCHANGED systemVars
    BY <2>8 DEF systemVars, clientVars
  <2> QED BY <2>1, <2>2, <2>3, <2>4, <2>5, <2>6, <2>7, <2>8, SystemSteps
<1> QED BY <1>1, <1>2, SystemRunsServer, TypeCorrect, PTL DEF SystemSpec

-------------------------------------------------------------------------------
\* Requests and replies find their way

Asked(c) == Asks(c) \cup {Request("login", c, General)}

\* The reply that is owed is owed to the client whose request was received last, which
\* waits for it unless it is gone; what the server handles is what this client asked.
RoutingOK ==
  /\ rep = "recv" <=> served = NoName
  /\ served \in Names => phase[served] \in {"served", "off"} /\ req \in Asked(served)
  /\ \A c \in Names :
       /\ phase[c] = "served" => served = c /\ req = asked[c]
       /\ IF phase[c] \in {"off", "polling"} THEN asked[c] = Idle ELSE asked[c] \in Asked(c)
       /\ ~Running(c) => orders[c] = <<>> /\ subs[c] = NoSubscriptions /\ kept[c] = {}

\* What every step of the system may rely on.
Sound == TypeOK /\ ControlOK /\ ReplyOwed /\ ClientsTypeOK

LEMMA SoundAlways == SystemSpec => []Sound
BY SystemRunsServer, TypeCorrect, ControlCorrect, ReplyOwedAlways, ClientsTypeCorrect, PTL
DEF Sound

\* What the server does between receiving and replying touches neither the socket nor
\* the clients, but for dropping a request that is done with.
LEMMA ServerAloneRouting ==
  ASSUME ServerAlone, ReplyOwed, TypeOK
  PROVE  /\ rep' = rep
         /\ UNCHANGED clientVars
         /\ req' = req \/ rep = "recv"
BY DEF ServerAlone, ReplyOwed, TypeOK, HandleLogin, HandleLeaveRoom, HandleListRooms,
       HandleLogout, Publish, CheckerStep, Scan, EvictFromRoom, EvictSession, NotifyEviction, mainVars

\* Requests and replies are not mixed up by clients that crash and return.
LEMMA RoutingCorrect == SystemSpec => []RoutingOK
<1>1. SystemInit => RoutingOK
  BY NamesAssumption DEF SystemInit, Init, RoutingOK
<1>2. RoutingOK /\ Sound /\ [SystemNext]_systemVars => RoutingOK'
  <2> SUFFICES ASSUME RoutingOK, Sound, [SystemNext]_systemVars PROVE RoutingOK'
    OBVIOUS
  <2> USE DEF RoutingOK, Running
  <2>t. ClientsTypeOK
    BY DEF Sound
  <2>1. ASSUME NEW c \in Names, ClientAlone(c) PROVE RoutingOK'
    <3>a. UNCHANGED <<rep, req, served>>
      BY <2>1, ClientAloneUnchanged DEF vars
    <3>b. \A d \in Names \ {c} : /\ phase'[d] = phase[d] /\ asked'[d] = asked[d]
                                 /\ orders'[d] = orders[d] /\ subs'[d] = subs[d]
                                 /\ kept'[d] = kept[d]
      BY <2>1, <2>t
      DEF ClientsTypeOK, ClientAlone, Start, Ask, CommandLocal, InstructJoin, InstructLeave,
          Instruct, TakeReply, Exit, Crash, Gone, HandleCommand
    <3>c. /\ phase'[c] = "served" => phase[c] = "served" /\ asked'[c] = asked[c]
          /\ served = c => phase'[c] \in {"served", "off"}
          /\ IF phase'[c] \in {"off", "polling"}
             THEN asked'[c] = Idle
             ELSE asked'[c] \in Asked(c)
          /\ phase'[c] \in {"off", "stray"} =>
               orders'[c] = <<>> /\ subs'[c] = NoSubscriptions /\ kept'[c] = {}
      BY <2>1, <2>t
      DEF ClientsTypeOK, ClientAlone, Start, Ask, CommandLocal, InstructJoin, InstructLeave,
          Instruct, TakeReply, Exit, Crash, Gone, HandleCommand, Asked
    <3> QED BY <3>a, <3>b, <3>c
  <2>2. ASSUME NEW c \in Names, Deliver(c) PROVE RoutingOK'
    <3>1. rep = "recv" /\ rep' = "send"
      BY <2>2 DEF Deliver, Receive, ReceiveGarbled
    <3>2. \A d \in Names : phase[d] # "served"
      BY <3>1, NamesAssumption
    <3> QED BY <2>2, <2>t, <3>1, <3>2, NamesAssumption DEF Deliver, ClientsTypeOK
  <2>3. CASE TouchClient
    BY <2>3 DEF TouchClient, Touch
  <2>4. CASE JoinClient
    BY <2>4 DEF JoinClient, HandleJoinRoom
  <2>5. CASE ReplyToClient
    BY <2>5, <2>t, NamesAssumption DEF ReplyToClient, Reply, ClientsTypeOK
  <2>6. CASE ServerAlone
    BY <2>6, ServerAloneRouting, NamesAssumption DEF clientVars, Sound
  <2>7. CASE TimePasses
    BY <2>7 DEF TimePasses, Tick, mainVars
  <2>8. CASE UNCHANGED systemVars
    BY <2>8 DEF systemVars, clientVars, vars
  <2> QED BY <2>1, <2>2, <2>3, <2>4, <2>5, <2>6, <2>7, <2>8, SystemSteps
<1> QED BY <1>1, <1>2, SoundAlways, PTL DEF SystemSpec

-------------------------------------------------------------------------------
\* No refusals

\* The server handles no request that it could refuse, and has refused none.
NothingToRefuse ==
  /\ main # "recv" /\ served # NoName => req.user # NoName \/ req.kind = "list"
  /\ NoRefusal

\* What a client asks, once received, is not refused at once.
LEMMA AskedIsHandled ==
  ASSUME NEW c \in Names, NEW q \in Asked(c), q # Garbled
  PROVE  /\ q.user # NoName \/ q.kind = "list"
         /\ q.kind # "unknown"
BY NamesAssumption DEF Asked, Asks, Request, Requests, Handled, Garbled

\* No request of a client is refused.
THEOREM NothingRefused == SystemSpec => []NoRefusal
<1>1. SystemInit => NothingToRefuse
  BY DEF SystemInit, Init, NothingToRefuse, NoRefusal
<1>2. NothingToRefuse /\ RoutingOK /\ Sound /\ [SystemNext]_systemVars => NothingToRefuse'
  <2> SUFFICES ASSUME NothingToRefuse, RoutingOK, Sound, [SystemNext]_systemVars
               PROVE  NothingToRefuse'
    OBVIOUS
  <2> USE DEF NothingToRefuse, NoRefusal
  <2>1. ASSUME NEW c \in Names, ClientAlone(c) PROVE NothingToRefuse'
    BY <2>1, ClientAloneUnchanged DEF vars
  <2>2. ASSUME NEW c \in Names, Deliver(c) PROVE NothingToRefuse'
    <3>1. asked[c] \in Asked(c) /\ asked[c].user = req'.user /\ asked[c].kind = req'.kind
      BY <2>2 DEF RoutingOK, Deliver
    <3>2. CASE asked[c] = Garbled
      BY <2>2, <3>2 DEF Deliver, ReceiveGarbled, Sound, ReplyOwed
    <3>3. CASE asked[c] # Garbled
      BY <2>2, <3>1, <3>3, AskedIsHandled DEF Deliver, Receive
    <3> QED BY <3>2, <3>3
  <2>3. CASE TouchClient
    BY <2>3 DEF TouchClient, Touch, Ack
  <2>4. CASE JoinClient
    BY <2>4 DEF JoinClient, HandleJoinRoom, Prepare, Rejected, Ack, Sound, ControlOK, ReplyOwed,
                RoutingOK, Locations
  <2>5. CASE ReplyToClient
    BY <2>5 DEF ReplyToClient, Reply
  <2>6. CASE ServerAlone
    <3>1. UNCHANGED clientVars /\ rep' = rep
      BY <2>6, ServerAloneRouting DEF Sound
    <3>2. main # "recv" \/ UNCHANGED <<main, req, resp>>
      BY <2>6
      DEF ServerAlone, HandleLogin, HandleLeaveRoom, HandleListRooms, HandleLogout, Publish,
          CheckerStep, Scan, EvictFromRoom, EvictSession, NotifyEviction, mainVars
    <3>3. main' # "recv" /\ served' # NoName => req'.user # NoName \/ req'.kind = "list"
      BY <2>6, <3>1, <3>2, NamesAssumption
      DEF ServerAlone, HandleLogin, HandleLeaveRoom, HandleListRooms, HandleLogout, Publish,
          CheckerStep, Scan, EvictFromRoom, EvictSession, NotifyEviction, mainVars, clientVars,
          Sound, ReplyOwed, RoutingOK
    <3>4. NoRefusal'
      BY <2>6
      DEF ServerAlone, HandleLogin, HandleLeaveRoom, HandleListRooms, HandleLogout, Publish,
          CheckerStep, Scan, EvictFromRoom, EvictSession, NotifyEviction, mainVars, Prepare,
          Ack, Listing, Sound, ControlOK, ReplyOwed, RoutingOK, Locations
    <3> QED BY <3>3, <3>4
  <2>7. CASE TimePasses
    BY <2>7 DEF TimePasses, Tick, mainVars
  <2>8. CASE UNCHANGED systemVars
    BY <2>8 DEF systemVars, clientVars, vars
  <2> QED BY <2>1, <2>2, <2>3, <2>4, <2>5, <2>6, <2>7, <2>8, SystemSteps
<1> QED BY <1>1, <1>2, SoundAlways, RoutingCorrect, PTL DEF SystemSpec, NothingToRefuse
===============================================================================
