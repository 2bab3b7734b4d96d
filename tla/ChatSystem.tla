------------------------------ MODULE ChatSystem ------------------------------
(***************************************************************************)
(* Clients and server together: the request loop and the heartbeat checker *)
(* of ChatServer, with chat clients in the place of its environment.       *)
(*                                                                         *)
(* A client (one process, known by its username) is its controller thread  *)
(* (chat_client_controller.c), which polls for a command of the user for   *)
(* PingPeriod ticks and else pings, asks the server and waits for the      *)
(* reply; and its receiver thread (chat_client_receiver.c), which          *)
(* subscribes and unsubscribes as the controller orders.  Clients quit,    *)
(* crash, and come back under the same name.                               *)
(*                                                                         *)
(* Two assumptions about time are not the code's: a poll ends when its     *)
(* PingPeriod is over, if not before, and what lies between the end of a   *)
(* poll and the beginning of the next, above all the wait for the reply,   *)
(* takes at most MaxDelay ticks, and none where the server is not asked.   *)
(* The code waits for ever; what is said here about time is said for a     *)
(* given MaxDelay, which the properties name.                              *)
(***************************************************************************)
EXTENDS ChatServer, Sequences, FiniteSets

CONSTANTS
  PingPeriod,   \* the ticks a controller polls before it pings
  MaxDelay,     \* assumption: the ticks from the end of a poll to the next, at most
  Begins,       \* the pairs of rooms <<q, r>> where "room:q" begins "room:r", q # r
  Lurkers,      \* bound: the users who type nothing
  MaxUnheard,   \* bound: commands in a row that do not make the user heard
  MaxOrders,    \* bound: orders that wait for a receiver, its FirstOrder among them
  MaxCount,     \* bound: how often a client subscribes to one topic
  MaxCrashes    \* bound: how often a client crashes

ASSUME SystemAssumption ==
  /\ PingPeriod \in Nat /\ MaxDelay \in Nat
  /\ Begins \subseteq RoomNames \X RoomNames
  /\ Lurkers \subseteq Names
  /\ {MaxUnheard, MaxOrders, MaxCount, MaxCrashes} \subseteq Nat

VARIABLES
  phase,    \* what each client does, see Phases
  asked,    \* the request it has sent last
  served,   \* the client whose request the server handles, or NoName
  idle,     \* the ticks since its controller began to poll, or the poll ended
  unheard,  \* history: polls ended since the server was last told the username
  orders,   \* what its receiver has to do: FirstOrder, and those that wait on the PAIR
  subs,     \* how often its SUB socket is subscribed to the topic of each room
  kept,     \* history: rooms an earlier client of that name is still a member of
  twice,    \* history: rooms it joined while it was a member of them
  crashes   \* history: how often clients of that name have crashed

clientVars == <<phase, asked, served, idle, unheard, orders, subs,
                kept, twice, crashes>>
systemVars == <<vars, clientVars>>

\* "stray" is a client that is gone and whose request is still on its way.
Phases == {"off", "stray", "polling", "sent", "served", "answered"}

Running(c) == phase[c] \notin {"off", "stray"}

Request(k, c, r) == [kind |-> k, user |-> c, room |-> r]

\* handle_room_list leaves the field username of its request empty.
ListRequest == Request("list", NoName, General)

Orders == [sign : {"+", "-"}, room : RoomNames]

Order(s, r) == [sign |-> s, room |-> r]

\* The receiver subscribes to General before it looks at the PAIR.
FirstOrder == Order("+", General)

NoSubscriptions == [r \in RoomNames |-> 0]

SystemInit ==
  /\ Init
  /\ phase = [c \in Names |-> "off"]
  /\ asked = [c \in Names |-> Idle]
  /\ served = NoName
  /\ idle = [c \in Names |-> 0]
  /\ unheard = [c \in Names |-> 0]
  /\ orders = [c \in Names |-> <<>>]
  /\ subs = [c \in Names |-> NoSubscriptions]
  /\ kept = [c \in Names |-> {}]
  /\ twice = [c \in Names |-> {}]
  /\ crashes = [c \in Names |-> 0]

-------------------------------------------------------------------------------
\* The controller

\* The controller sends the login.  The receiver, another thread, subscribes to General
\* (and to the user's own topic) when it gets there: neither waits for the other.  A name
\* is not used again while an old request of it is about.
Start(c) ==
  /\ phase[c] = "off"
  /\ served # c
  /\ phase' = [phase EXCEPT ![c] = "sent"]
  /\ asked' = [asked EXCEPT ![c] = Request("login", c, General)]
  /\ orders' = [orders EXCEPT ![c] = <<FirstOrder>>]
  /\ kept' = [kept EXCEPT ![c] = {r \in Announced : c \in MembersOf(rooms, r)}]
  /\ UNCHANGED <<vars, served, idle, unheard, subs, twice, crashes>>

\* The poll has returned; send_and_recv_env sends a request and will wait for its reply.
Ask(c, q) ==
  /\ phase[c] = "polling"
  /\ phase' = [phase EXCEPT ![c] = "sent"]
  /\ asked' = [asked EXCEPT ![c] = q]
  /\ idle' = [idle EXCEPT ![c] = 0]
  /\ unheard' = [unheard EXCEPT ![c] = @ + 1]
  /\ UNCHANGED <<vars, served, orders, subs, kept, twice, crashes>>

\* The poll has found nothing.
Ping(c) ==
  /\ idle[c] = PingPeriod
  /\ Ask(c, Request("heartbeat", c, General))

\* /join and /leave.  Without its argument the command reads what the buffer holds
\* after it, which may be the name of any room.
CommandJoin(c) ==
  \E r \in RoomNames :
    /\ Len(orders[c]) < MaxOrders
    /\ subs[c][r] + Len(orders[c]) < MaxCount
    /\ Ask(c, Request("join", c, r))

CommandLeave(c) ==
  /\ Len(orders[c]) < MaxOrders
  /\ \E r \in RoomNames : Ask(c, Request("leave", c, r))

CommandMessage(c) == \E k \in {"room_msg", "direct_msg"} : Ask(c, Request(k, c, General))

CommandList(c) ==
  /\ unheard[c] < MaxUnheard
  /\ Ask(c, ListRequest)

\* A text that is not UTF-8, which the server cannot unmarshal.
CommandGarbled(c) == Undecodable /\ Ask(c, Garbled)

\* Faulty variant: the logout carries no username.
QuitNameless(c) == Ask(c, Request("logout", NoName, General))

Quit(c) == Ask(c, Request("logout", c, General))

\* Unknown commands and incomplete messages are answered without the server.
CommandLocal(c) ==
  /\ phase[c] = "polling"
  /\ unheard[c] < MaxUnheard
  /\ idle' = [idle EXCEPT ![c] = 0]
  /\ unheard' = [unheard EXCEPT ![c] = @ + 1]
  /\ UNCHANGED <<vars, phase, asked, served, orders, subs, kept, twice, crashes>>

\* Any acknowledgement, whatever its status, is followed by an order to the receiver.
Instruct(c, kind, sign) ==
  /\ phase[c] = "answered"
  /\ asked[c].kind = kind
  /\ orders' = [orders EXCEPT ![c] = Append(@, Order(sign, asked[c].room))]
  /\ kept' = [kept EXCEPT ![c] = @ \ {asked[c].room}]
  /\ phase' = [phase EXCEPT ![c] = "polling"]
  /\ asked' = [asked EXCEPT ![c] = Idle]
  /\ idle' = [idle EXCEPT ![c] = 0]
  /\ UNCHANGED <<vars, served, unheard, subs, twice, crashes>>

InstructJoin(c) == Instruct(c, "join", "+")

\* Faulty variant: the wrong one of the two formats.
InstructLeaveAsJoin(c) == Instruct(c, "leave", "+")

InstructLeave(c) == Instruct(c, "leave", "-")

\* The other replies are only shown.
TakeReply(c) ==
  /\ phase[c] = "answered"
  /\ asked[c].kind \notin {"join", "leave", "logout"}
  /\ phase' = [phase EXCEPT ![c] = "polling"]
  /\ asked' = [asked EXCEPT ![c] = Idle]
  /\ idle' = [idle EXCEPT ![c] = 0]
  /\ UNCHANGED <<vars, served, unheard, orders, subs, kept, twice, crashes>>

\* The process ends, and with it its sockets.
Gone(c) ==
  /\ idle' = [idle EXCEPT ![c] = 0]
  /\ unheard' = [unheard EXCEPT ![c] = 0]
  /\ orders' = [orders EXCEPT ![c] = <<>>]
  /\ subs' = [subs EXCEPT ![c] = NoSubscriptions]
  /\ kept' = [kept EXCEPT ![c] = {}]
  /\ twice' = [twice EXCEPT ![c] = {}]
  /\ UNCHANGED <<vars, served>>

Exit(c) ==
  /\ phase[c] = "answered"
  /\ asked[c].kind = "logout"
  /\ phase' = [phase EXCEPT ![c] = "off"]
  /\ asked' = [asked EXCEPT ![c] = Idle]
  /\ Gone(c)
  /\ UNCHANGED crashes

\* An end without a logout.  A request on its way may still arrive.
Crash(c) ==
  /\ Running(c)
  /\ c \notin Lurkers
  /\ crashes[c] < MaxCrashes
  /\ \/ /\ phase' = [phase EXCEPT ![c] = "off"]
        /\ asked' = [asked EXCEPT ![c] = Idle]
     \/ /\ phase[c] = "sent"
        /\ phase' = [phase EXCEPT ![c] = "stray"]
        /\ asked' = asked
  /\ crashes' = [crashes EXCEPT ![c] = @ + 1]
  /\ Gone(c)

\* What the user types.
Command(c) ==
  \/ CommandJoin(c)
  \/ CommandLeave(c)
  \/ CommandMessage(c)
  \/ CommandList(c)
  \/ CommandGarbled(c)
  \/ CommandLocal(c)
  \/ Quit(c)

ControllerStep(c) ==
  \/ Start(c)
  \/ Ping(c)
  \/ c \notin Lurkers /\ Command(c)
  \/ InstructJoin(c)
  \/ InstructLeave(c)
  \/ TakeReply(c)
  \/ Exit(c)

-------------------------------------------------------------------------------
\* The receiver

\* Faulty variants: the topic is unsubscribed together with those it begins; and
\* whether it was subscribed to or not.
UnsubscribedAll(s, r) ==
  [q \in RoomNames |-> IF q = r \/ <<r, q>> \in Begins THEN 0 ELSE s[q]]

UnsubscribedBelow(s, r) == [s EXCEPT ![r] = @ - 1]

\* ZMQ_SUBSCRIBE and ZMQ_UNSUBSCRIBE count, topic by topic.
Subscribed(s, r) == [s EXCEPT ![r] = @ + 1]
Unsubscribed(s, r) == [s EXCEPT ![r] = IF @ > 0 THEN @ - 1 ELSE 0]

HandleCommand(c) ==
  /\ Running(c)
  /\ orders[c] # <<>>
  /\ orders' = [orders EXCEPT ![c] = Tail(@)]
  /\ LET o == Head(orders[c]) IN
       subs' = [subs EXCEPT ![c] =
                  IF o.sign = "+" THEN Subscribed(@, o.room) ELSE Unsubscribed(@, o.room)]
  /\ UNCHANGED <<vars, phase, asked, served, idle, unheard, kept, twice, crashes>>

-------------------------------------------------------------------------------
\* The server

Deliver(c) ==
  /\ phase[c] \in {"sent", "stray"}
  /\ req' = asked[c]
  /\ IF asked[c] = Garbled THEN ReceiveGarbled ELSE Receive
  /\ served' = c
  /\ phase' = [phase EXCEPT ![c] = IF @ = "sent" THEN "served" ELSE "off"]
  /\ asked' = IF phase[c] = "sent" THEN asked ELSE [asked EXCEPT ![c] = Idle]
  /\ UNCHANGED <<idle, unheard, orders, subs, kept, twice, crashes>>

TouchClient ==
  /\ Touch
  /\ unheard' = [c \in Names |-> IF c = req.user THEN 0 ELSE unheard[c]]
  /\ UNCHANGED <<phase, asked, served, idle, orders, subs, kept, twice, crashes>>

\* The reply goes to the client that asked, if it is still there.
ReplyToClient ==
  /\ Reply
  /\ phase' = [c \in Names |->
                 IF c = served /\ phase[c] = "served" THEN "answered" ELSE phase[c]]
  /\ served' = NoName
  /\ UNCHANGED <<asked, idle, unheard, orders, subs, kept, twice, crashes>>

\* Joining a room once more changes nothing at the server.
JoinsAgain(c) == c = req.user /\ c \in MembersOf(rooms, req.room) /\ req.room \notin kept[c]

JoinClient ==
  /\ HandleJoinRoom
  /\ twice' = [c \in Names |->
                 IF JoinsAgain(c) /\ Running(c) THEN twice[c] \cup {req.room} ELSE twice[c]]
  /\ UNCHANGED <<phase, asked, served, idle, unheard, orders, subs, kept, crashes>>

ServerStep ==
  \/ TouchClient
  \/ JoinClient
  \/ ReplyToClient
  \/ /\ HandleLogin \/ HandleLeaveRoom \/ HandleListRooms
          \/ HandleLogout \/ Publish \/ CheckerStep
     /\ UNCHANGED clientVars

\* After a request it could not decode the server answers nobody.
Stuck == req.kind = "garbled"

\* The client waits for a reply that does not come.
WaitsInVain(c) == Stuck /\ phase[c] \in {"sent", "served"}

\* The assumptions on time: how long a poll lasts, and what lies between two.
Longest(c) == IF phase[c] = "polling" THEN PingPeriod ELSE MaxDelay

HasTime(c) == ~Running(c) \/ WaitsInVain(c) \/ idle[c] < Longest(c)

TimePasses ==
  /\ \A c \in Names : HasTime(c)
  /\ Tick
  /\ idle' = [c \in Names |->
                IF Running(c) /\ ~WaitsInVain(c) THEN idle[c] + 1 ELSE idle[c]]
  /\ UNCHANGED <<phase, asked, served, unheard, orders, subs, kept, twice, crashes>>

SystemNext ==
  \/ \E c \in Names : ControllerStep(c) \/ Crash(c) \/ HandleCommand(c) \/ Deliver(c)
  \/ ServerStep
  \/ TimePasses

SystemSpec == SystemInit /\ [][SystemNext]_systemVars

-------------------------------------------------------------------------------
\* Properties

\* The clients' variables keep their types (chat_client_controller.c:154-201).
ClientsTypeOK ==
  /\ phase \in [Names -> Phases]
  /\ asked \in [Names -> Requests \cup {Idle, Garbled}]
  /\ served \in Names \cup {NoName}
  /\ idle \in [Names -> Nat]
  /\ unheard \in [Names -> Nat]
  /\ orders \in [Names -> Seq(Orders)]
  /\ subs \in [Names -> [RoomNames -> Nat]]
  /\ kept \in [Names -> SUBSET RoomNames]
  /\ twice \in [Names -> SUBSET RoomNames]
  /\ crashes \in [Names -> Nat]

\* Nothing the client has been told is under way to its receiver or to the server.
Settled(c) == phase[c] = "polling" /\ orders[c] = <<>>

\* A user who is a member of a room is shown what is written there, once the receiver has
\* read its orders: membership, a set of the server, is then not ahead of the
\* subscriptions, a count of the client, but for the rooms in which an earlier client left
\* its name.  Before that it may be: nothing makes the login wait for the receiver thread,
\* and a user who is logged in already misses what is written in General until the
\* receiver has subscribed (chat_client_controller.c:142, 285, 373,
\* chat_client_receiver.c:88, 203).
MembersListen ==
  \A c \in Names, r \in RoomNames :
    Settled(c) /\ c \in MembersOf(rooms, r) => subs[c][r] > 0 \/ r \in kept[c]

\* ØMQ filters by prefix: what the client is shown of the messages written in r.
Hears(c, r) == \E q \in RoomNames : subs[c][q] > 0 /\ (q = r \/ <<q, r>> \in Begins)

\* Conversely, whoever is shown what is written in a room is a member of it or of one
\* whose name begins its name, or has joined one of the two when it was in it already;
\* General is heard on also by a user whom the checker has logged off
\* (chat_client_receiver.c:203, server.go:75).
ListenersAreMembers ==
  \A c \in Names, r \in RoomNames :
    Settled(c) /\ Hears(c, r) =>
      \E q \in RoomNames :
        /\ q = r \/ <<q, r>> \in Begins
        /\ q = General \/ q \in twice[c] \/ c \in MembersOf(rooms, q)

\* The ticks from the beginning of a poll to the beginning of the next, at most.
Cycle == PingPeriod + MaxDelay

Silence(c) == IF c \in DOMAIN lastSeen THEN now - lastSeen[c] ELSE 0

\* When a client polls, the server has heard of it within a MaxDelay and the time of this
\* poll, and a whole Cycle more for each poll that ended in a command without a username,
\* above all /rooms: a ping or a command with it clears the account
\* (chat_client_controller.c:159-196).
SilenceBounded ==
  \A c \in Names :
    phase[c] = "polling" => Silence(c) <= Cycle * unheard[c] + MaxDelay + idle[c]

\* The checker finds a running client dead only after so many commands without a username
\* in a row that a Cycle for each of them, and one for the poll that is on, makes more
\* than the timeout: a client that is idle, or that joins, leaves and writes, is logged
\* off only where delays make a single Cycle longer than that (server.go:69).
EvictsOnlyUnheard ==
  [][\A c \in dead' \ dead :
       Running(c) /\ asked[c].kind # "login" /\ ~WaitsInVain(c) =>
         Cycle * (unheard[c] + 1) > Timeout]_systemVars

\* Commands without the username that c may type in a row, and whether they are so few
\* that a Cycle for each of them, one for the ping and the delay of the ping are within
\* the timeout.
Allowance(c) == IF c \in Lurkers THEN 0 ELSE MaxUnheard
Patient(c) == Cycle * (Allowance(c) + 1) + MaxDelay <= Timeout

\* A user who is logged in, and makes himself heard in time, stays logged in until he logs
\* out: neither the checker with its old list nor the logins, logouts, crashes and stray
\* requests of the others cost him his session or his token, and who joins and leaves
\* nothing stays in General.  If he has crashed before, a list from then can still log him
\* off (server.go:63-104, session.go:51-69).
StaysLoggedIn ==
  \A c \in Names : phase[c] = "polling" /\ Patient(c) /\ crashes[c] = 0 /\ ~Stuck =>
    /\ c \in DOMAIN lastSeen
    /\ TokensOf(users, c) # {}
    /\ c \in Lurkers => c \in MembersOf(rooms, General)

\* No request of a client is refused, so that no order follows an acknowledgement with
\* status ERROR (chat_client_controller.c:285).
NoRefusal == main = "reply" => resp.status = "OK"

\* A session token stays behind only for a client that crashed: one for each crash
\* at most, and one for the client that runs (session.go:51-69).
TokensLeftByCrashes ==
  \A c \in Names :
    Cardinality(TokensOf(users, c)) <= crashes[c] + IF phase[c] = "off" THEN 0 ELSE 1
===============================================================================
