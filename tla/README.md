# zmqchat: a verification project

zmqchat is a chat over ZeroMQ: a server in Go (`src/zmqchatserver`) and a terminal client in
C (`src/zmqchatclient`). This directory holds TLA+ models of both, the TLC configurations
that check them on small instances, and proofs, checked by TLAPS, of what matters most about
each.

    tlc -config ChatServer_both.cfg ChatServer.tla           # one run
    tlapm ChatServerProofs.tla                               # the proofs about the server

The other modules of proofs are `ChatSystemProofs`, `SubscriptionProofs`, `SilenceProofs`,
`PresenceProofs`, `ClientThreadsProofs`, `StoppingProofs` and `TopicBusProofs`.

## 1. The system

### Components

| Component | Source | State it keeps | Operations |
|---|---|---|---|
| Room manager | `server/room.go` | map of rooms to their members, one lock | JoinRoom, LeaveRoom, GetRoomsInfo |
| Session manager | `server/session.go` | map of tokens to users, map of users to the time last heard of, one lock | CreateSession, TouchUser, RemoveUser, GetDeadUsers |
| Request loop | `server/server.go` Start, handleEnvelope, handle* | the REP socket: whose turn it is | login, join, leave, list, room and direct message, heartbeat, logout |
| Heartbeat checker | `server/server.go` StartHeartbeatChecker | the list of dead users it works through | scan every two seconds; per user: leave General, drop the session, notify |
| Bus | `server/socket.go` PublishTopicEnvelope, `chat_client_receiver.c` | PUB and SUB sockets: frames under way | publish two frames, receive two frames |
| Client main thread | `chat_client.c` | self-pipe of the signals, PUB of the KILL messages | wait for a signal, publish KILL three times, join, destroy the context |
| Client ui thread | `chat_client_ui.c` | its PAIRs to the controller and from the receiver | take a line, wait for its answer, show notifications |
| Client controller thread | `chat_client_controller.c` | REQ socket, PAIRs to the ui and the receiver | login, ping, commands, logout |
| Client receiver thread | `chat_client_receiver.c` | SUB socket, PAIRs | forward what is published, subscribe and unsubscribe on command |
| Message frames, queue helpers | `utils/zmq_utils.c` | a fixed table of frames | not called by the chat client |
| Socket wrappers, logger, schema, debugging reader, start-up | the rest | none of interest | see "What is not modelled" |

### How they interact

- A client's controller sends a request on its REQ socket and waits, without a timeout, for
  the reply of the server's request loop (REP). REP alternates strictly between receive and
  send.
- The request loop and the heartbeat checker are two goroutines. They share both tables,
  each method of which takes its manager's lock, and the PUB socket, which nobody locks. An
  operation of either is several locked calls: the other goroutine may run in between.
- The server publishes a notification or a message as a topic frame and a payload frame; a
  client's SUB socket filters by its first frame.
- In the client four threads talk over inproc sockets: KILL messages (PUB/SUB) from main to
  all, and PAIRs ui-controller, controller-receiver, receiver-ui whose sends and receives
  block. Each loop polls, and then works through what the poll found.

### What is hard here, and what makes each part correct

- *Tables under two goroutines.* A room that is empty is deleted, except General; every step
  lets one user into or out of one room at most; a snapshot taken under a lock and used
  after it (the list of dead users, the list of rooms) may be old but not otherwise wrong;
  the notifications agree with the table; a silent user is logged off, and a user who is
  heard of in time is not.
- *REP.* Every path through a handler replies exactly once. One path that does not stops the
  server for everybody.
- *The bus.* Two frames make a message only if nobody else sends in between, and the
  receiver counts frames in pairs, waiting for the second of a pair without a look at
  anything else.
- *The client's threads.* Each line is answered once, by its own answer; the threads stop in
  an order main depends on; a blocking send or receive whose other end has gone never
  returns; a KILL message that comes after the poll waits for the next one.
- *Client and server together.* A subscription is a counted prefix while a membership is an
  element of a set, and the two are changed by different processes; a ping is sent by an
  idle client only, once the reply to its last request is there; a client that crashes
  leaves its name and its token behind; the login and the first subscription are the work of
  two threads, neither of which waits for the other.
- *Signals.* SIGINT may be handled in any thread and makes its blocking call fail: the ui
  and the controller poll again, the receiver leaves, and a reply that was not received
  leaves a REQ socket that can send nothing more.

The 36 hazards, each at its line, are listed in `PROJECT.json` together with the properties
that would catch them.

## 2. Modules

    Usernames <- Rooms ---\
    Usernames <- Sessions --> ChatServer <- ChatServerClaims    (TLC, refuted claims)
                              |  |   \----- ChatServerProofs    (TLAPS)
                              |  \ implements RoomDirectory
                              |
                              ChatSystem <- MCChatSystem        (TLC)
                                     \----- ChatSystemClaims    (TLC, a refuted claim)
                                     \----- ChatSystemProofs <- SubscriptionProofs
                                                             <- SilenceProofs
                                                                <- PresenceProofs (TLAPS)
    TopicBus       <- TopicBusProofs        implements TopicFeed
    ClientThreads  <- ClientThreadsProofs <- StoppingProofs    implements UserConsole

| Module | What it models | How it corresponds to the code |
|---|---|---|
| `Usernames` | the names requests carry | the empty name is apart, since every method compares with it |
| `Rooms` | `RoomManager` | a table is a function from the rooms that exist to sets of members (the Go map); one operator per method |
| `Sessions` | `SessionManager` | two functions (the two maps); one operator per method; `WithoutOneToken` is the set of results RemoveUser can have, as Go ranges over a map in any order; tokens have the resolution of one second |
| `ChatServer` | request loop and heartbeat checker | one action per locked call or use of a socket; see below |
| `RoomDirectory` | what the server promises about membership | pairs (room, user); a step adds or removes at most one |
| `ChatServerClaims` | what comments, names and log messages say and the code does not do | one property each |
| `ChatSystem` | clients beside the server, over its clock | the actions of `ChatServer`, whose requests come from controllers (poll, request, reply, order) and whose notifications go to receivers (subscribe, unsubscribe); see below |
| `ChatSystemClaims` | what the server's comments say of its clients | one property |
| `ClientThreads` | the client's four threads | one action per iteration step: poll, take one ready item, send, receive; one per thread for a call that a signal interrupts |
| `UserConsole` | what the client promises to whoever types | one line at a time is waited for, and the answer shown is the answer to it, until the client stops answering for good |
| `TopicBus` | PUB/SUB and the receiver, frame by frame | one action per `Send`, one per `socket_sub_recv` |
| `TopicFeed` | what a subscriber may expect | in order, once, only its topics |
| `*Proofs` | the proofs about each | |

**ChatServer.** `main` is where the request loop is, `checker` where the other goroutine is.
A request runs `Receive`, then `Touch` (TouchUser, for every request but logout), the
handler's calls, `Reply` and `Publish` in the order of its code: a logout publishes before
it replies, the others after. `rep` is the state of the REP socket, so that a second receive
without a reply is impossible, and not merely avoided. The environment chooses any request
at any time: that is what the clients can do together. `ReceiveGarbled` is the `continue`
after an unmarshal error. `told` and `scanned` are history variables: the members of each
room as the notifications tell them, and the time of the scan. `dead` is a set: the code's
list has no duplicates, coming from the keys of a map, and no fixed order.

**ChatSystem.** It extends `ChatServer` and leaves its actions as they are; `Deliver` sets
the request the loop receives to what a client has asked. A client is a username with its
controller (`phase`, `asked`, `idle`: for how many ticks it has polled) and its receiver
(`orders` on the PAIR, `subs` of the SUB socket). What a command needs of the server it asks
for; /join and /leave then give an order to the receiver, which is another step. A command
without an argument reads what is in the buffer behind it, so that the name is any of
`RoomNames`, and the request and the order carry the same one. `Crash` ends a client at any
moment without a logout, and leaves a request on its way or takes it along; `Start` brings a
client back under the name, once no old request of it is about: its controller sends the
login while its receiver has still to subscribe to General (`FirstOrder`, the head of its
orders), whenever that thread gets there.

Of time two things are assumed that the code does not say: a poll ends when its two seconds
are over, and what lies between the end of a poll and the beginning of the next, above all
the wait for the reply, takes `MaxDelay` ticks at most. The code waits for ever, so that
whatever is said about silence and the timeout is said for a given `MaxDelay`: the
properties name it (`Cycle` is a poll and a delay), the proofs leave it open, and a run
gives it a value. The safety of subscriptions, tokens and memberships depends on it in
nothing. A client whose request follows one that the server could not decode waits outside
this clock (`WaitsInVain`). `unheard`, `kept`, `twice` and `crashes` are history variables;
only the bound of `CommandList` and `CommandLocal` (`MaxUnheard`) and that of `Crash` look
at them.

**ClientThreads.** A poll fixes what is ready (`uiReady`, `ctlReady`, `rcvReady`), and the
items are taken in the order of the code (KILL first). A send on a PAIR whose peer has
closed either blocks until a signal interrupts it or, until the socket has noticed, takes
the message and loses it: both are alternatives, in each of the four such sends: a line
(`UiSendsLine`), an order (`CtlInstructs`), a notification (`RcvForwardsChat`), and an
answer (`CtlAnswers`) whose ui no longer waits for it, because the signal has interrupted
that wait, and has left. `net` holds frames: `RcvTakesTopic` receives one, and from "data"
`RcvForwardsChat` receives the next, for which it waits without a look at the KILL messages;
neither looks at RCVMORE. With "torn" among the events the frames of two of the server's
goroutines may mix (`Arrivals`), and what arrives are three frames or none, as `bus_deaf`
shows of `TopicBus`. The set `Events` chooses what the environment does (lines, /quit, end
of input, Ctrl+C, other users' messages, replies that cannot be unpacked, a server that
stops, all of it before the threads have subscribed); each run names its events. With
"eintr" among them the signal's handler may run in any thread, as POSIX has it, and that
thread's blocking call fails (`RcvInterrupted`, `UiInterrupted`, `CtlInterrupted`); a poll
that is repeated needs no action. `server = "broken"` is a REQ socket that sent and did not
receive: `Asks` fails from then on, while the request it sent may still be handled
(`ServerAnswersLate`). There is one signal in a behaviour, the first: that is a bound.

**TopicBus.** A message is its place in `log`; a frame is its part and its message. A ØMQ
message ends with the first frame sent without SNDMORE and is filtered by its first frame,
so that two interleaved publications make one message of three frames and one of one. libzmq
promises nothing when two threads are inside calls on one socket at the same time; the model
is of the best case, in which calls do not overlap.

## 3. Runs

Passing runs.

| Run | Checks | Shows |
|---|---|---|
| `server` | TypeOK, RoomsWellFormed, BusAgrees, OneReply, ListingComplete, ListOnlyStale, NobodySpared, ImplementsDirectory, SilentUserLoggedOff, RequestAnswered | the tables, replies and notifications under every interleaving of loop and checker; a silent user is logged off or heard of; a request that can be decoded is answered, also where others cannot |
| `client_safety` | TypeOK, LinesAnsweredOnce, LoggedOutOnExit, ImplementsConsole | with every event of the environment but interrupted calls and torn messages; the four threads together are a `UserConsole` |
| `client_liveness` | LinesAnsweredOnce, LoggedOutOnExit, WaitsNowhereElse, OnlyKnownHangs, LineAnswered, StopsUnlessHung | with interrupted calls and torn messages, too: lines are answered while the server and the controller are there; an interrupted wait leaves one line behind and no more; a client that was told to stop ends, or hangs in one of the five ways of `Hung` and in no other; the places where a thread waits are those named, and when all wait after a signal it is in one of those five ways; it logs out unless an interrupted call has broken its REQ socket |
| `clients_and_rooms` | ClientsTypeOK, MembersListen, ListenersAreMembers, NoRefusal, EvictsOnlyUnheard | clients with every command, crashes and returns, beside the server and its evictions: subscriptions against membership |
| `clients_in_time` | SilenceBounded, EvictsOnlyUnheard, StaysLoggedIn, TokensLeftByCrashes | the same clients with requests that take as long as a poll, and undecodable ones: pings and delays against the timeout, sessions and tokens against crashes and old lists of dead users |
| `bus_one_publisher` | TypeOK, Aligned, NothingLost, ImplementsFeed, EveryMessageShown | with one publisher the two-frame protocol is the subscriber's feed, and loses nothing |

Refuted claims, each checked by a run of its own that TLC must find violated:

| Run | The claim | What happens |
|---|---|---|
| `timeout_all_rooms` | "remove user from all rooms" (server.go:74) | the checker takes the user out of General only |
| `unwatched_member` | the background loop checks connections (server.go:62) | a login between the checker's two steps leaves a member of General without an entry in lastSeen, whom no later scan finds |
| `undecodable_request` | requests are answered, unknown ones with "unknown request type" (server.go:140) | after an unmarshal error the REP socket owes a reply for ever |
| `busy_user` | the loop is for "checking dead connections" (server.go:62) | a user who lists the rooms three times, each time within two seconds of the last, is logged off while the client runs: /rooms carries no username and puts off the ping |
| `stop_by_quit` | "/quit - wyjście" (chat_client_ui.c:23) | the ui leaves first, and the notification of the client's own logout blocks the receiver on the closed PAIR |
| `bus_deaf` | a message is a topic frame and a payload frame (socket.go:75, 79) | two publishers interleave; the receiver takes topics for payloads from then on |

`Hung` is the list of what keeps the client from stopping, complete by `client_liveness` for
every event except a signal before the threads have subscribed: (1) a thread blocked in a
send to a thread that has left; (2) the receiver waiting for the second frame of a message
that was torn; (3) the ui waiting for an answer of a controller that has left
(KILL_CONTROLLER read first, or a reply that could not be unpacked); (4) the controller
waiting for the reply of a server that is gone; (5) the log socket left open by a failed
login (for which an interrupted login is enough). A signal that comes before a thread has
subscribed is outside the list: its KILL message is lost, and the thread goes on as before.
`client_safety` includes such a start.

What else the models make visible, in definitions that follow the code and not its comments:
`WithoutOneToken` (RemoveUser stops at the first of several tokens), `Rejected` (JoinRoom
tests the username twice and the name of the room never), `ListOnlyStale` (a user heard of
after the scan is logged off all the same: the property says that this is the only way for
the list to be wrong), `UiHandlesKill` (all three threads stop on KILL_CONTROLLER), `kept`
and `twice` in `MembersListen` and `ListenersAreMembers` (the exceptions are behaviours: a
client that returns is a member of rooms it does not hear, and whoever joins a room twice
and leaves it once still hears it), `RcvInterrupted` (of the three loops only the receiver's
ends on EINTR). `StaysLoggedIn` excepts users who have crashed, and needs to: a client that
comes back while the checker works off a list from before its return logs in, gets its
acknowledgement, and is logged off after that.

### Bounds

- *Server*: two users, General and one more room, Timeout 1 tick, two ticks to a second, a
  clock of 3 values, undecodable requests (1.3 million states). Two users are enough for
  every race between the one the checker logs off and the one the loop serves; a second room
  is where empty rooms are deleted; within three ticks a user is heard of, found dead, and
  heard of again before and during the eviction, and two logins share a token or do not. The
  clock stops at `MaxTime`, which loses nothing for `SilentUserLoggedOff`: it speaks of
  users already expired. The proofs take all of the bounds away for the safety properties.
- *Clients and rooms*: a user who types and crashes once, a second who only pings
  (`Lurkers`), General and a room whose name begins its name, one command in a row that is
  not heard (`MaxUnheard`), one order at a time (`MaxOrders`), two subscriptions to a topic
  (`MaxCount`), Timeout and PingPeriod of one tick, no delay, a clock of 3 values within one
  second (5.3 million states). Each of the exceptions in the properties (`kept`, `twice`,
  General, the receiver that has not caught up) happens within these bounds: without it TLC
  finds the property violated.
- *Clients in time*: the same two users and General only, polls and delays of a tick each,
  one command in a row that is not heard, and the shortest timeout for which the user who
  types it is `Patient`: two cycles and a delay, five ticks, of a clock of 7 values (9.7
  million states). With a timeout of four ticks he is not, and TLC shows him logged off.
- *Busy user*: the program's own times, with a tick of two seconds: Timeout is three ticks,
  PingPeriod one; replies come at once. It takes three commands the server does not hear of,
  each typed within two seconds of the last: then the timeout of six seconds is over.
  `OnlyTheDeadAreLoggedOff` proves the other side, and what it leaves is little: the claim
  holds where delays are at most two seconds and no such command is typed, at most two
  thirds of a second and never two are typed in a row, or no delays at all and never three.
- *Client, safety*: two lines and one message of another user (5.1 million states). Two
  lines are needed for an answer to be taken for that of the line before it; more messages
  only lengthen queues of which the threads look at the head. That no signal interrupts a
  call is what `ImplementsConsole` needs; a torn message changes nothing for the lines, and
  the other run has them.
- *Client, liveness*: one line and one message, with every event but the early start (1.3
  million states): to hang takes one line or one message, as each of the cases of `Hung`
  shows. That the answer to an interrupted line reaches the wait for the next one takes two
  lines: `EachLineAnsweredOnce` proves `LinesAnsweredOnce` for any number of them.
- *Bus*: four messages, three topics of which the client has two. An interleaving needs two
  messages, its consequences the next two.

`CHECK_DEADLOCK FALSE` stands where the system can really stop: in the server after an
undecodable request with the clock at its bound, in the client when the threads wait for
each other (which is what `Hung` lists), among the clients when the clock is at its bound or
a request could not be decoded, and on the bus when all messages are out.

### Fairness

- Server: `WF_vars(HandlerStep)` and `WF_vars(CheckerStep)`. Goroutines that can run are
  scheduled, locks are held for short and bounded computations, and the ticker fires every
  two seconds for ever. Nothing is assumed of the clients (`Receive`) or of the clock.
- Client: weak fairness of each thread, and of the answer of a server that runs: by
  `RequestAnswered` it does answer. Nothing is assumed of the user, the signals or other
  clients; a thread whose location is "blocked" has no step, and fairness asks for none.
- Bus: weak fairness of the receiver, and of the second frame of a message begun.

## 4. What is proved

Each module of proofs is about any values of the constants, but where a theorem names a
condition on them; the assumptions are those the modules name (`NamesAssumption`,
`RoomsAssumption`, `TicksAssumption`, `ServerAssumption`, `SystemAssumption`,
`EventsAssumption`, `BusAssumption`), and TLC evaluates each in the runs.

### The server

`ChatServerProofs` proves, for any sets of users and rooms, any Timeout, an unbounded clock
(any `MaxTime`) and with or without undecodable requests:

| Theorem | Property |
|---|---|
| `TypeCorrect` | `TypeOK`: in particular the empty name gets into no table |
| `RoomsAreWellFormed` | `RoomsWellFormed`: General exists, no other room is empty |
| `EveryHandlerRepliesOnce` | `OneReply` |
| `BusFollowsTable` | `BusAgrees` |
| `ServerImplementsDirectory` | `ImplementsDirectory`: the refinement of `RoomDirectory` |
| `DeadListOnlyStale` | `ListOnlyStale` |
| `DeadListComplete` | `NobodySpared`: the list of dead users misses nobody either |
| `ListingMissesNobody` | `ListingComplete` |
| `MembersWatchedIfApart` | `MembersWatched`, if `[]Apart` |

The argument. Lemmas about `JoinRoom` and `LeaveRoom` say what each does to the type of a
table, to its members and to its well-formedness; they are what the steps cite. On top of
`TypeOK` stand five strengthenings, since none of the properties is inductive alone:

- `ControlOK` ties the location of each goroutine to the request or the victim it works on:
  without it, nothing says that `HandleLogout` runs for a user with a name, or that the
  request at "join" is a login or a join.
- `ReplyOwed` says in which locations a reply is owed and in which it has been sent:
  `publish` comes after the reply for a join and before it for a logout.
- `BusWillAgree` says what `told` will be once the request under way has been published: the
  table changes several steps before the notification.
- `SnapshotsOK` says that the scan is not in the future (`NobodySpared` stands on that too:
  a heartbeat that comes after the scan is no older than it), and that what a list of rooms
  misses cannot come into being while the loop has not replied: only the loop adds members,
  the checker only removes them.
- `WatchedOK` says that a member of General is in `lastSeen` also in the middle of a handler
  or of an eviction, that a user who is about to join is there already, and that one who is
  about to be forgotten has left General. One step breaks it: a join of the user the checker
  is logging off. `Apart` excludes that step and nothing else, and is the other side of the
  finding of `unwatched_member`: the checker holding a lock over its two calls, and a
  handler the same lock over its own, would ensure it. A lock around the checker's calls
  alone would not: with an old list, all of an eviction can fall between a handler's
  TouchUser and its JoinRoom.

### Clients and server

`ChatSystemProofs`, `SubscriptionProofs`, `SilenceProofs` and `PresenceProofs`, for any
clients, rooms, prefixes, times and bounds:

| Theorem | Property |
|---|---|
| `SystemRunsServer` | `Spec` of ChatServer: the clients are one of its environments, so that all that is proved of the server holds of the system |
| `ClientsTypeCorrect` | `ClientsTypeOK` |
| `NothingRefused` | `NoRefusal` |
| `EveryMemberListens` | `MembersListen` |
| `EveryListenerIsMember` | `ListenersAreMembers` |
| `SilenceIsBounded` | `SilenceBounded` |
| `OnlyUnheardEvicted` | `EvictsOnlyUnheard` |
| `OnlyTheDeadAreLoggedOff` | `OnlyDeadLoggedOff`, if every request can be decoded and `(PingPeriod + MaxDelay) * (MaxUnheard + 1) + MaxDelay <= Timeout` |
| `OnlyCrashesLeaveTokens` | `TokensLeftByCrashes` |
| `PatientUserStaysLoggedIn` | `StaysLoggedIn` |

The properties speak of a client between two commands, and a command goes through the
client, the server and the client again, so that none is inductive. `RoutingOK` says whose
request the server works on and where that client is. `HearingOK` and `CountedOK` follow a
join or a leave on its way: what the subscriptions will be once the orders that wait have
been obeyed, the receiver's first one included, and once the order that the request under
way will lead to has. `EveryMemberListens` is therefore about a client whose receiver has
caught up; it makes no login wait for that. `IdleOK` is what the two assumptions on time say
of a client: it polls for `PingPeriod` ticks and is away for `MaxDelay` at most. On it
`SilenceOK` bounds the time since the server last heard of a client by the polls it has
ended, their delays and the one it is in, also while a request is under way. `UnheardOK`
says that a sign of life is put off by at most as many commands as the user may type in a
row (`Allowance`) and the poll that the request with the username has ended, and where that
request then is; it takes a logout apart, which the server does not count as one. With
`SilenceOK` it gives the other side of the finding of `busy_user`: a condition on polls,
delays and commands together. `TokensOK` counts the token of a login under way, and that of
a logout whose removal is still to come.

`PatientUserStaysLoggedIn` is about everybody at once: the user's own requests at every
point of the loop, the other users' requests, the checker between the three steps of any
eviction, and the clock. `PresentOK` says, for a user who has not crashed and is patient
(`Patient`: a cycle for each command he may type in a row, one for the ping and the delay of
the ping are within the timeout), that he is on no list of dead users and is not its victim,
and what is true of him wherever he is in his session (`Present`): he has an entry in
`lastSeen` unless he is `Absent`, a token from the step of his login that creates it
(`Entering` is before that), and, if he types nothing, his place in General from the step
that joins it. That a scan does not find him comes from `SilenceOK` and `UnheardOK`; that no
removal takes his tokens from `Named`, which says that a token belongs to the name it
spells; that nobody takes a user who types nothing out of General from `LurkersPing`. The
three facts about the list, that nobody is on it without a reason (`ListOnlyStale`), that
nobody is missing (`NobodySpared`), and that a patient user never is on it, are what can be
said of the eviction from the three sides.

### The client's threads

`ClientThreadsProofs` and `StoppingProofs`, for any numbers of lines and messages and, but
for the provisos, any events:

| Theorem | Property |
|---|---|
| `TypeCorrect` | `TypeOK` |
| `ControllerLogsOut` | `LoggedOutOnExit` |
| `EachLineAnsweredOnce` | `LinesAnsweredOnce`, interrupted calls and torn messages included |
| `ThreadsImplementConsole` | `ImplementsConsole`: the refinement of `UserConsole`, provided that signals interrupt no calls |
| `HangsOnlyAsKnown` | `OnlyKnownHangs`, provided that no signal comes before the threads have subscribed |

`Typed` adds to the types that what a poll found is still there when it is taken; without it
a thread might take the head of an empty queue. `ExchangeOK` ties the REQ/REP exchange to
where the controller is; `JoinedOK` says which threads have left where main is; `LineOK`
counts the places where a line can be (`Places`: on the PAIR, in the controller's hands,
answered and on its way back): one while the ui waits, or none where the controller can
answer no more; none while it does not; and one more (`GivenUpLines`) once the one signal
has interrupted a wait, for the line that wait was for. That the count never rises but by a
line the user sends (`LineSent`), and falls only as the ui takes an answer or the controller
closes (`LineTaken`, `FewerPlaces`), is proved step by step. The proviso of
`ThreadsImplementConsole` is needed: after an interrupted wait the answer comes to a ui that
no longer waits for it, or waits for that to the next line.

`ThreadsImplementConsole` says more than that the ends of the PAIR stay in step: the answer
on its way is to the line the user typed last. The mapping takes the wait of the ui for
`waiting`, the line on the PAIR or in the controller's hands (`OpenLine`) for `line`, the
answer on the PAIR for `answer`, and a controller that can answer no more (`CtlGone`) for
`closed`. Three of the threads' steps are steps of the console: sending a line (`Enter`),
the controller's answer (`Answer`) and its reading (`Show`); each way in which the
controller leaves its loop, or blocks on the receiver, is a `Close`, which alone may drop
the line it works on; everything else, from the pings to the KILL messages, is a stutter.
The induction stands on `LineOK`, `Typed` and `SocketOK` (no reply is left on the REQ
socket).

`HangsOnlyAsKnown` is the safety half of `StopsUnlessHung`: it says of every state in which
main, the three threads and the server all wait after a signal that the process has ended or
that the state is one of `Hung`, the sends to a thread that has left and the wait for the
second frame of a torn message included. `WaitsNowhereElse`, which speaks of ENABLED and
stays with TLC, says that the places named as waits are all of them. The induction is on
`KillOK`: once main has sent a KILL message, whoever has not left or is not about to leave
has one to read. It stands on `StartedOK` (nobody types or signals before all threads have
subscribed, which is where the proviso comes in), on `CallOK` (a controller that waits for a
reply has asked for it, and after the logout it asks for nothing more), on `JoinedOK` and on
`Typed`. What remains is a case for each of main's three joins.

### The bus

`TopicBusProofs`, for any publishers, topics, subscriptions and number of messages:

| Theorem | Property |
|---|---|
| `TypeCorrect` | `TypeOK` |
| `ReceiverInStep` | `Aligned`, if `[]Exclusive` |
| `BusLosesNothing` | `NothingLost`, if `[]Exclusive` |
| `BusImplementsFeed` | `ImplementsFeed`, if `[]Exclusive`: the refinement of `TopicFeed` |
| `ReceiverInStepAlone`, `BusImplementsFeedAlone` | the same for one publisher, without a condition |

`Exclusive` says that no two publishers are between their two frames at once. The code does
not ensure it (`bus_deaf`); with one publisher it holds by itself, and with any number a
lock around `PublishTopicEnvelope` would ensure it, so that the theorems say that such a
lock is all the bus lacks. `BegunOK` says what is on the PUB socket while somebody's message
is begun and that nothing is when nobody's is, `WholeOK` that what waits on the SUB socket
ends with a whole message, `OrderOK` that its payloads are wanted, were sent, come in order
and after what has been shown: from that each `ReceiveData` is a `Show` of the feed.
`NothingLost` follows messages the other way, from the log to the user: the receiver drops
what it takes for a payload and is none, and alignment is what says that this never is a
message.

### Only model-checked

Liveness (`SilentUserLoggedOff`, `RequestAnswered`, `LineAnswered`, `StopsUnlessHung`,
`EveryMessageShown`) and `WaitsNowhereElse`: the prover does not reach fairness and ENABLED.
Every other property of a passing run has a theorem, the three refinements
(`ImplementsDirectory`, `ImplementsConsole`, `ImplementsFeed`) included. The claims are
false, each as a run shows; for two of them (`OnlyDeadLoggedOff`, `MembersWatched`) a
condition is proved under which they hold.

## 5. What is not modelled, and why

- *High-water marks and slow joiners on PUB/SUB*: ØMQ drops messages for a subscriber that
  is full or not yet connected. Nothing in the code depends on it, except the KILL messages
  (modelled).
- *Texts*: what is printed, logged or formatted, message identifiers and time stamps.
- *Start-up and failing system calls*: creating sockets, connecting, the prompt for the
  name, the creation of the pipe. They come before the initial states.
- *Message frames and queue helpers* (`zmq_messages.c`, `zmq_utils.c`): dead code. They are
  linked with the chat client, and nothing in the program calls them.
- *Socket wrappers* (`zmq_sockets.c`): one libzmq call each; the models speak of the
  sockets. The two that subscribe are in `ChatSystem`.
- *A server that restarts*: the code has no recovery. Its tables are gone; a client's REQ
  goes on waiting, as for a server that stops (`ServerStops`).
- *Two clients under one name*, and a client that comes back under a name while a request of
  the last one is on its way: the requests are among those of `ChatServer`, the clients are
  not among those of `ChatSystem`.
- *Names longer than the buffers* of the controller (127 characters of an order) and of the
  receiver, and the buffer of the C library between stdin and the ui's poll.
- *The debugging reader*, which nothing calls, and `sendOkResponse`/`sendErrorResponse`.

## 6. Plan

Done: the server with its runs, claims and proofs; the client's threads, with interrupted
calls; the bus; clients and server together. What could still be added:

1. Two clients under one name, whose properties would be those of `ChatSystem` by client
   instead of by name.
2. A second signal in `ClientThreads`, which would interrupt the threads that the first one
   left hanging.
3. The threads of `ClientThreads` in the place of the controllers of `ChatSystem`, so that
   the receiver's two PAIRs, and what a torn message does to it, meet the server's tables.
