----------------------------- MODULE ClientThreads -----------------------------
(***************************************************************************)
(* The four threads of the chat client (src/client/chat_client*.c) and the *)
(* inproc sockets between them:                                            *)
(*                                                                         *)
(*   main        waits for a signal, publishes the KILL messages and joins *)
(*   ui          reads the user's lines, waits for the answer to each      *)
(*   controller  turns a line into a request, waits for the server's reply *)
(*   receiver    forwards what the server publishes to the ui              *)
(*                                                                         *)
(* A thread's loop polls its sockets, which fixes what is ready, and then  *)
(* takes the ready ones in the order of its code: what arrives meanwhile   *)
(* waits for the next poll.  Sends and receives on a PAIR are blocking,    *)
(* and end without success when a signal interrupts them.                  *)
(* The log sockets are left out: they never block.                         *)
(***************************************************************************)
EXTENDS Naturals, Sequences

CONSTANTS
  Events,    \* what the environment does: see AllEvents
  MaxLines,  \* bound: the lines the user types
  MaxChat    \* bound: the messages of other users the server publishes

AllEvents ==
  {"type",         \* the user types commands
   "quit",         \* the user types /quit
   "eof",          \* the user's input ends, Ctrl+D
   "ctrl_c",       \* SIGINT or SIGTERM
   "eintr",        \* the signal is handled in any thread, and interrupts its blocking call
   "early",        \* all this possibly before every thread has subscribed
   "traffic",      \* other users write
   "torn",         \* the server's goroutines publish at once, and their frames mix
   "bad_reply",    \* a reply cannot be unpacked
   "server_stop"}  \* the server stops

ASSUME EventsAssumption ==
  /\ Events \subseteq AllEvents
  /\ MaxLines \in Nat
  /\ MaxChat \in Nat

VARIABLES
  main, ui, ctl, rcv,           \* where each thread is
  uiReady, ctlReady, rcvReady,  \* what its last poll found, and is still to be taken
  signal,    \* the self-pipe is readable
  inbox,     \* the KILL messages each thread has not read
  stdin,     \* the user's next line
  toCtl,     \* PAIR controller-ui, the lines
  toUi,      \* PAIR controller-ui, the answers
  toRcv,     \* PAIR controller-receiver: how many commands
  notes,     \* PAIR ui-notifications: how many messages
  net,       \* SUB: the frames of published messages the receiver has not read
  command,   \* what the controller does for whom
  server,    \* the REQ/REP exchange: "idle", "asked", or the reply "ok", "bad"; "broken"
             \* once the controller has not waited for the reply
  up,        \* the server is running
  late,      \* the request nobody waits for, on its way to the server, or "none"
  session,   \* the server has a session of this client
  lines,     \* the lines typed so far
  chat       \* the messages of other users so far

uiVars == <<ui, uiReady>>
ctlVars == <<ctl, ctlReady, command>>
rcvVars == <<rcv, rcvReady>>
serverVars == <<server, up, late, session>>
userVars == <<stdin, lines, chat>>
vars == <<main, ui, ctl, rcv, uiReady, ctlReady, rcvReady, signal, inbox, stdin, toCtl,
          toUi, toRcv, notes, net, command, server, up, late, session, lines, chat>>

Threads == {"ui", "controller", "receiver"}

\* /msg and /dm differ in the text of their answers only; "usage" stands for every line
\* that is answered without a request.
Commands == {"rooms", "join", "leave", "msg", "usage"}

\* What the controller gives up on, leaving its loop, when the reply cannot be unpacked.
GivenUp == {"rooms", "join", "leave"}

Init ==
  /\ main = "wait"
  /\ ui = "start" /\ ctl = "start" /\ rcv = "start"
  /\ uiReady = {} /\ ctlReady = {} /\ rcvReady = {}
  /\ signal = FALSE
  /\ inbox = [t \in Threads |-> <<>>]
  /\ stdin = "none"
  /\ toCtl = <<>> /\ toUi = <<>> /\ toRcv = 0 /\ notes = 0 /\ net = <<>>
  /\ command = "none"
  /\ server = "idle" /\ up = TRUE /\ late = "none" /\ session = FALSE
  /\ lines = 0 /\ chat = 0

-------------------------------------------------------------------------------
\* The main thread

Location(t) == CASE t = "ui" -> ui [] t = "controller" -> ctl [] t = "receiver" -> rcv

\* A PUB socket sends to those who have subscribed and are still there; every thread
\* subscribes to all the messages.
Published(message) ==
  [t \in Threads |-> IF Location(t) \in {"start", "done"}
                     THEN inbox[t]
                     ELSE Append(inbox[t], message)]

MainGoes(from, to) == main = from /\ main' = to

MainOthers == UNCHANGED <<uiVars, ctlVars, rcvVars, signal, userVars, toCtl, toUi, toRcv,
                          notes, net, serverVars>>

\* The byte stays in the pipe: nobody reads it.
MainWakes == signal /\ MainGoes("wait", "kill_controller") /\ inbox' = inbox /\ MainOthers

MainKillsController ==
  /\ MainGoes("kill_controller", "kill_receiver")
  /\ inbox' = Published("KILL_CONTROLLER")
  /\ MainOthers

MainKillsReceiver ==
  /\ MainGoes("kill_receiver", "join_receiver")
  /\ inbox' = Published("KILL_RECEIVER")
  /\ MainOthers

MainJoinsReceiver ==
  rcv = "done" /\ MainGoes("join_receiver", "join_controller") /\ inbox' = inbox /\ MainOthers

MainJoinsController ==
  ctl = "done" /\ MainGoes("join_controller", "kill_ui") /\ inbox' = inbox /\ MainOthers

MainKillsUi ==
  /\ MainGoes("kill_ui", "join_ui")
  /\ inbox' = Published("KILL_UI")
  /\ MainOthers

MainJoinsUi ==
  ui = "done" /\ MainGoes("join_ui", "terminate") /\ inbox' = inbox /\ MainOthers

\* The controller leaves its log socket open when the login fails.
LogSocketLeaked == ctl = "done" /\ command = "login"

\* zmq_ctx_destroy waits until every socket is closed.
MainTerminates ==
  ~LogSocketLeaked /\ MainGoes("terminate", "done") /\ inbox' = inbox /\ MainOthers

MainStep ==
  \/ MainWakes \/ MainKillsController \/ MainKillsReceiver \/ MainJoinsReceiver
  \/ MainJoinsController \/ MainKillsUi \/ MainJoinsUi \/ MainTerminates

-------------------------------------------------------------------------------
\* The ui thread

UiOthers == UNCHANGED <<main, ctlVars, rcvVars, lines, chat, toRcv, net, serverVars>>

\* The rest of this turn of the loop, once item is taken care of.
UiGoesOn(item) ==
  /\ uiReady' = uiReady \ {item}
  /\ ui' = IF uiReady' = {} THEN "poll" ELSE "turn"

UiLeaves(to) == ui' = to /\ uiReady' = {}

UiStarts ==
  /\ ui = "start"
  /\ UiLeaves("poll")
  /\ UNCHANGED <<signal, inbox, stdin, toCtl, toUi, notes>> /\ UiOthers

UiFinds == {i \in {"kill", "note", "stdin"} :
              \/ i = "kill" /\ inbox["ui"] # <<>>
              \/ i = "note" /\ notes > 0
              \/ i = "stdin" /\ stdin # "none"}

UiPolls ==
  /\ ui = "poll" /\ UiFinds # {}
  /\ ui' = "turn" /\ uiReady' = UiFinds
  /\ UNCHANGED <<signal, inbox, stdin, toCtl, toUi, notes>> /\ UiOthers

\* handle_shutdown_message compares with KILL_CONTROLLER, in this thread too.
UiHandlesKill ==
  /\ ui = "turn" /\ "kill" \in uiReady
  /\ inbox' = [inbox EXCEPT !["ui"] = Tail(@)]
  /\ IF Head(inbox["ui"]) = "KILL_CONTROLLER" THEN UiLeaves("exit") ELSE UiGoesOn("kill")
  /\ UNCHANGED <<signal, stdin, toCtl, toUi, notes>> /\ UiOthers

UiShowsNote ==
  /\ ui = "turn" /\ "note" \in uiReady /\ "kill" \notin uiReady
  /\ notes' = notes - 1
  /\ UiGoesOn("note")
  /\ UNCHANGED <<signal, inbox, stdin, toCtl, toUi>> /\ UiOthers

UiAtStdin == ui = "turn" /\ uiReady = {"stdin"}

UiHitsEof ==
  /\ UiAtStdin /\ stdin = "eof"
  /\ UiLeaves("exit")
  /\ UNCHANGED <<signal, inbox, stdin, toCtl, toUi, notes>> /\ UiOthers

\* The line is sent, or lost.
UiLineLeaves == stdin' = "none" /\ UiLeaves(IF stdin = "quit" THEN "raise" ELSE "await")

\* A send on a PAIR whose peer has closed blocks until a signal interrupts it, since no
\* thread opens its end again; until the socket has noticed, the message is taken and lost.
UiSendsLine ==
  /\ UiAtStdin /\ stdin \notin {"none", "eof"}
  /\ \/ ctl # "done" /\ toCtl' = Append(toCtl, stdin) /\ UiLineLeaves
     \/ ctl = "done" /\ toCtl' = toCtl /\ stdin' = stdin /\ UiLeaves("blocked")
     \/ ctl = "done" /\ toCtl' = toCtl /\ UiLineLeaves
  /\ UNCHANGED <<signal, inbox, toUi, notes>> /\ UiOthers

UiRaisesSigint ==
  /\ ui = "raise"
  /\ signal' = TRUE
  /\ UiLeaves("exit")
  /\ UNCHANGED <<inbox, stdin, toCtl, toUi, notes>> /\ UiOthers

\* The answer to a line; there is no timeout, and no look at the KILL messages.
UiGetsAnswer ==
  /\ ui = "await" /\ toUi # <<>>
  /\ toUi' = Tail(toUi)
  /\ UiLeaves("poll")
  /\ UNCHANGED <<signal, inbox, stdin, toCtl, notes>> /\ UiOthers

UiExits ==
  /\ ui = "exit"
  /\ UiLeaves("done")
  /\ UNCHANGED <<signal, inbox, stdin, toCtl, toUi, notes>> /\ UiOthers

UiStep ==
  \/ UiStarts \/ UiPolls \/ UiHandlesKill \/ UiShowsNote \/ UiHitsEof \/ UiSendsLine
  \/ UiRaisesSigint \/ UiGetsAnswer \/ UiExits

-------------------------------------------------------------------------------
\* The controller thread

CtlOthers == UNCHANGED <<main, uiVars, rcvVars, signal, userVars, notes, net, up, late, session>>

CtlLeaves(to) == ctl' = to /\ ctlReady' = {} /\ command' = command

\* Faulty variant: the sender of a message is not told that it failed.
AfterFailureUntold(request) ==
  CASE request \in {"ping", "msg"} -> "poll" [] OTHER -> "done"

\* What a handler does when send_and_recv_env returns nothing.  The login gives up
\* without a logout, a message is answered with an error, and the commands of GivenUp end
\* the loop without an answer, after which comes the logout.
AfterFailure(request) ==
  CASE request = "ping" -> "poll" [] request = "msg" -> "answer" [] OTHER -> "done"

\* A REQ socket whose reply was not received sends no other request, no logout either.
Fails(request) ==
  /\ ctl' = AfterFailure(request) /\ ctlReady' = {}
  /\ command' = IF request \in GivenUp THEN "logout" ELSE request
  /\ server' = "broken"

\* send_and_recv_env sends on the REQ socket and then waits, without a timeout.
Asks(request) ==
  \/ server = "broken" /\ Fails(request)
  \/ /\ server # "broken"
     /\ ctl' = "call" /\ ctlReady' = {}
     /\ command' = request
     /\ server' = "asked"

CtlStarts ==
  /\ ctl = "start"
  /\ Asks("login")
  /\ UNCHANGED <<inbox, toCtl, toUi, toRcv>> /\ CtlOthers

CtlFinds == {i \in {"kill", "line"} :
               \/ i = "kill" /\ inbox["controller"] # <<>>
               \/ i = "line" /\ toCtl # <<>>}

CtlPolls ==
  /\ ctl = "poll" /\ CtlFinds # {}
  /\ ctl' = "turn" /\ ctlReady' = CtlFinds /\ command' = "none"
  /\ UNCHANGED <<inbox, toCtl, toUi, toRcv, server>> /\ CtlOthers

\* Two seconds without anything to do.
CtlPings ==
  /\ ctl = "poll" /\ CtlFinds = {}
  /\ Asks("ping")
  /\ UNCHANGED <<inbox, toCtl, toUi, toRcv>> /\ CtlOthers

\* Faulty variant: the controller leaves without a logout.
CtlHandlesKillSilently ==
  /\ ctl = "turn" /\ "kill" \in ctlReady
  /\ inbox' = [inbox EXCEPT !["controller"] = Tail(@)]
  /\ IF Head(inbox["controller"]) = "KILL_CONTROLLER"
     THEN CtlLeaves("done") /\ server' = server
     ELSE /\ ctlReady' = ctlReady \ {"kill"}
          /\ ctl' = IF ctlReady' = {} THEN "poll" ELSE "turn"
          /\ UNCHANGED <<command, server>>
  /\ UNCHANGED <<toCtl, toUi, toRcv>> /\ CtlOthers

CtlHandlesKill ==
  /\ ctl = "turn" /\ "kill" \in ctlReady
  /\ inbox' = [inbox EXCEPT !["controller"] = Tail(@)]
  /\ IF Head(inbox["controller"]) = "KILL_CONTROLLER"
     THEN Asks("logout")
     ELSE /\ ctlReady' = ctlReady \ {"kill"}
          /\ ctl' = IF ctlReady' = {} THEN "poll" ELSE "turn"
          /\ UNCHANGED <<command, server>>
  /\ UNCHANGED <<toCtl, toUi, toRcv>> /\ CtlOthers

\* Faulty variant: a line that needs no request is not answered either.
CtlTakesLineUnanswered ==
  /\ ctl = "turn" /\ ctlReady = {"line"}
  /\ toCtl' = Tail(toCtl)
  /\ \/ Head(toCtl) = "quit" /\ Asks("logout")
     \/ Head(toCtl) = "usage" /\ ctl' = "poll" /\ ctlReady' = {}
          /\ UNCHANGED <<command, server>>
     \/ Head(toCtl) \in Commands \ {"usage"} /\ Asks(Head(toCtl))
  /\ UNCHANGED <<inbox, toUi, toRcv>> /\ CtlOthers

\* handle_message_ui, up to the request.
CtlTakesLine ==
  /\ ctl = "turn" /\ ctlReady = {"line"}
  /\ toCtl' = Tail(toCtl)
  /\ \/ Head(toCtl) = "quit" /\ Asks("logout")
     \/ Head(toCtl) = "usage" /\ ctl' = "answer" /\ ctlReady' = {}
          /\ command' = "usage" /\ server' = server
     \/ Head(toCtl) \in Commands \ {"usage"} /\ Asks(Head(toCtl))
  /\ UNCHANGED <<inbox, toUi, toRcv>> /\ CtlOthers

CtlGetsReply ==
  /\ ctl = "call" /\ server = "ok"
  /\ server' = "idle"
  /\ \/ command \in {"login", "ping"} /\ CtlLeaves("poll")
     \/ command \in {"rooms", "msg"} /\ CtlLeaves("answer")
     \/ command \in {"join", "leave"} /\ CtlLeaves("instruct")
     \/ command = "logout" /\ CtlLeaves("done")
  /\ UNCHANGED <<inbox, toCtl, toUi, toRcv>> /\ CtlOthers

\* A reply that cannot be unpacked.
CtlGetsBadReply ==
  /\ ctl = "call" /\ server = "bad"
  /\ \/ command \notin GivenUp /\ server' = "idle" /\ CtlLeaves(AfterFailure(command))
     \/ command \in GivenUp /\ Asks("logout")
  /\ UNCHANGED <<inbox, toCtl, toUi, toRcv>> /\ CtlOthers

\* The +topic or -topic command to the receiver.
CtlInstructs ==
  /\ ctl = "instruct"
  /\ \/ rcv # "done" /\ toRcv' = toRcv + 1 /\ CtlLeaves("answer")
     \/ rcv = "done" /\ toRcv' = toRcv /\ CtlLeaves("blocked")
     \/ rcv = "done" /\ toRcv' = toRcv /\ CtlLeaves("answer")
  /\ UNCHANGED <<inbox, toCtl, toUi, server>> /\ CtlOthers

\* The ui can have left only if the signal has interrupted its wait for this answer.
CtlAnswers ==
  /\ ctl = "answer"
  /\ \/ ui # "done" /\ toUi' = Append(toUi, command) /\ CtlLeaves("poll")
     \/ ui = "done" /\ toUi' = toUi /\ CtlLeaves("blocked")
     \/ ui = "done" /\ toUi' = toUi /\ CtlLeaves("poll")
  /\ UNCHANGED <<inbox, toCtl, toRcv, server>> /\ CtlOthers

CtlStep ==
  \/ CtlStarts \/ CtlPolls \/ CtlPings \/ CtlHandlesKill \/ CtlTakesLine \/ CtlGetsReply
  \/ CtlGetsBadReply \/ CtlInstructs \/ CtlAnswers

-------------------------------------------------------------------------------
\* The receiver thread

RcvOthers == UNCHANGED <<main, uiVars, ctlVars, signal, userVars, toCtl, toUi, serverVars>>

RcvGoesOn(item) ==
  /\ rcvReady' = rcvReady \ {item}
  /\ rcv' = IF rcvReady' = {} THEN "poll" ELSE "turn"

RcvStarts ==
  /\ rcv = "start"
  /\ rcv' = "poll" /\ rcvReady' = {}
  /\ UNCHANGED <<inbox, net, notes, toRcv>> /\ RcvOthers

\* Faulty variant: every turn takes a command, whether the poll has found one or not.
RcvFindsCommandAlways == {i \in {"kill", "chat", "command"} :
                            \/ i = "kill" /\ inbox["receiver"] # <<>>
                            \/ i = "chat" /\ net # <<>>
                            \/ i = "command"}

RcvFinds == {i \in {"kill", "chat", "command"} :
               \/ i = "kill" /\ inbox["receiver"] # <<>>
               \/ i = "chat" /\ net # <<>>
               \/ i = "command" /\ toRcv > 0}

RcvPolls ==
  /\ rcv = "poll" /\ RcvFinds # {}
  /\ rcv' = "turn" /\ rcvReady' = RcvFinds
  /\ UNCHANGED <<inbox, net, notes, toRcv>> /\ RcvOthers

\* Faulty variant: the receiver waits for KILL_UI, which is sent once it has left.
RcvWaitsForKillUi ==
  /\ rcv = "turn" /\ "kill" \in rcvReady
  /\ inbox' = [inbox EXCEPT !["receiver"] = Tail(@)]
  /\ IF Head(inbox["receiver"]) = "KILL_UI"
     THEN rcv' = "done" /\ rcvReady' = {}
     ELSE RcvGoesOn("kill")
  /\ UNCHANGED <<net, notes, toRcv>> /\ RcvOthers

\* Here too it is KILL_CONTROLLER that ends the loop.
RcvHandlesKill ==
  /\ rcv = "turn" /\ "kill" \in rcvReady
  /\ inbox' = [inbox EXCEPT !["receiver"] = Tail(@)]
  /\ IF Head(inbox["receiver"]) = "KILL_CONTROLLER"
     THEN rcv' = "done" /\ rcvReady' = {}
     ELSE RcvGoesOn("kill")
  /\ UNCHANGED <<net, notes, toRcv>> /\ RcvOthers

\* handle_chat_message receives a frame for the topic,
RcvTakesTopic ==
  /\ rcv = "turn" /\ "chat" \in rcvReady /\ "kill" \notin rcvReady
  /\ net' = Tail(net)
  /\ rcv' = "data" /\ rcvReady' = rcvReady \ {"chat"}
  /\ UNCHANGED <<inbox, notes, toRcv>> /\ RcvOthers

\* Faulty variant: the PAIR to the ui holds one message only.
RcvForwardsChatOneByOne ==
  /\ rcv = "data" /\ net # <<>> /\ notes = 0
  /\ net' = Tail(net)
  /\ notes' = notes + 1
  /\ RcvGoesOn("chat")
  /\ UNCHANGED <<inbox, toRcv>> /\ RcvOthers

\* and then, as long as it takes, another for the payload, which it formats and sends on
\* the PAIR to the ui; it does not look whether the two are of one message.
RcvForwardsChat ==
  /\ rcv = "data" /\ net # <<>>
  /\ net' = Tail(net)
  /\ \/ ui # "done" /\ Head(net) = "data" /\ notes' = notes + 1 /\ RcvGoesOn("chat")
     \/ ui = "done" /\ Head(net) = "data" /\ notes' = notes /\ rcv' = "blocked"
          /\ rcvReady' = rcvReady
     \/ ui = "done" /\ notes' = notes /\ RcvGoesOn("chat")
     \/ Head(net) = "topic" /\ notes' = notes /\ RcvGoesOn("chat")
  /\ UNCHANGED <<inbox, toRcv>> /\ RcvOthers

RcvHandlesCommand ==
  /\ rcv = "turn" /\ rcvReady = {"command"}
  /\ toRcv' = toRcv - 1
  /\ RcvGoesOn("command")
  /\ UNCHANGED <<inbox, net, notes>> /\ RcvOthers

RcvStep ==
  \/ RcvStarts \/ RcvPolls \/ RcvHandlesKill \/ RcvTakesTopic \/ RcvForwardsChat
  \/ RcvHandlesCommand

-------------------------------------------------------------------------------
\* The environment: the server, the user and the operating system

ThreadsUntouched == UNCHANGED <<main, uiVars, ctlVars, rcvVars, inbox, toCtl, toUi, toRcv, notes>>

Whole == <<"topic", "data">>

\* What of a publication arrives: where the frames of two of them mix, three frames in one
\* message, and the fourth in a message of its own, which nobody is subscribed to.
Arrivals ==
  {Whole} \cup (IF "torn" \in Events THEN {<<"topic">> \o Whole, <<>>} ELSE {})

Delivered(frames) == IF rcv \in {"start", "done"} THEN net ELSE net \o frames

\* The server answers.  A logout it publishes on room:general, to which this client's
\* receiver is subscribed; a join, a leave or a message on a topic that the receiver is
\* subscribed to or not.
ServerHandles(request) ==
  /\ up
  /\ session' = CASE request = "login" -> TRUE [] request = "logout" -> FALSE [] OTHER -> session
  /\ net' \in CASE request = "logout" -> {Delivered(a) : a \in Arrivals}
              [] request \in {"join", "leave", "msg"} ->
                   {net} \cup {Delivered(a) : a \in Arrivals}
              [] OTHER -> {net}
  /\ UNCHANGED <<up, signal, userVars>> /\ ThreadsUntouched

ServerAnswers ==
  /\ server = "asked"
  /\ server' \in {"ok"} \cup (IF "bad_reply" \in Events THEN {"bad"} ELSE {})
  /\ late' = late
  /\ ServerHandles(command)

ServerAnswersLate == late # "none" /\ late' = "none" /\ server' = server /\ ServerHandles(late)

ServerStops ==
  /\ "server_stop" \in Events /\ up
  /\ up' = FALSE
  /\ UNCHANGED <<server, late, session, signal, userVars, net>> /\ ThreadsUntouched

OthersWrite ==
  /\ "traffic" \in Events /\ chat < MaxChat /\ up
  /\ chat' = chat + 1
  /\ net' \in {Delivered(a) : a \in Arrivals}
  /\ UNCHANGED <<serverVars, signal, stdin, lines>> /\ ThreadsUntouched

\* The threads have subscribed, which takes them a few milliseconds.
Settled == "early" \in Events \/ \A t \in Threads : Location(t) # "start"

UserTypes ==
  /\ stdin = "none" /\ lines < MaxLines /\ Settled
  /\ stdin' \in (IF "type" \in Events THEN Commands ELSE {})
                  \cup (Events \cap {"quit", "eof"})
  /\ lines' = lines + 1
  /\ UNCHANGED <<serverVars, signal, chat, net>> /\ ThreadsUntouched

\* Bound: one signal.
Signalled == "ctrl_c" \in Events /\ ~signal /\ Settled /\ signal' = TRUE

Interrupt ==
  /\ Signalled
  /\ UNCHANGED <<serverVars, userVars, net>> /\ ThreadsUntouched

\* The handler runs in a thread that waits for something, and the call fails with EINTR.
\* The ui and the controller poll again, which needs no action here; the receiver does
\* not: it leaves.  A send that blocked is given up, and so is a receive.
RcvInterrupted ==
  /\ "eintr" \in Events /\ Signalled
  /\ \/ rcv = "poll" /\ RcvFinds = {} /\ rcv' = "done"
     \/ /\ rcv = "blocked" \/ (rcv = "data" /\ net = <<>>)
        /\ rcv' = IF rcvReady = {} THEN "poll" ELSE "turn"
  /\ UNCHANGED <<main, uiVars, ctlVars, rcvReady, inbox, toCtl, toUi, toRcv, notes, net,
                 serverVars, userVars>>

\* The ui no longer waits for the answer, which may still come.
UiInterrupted ==
  /\ "eintr" \in Events /\ Signalled
  /\ \/ ui = "await" /\ toUi = <<>> /\ stdin' = stdin /\ UiLeaves("poll")
     \/ ui = "blocked" /\ UiLineLeaves
  /\ UNCHANGED <<inbox, toCtl, toUi, notes>> /\ UiOthers

\* The controller no longer waits for the reply, or for the receiver (nor for the ui: that
\* it does only when the signal has been).
CtlInterrupted ==
  /\ "eintr" \in Events /\ Signalled
  /\ \/ ctl = "call" /\ server = "asked" /\ late' = command /\ Fails(command)
     \/ ctl = "blocked" /\ CtlLeaves("answer") /\ UNCHANGED <<late, server>>
  /\ UNCHANGED <<main, uiVars, rcvVars, userVars, inbox, toCtl, toUi, toRcv, notes, net,
                 up, session>>

\* The process has ended.
Ended == main = "done" /\ UNCHANGED vars

Next ==
  \/ MainStep \/ UiStep \/ CtlStep \/ RcvStep
  \/ ServerAnswers \/ ServerAnswersLate \/ ServerStops \/ OthersWrite
  \/ UserTypes \/ Interrupt \/ RcvInterrupted \/ UiInterrupted \/ CtlInterrupted \/ Ended

Spec == Init /\ [][Next]_vars

\* Every thread that can run does, and a server that runs answers.  The user and the
\* operating system owe nothing.
FairSpec ==
  /\ Spec
  /\ WF_vars(MainStep) /\ WF_vars(UiStep) /\ WF_vars(CtlStep) /\ WF_vars(RcvStep)
  /\ WF_vars(ServerAnswers)

-------------------------------------------------------------------------------
\* Properties

\* Every thread is somewhere in its code, and a thread never takes from a socket what is
\* not there: the queues stay sequences and counts (chat_client.c:36-80, the four loops).
TypeOK ==
  /\ main \in {"wait", "kill_controller", "kill_receiver", "join_receiver",
              "join_controller", "kill_ui", "join_ui", "terminate", "done"}
  /\ ui \in {"start", "poll", "turn", "await", "raise", "exit", "done", "blocked"}
  /\ ctl \in {"start", "poll", "turn", "call", "instruct", "answer", "done", "blocked"}
  /\ rcv \in {"start", "poll", "turn", "data", "done", "blocked"}
  /\ uiReady \subseteq {"kill", "note", "stdin"}
  /\ ctlReady \subseteq {"kill", "line"}
  /\ rcvReady \subseteq {"kill", "chat", "command"}
  /\ inbox \in [Threads -> Seq({"KILL_CONTROLLER", "KILL_RECEIVER", "KILL_UI"})]
  /\ stdin \in Commands \cup {"none", "quit", "eof"}
  /\ toCtl \in Seq(Commands \cup {"quit"}) /\ toUi \in Seq(Commands)
  /\ toRcv \in Nat /\ notes \in Nat /\ net \in Seq({"topic", "data"})
  /\ command \in Commands \cup {"none", "login", "ping", "logout"}
  /\ server \in {"idle", "asked", "ok", "bad", "broken"}
  /\ late \in Commands \cup {"none", "login", "ping", "logout"}
  /\ signal \in BOOLEAN /\ up \in BOOLEAN /\ session \in BOOLEAN
  /\ lines \in 0..MaxLines /\ chat \in 0..MaxChat

\* The controller works on a line of the user's.
Working == ctl \in {"call", "instruct", "answer"} /\ command \in Commands

\* The lines on their way to the controller; /quit, the last one, is not answered.
Unread == IF toCtl # <<>> /\ toCtl[Len(toCtl)] = "quit" THEN Len(toCtl) - 1 ELSE Len(toCtl)

\* The controller can give no more answers.
CtlGone == ctl \in {"done", "blocked"} \/ command = "logout"

\* A wait of the ui that a signal has interrupted leaves a line that it does not wait for.
GivenUpLines == IF "eintr" \in Events /\ signal THEN 1 ELSE 0

\* A line the user typed is in exactly one place while the ui waits for its answer, and
\* there is no answer to a line it does not wait for, whatever path a handler takes: the
\* two ends of the PAIR do not fall out of step, but for the one line whose wait a signal
\* has interrupted, and no line is lost or answered twice by that either
\* (controller.c:211-483, 570-617, ui.c:142-154).
LinesAnsweredOnce ==
  LET places == Unread + Len(toUi) + (IF Working THEN 1 ELSE 0)
  IN  IF ui = "await" THEN places <= 1 + GivenUpLines /\ (places = 0 => CtlGone)
                      ELSE places <= GivenUpLines

\* The line that has no answer yet, on the PAIR or in the controller's hands, and the
\* answer on its way.
OpenLine ==
  IF toCtl # <<>> /\ Head(toCtl) # "quit" THEN Head(toCtl)
  ELSE IF Working THEN command ELSE "none"

NextAnswer == IF toUi # <<>> THEN Head(toUi) ELSE "none"

Console ==
  INSTANCE UserConsole
  WITH Lines <- Commands, waiting <- (ui = "await"), line <- OpenLine,
       answer <- NextAnswer, closed <- CtlGone

\* The answer the user is shown is the answer to the line he typed last, whatever pings,
\* failures and replies of the server come between, and the controller drops a line only
\* as it stops answering for good (controller.c:157-209, 211-483, 570-617, ui.c:119-154).
ImplementsConsole == Console!Spec

\* When the controller has left, the server has no session of this client: it logs out
\* on every way out of its loop, unless a signal has kept it from receiving a reply.  (A
\* failed login has no loop to leave.)  (controller.c:157-209)
LoggedOutOnExit == ctl = "done" /\ command # "login" => ~session \/ server = "broken"

\* "send to REQ and wait for (ACK/ERR)" (ui.c:142): every line the user types is answered,
\* as long as the server runs and the controller has not left its loop or hangs in it: the
\* ui does not wait for ever.
LineAnswered == []<>(ui # "await" \/ ctl \in {"done", "blocked"} \/ ~up)

\* A thread, or the end of the context, waits for what will never come: it sends to a
\* thread that has left, waits for the answer of a controller that has, for the reply of a
\* server that is gone, or for the frame that follows the last of a torn message, or a
\* socket is still open.
Hung ==
  \/ "blocked" \in {ui, ctl, rcv}
  \/ rcv = "data" /\ net = <<>>
  \/ ui = "await" /\ ctl = "done" /\ toUi = <<>>
  \/ ctl = "call" /\ server = "asked" /\ ~up
  \/ LogSocketLeaked

\* After a signal the process ends, or hangs for ever in one of these five ways and in no
\* other: no thread that can go on misses its KILL message, whatever it was doing when the
\* message came (chat_client.c:58-79, ui.c:95-160, controller.c:157-209, receiver.c:66-186).
StopsUnlessHung == <>[](signal => main = "done" \/ Hung)

\* Where each thread waits for another.
MainWaits ==
  \/ main = "wait" /\ ~signal
  \/ main = "join_receiver" /\ rcv # "done"
  \/ main = "join_controller" /\ ctl # "done"
  \/ main = "join_ui" /\ ui # "done"
  \/ main = "terminate" /\ LogSocketLeaked
  \/ main = "done"

UiWaits ==
  \/ ui \in {"blocked", "done"}
  \/ ui = "await" /\ toUi = <<>>
  \/ ui = "poll" /\ UiFinds = {}

CtlWaits ==
  \/ ctl \in {"blocked", "done"}
  \/ ctl = "call" /\ server \notin {"ok", "bad"}

RcvWaits ==
  \/ rcv \in {"blocked", "done"}
  \/ rcv = "data" /\ net = <<>>
  \/ rcv = "poll" /\ RcvFinds = {}

ServerWaits == server # "asked" \/ ~up

\* A thread that does not wait at one of these places has a step: none is stuck in the
\* middle of its loop with what its poll found (chat_client.c:58-79, ui.c:95-160,
\* controller.c:157-209, receiver.c:66-186).
WaitsNowhereElse ==
  /\ MainWaits <=> ~ENABLED MainStep
  /\ UiWaits <=> ~ENABLED UiStep
  /\ CtlWaits <=> ~ENABLED CtlStep
  /\ RcvWaits <=> ~ENABLED RcvStep
  /\ ServerWaits <=> ~ENABLED ServerAnswers

\* When all wait for each other after the signal, the process has ended or hangs in one
\* of the five ways: main joins the threads in an order in which each of them has its
\* KILL message and needs nobody who has gone (chat_client.c:58-79).
OnlyKnownHangs ==
  signal /\ MainWaits /\ UiWaits /\ CtlWaits /\ RcvWaits /\ ServerWaits =>
    main = "done" \/ Hung

\* "press Ctrl+C to stop..." (chat_client.c:58): after the signal the process ends.
SignalStops == signal ~> main = "done"
===============================================================================
