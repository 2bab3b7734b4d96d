-------------------------- MODULE ClientThreadsProofs --------------------------
(***************************************************************************)
(* Theorems about the threads of the client, for every set of events and   *)
(* any number of lines and messages.                                       *)
(***************************************************************************)
EXTENDS ClientThreads, SequenceTheorems, TLAPS

-------------------------------------------------------------------------------
\* Types

\* What a poll found is still there when it is taken: nobody else takes it.
ReadyOK ==
  /\ "kill" \in uiReady => inbox["ui"] # <<>>
  /\ "note" \in uiReady => notes > 0
  /\ "kill" \in ctlReady => inbox["controller"] # <<>>
  /\ "line" \in ctlReady => toCtl # <<>>
  /\ "kill" \in rcvReady => inbox["receiver"] # <<>>
  /\ "chat" \in rcvReady => net # <<>> /\ rcv # "data"
  /\ "command" \in rcvReady => toRcv > 0

\* The controller works on a line of the user's where it instructs the receiver or answers.
CommandOK ==
  /\ ctl \in {"answer", "blocked"} => command \in Commands
  /\ ctl = "instruct" => command \in {"join", "leave"}

Typed == TypeOK /\ ReadyOK /\ CommandOK

Kills == {"KILL_CONTROLLER", "KILL_RECEIVER", "KILL_UI"}

\* What is read from an inbox leaves an inbox, and the others as they were.
LEMMA InboxRead ==
  ASSUME NEW t \in Threads, inbox \in [Threads -> Seq(Kills)], inbox[t] # <<>>,
         inbox' = [inbox EXCEPT ![t] = Tail(@)]
  PROVE  inbox' \in [Threads -> Seq(Kills)] /\ \A u \in Threads \ {t} : inbox'[u] = inbox[u]
<1>1. inbox[t] \in Seq(Kills)
  OBVIOUS
<1>2. Tail(inbox[t]) \in Seq(Kills)
  BY <1>1
<1> QED BY <1>2

\* Init is one state, in which nothing is ready.
LEMMA InitTyped == Init => Typed
<1>1. Init => inbox \in [Threads -> Seq(Kills)]
  BY DEF Init
<1>2. Init => ReadyOK /\ CommandOK
  BY DEF Init, ReadyOK, CommandOK
<1>3. 0 \in 0..MaxLines /\ 0 \in 0..MaxChat
  BY EventsAssumption
<1>4. Init => toCtl \in Seq(Commands \cup {"quit"}) /\ toUi \in Seq(Commands)
  BY DEF Init
<1>5. Init => TypeOK
  <2> SUFFICES ASSUME Init PROVE TypeOK
    OBVIOUS
  <2>1. inbox \in [Threads -> Seq({"KILL_CONTROLLER", "KILL_RECEIVER", "KILL_UI"})]
    BY <1>1 DEF Kills
  <2>2. /\ lines \in 0..MaxLines /\ chat \in 0..MaxChat
        /\ toRcv \in Nat /\ notes \in Nat /\ net \in Seq({"topic", "data"})
    BY <1>3 DEF Init
  <2> QED BY <1>4, <2>1, <2>2 DEF Init, TypeOK
<1> QED BY <1>2, <1>5 DEF Typed

\* Main's messages are appended to the inboxes (chat_client.c:59-79).
LEMMA MainTyped == Typed /\ MainStep => Typed'
<1> SUFFICES ASSUME Typed, MainStep PROVE Typed'
  OBVIOUS
<1> USE DEF MainGoes, MainOthers
<1>a. inbox \in [Threads -> Seq(Kills)]
  BY DEF Typed, TypeOK, Kills
<1>1. ASSUME NEW m \in Kills, inbox' = Published(m)
      PROVE  /\ inbox' \in [Threads -> Seq(Kills)]
             /\ \A t \in Threads : inbox[t] # <<>> => inbox'[t] # <<>>
  <2>1. \A t \in Threads : inbox[t] \in Seq(Kills)
    BY <1>a
  <2>2. \A t \in Threads :
          Append(inbox[t], m) \in Seq(Kills) /\ Append(inbox[t], m) # <<>>
    BY <2>1
  <2> QED BY <1>1, <2>1, <2>2 DEF Published
<1>2. /\ inbox' \in [Threads -> Seq(Kills)]
      /\ \A t \in Threads : inbox[t] # <<>> => inbox'[t] # <<>>
  BY <1>a, <1>1
  DEF Kills, MainStep, MainWakes, MainKillsController, MainKillsReceiver,
      MainJoinsReceiver, MainJoinsController, MainKillsUi, MainJoinsUi, MainTerminates
<1>3. /\ main' \in {"wait", "kill_controller", "kill_receiver", "join_receiver",
                   "join_controller", "kill_ui", "join_ui", "terminate", "done"}
      /\ UNCHANGED <<uiVars, ctlVars, rcvVars, signal, userVars, toCtl, toUi, toRcv, notes,
                     net, serverVars>>
  BY DEF MainStep, MainWakes, MainKillsController, MainKillsReceiver, MainJoinsReceiver,
         MainJoinsController, MainKillsUi, MainJoinsUi, MainTerminates
<1>4. TypeOK'
  BY <1>2, <1>3 DEF Typed, TypeOK, Kills, uiVars, ctlVars, rcvVars, userVars, serverVars
<1>5. ReadyOK' /\ CommandOK'
  BY <1>2, <1>3
  DEF Typed, ReadyOK, CommandOK, uiVars, ctlVars, rcvVars, userVars, serverVars, Threads
<1> QED BY <1>4, <1>5 DEF Typed

\* What the ui leaves alone keeps its type.
LEMMA UiTyped == Typed /\ UiStep => Typed'
<1> SUFFICES ASSUME Typed, UiStep PROVE Typed'
  OBVIOUS
<1> USE DEF Typed, TypeOK, ReadyOK, CommandOK, UiOthers, UiLeaves, UiGoesOn, ctlVars, rcvVars,
            serverVars, Threads
<1>1. CASE UiStarts
  BY <1>1 DEF UiStarts
<1>2. CASE UiPolls
  BY <1>2 DEF UiPolls, UiFinds
<1>3. CASE UiHandlesKill
  <2>1. /\ inbox["ui"] # <<>> /\ inbox' = [inbox EXCEPT !["ui"] = Tail(@)]
        /\ uiReady' \subseteq uiReady \ {"kill"} /\ ui' \in {"exit", "poll", "turn"}
        /\ UNCHANGED <<main, ctlVars, rcvVars, lines, chat, toRcv, net, serverVars,
                        signal, stdin, toCtl, toUi, notes>>
    BY <1>3 DEF UiHandlesKill
  <2>2. /\ inbox' \in [Threads -> Seq(Kills)]
        /\ inbox'["controller"] = inbox["controller"] /\ inbox'["receiver"] = inbox["receiver"]
    BY <2>1, InboxRead DEF Kills
  <2> QED BY <2>1, <2>2 DEF Kills
<1>4. CASE UiShowsNote
  BY <1>4 DEF UiShowsNote
<1>5. CASE UiHitsEof
  BY <1>5 DEF UiHitsEof
<1>6. CASE UiSendsLine
  <2>1. stdin \in Commands \cup {"quit"}
    BY <1>6 DEF UiSendsLine
  <2>a. toCtl \in Seq(Commands \cup {"quit"})
    OBVIOUS
  <2>2. Append(toCtl, stdin) \in Seq(Commands \cup {"quit"}) /\ Append(toCtl, stdin) # <<>>
    <3> HIDE DEF Typed, TypeOK, ReadyOK, CommandOK, UiOthers, UiLeaves, UiGoesOn
    <3> QED BY <2>1, <2>a, AppendProperties
  <2>3. /\ toCtl' \in {toCtl, Append(toCtl, stdin)} /\ stdin' \in {"none", stdin}
        /\ ui' \in {"blocked", "raise", "await"} /\ uiReady' = {}
        /\ UNCHANGED <<main, ctlVars, rcvVars, lines, chat, toRcv, net, serverVars,
                        signal, inbox, toUi, notes>>
    BY <1>6 DEF UiSendsLine, UiLineLeaves
  <2>4. toCtl' \in Seq(Commands \cup {"quit"}) /\ (toCtl # <<>> => toCtl' # <<>>)
    BY <2>2, <2>3
  <2> QED BY <2>3, <2>4
<1>7. CASE UiRaisesSigint
  BY <1>7 DEF UiRaisesSigint
<1>8. CASE UiGetsAnswer
  BY <1>8 DEF UiGetsAnswer
<1>9. CASE UiExits
  BY <1>9 DEF UiExits
<1> QED BY <1>1, <1>2, <1>3, <1>4, <1>5, <1>6, <1>7, <1>8, <1>9 DEF UiStep

\* A request is sent, or fails because the socket is broken: either way the controller
\* goes on with it where the code does (chat_client_controller.c:323-353).
LEMMA AskTyped ==
  ASSUME NEW request \in Commands \cup {"login", "ping", "logout"},
         request # "usage", Asks(request) \/ Fails(request)
  PROVE  /\ ctl' \in {"call", "poll", "answer", "done"} /\ ctlReady' = {}
         /\ command' \in Commands \cup {"login", "ping", "logout"}
         /\ server' \in {"asked", "broken"}
         /\ ctl' = "answer" => command' = "msg"
BY DEF Asks, Fails, AfterFailure, Commands, GivenUp

\* The controller's steps (chat_client_controller.c:154-209).
LEMMA CtlTyped == Typed /\ CtlStep => Typed'
<1> SUFFICES ASSUME Typed, CtlStep PROVE Typed'
  OBVIOUS
<1>a. /\ "login" \in Commands \cup {"login", "ping", "logout"}
      /\ {"rooms", "join", "leave", "msg", "usage"} = Commands
  BY DEF Commands
<1>b. UNCHANGED <<main, uiVars, rcvVars, signal, userVars, notes, net, up, late, session>>
  BY DEF CtlStep, CtlOthers, CtlStarts, CtlPolls, CtlPings, CtlHandlesKill, CtlTakesLine,
         CtlGetsReply, CtlGetsBadReply, CtlInstructs, CtlAnswers
<1> USE DEF Typed, TypeOK, ReadyOK, CommandOK, CtlOthers, CtlLeaves, uiVars, rcvVars, userVars
<1>1. CASE CtlStarts
  <2>1. Asks("login") /\ UNCHANGED <<inbox, toCtl, toUi, toRcv>>
    BY <1>1 DEF CtlStarts
  <2> QED BY <2>1, <1>b, AskTyped DEF Commands
<1>2. CASE CtlPolls
  BY <1>2 DEF CtlPolls, CtlFinds
<1>3. CASE CtlPings
  <2>1. Asks("ping") /\ UNCHANGED <<inbox, toCtl, toUi, toRcv>>
    BY <1>3 DEF CtlPings
  <2> QED BY <2>1, <1>b, AskTyped DEF Commands
<1>4. CASE CtlHandlesKill
  <2>1. /\ inbox["controller"] # <<>> /\ inbox' = [inbox EXCEPT !["controller"] = Tail(@)]
        /\ UNCHANGED <<toCtl, toUi, toRcv>>
    BY <1>4 DEF CtlHandlesKill
  <2>2. /\ inbox' \in [Threads -> Seq(Kills)]
        /\ inbox'["ui"] = inbox["ui"] /\ inbox'["receiver"] = inbox["receiver"]
    BY <2>1, InboxRead DEF Kills, Threads
  <2>3. CASE Asks("logout")
    BY <2>1, <2>2, <2>3, <1>b, AskTyped DEF Kills, Commands
  <2>4. CASE /\ ctlReady' = ctlReady \ {"kill"} /\ ctl' \in {"poll", "turn"}
             /\ UNCHANGED <<command, server>>
    BY <2>1, <2>2, <2>4, <1>b DEF Kills
  <2> QED BY <1>4, <2>3, <2>4 DEF CtlHandlesKill
<1>5. CASE CtlTakesLine
  <2>1. /\ toCtl # <<>> /\ toCtl' = Tail(toCtl) /\ UNCHANGED <<inbox, toUi, toRcv>>
    BY <1>5 DEF CtlTakesLine
  <2>2. Head(toCtl) \in Commands \cup {"quit"} /\ toCtl' \in Seq(Commands \cup {"quit"})
    BY <2>1
  <2>3. CASE Asks("logout")
    BY <2>1, <2>2, <2>3, <1>b, AskTyped DEF Commands
  <2>4. CASE ctl' = "answer" /\ ctlReady' = {} /\ command' = "usage" /\ server' = server
    BY <2>1, <2>2, <2>4, <1>b DEF Commands
  <2>5. CASE Head(toCtl) \in Commands \ {"usage"} /\ Asks(Head(toCtl))
    BY <2>1, <2>2, <2>5, <1>b, AskTyped DEF Commands
  <2> QED BY <1>5, <2>3, <2>4, <2>5 DEF CtlTakesLine
<1>6. CASE CtlGetsReply
  BY <1>6 DEF CtlGetsReply, Commands
<1>7. CASE CtlGetsBadReply
  <2>1. UNCHANGED <<inbox, toCtl, toUi, toRcv>>
    BY <1>7 DEF CtlGetsBadReply
  <2>2. CASE Asks("logout")
    BY <2>1, <2>2, <1>b, AskTyped DEF Commands
  <2>3. CASE server' = "idle" /\ CtlLeaves(AfterFailure(command))
    BY <2>1, <2>3, <1>b DEF AfterFailure, Commands
  <2> QED BY <1>7, <2>2, <2>3 DEF CtlGetsBadReply
<1>8. CASE CtlInstructs
  BY <1>8 DEF CtlInstructs, Commands
<1>9. CASE CtlAnswers
  <2>1. command \in Commands /\ Append(toUi, command) \in Seq(Commands)
    BY <1>9 DEF CtlAnswers
  <2>2. /\ toUi' \in {toUi, Append(toUi, command)} /\ ctl' \in {"poll", "blocked"}
        /\ ctlReady' = {} /\ UNCHANGED <<inbox, toCtl, toRcv, server, command>>
    BY <1>9 DEF CtlAnswers
  <2>3. toUi' \in Seq(Commands)
    BY <2>1, <2>2
  <2> QED BY <1>b, <2>1, <2>2, <2>3
<1> QED BY <1>1, <1>2, <1>3, <1>4, <1>5, <1>6, <1>7, <1>8, <1>9 DEF CtlStep

\* The receiver's steps (chat_client_receiver.c:98-211).
LEMMA RcvTyped == Typed /\ RcvStep => Typed'
<1> SUFFICES ASSUME Typed, RcvStep PROVE Typed'
  OBVIOUS
<1> USE DEF Typed, TypeOK, ReadyOK, CommandOK, RcvOthers, RcvGoesOn, uiVars, ctlVars, userVars,
            serverVars
<1>1. CASE RcvStarts
  BY <1>1 DEF RcvStarts
<1>2. CASE RcvPolls
  BY <1>2 DEF RcvPolls, RcvFinds
<1>3. CASE RcvHandlesKill
  <2>1. /\ inbox["receiver"] # <<>> /\ inbox' = [inbox EXCEPT !["receiver"] = Tail(@)]
        /\ rcvReady' \subseteq rcvReady \ {"kill"} /\ rcv' \in {"done", "poll", "turn"}
        /\ UNCHANGED <<main, uiVars, ctlVars, signal, userVars, toCtl, toUi, serverVars,
                       net, notes, toRcv>>
    BY <1>3 DEF RcvHandlesKill
  <2>2. /\ inbox' \in [Threads -> Seq(Kills)]
        /\ inbox'["ui"] = inbox["ui"] /\ inbox'["controller"] = inbox["controller"]
    BY <2>1, InboxRead DEF Kills, Threads
  <2> QED BY <2>1, <2>2 DEF Kills
<1>4. CASE RcvTakesTopic \/ RcvForwardsChat
  <2>1. /\ net # <<>> /\ net' = Tail(net) /\ notes' \in {notes, notes + 1}
        /\ rcv' \in {"data", "blocked", "poll", "turn"} /\ rcvReady' = rcvReady \ {"chat"}
        /\ UNCHANGED <<main, uiVars, ctlVars, signal, userVars, toCtl, toUi, serverVars,
                       inbox, toRcv>>
    BY <1>4 DEF RcvTakesTopic, RcvForwardsChat
  <2>2. net' \in Seq({"topic", "data"}) /\ notes' \in Nat /\ (notes > 0 => notes' > 0)
    BY <2>1
  <2> QED BY <2>1, <2>2
<1>5. CASE RcvHandlesCommand
  BY <1>5 DEF RcvHandlesCommand
<1> QED BY <1>1, <1>2, <1>3, <1>4, <1>5 DEF RcvStep

\* The server, the user and the signals.
Environment ==
  \/ ServerAnswers \/ ServerAnswersLate \/ ServerStops \/ OthersWrite
  \/ UserTypes \/ Interrupt \/ RcvInterrupted \/ UiInterrupted \/ CtlInterrupted \/ Ended

\* What the environment does, and what a signal interrupts (signal_handler.h:18-31).
LEMMA EnvironmentTyped == Typed /\ Environment => Typed'
<1> SUFFICES ASSUME Typed, Environment PROVE Typed'
  OBVIOUS
<1> USE DEF Typed, TypeOK, ReadyOK, CommandOK, ThreadsUntouched, uiVars, ctlVars, rcvVars,
            userVars, serverVars
<1>1. ASSUME NEW a \in Arrivals
      PROVE  Delivered(a) \in Seq({"topic", "data"}) /\ (net # <<>> => Delivered(a) # <<>>)
  <2>a. Whole \in Seq({"topic", "data"}) /\ <<"topic">> \in Seq({"topic", "data"})
    BY DEF Whole
  <2>b. a \in {Whole, <<"topic">> \o Whole, <<>>}
    BY DEF Arrivals
  <2>c. <<"topic">> \o Whole \in Seq({"topic", "data"}) /\ <<>> \in Seq({"topic", "data"})
    BY <2>a, ConcatProperties
  <2>1. a \in Seq({"topic", "data"})
    BY <2>a, <2>b, <2>c
  <2>2. /\ net \o a \in Seq({"topic", "data"}) /\ Len(net) \in Nat /\ Len(a) \in Nat
        /\ Len(net \o a) = Len(net) + Len(a) /\ (net # <<>> => Len(net) # 0)
    BY <2>1, EmptySeq, LenProperties, ConcatProperties
  <2>3. net # <<>> => net \o a # <<>>
    BY <2>2
  <2> QED BY <2>2, <2>3 DEF Delivered
<1>a. ASSUME NEW request, ServerHandles(request)
      PROVE  /\ session' \in BOOLEAN
             /\ net' \in Seq({"topic", "data"}) /\ (net # <<>> => net' # <<>>)
             /\ UNCHANGED <<up, signal, userVars>> /\ ThreadsUntouched
  <2>1. session' \in BOOLEAN
    BY <1>a DEF ServerHandles
  <2>2. net' = net \/ \E a \in Arrivals : net' = Delivered(a)
    BY <1>a DEF ServerHandles
  <2>3. net' \in Seq({"topic", "data"}) /\ (net # <<>> => net' # <<>>)
    BY <1>1, <2>2
  <2> QED BY <1>a, <2>1, <2>3 DEF ServerHandles
<1>b. ASSUME session' \in BOOLEAN, up' \in BOOLEAN,
             net' \in Seq({"topic", "data"}), net # <<>> => net' # <<>>,
             UNCHANGED <<signal, userVars>>, ThreadsUntouched,
             server' \in {"idle", "asked", "ok", "bad", "broken"}, late' \in {late, "none"}
      PROVE  Typed'
  <2>1. TypeOK'
    BY <1>b
  <2>2. ReadyOK' /\ CommandOK'
    BY <1>b
  <2> QED BY <2>1, <2>2
<1>2. CASE ServerAnswers
  BY <1>a, <1>b, <1>2 DEF ServerAnswers
<1>3. CASE ServerAnswersLate
  BY <1>a, <1>b, <1>3 DEF ServerAnswersLate
<1>4. CASE ServerStops
  <2>1. /\ up' = FALSE /\ session' = session /\ server' = server /\ late' = late
        /\ net' = net /\ UNCHANGED <<signal, userVars>> /\ ThreadsUntouched
    BY <1>4 DEF ServerStops
  <2>2. session' \in BOOLEAN /\ up' \in BOOLEAN
    BY <2>1
  <2> QED BY <1>b, <2>1, <2>2
<1>5. CASE OthersWrite
  <2>1. /\ net' \in Seq({"topic", "data"}) /\ (net # <<>> => net' # <<>>)
        /\ chat' \in 0..MaxChat
        /\ UNCHANGED <<serverVars, signal, stdin, lines>> /\ ThreadsUntouched
    BY <1>1, <1>5, EventsAssumption DEF OthersWrite
  <2> QED BY <2>1
<1>6. CASE UserTypes
  BY <1>6, EventsAssumption DEF UserTypes
<1>7. CASE Interrupt
  BY <1>7 DEF Interrupt, Signalled
<1>8. CASE RcvInterrupted
  BY <1>8 DEF RcvInterrupted, Signalled
<1>9. CASE UiInterrupted
  BY <1>9 DEF UiInterrupted, Signalled, UiLineLeaves, UiLeaves, UiOthers
<1>10. CASE CtlInterrupted
  <2>1. CASE ctl = "call" /\ server = "asked" /\ late' = command /\ Fails(command)
    BY <1>10, <2>1 DEF CtlInterrupted, Signalled, Fails, AfterFailure, GivenUp, Commands
  <2>2. CASE ctl = "blocked" /\ CtlLeaves("answer") /\ UNCHANGED <<late, server>>
    BY <1>10, <2>2 DEF CtlInterrupted, Signalled, CtlLeaves, Commands
  <2> QED BY <1>10, <2>1, <2>2 DEF CtlInterrupted
<1>11. CASE Ended
  BY <1>11 DEF Ended, vars
<1> QED BY <1>2, <1>3, <1>4, <1>5, <1>6, <1>7, <1>8, <1>9, <1>10, <1>11 DEF Environment

\* Nobody takes from a socket what is not there, and every thread is where its code is.
LEMMA AlwaysTyped == Spec => []Typed
<1>1. Typed /\ [Next]_vars => Typed'
  <2> SUFFICES ASSUME Typed, [Next]_vars PROVE Typed'
    OBVIOUS
  <2>1. CASE UNCHANGED vars
    BY <2>1 DEF vars, Typed, TypeOK, ReadyOK, CommandOK
  <2> QED BY <2>1, MainTyped, UiTyped, CtlTyped, RcvTyped, EnvironmentTyped DEF Next, Environment
<1> QED BY <1>1, InitTyped, PTL DEF Spec

\* Every variable keeps its type, whatever the events and in any interleaving.
THEOREM TypeCorrect == Spec => []TypeOK
<1>1. Typed => TypeOK
  BY DEF Typed
<1> QED BY <1>1, AlwaysTyped, PTL

-------------------------------------------------------------------------------
\* The end

\* The controller waits as long as its request is out, and a reply to a logout means that
\* there is no session; only a request nobody waits for leaves the socket broken.
ExchangeOK ==
  /\ server \in {"asked", "ok", "bad"} => ctl = "call"
  /\ ctl = "call" => command \in {"login", "ping", "logout", "rooms", "join", "leave", "msg"}
  /\ command = "logout" /\ server \in {"ok", "bad"} => ~session
  /\ late # "none" => server = "broken"
  /\ LoggedOutOnExit

\* Whom main has joined has left.
JoinedOK ==
  /\ main \in {"join_controller", "kill_ui", "join_ui", "terminate", "done"} => rcv = "done"
  /\ main \in {"kill_ui", "join_ui", "terminate", "done"} => ctl = "done"
  /\ main \in {"terminate", "done"} => ui = "done"

\* A request that is sent is out, and one that fails breaks the socket or found it broken.
LEMMA AskExchanges ==
  ASSUME NEW request \in {"login", "ping", "logout", "rooms", "join", "leave", "msg"},
         Asks(request) \/ Fails(request)
  PROVE  \/ server' = "asked" /\ ctl' = "call" /\ command' = request
         \/ server' = "broken" /\ ctl' # "call"
BY DEF Asks, Fails, AfterFailure

\* The controller's steps keep the exchange in order (chat_client_controller.c:323-353).
LEMMA CtlExchanges == Typed /\ ExchangeOK /\ CtlStep => ExchangeOK'
<1> SUFFICES ASSUME Typed, ExchangeOK, CtlStep PROVE ExchangeOK'
  OBVIOUS
<1>a. session' = session /\ late' = late
  BY DEF CtlStep, CtlOthers, CtlStarts, CtlPolls, CtlPings, CtlHandlesKill, CtlTakesLine,
         CtlGetsReply, CtlGetsBadReply, CtlInstructs, CtlAnswers
<1> USE DEF ExchangeOK, LoggedOutOnExit
<1>b. ASSUME NEW request \in {"login", "ping", "logout", "rooms", "join", "leave", "msg"},
             Asks(request), server # "broken" => late = "none"
      PROVE  ExchangeOK'
  <2>1. \/ server' = "asked" /\ ctl' = "call" /\ command' = request /\ server # "broken"
        \/ server' = "broken" /\ ctl' # "call"
    BY <1>b DEF Asks, Fails, AfterFailure
  <2> QED BY <1>a, <1>b, <2>1
<1>1. CASE CtlStarts
  BY <1>1, <1>b DEF CtlStarts
<1>2. CASE CtlPolls
  BY <1>2, <1>a DEF CtlPolls
<1>3. CASE CtlPings
  BY <1>3, <1>b DEF CtlPings
<1>4. CASE CtlHandlesKill
  <2>1. CASE Asks("logout")
    BY <2>1, <1>b
  <2>2. CASE ctl' \in {"poll", "turn"} /\ UNCHANGED <<command, server>> /\ ctl = "turn"
    BY <2>2, <1>a
  <2> QED BY <1>4, <2>1, <2>2 DEF CtlHandlesKill
<1>5. CASE CtlTakesLine
  <2>1. CASE Asks("logout")
    BY <2>1, <1>b
  <2>2. CASE ctl' = "answer" /\ command' = "usage" /\ server' = server /\ ctl = "turn"
    BY <2>2, <1>a
  <2>3. CASE Head(toCtl) \in Commands \ {"usage"} /\ Asks(Head(toCtl))
    BY <2>3, <1>b DEF Commands
  <2> QED BY <1>5, <2>1, <2>2, <2>3 DEF CtlTakesLine
<1>6. CASE CtlGetsReply
  BY <1>6, <1>a DEF CtlGetsReply, CtlLeaves
<1>7. CASE CtlGetsBadReply
  <2>1. CASE Asks("logout")
    BY <2>1, <1>b
  <2>2. CASE command \notin GivenUp /\ server' = "idle" /\ CtlLeaves(AfterFailure(command))
    <3>1. ctl = "call" /\ server = "bad"
      BY <1>7 DEF CtlGetsBadReply
    <3>2. ctl' = AfterFailure(command) /\ command' = command /\ ctl' # "call"
      BY <2>2 DEF CtlLeaves, AfterFailure
    <3>3. ctl' = "done" => command \in {"login", "logout"}
      BY <2>2, <3>1, <3>2 DEF AfterFailure, GivenUp
    <3> QED BY <1>a, <2>2, <3>1, <3>2, <3>3
  <2> QED BY <1>7, <2>1, <2>2 DEF CtlGetsBadReply
<1>8. CASE CtlInstructs
  BY <1>8, <1>a DEF CtlInstructs, CtlLeaves
<1>9. CASE CtlAnswers
  BY <1>9, <1>a DEF CtlAnswers, CtlLeaves
<1> QED BY <1>1, <1>2, <1>3, <1>4, <1>5, <1>6, <1>7, <1>8, <1>9 DEF CtlStep

\* The others leave the exchange alone, but for the server and a signal.
LEMMA ExchangeKept == Spec => []ExchangeOK
<1>1. Init => ExchangeOK
  BY DEF Init, ExchangeOK, LoggedOutOnExit
<1>2. Typed /\ ExchangeOK /\ [Next]_vars => ExchangeOK'
  <2> SUFFICES ASSUME Typed, ExchangeOK, [Next]_vars PROVE ExchangeOK'
    OBVIOUS
  <2>a. ASSUME UNCHANGED <<server, ctl, command, late, session>> PROVE ExchangeOK'
    BY <2>a DEF ExchangeOK, LoggedOutOnExit
  <2>1. CASE MainStep \/ UiStep \/ RcvStep
    <3>1. UNCHANGED <<server, ctl, command, late, session>>
      BY <2>1
      DEF MainStep, MainOthers, MainWakes, MainKillsController, MainKillsReceiver,
          MainJoinsReceiver, MainJoinsController, MainKillsUi, MainJoinsUi, MainTerminates,
          UiStep, UiOthers, UiStarts, UiPolls, UiHandlesKill, UiShowsNote, UiHitsEof,
          UiSendsLine, UiRaisesSigint, UiGetsAnswer, UiExits, RcvStep, RcvOthers, RcvStarts,
          RcvPolls, RcvHandlesKill, RcvTakesTopic, RcvForwardsChat, RcvHandlesCommand,
          ctlVars, serverVars
    <3> QED BY <2>a, <3>1
  <2>2. CASE ServerStops \/ OthersWrite \/ UserTypes \/ Interrupt \/ RcvInterrupted
             \/ UiInterrupted \/ Ended \/ UNCHANGED vars
    <3>1. UNCHANGED <<server, ctl, command, late, session>>
      BY <2>2
      DEF ServerStops, OthersWrite, UserTypes, Interrupt, RcvInterrupted, UiInterrupted,
          Ended, vars, ThreadsUntouched, UiOthers, ctlVars, serverVars
    <3> QED BY <2>a, <3>1
  <2>3. CASE ServerAnswers
    <3>1. /\ server = "asked" /\ server' \in {"ok", "bad"} /\ UNCHANGED <<ctl, command, late>>
          /\ command = "logout" => session' = FALSE
      BY <2>3 DEF ServerAnswers, ServerHandles, ThreadsUntouched, ctlVars
    <3> QED BY <3>1 DEF ExchangeOK, LoggedOutOnExit
  <2>4. CASE ServerAnswersLate
    <3>1. /\ late # "none" /\ late' = "none" /\ UNCHANGED <<server, ctl, command>>
      BY <2>4 DEF ServerAnswersLate, ServerHandles, ThreadsUntouched, ctlVars
    <3> QED BY <3>1 DEF ExchangeOK, LoggedOutOnExit
  <2>5. CASE CtlInterrupted
    <3>1. CASE ctl = "call" /\ server = "asked" /\ Fails(command)
      BY <3>1, AskExchanges DEF ExchangeOK, LoggedOutOnExit, Fails
    <3>2. CASE ctl = "blocked" /\ CtlLeaves("answer") /\ UNCHANGED <<late, server, session>>
      BY <3>2 DEF ExchangeOK, LoggedOutOnExit, CtlLeaves
    <3> QED BY <2>5, <3>1, <3>2 DEF CtlInterrupted
  <2> QED BY <2>1, <2>2, <2>3, <2>4, <2>5, CtlExchanges DEF Next
<1> QED BY <1>1, <1>2, AlwaysTyped, PTL DEF Spec

\* The controller logs out on every way out of its loop, whatever the events: only a
\* signal that keeps it from receiving a reply can leave a session behind.
THEOREM ControllerLogsOut == Spec => []LoggedOutOnExit
<1>1. ExchangeOK => LoggedOutOnExit
  BY DEF ExchangeOK
<1> QED BY <1>1, ExchangeKept, PTL

\* A thread that has left stays away.
LEMMA LeftForGood ==
  ASSUME [Next]_vars
  PROVE  /\ ui = "done" => ui' = "done"
         /\ ctl = "done" => ctl' = "done"
         /\ rcv = "done" => rcv' = "done"
<1>1. CASE MainStep
  BY <1>1
  DEF MainStep, MainOthers, MainWakes, MainKillsController, MainKillsReceiver,
      MainJoinsReceiver, MainJoinsController, MainKillsUi, MainJoinsUi, MainTerminates,
      uiVars, ctlVars, rcvVars
<1>2. CASE UiStep
  BY <1>2
  DEF UiStep, UiOthers, UiStarts, UiPolls, UiHandlesKill, UiShowsNote, UiHitsEof, UiAtStdin,
      UiSendsLine, UiRaisesSigint, UiGetsAnswer, UiExits, ctlVars, rcvVars
<1>3. CASE CtlStep
  BY <1>3
  DEF CtlStep, CtlOthers, CtlStarts, CtlPolls, CtlPings, CtlHandlesKill, CtlTakesLine,
      CtlGetsReply, CtlGetsBadReply, CtlInstructs, CtlAnswers, uiVars, rcvVars
<1>4. CASE RcvStep
  BY <1>4
  DEF RcvStep, RcvOthers, RcvStarts, RcvPolls, RcvHandlesKill, RcvTakesTopic, RcvForwardsChat,
      RcvHandlesCommand, uiVars, ctlVars
<1>5. CASE Environment
  BY <1>5
  DEF Environment, ServerAnswers, ServerAnswersLate, ServerHandles, ServerStops, OthersWrite,
      UserTypes, Interrupt, RcvInterrupted, UiInterrupted, CtlInterrupted, Ended, vars,
      ThreadsUntouched, UiOthers, uiVars, ctlVars, rcvVars
<1>6. CASE UNCHANGED vars
  BY <1>6 DEF vars
<1> QED BY <1>1, <1>2, <1>3, <1>4, <1>5, <1>6 DEF Next, Environment

\* Main goes on past a join when the thread has left, and not before (chat_client.c:61-79).
LEMMA JoinedKept == Spec => []JoinedOK
<1>1. Init => JoinedOK
  BY DEF Init, JoinedOK
<1>2. JoinedOK /\ [Next]_vars => JoinedOK'
  <2> SUFFICES ASSUME JoinedOK, [Next]_vars PROVE JoinedOK'
    OBVIOUS
  <2>1. CASE MainStep
    BY <2>1, LeftForGood
    DEF JoinedOK, MainStep, MainGoes, MainOthers, MainWakes, MainKillsController,
        MainKillsReceiver, MainJoinsReceiver, MainJoinsController, MainKillsUi, MainJoinsUi,
        MainTerminates, uiVars, ctlVars, rcvVars
  <2>2. CASE UiStep \/ CtlStep \/ RcvStep \/ Environment \/ UNCHANGED vars
    <3>1. main' = main
      BY <2>2
      DEF UiStep, UiOthers, UiStarts, UiPolls, UiHandlesKill, UiShowsNote, UiHitsEof,
          UiSendsLine, UiRaisesSigint, UiGetsAnswer, UiExits, CtlStep, CtlOthers, CtlStarts,
          CtlPolls, CtlPings, CtlHandlesKill, CtlTakesLine, CtlGetsReply, CtlGetsBadReply,
          CtlInstructs, CtlAnswers, RcvStep, RcvOthers, RcvStarts, RcvPolls, RcvHandlesKill,
          RcvTakesTopic, RcvForwardsChat, RcvHandlesCommand, Environment, ServerAnswers,
          ServerAnswersLate, ServerHandles, ServerStops, OthersWrite, UserTypes, Interrupt,
          RcvInterrupted, UiInterrupted, CtlInterrupted, Ended, vars, ThreadsUntouched
    <3> QED BY <3>1, LeftForGood DEF JoinedOK
  <2> QED BY <2>1, <2>2 DEF Next, Environment
<1> QED BY <1>1, <1>2, PTL DEF Spec

-------------------------------------------------------------------------------
\* Lines and answers

\* The places a line of the user's can be in.
Places == Unread + Len(toUi) + (IF Working THEN 1 ELSE 0)

\* After /quit comes no other line.
QuitIsLast ==
  \A i \in 1..Len(toCtl) :
    toCtl[i] = "quit" => i = Len(toCtl) /\ ui \in {"raise", "exit", "done"}

\* Before a signal has interrupted anything, a controller that hangs has the only line in
\* its hands: when the signal frees it, there is no other answer.
BlockedOK == ctl = "blocked" /\ GivenUpLines = 0 => ui = "await" /\ Unread = 0 /\ toUi = <<>>

LineOK ==
  /\ QuitIsLast
  /\ BlockedOK
  /\ command = "logout" => ctl \in {"call", "done"}
  /\ ui = "blocked" => ctl = "done"
  /\ LinesAnsweredOnce

\* The lines and answers are counted in natural numbers.
LEMMA Counts ==
  ASSUME Typed
  PROVE  /\ Unread \in Nat /\ Len(toUi) \in Nat /\ Places \in Nat
         /\ toUi = <<>> <=> Len(toUi) = 0
         /\ Working => Places = Unread + Len(toUi) + 1
         /\ ~Working => Places = Unread + Len(toUi)
         /\ GivenUpLines \in {0, 1}
<1>1. /\ Len(toCtl) \in Nat /\ (toCtl # <<>> => Len(toCtl) # 0)
      /\ Len(toUi) \in Nat /\ (toUi = <<>> <=> Len(toUi) = 0)
  BY EmptySeq, LenProperties DEF Typed, TypeOK
<1>2. Unread \in Nat
  <2>1. \A n \in Nat : n # 0 => n - 1 \in Nat
    OBVIOUS
  <2> QED BY <1>1, <2>1 DEF Unread
<1>3. Places = Unread + Len(toUi) + (IF Working THEN 1 ELSE 0)
  BY DEF Places
<1>4. GivenUpLines \in {0, 1}
  BY DEF GivenUpLines
<1> HIDE DEF Unread, Places, Working
<1> QED BY <1>1, <1>2, <1>3, <1>4

LEMMA CountsNext ==
  ASSUME Typed'
  PROVE  Unread' \in Nat /\ Len(toUi') \in Nat /\ Places' \in Nat /\ GivenUpLines' \in {0, 1}
<1>1. /\ Len(toCtl') \in Nat /\ (toCtl' # <<>> => Len(toCtl') # 0)
      /\ Len(toUi') \in Nat
  BY EmptySeq, LenProperties DEF Typed, TypeOK
<1>2. Unread' \in Nat
  <2>1. \A n \in Nat : n # 0 => n - 1 \in Nat
    OBVIOUS
  <2> QED BY <1>1, <2>1 DEF Unread
<1>3. Places' = Unread' + Len(toUi') + (IF Working' THEN 1 ELSE 0)
  BY DEF Places
<1>4. GivenUpLines' \in {0, 1}
  BY DEF GivenUpLines
<1> HIDE DEF Unread, Places, Working
<1> QED BY <1>1, <1>2, <1>3, <1>4

\* The property in the words of these proofs.
LEMMA OnceInPlaces ==
  LinesAnsweredOnce <=>
    IF ui = "await" THEN Places <= 1 + GivenUpLines /\ (Places = 0 => CtlGone)
                    ELSE Places <= GivenUpLines
BY DEF LinesAnsweredOnce, Places

\* A signal is not taken back.
LEMMA GivenUpStays ==
  ASSUME Typed, [Next]_vars
  PROVE  GivenUpLines = 1 => GivenUpLines' = 1
<1>1. signal => signal'
  BY DEF Next, MainStep, MainOthers, MainWakes, MainKillsController, MainKillsReceiver,
         MainJoinsReceiver, MainJoinsController, MainKillsUi, MainJoinsUi, MainTerminates,
         UiStep, UiStarts, UiPolls, UiHandlesKill, UiShowsNote, UiHitsEof, UiSendsLine,
         UiRaisesSigint, UiGetsAnswer, UiExits, CtlStep, CtlOthers, CtlStarts, CtlPolls,
         CtlPings, CtlHandlesKill, CtlTakesLine, CtlGetsReply, CtlGetsBadReply,
         CtlInstructs, CtlAnswers, RcvStep, RcvOthers, RcvStarts, RcvPolls, RcvHandlesKill,
         RcvTakesTopic, RcvForwardsChat, RcvHandlesCommand, ServerAnswers,
         ServerAnswersLate, ServerHandles, ServerStops, OthersWrite, UserTypes, Interrupt,
         RcvInterrupted, UiInterrupted, CtlInterrupted, Signalled, Ended, vars
<1> QED BY <1>1 DEF GivenUpLines

\* Without a second line that a signal has left, a line is in one place only.
LEMMA OnePlace ==
  ASSUME Typed, LineOK, GivenUpLines = 0
  PROVE  /\ Working => Unread = 0 /\ toUi = <<>>
         /\ toUi # <<>> => Len(toUi) = 1 /\ Unread = 0 /\ ~Working
         /\ Unread # 0 => Unread = 1 /\ toUi = <<>> /\ ~Working
         /\ toUi # <<>> \/ Unread # 0 \/ Working => ui = "await"
<1> DEFINE answers == Len(toUi)
<1>1. /\ Unread \in Nat /\ answers \in Nat /\ (toUi = <<>> <=> answers = 0)
      /\ Working => Places = Unread + answers + 1
      /\ ~Working => Places = Unread + answers
  BY Counts
<1>2. IF ui = "await" THEN Places <= 1 ELSE Places <= 0
  BY OnceInPlaces DEF LineOK
<1> HIDE DEF answers
<1>3. /\ Working => Unread = 0 /\ answers = 0
      /\ answers # 0 => answers = 1 /\ Unread = 0 /\ ~Working
      /\ Unread # 0 => Unread = 1 /\ answers = 0 /\ ~Working
      /\ answers # 0 \/ Unread # 0 \/ Working => ui = "await"
  BY <1>1, <1>2
<1> QED BY <1>1, <1>3 DEF answers

\* What the ui sends is one more line, but for /quit.
LEMMA LineSent ==
  ASSUME Typed, QuitIsLast, ui = "turn", stdin \in Commands \cup {"quit"},
         toCtl' = Append(toCtl, stdin)
  PROVE  /\ Unread' = IF stdin = "quit" THEN Unread ELSE Unread + 1
         /\ \A i \in 1..Len(toCtl') : toCtl'[i] = "quit" => i = Len(toCtl') /\ stdin = "quit"
<1>1. toCtl \in Seq(Commands \cup {"quit"}) /\ Len(toCtl) \in Nat
  BY LenProperties DEF Typed, TypeOK
<1>2. \A i \in 1..Len(toCtl) : toCtl[i] # "quit"
  BY DEF QuitIsLast
<1>3. /\ Len(toCtl') = Len(toCtl) + 1 /\ toCtl'[Len(toCtl')] = stdin /\ toCtl' # <<>>
      /\ \A i \in 1..Len(toCtl) : toCtl'[i] = toCtl[i]
  BY <1>1, AppendProperties
<1>4. toCtl # <<>> => Len(toCtl) \in 1..Len(toCtl)
  BY <1>1, EmptySeq
<1>5. Unread = Len(toCtl)
  BY <1>2, <1>4 DEF Unread
<1>6. Unread' = IF stdin = "quit" THEN Unread ELSE Unread + 1
  BY <1>1, <1>3, <1>5 DEF Unread
<1>7. \A i \in 1..Len(toCtl') : i \in 1..Len(toCtl) \/ i = Len(toCtl')
  BY <1>1, <1>3
<1> QED BY <1>2, <1>3, <1>6, <1>7

\* What the controller takes is one line less, but for /quit.
LEMMA LineTaken ==
  ASSUME Typed, QuitIsLast, toCtl # <<>>, toCtl' = Tail(toCtl)
  PROVE  /\ Unread = IF Head(toCtl) = "quit" THEN Unread' ELSE Unread' + 1
         /\ ui' = ui => QuitIsLast'
         /\ Unread' \in Nat
<1>1. /\ toCtl \in Seq(Commands \cup {"quit"}) /\ Len(toCtl) \in Nat /\ Len(toCtl) # 0
      /\ Head(toCtl) = toCtl[1]
  BY LenProperties, EmptySeq DEF Typed, TypeOK
<1>2. /\ toCtl' \in Seq(Commands \cup {"quit"}) /\ Len(toCtl') = Len(toCtl) - 1
      /\ \A i \in 1..Len(toCtl') : toCtl'[i] = toCtl[i + 1]
      /\ toCtl' = <<>> <=> Len(toCtl') = 0
  BY <1>1, EmptySeq, HeadTailProperties
<1>3. toCtl[Len(toCtl)] = IF toCtl' = <<>> THEN toCtl[1] ELSE toCtl'[Len(toCtl')]
  BY <1>1, <1>2
<1>4. toCtl' # <<>> => toCtl[1] # "quit"
  <2>1. 1 \in 1..Len(toCtl) /\ (toCtl' # <<>> => 1 # Len(toCtl))
    BY <1>1, <1>2
  <2> QED BY <2>1 DEF QuitIsLast
<1>5. Unread = IF Head(toCtl) = "quit" THEN Unread' ELSE Unread' + 1
  BY <1>1, <1>2, <1>3, <1>4 DEF Unread
<1>6. ui' = ui => QuitIsLast'
  <2> SUFFICES ASSUME ui' = ui, NEW i \in 1..Len(toCtl'), toCtl'[i] = "quit"
               PROVE  i = Len(toCtl') /\ ui \in {"raise", "exit", "done"}
    BY DEF QuitIsLast
  <2>1. i + 1 \in 1..Len(toCtl) /\ toCtl[i + 1] = "quit" /\ i \in Nat
    BY <1>1, <1>2
  <2>2. i + 1 = Len(toCtl) /\ ui \in {"raise", "exit", "done"}
    BY <2>1 DEF QuitIsLast
  <2>3. Len(toCtl') = Len(toCtl) - 1
    BY <1>2
  <2>4. i = Len(toCtl')
    BY <2>1, <2>2, <2>3
  <2> QED BY <2>2, <2>4
<1>7. Unread' \in Nat
  BY <1>1, <1>2 DEF Unread
<1> QED BY <1>5, <1>6, <1>7

\* A step adds no line while the ui waits as before, and leaves it waiting for nothing only
\* as the controller closes.
LEMMA FewerPlaces ==
  ASSUME Typed, Typed', LineOK, GivenUpLines = 1 => GivenUpLines' = 1,
         ui' = "await" <=> ui = "await", Places' <= Places,
         ui = "await" /\ Places' = 0 => CtlGone'
  PROVE  LinesAnsweredOnce'
<1>1. GivenUpLines \in {0, 1} /\ GivenUpLines' \in {0, 1} /\ Places \in Nat /\ Places' \in Nat
  BY Counts, CountsNext
<1>2. IF ui = "await" THEN Places <= 1 + GivenUpLines ELSE Places <= GivenUpLines
  BY OnceInPlaces DEF LineOK
<1>3. LinesAnsweredOnce' <=>
        IF ui' = "await" THEN Places' <= 1 + GivenUpLines' /\ (Places' = 0 => CtlGone')
                         ELSE Places' <= GivenUpLines'
  BY DEF LinesAnsweredOnce, Places
<1>4. \A p, q \in Nat, g, h \in {0, 1} :
        q <= p /\ (g = 1 => h = 1) => (p <= 1 + g => q <= 1 + h) /\ (p <= g => q <= h)
  OBVIOUS
<1>5. /\ Places <= 1 + GivenUpLines => Places' <= 1 + GivenUpLines'
      /\ Places <= GivenUpLines => Places' <= GivenUpLines'
  BY <1>1, <1>4
<1>6. CASE ui = "await"
  BY <1>2, <1>3, <1>5, <1>6
<1>7. CASE ui # "await"
  BY <1>2, <1>3, <1>5, <1>7
<1> QED BY <1>6, <1>7

\* A step that touches neither the lines nor their answers, nor who works on them, keeps
\* them in step as long as the ui waits or does not wait as before.
LEMMA LineKept ==
  ASSUME Typed, Typed', LineOK, GivenUpLines = 1 => GivenUpLines' = 1,
         UNCHANGED <<toCtl, toUi, ctl, command>>, ui' = "await" <=> ui = "await",
         ui' # "blocked" \/ ui' = ui,
         ui \in {"raise", "exit", "done"} => ui' \in {"raise", "exit", "done"}
  PROVE  LineOK'
<1>1. /\ Unread' = Unread /\ Working' = Working /\ CtlGone' = CtlGone
      /\ Places' = Places
  BY DEF Unread, Working, CtlGone, Places
<1>2. GivenUpLines \in {0, 1} /\ Places \in Nat
  BY Counts
<1>3. ui = "await" /\ Places' = 0 => CtlGone'
  BY <1>1, OnceInPlaces DEF LineOK
<1>4. LinesAnsweredOnce'
  BY <1>1, <1>2, <1>3, FewerPlaces
<1>5. QuitIsLast'
  BY DEF LineOK, QuitIsLast
<1>6. GivenUpLines' = 0 => GivenUpLines = 0
  BY <1>2
<1>7. BlockedOK'
  BY <1>1, <1>6 DEF LineOK, BlockedOK
<1> QED BY <1>4, <1>5, <1>7 DEF LineOK

\* The ui's steps: it sends a line and waits, or /quit and leaves (chat_client_ui.c:119-155).
LEMMA UiLine == Typed /\ Typed' /\ LineOK /\ UiStep => LineOK'
<1> SUFFICES ASSUME Typed, Typed', LineOK, UiStep PROVE LineOK'
  OBVIOUS
<1>a. /\ Unread \in Nat /\ Len(toUi) \in Nat /\ Places \in Nat /\ GivenUpLines \in {0, 1}
      /\ Working => Places = Unread + Len(toUi) + 1
      /\ ~Working => Places = Unread + Len(toUi)
  BY Counts
<1>b. UNCHANGED <<ctl, command>> /\ Working' = Working /\ CtlGone' = CtlGone
  <2>1. UNCHANGED <<ctl, command>>
    BY DEF UiStep, UiOthers, UiStarts, UiPolls, UiHandlesKill, UiShowsNote, UiHitsEof,
           UiSendsLine, UiRaisesSigint, UiGetsAnswer, UiExits, ctlVars
  <2> QED BY <2>1 DEF Working, CtlGone
<1>c. GivenUpLines = 1 => GivenUpLines' = 1
  BY GivenUpStays DEF Next
<1>d. LinesAnsweredOnce' <=>
        IF ui' = "await" THEN Places' <= 1 + GivenUpLines' /\ (Places' = 0 => CtlGone')
                         ELSE Places' <= GivenUpLines'
  BY DEF LinesAnsweredOnce, Places
<1>e. /\ Working => Places' = Unread' + Len(toUi') + 1
      /\ ~Working => Places' = Unread' + Len(toUi')
      /\ Unread' \in Nat /\ GivenUpLines' \in {0, 1}
  <2>1. Unread' \in Nat /\ Len(toUi') \in Nat
    BY CountsNext
  <2> QED BY <1>b, <2>1 DEF Places, GivenUpLines
<1>1. CASE UiStarts \/ UiPolls \/ UiHandlesKill \/ UiShowsNote \/ UiHitsEof \/ UiRaisesSigint
           \/ UiExits
  BY <1>1, <1>b, <1>c, LineKept
  DEF UiStarts, UiPolls, UiHandlesKill, UiShowsNote, UiHitsEof, UiAtStdin, UiRaisesSigint,
      UiExits, UiLeaves, UiGoesOn
<1>2. CASE UiSendsLine
  <2>1. /\ ui = "turn" /\ stdin \in Commands \cup {"quit"} /\ toUi' = toUi
        /\ GivenUpLines' = GivenUpLines
    BY <1>2 DEF UiSendsLine, UiAtStdin, Typed, TypeOK, GivenUpLines
  <2>2. Places <= GivenUpLines /\ QuitIsLast
    BY <2>1, OnceInPlaces DEF LineOK
  <2>3. BlockedOK'
    BY <1>b, <2>1 DEF LineOK, BlockedOK
  <2>4. CASE ctl # "done" /\ toCtl' = Append(toCtl, stdin) /\ UiLineLeaves
    <3>1. ui' = IF stdin = "quit" THEN "raise" ELSE "await"
      BY <2>4 DEF UiLineLeaves, UiLeaves
    <3>2. Unread' = IF stdin = "quit" THEN Unread ELSE Unread + 1
      BY <2>1, <2>2, <2>4, LineSent
    <3>3. QuitIsLast'
      BY <2>1, <2>2, <2>4, <3>1, LineSent DEF QuitIsLast
    <3>4. Places' = IF stdin = "quit" THEN Places ELSE Places + 1
      <4> HIDE DEF Unread, Working, Places
      <4> QED BY <1>a, <1>e, <2>1, <3>2
    <3>5. LinesAnsweredOnce'
      <4> HIDE DEF Places, GivenUpLines, CtlGone
      <4> QED BY <1>a, <1>d, <2>1, <2>2, <3>1, <3>4
    <3> QED BY <1>b, <2>3, <3>1, <3>3, <3>5 DEF LineOK
  <2>5. CASE ctl = "done" /\ toCtl' = toCtl /\ ui' \in {"blocked", "raise", "await"}
    <3>1. QuitIsLast'
      BY <2>1, <2>2, <2>5 DEF QuitIsLast
    <3>2. Places' = Places /\ CtlGone'
      BY <1>b, <2>1, <2>5 DEF Places, Unread, CtlGone
    <3>3. LinesAnsweredOnce'
      <4> HIDE DEF Places, GivenUpLines, CtlGone
      <4> QED BY <1>a, <1>d, <2>1, <2>2, <3>2
    <3> QED BY <1>b, <2>3, <2>5, <3>1, <3>3 DEF LineOK
  <2> QED BY <1>2, <2>4, <2>5 DEF UiSendsLine, UiLineLeaves, UiLeaves
<1>3. CASE UiGetsAnswer
  <2>1. /\ ui = "await" /\ ui' = "poll" /\ toUi # <<>> /\ toUi' = Tail(toUi) /\ toCtl' = toCtl
        /\ GivenUpLines' = GivenUpLines
    BY <1>3 DEF UiGetsAnswer, UiLeaves, GivenUpLines
  <2>2. Len(toUi') = Len(toUi) - 1 /\ Unread' = Unread
    BY <2>1, HeadTailProperties DEF Unread, Typed, TypeOK
  <2>3. Places' = Places - 1 /\ Places <= 1 + GivenUpLines
    <3>1. Places <= 1 + GivenUpLines
      BY <2>1, OnceInPlaces DEF LineOK
    <3> HIDE DEF Unread, Working, Places
    <3> QED BY <1>a, <1>e, <2>2, <3>1
  <2>4. LinesAnsweredOnce'
    <3> HIDE DEF Places, GivenUpLines, CtlGone
    <3> QED BY <1>a, <1>d, <2>1, <2>3
  <2>5. QuitIsLast' /\ BlockedOK'
    BY <1>b, <2>1 DEF LineOK, QuitIsLast, BlockedOK
  <2> QED BY <1>b, <2>1, <2>4, <2>5 DEF LineOK
<1> QED BY <1>1, <1>2, <1>3 DEF UiStep

\* What becomes of a line when the controller asks, or fails to ask.
LEMMA AskWorks ==
  ASSUME NEW request \in {"login", "ping", "logout", "rooms", "join", "leave", "msg"},
         Asks(request) \/ Fails(request)
  PROVE  /\ ctl' # "blocked"
         /\ command' = "logout" => ctl' \in {"call", "done"} /\ CtlGone'
         /\ request \in {"login", "ping", "logout"} => ~Working'
         /\ request = "logout" => CtlGone'
         /\ request \in Commands => Working' \/ CtlGone'
BY DEF Asks, Fails, AfterFailure, GivenUp, Working, CtlGone, Commands

\* The controller's steps: each line it takes is worked on, then answered, or it gives up
\* (chat_client_controller.c:570-617).
LEMMA CtlLine == Typed /\ Typed' /\ LineOK /\ CtlStep => LineOK'
<1> SUFFICES ASSUME Typed, Typed', LineOK, CtlStep PROVE LineOK'
  OBVIOUS
<1>a. /\ Unread \in Nat /\ Len(toUi) \in Nat /\ Places \in Nat /\ GivenUpLines \in {0, 1}
      /\ Working => Places = Unread + Len(toUi) + 1
      /\ ~Working => Places = Unread + Len(toUi)
  BY Counts
<1>b. ui' = ui /\ GivenUpLines' = GivenUpLines
  BY DEF CtlStep, CtlOthers, CtlStarts, CtlPolls, CtlPings, CtlHandlesKill, CtlTakesLine,
         CtlGetsReply, CtlGetsBadReply, CtlInstructs, CtlAnswers, uiVars, GivenUpLines
<1>c. /\ Working' => Places' = Unread' + Len(toUi') + 1
      /\ ~Working' => Places' = Unread' + Len(toUi')
  <2>1. Unread' \in Nat /\ Len(toUi') \in Nat
    BY CountsNext
  <2> QED BY <2>1 DEF Places
<1>d. ui = "await" /\ Places = 0 => CtlGone
  BY OnceInPlaces DEF LineOK
\* The step leaves the lines where they are, and does not close or is at its end.
<1>e. ASSUME UNCHANGED <<toCtl, toUi>>, ctl # "done", ctl' # "blocked",
             Working' => Working, CtlGone => CtlGone', Working => Working' \/ CtlGone',
             command' = "logout" => ctl' \in {"call", "done"}
      PROVE  LineOK'
  <2>1. Unread' = Unread /\ QuitIsLast'
    BY <1>b, <1>e DEF Unread, LineOK, QuitIsLast
  <2>2. Places' <= Places /\ (Places' = 0 => Places = 0 \/ CtlGone')
    <3> HIDE DEF Unread, Working, Places, CtlGone
    <3> QED BY <1>a, <1>c, <1>e, <2>1
  <2>3. LinesAnsweredOnce'
    BY <1>b, <1>d, <1>e, <2>2, FewerPlaces
  <2> QED BY <1>b, <1>e, <2>1, <2>3 DEF LineOK, BlockedOK
<1>1. CASE CtlStarts
  BY <1>1, <1>e, AskWorks DEF CtlStarts, Working, CtlGone, LineOK
<1>2. CASE CtlPolls
  BY <1>2, <1>e DEF CtlPolls, Working, CtlGone, LineOK
<1>3. CASE CtlPings
  BY <1>3, <1>e, AskWorks DEF CtlPings, Working, CtlGone, LineOK
<1>4. CASE CtlHandlesKill
  <2>1. ctl = "turn" /\ UNCHANGED <<toCtl, toUi>>
    BY <1>4 DEF CtlHandlesKill
  <2>2. CASE Asks("logout")
    BY <1>e, <2>1, <2>2, AskWorks
  <2>3. CASE ctl' \in {"poll", "turn"} /\ UNCHANGED <<command, server>>
    BY <1>e, <2>1, <2>3 DEF Working, CtlGone, LineOK
  <2> QED BY <1>4, <2>2, <2>3 DEF CtlHandlesKill
<1>5. CASE CtlTakesLine
  <2>1. /\ ctl = "turn" /\ toCtl # <<>> /\ toCtl' = Tail(toCtl) /\ toUi' = toUi
        /\ ~Working /\ ~CtlGone
    BY <1>5 DEF CtlTakesLine, Typed, ReadyOK, Working, CtlGone, LineOK
  <2>2. /\ Unread = IF Head(toCtl) = "quit" THEN Unread' ELSE Unread' + 1
        /\ QuitIsLast' /\ Unread' \in Nat
    BY <1>b, <2>1, LineTaken DEF LineOK
  <2>3. /\ Head(toCtl) = "quit" => CtlGone' /\ ~Working'
        /\ Head(toCtl) # "quit" => Working' \/ CtlGone'
        /\ ctl' # "blocked" /\ (command' = "logout" => ctl' \in {"call", "done"})
    <3>1. CASE Head(toCtl) = "quit" /\ Asks("logout")
      BY <3>1, AskWorks
    <3>2. CASE Head(toCtl) = "usage" /\ ctl' = "answer" /\ command' = "usage"
      BY <3>2 DEF Working, Commands
    <3>3. CASE Head(toCtl) \in Commands \ {"usage"} /\ Asks(Head(toCtl))
      BY <3>3, AskWorks DEF Commands
    <3> QED BY <1>5, <3>1, <3>2, <3>3 DEF CtlTakesLine
  <2>4. Places' <= Places /\ (Places' = 0 => Places = 0 \/ CtlGone')
    <3> HIDE DEF Unread, Working, Places, CtlGone
    <3> QED BY <1>a, <1>c, <2>1, <2>2, <2>3
  <2>5. LinesAnsweredOnce'
    BY <1>b, <1>d, <2>1, <2>4, FewerPlaces
  <2> QED BY <1>b, <2>1, <2>2, <2>3, <2>5 DEF LineOK, BlockedOK
<1>6. CASE CtlGetsReply
  <2>1. ctl = "call" /\ command' = command /\ UNCHANGED <<toCtl, toUi>>
    BY <1>6 DEF CtlGetsReply, CtlLeaves
  <2>2. \/ command = "logout" /\ ctl' = "done"
        \/ command \in {"login", "ping"} /\ ctl' = "poll"
        \/ command \in {"rooms", "msg", "join", "leave"} /\ ctl' \in {"answer", "instruct"}
    BY <1>6 DEF CtlGetsReply, CtlLeaves
  <2> QED BY <1>e, <2>1, <2>2 DEF Working, CtlGone, Commands
<1>7. CASE CtlGetsBadReply
  <2>1. ctl = "call" /\ UNCHANGED <<toCtl, toUi>>
    BY <1>7 DEF CtlGetsBadReply
  <2>2. CASE command \in GivenUp /\ Asks("logout")
    BY <1>e, <2>1, <2>2, AskWorks
  <2>3. CASE command \notin GivenUp /\ CtlLeaves(AfterFailure(command))
    BY <1>e, <2>1, <2>3 DEF CtlLeaves, AfterFailure, Working, CtlGone, Commands
  <2> QED BY <1>7, <2>2, <2>3 DEF CtlGetsBadReply
<1>8. CASE CtlInstructs
  <2>1. /\ ctl = "instruct" /\ command' = command /\ UNCHANGED <<toCtl, toUi>>
        /\ Working /\ command # "logout"
    BY <1>8 DEF CtlInstructs, CtlLeaves, Working, Typed, CommandOK, Commands
  <2>2. CASE ctl' = "answer"
    BY <1>e, <2>1, <2>2 DEF Working, CtlGone
  <2>3. CASE ctl' = "blocked"
    <3>1. ~Working' /\ CtlGone' /\ Unread' = Unread
      BY <2>1, <2>3 DEF Working, CtlGone, Unread
    <3>2. Places' <= Places
      <4> HIDE DEF Unread, Working, Places
      <4> QED BY <1>a, <1>c, <2>1, <3>1
    <3>3. LinesAnsweredOnce'
      BY <1>b, <3>1, <3>2, FewerPlaces
    <3>4. BlockedOK'
      BY <1>b, <2>1, <3>1, OnePlace DEF BlockedOK
    <3> QED BY <1>b, <2>1, <3>3, <3>4 DEF LineOK, QuitIsLast
  <2> QED BY <1>8, <2>2, <2>3 DEF CtlInstructs, CtlLeaves
<1>9. CASE CtlAnswers
  <2>1. /\ ctl = "answer" /\ command' = command /\ toCtl' = toCtl
        /\ ctl' \in {"poll", "blocked"} /\ Working /\ ~Working' /\ command # "logout" /\ Unread' = Unread
    BY <1>9 DEF CtlAnswers, CtlLeaves, Working, Typed, CommandOK, Commands, Unread
  <2>2. CASE ui # "done" /\ toUi' = Append(toUi, command) /\ ctl' = "poll"
    <3>1. Len(toUi') = Len(toUi) + 1
      BY <2>1, <2>2, AppendProperties DEF Typed, TypeOK, CommandOK
    <3>2. Places' = Places /\ Places # 0
      <4> HIDE DEF Unread, Working, Places
      <4> QED BY <1>a, <1>c, <2>1, <3>1
    <3>3. LinesAnsweredOnce'
      BY <1>a, <1>b, <3>2, FewerPlaces
    <3> QED BY <1>b, <2>1, <2>2, <3>3 DEF LineOK, QuitIsLast, BlockedOK
  <2>3. CASE ui = "done" /\ toUi' = toUi
    <3>1. Places' <= Places
      <4> HIDE DEF Unread, Working, Places
      <4> QED BY <1>a, <1>c, <2>1, <2>3
    <3>2. LinesAnsweredOnce'
      BY <1>b, <2>3, <3>1, FewerPlaces
    <3>3. GivenUpLines # 0
      BY <2>1, <2>3, OnePlace
    <3> QED BY <1>b, <2>1, <2>3, <3>2, <3>3 DEF LineOK, QuitIsLast, BlockedOK
  <2> QED BY <1>9, <2>2, <2>3 DEF CtlAnswers, CtlLeaves
<1> QED BY <1>1, <1>2, <1>3, <1>4, <1>5, <1>6, <1>7, <1>8, <1>9 DEF CtlStep

\* A signal that interrupts the ui leaves its line to the controller; one that interrupts
\* the controller leaves it to answer, or to leave (signal_handler.h:18-31).
LEMMA InterruptedLine ==
  Typed /\ Typed' /\ LineOK /\ (UiInterrupted \/ CtlInterrupted) => LineOK'
<1> SUFFICES ASSUME Typed, Typed', LineOK, UiInterrupted \/ CtlInterrupted PROVE LineOK'
  OBVIOUS
<1>a. GivenUpLines = 0 /\ GivenUpLines' = 1
  BY DEF UiInterrupted, CtlInterrupted, Signalled, GivenUpLines
<1>b. /\ Unread \in Nat /\ Len(toUi) \in Nat /\ Places \in Nat
      /\ toUi = <<>> <=> Len(toUi) = 0
      /\ Working => Places = Unread + Len(toUi) + 1
      /\ ~Working => Places = Unread + Len(toUi)
  BY Counts
<1>c. IF ui = "await" THEN Places <= 1 /\ (Places = 0 => CtlGone) ELSE Places <= 0
  BY <1>a, OnceInPlaces DEF LineOK
<1>d. LinesAnsweredOnce' <=>
        IF ui' = "await" THEN Places' <= 1 + GivenUpLines' /\ (Places' = 0 => CtlGone')
                         ELSE Places' <= GivenUpLines'
  BY DEF LinesAnsweredOnce, Places
<1>e. UNCHANGED <<toCtl, toUi>> /\ Unread' = Unread
  BY DEF UiInterrupted, CtlInterrupted, Unread
<1>f. BlockedOK'
  BY <1>a DEF BlockedOK
<1>1. CASE UiInterrupted
  <2>1. /\ UNCHANGED <<ctl, command>> /\ Places' = Places /\ CtlGone' = CtlGone
        /\ \/ ui = "await" /\ ui' = "poll"
           \/ ui = "blocked" /\ ui' \in {"raise", "await"} /\ CtlGone
    BY <1>1, <1>e
    DEF UiInterrupted, UiOthers, ctlVars, UiLeaves, UiLineLeaves, Places, Working, CtlGone,
        LineOK
  <2>2. LinesAnsweredOnce'
    <3> HIDE DEF Places, GivenUpLines, CtlGone
    <3> QED BY <1>a, <1>b, <1>c, <1>d, <2>1
  <2> QED BY <1>e, <1>f, <2>1, <2>2 DEF LineOK, QuitIsLast
<1>2. CASE CtlInterrupted
  <2>1. ui' = ui
    BY <1>2 DEF CtlInterrupted, uiVars
  <2>a. /\ Working' => Places' = Unread' + Len(toUi') + 1
        /\ ~Working' => Places' = Unread' + Len(toUi')
    BY <1>b, <1>e DEF Places
  <2>2. CASE ctl = "call" /\ Fails(command)
    <3>1. /\ Working' => Working
          /\ Working => Working' \/ CtlGone'
          /\ CtlGone => CtlGone'
          /\ command' = "logout" => ctl' \in {"call", "done"}
      BY <2>2 DEF Fails, AfterFailure, GivenUp, Working, CtlGone, Commands
    <3>a. Places' <= Places /\ (Places' = 0 => Places = 0 \/ CtlGone')
      <4>1. Unread' = Unread /\ Len(toUi') = Len(toUi)
        BY <1>e
      <4>2. CASE Working'
        BY <1>b, <2>a, <3>1, <4>1, <4>2
      <4>3. CASE Working /\ ~Working'
        <5>1. CtlGone'
          BY <3>1, <4>3
        <5>2. Places' <= Places
          BY <1>b, <2>a, <4>1, <4>3
        <5> QED BY <5>1, <5>2
      <4>4. CASE ~Working /\ ~Working'
        <5>1. Places' = Places
          BY <1>b, <2>a, <4>1, <4>4
        <5> QED BY <1>b, <5>1
      <4> QED BY <4>2, <4>3, <4>4
    <3>2. LinesAnsweredOnce'
      <4>a. ui = "await" /\ Places = 0 => CtlGone
        BY <1>c
      <4>1. ui = "await" /\ Places' = 0 => CtlGone'
        BY <3>1, <3>a, <4>a
      <4> QED BY <1>a, <2>1, <3>a, <4>1, FewerPlaces
    <3> QED BY <1>e, <1>f, <2>1, <2>2, <3>1, <3>2 DEF LineOK, QuitIsLast
  <2>3. CASE ctl = "blocked" /\ CtlLeaves("answer")
    <3>1. ui = "await" /\ Unread = 0 /\ toUi = <<>> /\ Working'
      BY <1>a, <2>3 DEF LineOK, BlockedOK, Working, CtlLeaves, Typed, CommandOK
    <3>a. Places' = 1
      <4>1. Len(toUi') = 0
        BY <1>b, <1>e, <3>1
      <4> HIDE DEF Places, Working, Unread
      <4> QED BY <1>e, <2>a, <3>1, <4>1
    <3>2. LinesAnsweredOnce'
      <4> HIDE DEF Places, GivenUpLines, CtlGone
      <4> QED BY <1>a, <1>d, <2>1, <3>1, <3>a
    <3> QED BY <1>e, <1>f, <2>1, <2>3, <3>1, <3>2 DEF LineOK, QuitIsLast, CtlLeaves
  <2> QED BY <1>2, <2>2, <2>3 DEF CtlInterrupted
<1> QED BY <1>1, <1>2

\* The lines and answers stay in step, whatever the events.
LEMMA LineAlways == Spec => []LineOK
<1>1. Init => LineOK
  BY DEF Init, LineOK, QuitIsLast, BlockedOK, LinesAnsweredOnce, Unread, Working, GivenUpLines
<1>2. Typed /\ Typed' /\ LineOK /\ [Next]_vars => LineOK'
  <2> SUFFICES ASSUME Typed, Typed', LineOK, [Next]_vars PROVE LineOK'
    OBVIOUS
  <2>a. ASSUME UNCHANGED <<toCtl, toUi, ctl, command, ui>> PROVE LineOK'
    BY <2>a, GivenUpStays, LineKept
  <2>1. CASE MainStep \/ RcvStep
    <3>1. UNCHANGED <<toCtl, toUi, ctl, command, ui>>
      BY <2>1
      DEF MainStep, MainOthers, MainWakes, MainKillsController, MainKillsReceiver,
          MainJoinsReceiver, MainJoinsController, MainKillsUi, MainJoinsUi, MainTerminates,
          RcvStep, RcvOthers, RcvStarts, RcvPolls, RcvHandlesKill, RcvTakesTopic,
          RcvForwardsChat, RcvHandlesCommand, uiVars, ctlVars
    <3> QED BY <2>a, <3>1
  <2>2. CASE ServerAnswers \/ ServerAnswersLate \/ ServerStops \/ OthersWrite \/ UserTypes
             \/ Interrupt \/ RcvInterrupted \/ Ended \/ UNCHANGED vars
    <3>1. UNCHANGED <<toCtl, toUi, ctl, command, ui>>
      BY <2>2
      DEF ServerAnswers, ServerAnswersLate, ServerHandles, ServerStops, OthersWrite,
          UserTypes, Interrupt, RcvInterrupted, Ended, vars, ThreadsUntouched, uiVars, ctlVars
    <3> QED BY <2>a, <3>1
  <2> QED BY <2>1, <2>2, UiLine, CtlLine, InterruptedLine DEF Next
<1> QED BY <1>1, <1>2, AlwaysTyped, PTL DEF Spec

\* Each line the user types is in one place until it is answered, and nobody answers what
\* was not asked; a signal that interrupts the wait for one answer leaves that one line
\* behind and no more, whatever is typed after it.
THEOREM EachLineAnsweredOnce == Spec => []LinesAnsweredOnce
<1>1. LineOK => LinesAnsweredOnce
  BY DEF LineOK
<1> QED BY <1>1, LineAlways, PTL

-------------------------------------------------------------------------------
\* The client as a console

consoleVars == <<ui = "await", OpenLine, NextAnswer, CtlGone>>

\* Only a request nobody waits for leaves the socket broken.
SocketOK == server # "broken"

LEMMA SocketWhole ==
  ASSUME "eintr" \notin Events
  PROVE  Spec => []SocketOK
<1>1. Init => SocketOK
  BY DEF Init, SocketOK
<1>2. SocketOK /\ [Next]_vars => SocketOK'
  <2> SUFFICES ASSUME server # "broken", [Next]_vars PROVE server' # "broken"
    BY DEF SocketOK
  <2>1. ASSUME NEW request, Asks(request) PROVE server' # "broken"
    BY <2>1 DEF Asks
  <2>2. CASE CtlStep
    BY <2>1, <2>2
    DEF CtlStep, CtlStarts, CtlPolls, CtlPings, CtlHandlesKill, CtlTakesLine, CtlGetsReply,
        CtlGetsBadReply, CtlInstructs, CtlAnswers
  <2>3. CASE ServerAnswers
    BY <2>3 DEF ServerAnswers
  <2>4. CASE MainStep \/ UiStep \/ RcvStep
    BY <2>4
    DEF MainStep, MainOthers, MainWakes, MainKillsController, MainKillsReceiver,
        MainJoinsReceiver, MainJoinsController, MainKillsUi, MainJoinsUi, MainTerminates,
        UiStep, UiOthers, UiStarts, UiPolls, UiHandlesKill, UiShowsNote, UiHitsEof,
        UiSendsLine, UiRaisesSigint, UiGetsAnswer, UiExits, RcvStep, RcvOthers, RcvStarts,
        RcvPolls, RcvHandlesKill, RcvTakesTopic, RcvForwardsChat, RcvHandlesCommand,
        serverVars
  <2>5. CASE ServerAnswersLate \/ ServerStops \/ OthersWrite \/ UserTypes \/ Interrupt
             \/ RcvInterrupted \/ UiInterrupted \/ CtlInterrupted \/ Ended \/ UNCHANGED vars
    BY <2>5
    DEF ServerAnswersLate, ServerStops, OthersWrite, UserTypes, Interrupt, RcvInterrupted,
        UiInterrupted, CtlInterrupted, Ended, vars, serverVars
  <2> QED BY <2>2, <2>3, <2>4, <2>5 DEF Next
<1> QED BY <1>1, <1>2, PTL DEF Spec

\* A sequence of one line is empty once the line is taken.
LEMMA OnlyOne ==
  ASSUME NEW C, NEW s \in Seq(C), Len(s) = 1
  PROVE  Tail(s) = <<>>
<1>1. Tail(s) \in Seq(C) /\ Len(Tail(s)) = 0
  BY EmptySeq, LenProperties, HeadTailProperties
<1> QED BY <1>1, EmptySeq

\* At most one line is on its way, and it counts unless it is /quit.
LEMMA AtMostOne ==
  ASSUME Typed, LineOK, GivenUpLines = 0
  PROVE  /\ toCtl # <<>> => Len(toCtl) = 1
         /\ Unread = IF toCtl = <<>> \/ toCtl[1] = "quit" THEN 0 ELSE 1
         /\ toCtl # <<>> /\ toCtl[1] = "quit" => ui \in {"raise", "exit", "done"}
<1>1. Len(toCtl) \in Nat /\ (toCtl # <<>> => Len(toCtl) # 0)
  BY EmptySeq, LenProperties DEF Typed, TypeOK
<1>2. /\ Unread \in Nat /\ (Unread # 0 => Unread = 1 /\ ui = "await")
      /\ QuitIsLast
  BY Counts, OnePlace DEF LineOK
<1>3. CASE toCtl # <<>> /\ toCtl[Len(toCtl)] = "quit"
  <2>1. ui \in {"raise", "exit", "done"}
    BY <1>1, <1>2, <1>3 DEF QuitIsLast
  <2>2. Unread = 0 /\ Unread = Len(toCtl) - 1
    BY <1>2, <1>3, <2>1 DEF Unread
  <2>3. Len(toCtl) = 1
    <3> HIDE DEF Unread
    <3> QED BY <1>1, <2>2
  <2> QED BY <1>3, <2>1, <2>2, <2>3
<1>4. CASE toCtl # <<>> /\ toCtl[Len(toCtl)] # "quit"
  <2>1. Unread = Len(toCtl)
    BY <1>4 DEF Unread
  <2>2. Len(toCtl) = 1
    BY <1>1, <1>2, <1>4, <2>1
  <2> QED BY <1>4, <2>1, <2>2
<1>5. CASE toCtl = <<>>
  <2>1. Unread = Len(toCtl)
    BY <1>5 DEF Unread
  <2> QED BY <1>5, <2>1
<1> QED BY <1>3, <1>4, <1>5

\* What there is to be said of the lines and answers before a step.
LEMMA ConsoleState ==
  ASSUME Typed, LineOK, "eintr" \notin Events
  PROVE  /\ toCtl # <<>> => Head(toCtl) \in Commands \cup {"quit"} /\ Tail(toCtl) = <<>>
         /\ toUi # <<>> => Head(toUi) \in Commands /\ Tail(toUi) = <<>>
         /\ OpenLine # "none" => ui = "await" /\ toUi = <<>>
         /\ Working => toCtl = <<>> /\ ui = "await" /\ toUi = <<>> /\ ~CtlGone
         /\ ui = "turn" => toCtl = <<>> /\ toUi = <<>> /\ ~Working
         /\ NextAnswer # "none" <=> toUi # <<>>
<1>1. /\ toCtl \in Seq(Commands \cup {"quit"}) /\ toUi \in Seq(Commands)
      /\ GivenUpLines = 0
  BY DEF Typed, TypeOK, GivenUpLines
<1>2. Unread = IF toCtl = <<>> \/ toCtl[1] = "quit" THEN 0 ELSE 1
  BY <1>1, AtMostOne
<1>3. toCtl # <<>> => /\ Head(toCtl) = toCtl[1] /\ Head(toCtl) \in Commands \cup {"quit"}
                      /\ Tail(toCtl) = <<>>
  BY <1>1, AtMostOne, OnlyOne
<1>4. toUi # <<>> => Head(toUi) \in Commands /\ Tail(toUi) = <<>>
  BY <1>1, OnePlace, OnlyOne
<1>5. OpenLine # "none" => ui = "await" /\ toUi = <<>>
  BY <1>1, <1>2, <1>3, OnePlace DEF OpenLine
<1>6. Working => ui = "await" /\ toUi = <<>> /\ toCtl = <<>>
  BY <1>1, <1>2, OnePlace, AtMostOne
<1>7. Working => ~CtlGone
  BY DEF Working, CtlGone, Commands
<1>8. ui = "turn" => toCtl = <<>> /\ toUi = <<>> /\ ~Working
  BY <1>1, <1>2, OnePlace, AtMostOne
<1>9. NextAnswer # "none" <=> toUi # <<>>
  BY <1>4 DEF NextAnswer, Commands
<1> QED BY <1>3, <1>4, <1>5, <1>6, <1>7, <1>8, <1>9

\* A step that leaves the PAIR, the controller's work and the wait for its answer alone.
LEMMA ConsoleStutters ==
  ASSUME UNCHANGED <<toCtl, toUi>>, ui' = "await" <=> ui = "await",
         Working' = Working, Working => command' = command, CtlGone' = CtlGone
  PROVE  UNCHANGED consoleVars
BY DEF consoleVars, OpenLine, NextAnswer

\* The ui's steps.
LEMMA UiConsole ==
  ASSUME Typed, LineOK, "eintr" \notin Events, UiStep
  PROVE  [Console!Next]_consoleVars
<1>a. UNCHANGED <<ctl, command>>
  BY DEF UiStep, UiOthers, UiStarts, UiPolls, UiHandlesKill, UiShowsNote, UiHitsEof,
         UiSendsLine, UiRaisesSigint, UiGetsAnswer, UiExits, ctlVars
<1>b. Working' = Working /\ CtlGone' = CtlGone
  BY <1>a DEF Working, CtlGone
<1>1. CASE UiStarts \/ UiPolls \/ UiHandlesKill \/ UiShowsNote \/ UiHitsEof \/ UiRaisesSigint
           \/ UiExits
  BY <1>1, <1>a, <1>b, ConsoleStutters
  DEF UiStarts, UiPolls, UiHandlesKill, UiShowsNote, UiHitsEof, UiAtStdin, UiRaisesSigint,
      UiExits, UiLeaves, UiGoesOn
<1>2. CASE UiSendsLine
  <2>1. /\ ui = "turn" /\ stdin \in Commands \cup {"quit"} /\ toUi' = toUi
        /\ toCtl = <<>> /\ toUi = <<>> /\ ~Working
    BY <1>2, ConsoleState DEF UiSendsLine, UiAtStdin, Typed, TypeOK
  <2>2. OpenLine = "none" /\ NextAnswer = "none" /\ NextAnswer' = "none"
    BY <2>1 DEF OpenLine, NextAnswer
  <2>3. CASE ctl # "done" /\ toCtl' = Append(toCtl, stdin) /\ UiLineLeaves
    <3>1. toCtl' # <<>> /\ Head(toCtl') = stdin
      BY <2>1, <2>3
    <3>2. CASE stdin = "quit"
      BY <1>b, <2>1, <2>2, <2>3, <3>1, <3>2 DEF OpenLine, UiLineLeaves, UiLeaves, consoleVars
    <3>3. CASE stdin # "quit"
      <4>1. OpenLine' = stdin /\ ui' = "await" /\ stdin \in Commands
        BY <2>1, <2>3, <3>1, <3>3 DEF OpenLine, UiLineLeaves, UiLeaves
      <4>2. Console!Enter(stdin)
        BY <1>b, <2>1, <2>2, <4>1 DEF Console!Enter
      <4> QED BY <4>1, <4>2 DEF Console!Next
    <3> QED BY <3>2, <3>3
  <2>4. CASE ctl = "done" /\ toCtl' = toCtl /\ ui' = "await" /\ stdin # "quit"
    <3>1. OpenLine' = OpenLine /\ CtlGone /\ stdin \in Commands
      BY <1>b, <2>1, <2>4 DEF OpenLine, CtlGone
    <3>2. Console!Enter(stdin)
      BY <1>b, <2>1, <2>2, <2>4, <3>1 DEF Console!Enter
    <3> QED BY <3>1, <3>2 DEF Console!Next
  <2>5. CASE ctl = "done" /\ toCtl' = toCtl /\ ui' \in {"blocked", "raise"}
    BY <1>a, <1>b, <2>1, <2>5, ConsoleStutters
  <2> QED BY <1>2, <2>3, <2>4, <2>5 DEF UiSendsLine, UiLineLeaves, UiLeaves
<1>3. CASE UiGetsAnswer
  <2>1. /\ ui = "await" /\ ui' = "poll" /\ toUi # <<>> /\ toUi' = Tail(toUi) /\ toCtl' = toCtl
    BY <1>3 DEF UiGetsAnswer, UiLeaves
  <2>2. toUi' = <<>> /\ NextAnswer # "none" /\ NextAnswer' = "none"
    <3>1. toUi' = <<>>
      BY <2>1, ConsoleState
    <3> QED BY <2>1, <3>1, ConsoleState DEF NextAnswer
  <2>3. OpenLine' = OpenLine
    BY <1>a, <1>b, <2>1 DEF OpenLine
  <2>4. Console!Show
    BY <1>b, <2>1, <2>2, <2>3 DEF Console!Show
  <2> QED BY <2>4 DEF Console!Next
<1> QED BY <1>1, <1>2, <1>3 DEF UiStep

\* The controller's steps: it answers the line it works on, or drops it as it closes.
LEMMA CtlConsole ==
  ASSUME Typed, LineOK, "eintr" \notin Events, SocketOK, CtlStep
  PROVE  [Console!Next]_consoleVars
<1>a. ui' = ui
  BY DEF CtlStep, CtlOthers, CtlStarts, CtlPolls, CtlPings, CtlHandlesKill, CtlTakesLine,
         CtlGetsReply, CtlGetsBadReply, CtlInstructs, CtlAnswers, uiVars
<1>b. ASSUME NEW request, Asks(request)
      PROVE  ctl' = "call" /\ command' = request
  BY <1>b DEF Asks, SocketOK
<1>c. ASSUME UNCHANGED <<toCtl, toUi>>, Working' = Working, Working => command' = command,
             CtlGone' = CtlGone
      PROVE  UNCHANGED consoleVars
  BY <1>a, <1>c, ConsoleStutters
<1>d. ASSUME UNCHANGED toUi, ~CtlGone, CtlGone', OpenLine' \in {OpenLine, "none"}
      PROVE  Console!Next
  BY <1>a, <1>d DEF Console!Next, Console!Close, NextAnswer
<1>1. CASE CtlStarts
  BY <1>1, <1>b, <1>c DEF CtlStarts, Working, CtlGone, Commands, LineOK
<1>2. CASE CtlPolls
  BY <1>2, <1>c DEF CtlPolls, Working, CtlGone, LineOK
<1>3. CASE CtlPings
  BY <1>3, <1>b, <1>c DEF CtlPings, Working, CtlGone, Commands, LineOK
<1>4. CASE CtlHandlesKill
  <2>1. ctl = "turn" /\ UNCHANGED <<toCtl, toUi>>
    BY <1>4 DEF CtlHandlesKill
  <2>2. CASE Asks("logout")
    <3>1. ~CtlGone /\ CtlGone' /\ ~Working /\ ~Working'
      BY <1>b, <2>1, <2>2 DEF LineOK, CtlGone, Working, Commands
    <3>2. OpenLine' = OpenLine
      BY <2>1, <3>1 DEF OpenLine
    <3> QED BY <1>d, <2>1, <3>1, <3>2
  <2>3. CASE ctl' \in {"poll", "turn"} /\ UNCHANGED <<command, server>>
    BY <1>c, <2>1, <2>3 DEF Working, CtlGone, LineOK
  <2> QED BY <1>4, <2>2, <2>3 DEF CtlHandlesKill
<1>5. CASE CtlTakesLine
  <2>1. /\ ctl = "turn" /\ toCtl # <<>> /\ toCtl' = <<>> /\ toUi' = toUi /\ ~Working /\ ~CtlGone
    BY <1>5, ConsoleState DEF CtlTakesLine, Typed, ReadyOK, Working, CtlGone, LineOK
  <2>2. CASE Head(toCtl) = "quit" /\ Asks("logout")
    <3>1. CtlGone' /\ ~Working'
      BY <1>b, <2>2 DEF CtlGone, Working, Commands
    <3>2. OpenLine = "none" /\ OpenLine' = "none"
      BY <2>1, <2>2, <3>1 DEF OpenLine
    <3> QED BY <1>d, <2>1, <3>1, <3>2
  <2>3. CASE Head(toCtl) \in Commands /\ Working' /\ command' = Head(toCtl) /\ ~CtlGone'
    <3>1. OpenLine = Head(toCtl) /\ OpenLine' = Head(toCtl)
      BY <2>1, <2>3 DEF OpenLine, Commands
    <3>2. CtlGone' = CtlGone
      BY <2>1, <2>3 DEF CtlGone
    <3> QED BY <1>a, <2>1, <3>1, <3>2 DEF consoleVars, NextAnswer
  <2>4. CASE Head(toCtl) = "usage" /\ ctl' = "answer" /\ command' = "usage"
    BY <2>3, <2>4 DEF Working, CtlGone, Commands
  <2>5. CASE Head(toCtl) \in Commands \ {"usage"} /\ Asks(Head(toCtl))
    BY <1>b, <2>3, <2>5 DEF Working, CtlGone, Commands
  <2> QED BY <1>5, <2>2, <2>4, <2>5 DEF CtlTakesLine
<1>6. CASE CtlGetsReply
  <2>1. ctl = "call" /\ command' = command /\ UNCHANGED <<toCtl, toUi>>
    BY <1>6 DEF CtlGetsReply, CtlLeaves
  <2>2. \/ command = "logout" /\ ctl' = "done"
        \/ command \in {"login", "ping"} /\ ctl' = "poll"
        \/ command \in {"rooms", "msg", "join", "leave"} /\ ctl' \in {"answer", "instruct"}
    BY <1>6 DEF CtlGetsReply, CtlLeaves
  <2> QED BY <1>c, <2>1, <2>2 DEF Working, CtlGone, Commands
<1>7. CASE CtlGetsBadReply
  <2>1. ctl = "call" /\ UNCHANGED <<toCtl, toUi>>
    BY <1>7 DEF CtlGetsBadReply
  <2>2. CASE command \in GivenUp /\ Asks("logout")
    <3>1. Working /\ ~Working' /\ CtlGone'
      BY <1>b, <2>1, <2>2 DEF Working, CtlGone, GivenUp, Commands
    <3>2. ~CtlGone /\ OpenLine' = "none"
      BY <2>1, <3>1, ConsoleState DEF OpenLine
    <3> QED BY <1>d, <2>1, <3>1, <3>2
  <2>3. CASE command \notin GivenUp /\ server' = "idle" /\ CtlLeaves(AfterFailure(command))
    <3>1. command' = command /\ ctl' = AfterFailure(command)
      BY <2>3 DEF CtlLeaves
    <3>2. CASE command \in {"msg", "ping"}
      BY <1>c, <2>1, <3>1, <3>2 DEF AfterFailure, Working, CtlGone, Commands
    <3>3. CASE command = "logout"
      BY <1>c, <2>1, <3>1, <3>3 DEF AfterFailure, Working, CtlGone, Commands
    <3>4. CASE command \notin {"msg", "ping", "logout"}
      <4>1. ~CtlGone /\ CtlGone' /\ ~Working'
        BY <2>1, <3>1, <3>4 DEF AfterFailure, Working, CtlGone
      <4>2. OpenLine' \in {OpenLine, "none"}
        BY <2>1, <4>1 DEF OpenLine
      <4> QED BY <1>d, <2>1, <4>1, <4>2
    <3> QED BY <3>2, <3>3, <3>4
  <2> QED BY <1>7, <2>2, <2>3 DEF CtlGetsBadReply
<1>8. CASE CtlInstructs
  <2>1. /\ ctl = "instruct" /\ command' = command /\ command \in {"join", "leave"}
        /\ UNCHANGED <<toCtl, toUi>>
    BY <1>8 DEF CtlInstructs, CtlLeaves, Typed, CommandOK
  <2>2. CASE ctl' = "answer"
    BY <1>c, <2>1, <2>2 DEF Working, CtlGone
  <2>3. CASE ctl' = "blocked"
    <3>1. ~CtlGone /\ CtlGone' /\ ~Working'
      BY <2>1, <2>3 DEF Working, CtlGone
    <3>2. OpenLine' \in {OpenLine, "none"}
      BY <2>1, <3>1 DEF OpenLine
    <3> QED BY <1>d, <2>1, <3>1, <3>2
  <2> QED BY <1>8, <2>2, <2>3 DEF CtlInstructs, CtlLeaves
<1>9. CASE CtlAnswers
  <2>1. ctl = "answer" /\ command' = command /\ toCtl' = toCtl /\ command \in Commands
    BY <1>9 DEF CtlAnswers, CtlLeaves, Typed, CommandOK
  <2>a. ui = "await" /\ toCtl = <<>> /\ toUi = <<>>
    BY <2>1, ConsoleState DEF Working
  <2>3. /\ ui = "await" /\ toCtl = <<>> /\ toUi = <<>>
        /\ ctl' = "poll" /\ toUi' = Append(toUi, command)
    BY <1>9, <2>a DEF CtlAnswers, CtlLeaves
  <2>2. Working /\ ~Working' /\ ~CtlGone /\ ~CtlGone'
    BY <2>1, <2>3 DEF Working, CtlGone, Commands
  <2>4. OpenLine = command /\ OpenLine' = "none" /\ command # "none"
    BY <2>1, <2>2, <2>3 DEF OpenLine, Commands
  <2>5. NextAnswer' = command
    BY <2>1, <2>3 DEF NextAnswer
  <2>6. CtlGone' = CtlGone
    BY <2>1, <2>3 DEF CtlGone
  <2>7. Console!Answer
    BY <1>a, <2>2, <2>3, <2>4, <2>5, <2>6 DEF Console!Answer
  <2> QED BY <2>7 DEF Console!Next
<1> QED BY <1>1, <1>2, <1>3, <1>4, <1>5, <1>6, <1>7, <1>8, <1>9 DEF CtlStep

\* Where no signal interrupts a call, the four threads together are a console that shows
\* each line's own answer: every step of theirs is one of its steps or none.
THEOREM ThreadsImplementConsole ==
  ASSUME "eintr" \notin Events
  PROVE  Spec => ImplementsConsole
<1>1. Init => Console!Init
  BY DEF Init, Console!Init, OpenLine, NextAnswer, Working, CtlGone
<1>2. Typed /\ LineOK /\ SocketOK /\ [Next]_vars => [Console!Next]_consoleVars
  <2> SUFFICES ASSUME Typed, LineOK, SocketOK, [Next]_vars
               PROVE  [Console!Next]_consoleVars
    OBVIOUS
  <2>a. ASSUME UNCHANGED <<toCtl, toUi, ctl, command, ui>> PROVE UNCHANGED consoleVars
    BY <2>a, ConsoleStutters DEF Working, CtlGone
  <2>1. CASE MainStep \/ RcvStep
    <3>1. UNCHANGED <<toCtl, toUi, ctl, command, ui>>
      BY <2>1
      DEF MainStep, MainOthers, MainWakes, MainKillsController, MainKillsReceiver,
          MainJoinsReceiver, MainJoinsController, MainKillsUi, MainJoinsUi, MainTerminates,
          RcvStep, RcvOthers, RcvStarts, RcvPolls, RcvHandlesKill, RcvTakesTopic,
          RcvForwardsChat, RcvHandlesCommand, uiVars, ctlVars
    <3> QED BY <2>a, <3>1
  <2>2. CASE Environment \/ UNCHANGED vars
    <3>1. ~RcvInterrupted /\ ~UiInterrupted /\ ~CtlInterrupted
      BY DEF RcvInterrupted, UiInterrupted, CtlInterrupted
    <3>2. UNCHANGED <<toCtl, toUi, ctl, command, ui>>
      BY <2>2, <3>1
      DEF Environment, ServerAnswers, ServerAnswersLate, ServerHandles, ServerStops,
          OthersWrite, UserTypes, Interrupt, Ended, vars, ThreadsUntouched, uiVars, ctlVars
    <3> QED BY <2>a, <3>2
  <2> QED BY <2>1, <2>2, UiConsole, CtlConsole DEF Next, Environment
<1> QED BY <1>1, <1>2, AlwaysTyped, LineAlways, SocketWhole, PTL
    DEF Spec, ImplementsConsole, Console!Spec, consoleVars
===============================================================================
