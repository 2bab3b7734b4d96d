----------------------------- MODULE StoppingProofs -----------------------------
(***************************************************************************)
(* How the client stops: when its threads all wait for each other after a  *)
(* signal, the process has ended or hangs in one of five known ways.  For  *)
(* every set of events without a start in haste, signals that interrupt    *)
(* the calls of any thread included, and any number of lines and messages. *)
(***************************************************************************)
EXTENDS ClientThreadsProofs

-------------------------------------------------------------------------------
\* The controller's call

\* A controller that waits for a reply has asked for it, and one that has begun to log out
\* does nothing after it.
CallOK ==
  /\ ctl = "call" => server \in {"asked", "ok", "bad"}
  /\ command = "logout" => ctl \in {"call", "done"}

\* A request is out, or has failed: a logout that fails ends the loop.
LEMMA AskCalls ==
  ASSUME NEW request \in {"login", "ping", "logout", "rooms", "join", "leave", "msg"},
         Asks(request) \/ Fails(request)
  PROVE  /\ CallOK'
         /\ request = "logout" => command' = "logout"
BY DEF Asks, Fails, AfterFailure, GivenUp, CallOK

\* The controller's steps, one call after the other (chat_client_controller.c:154-209).
LEMMA CtlCalls == CallOK /\ CtlStep => CallOK'
<1> SUFFICES ASSUME CallOK, CtlStep PROVE CallOK'
  OBVIOUS
<1>1. CASE CtlStarts
  BY <1>1, AskCalls DEF CtlStarts
<1>2. CASE CtlPolls
  BY <1>2 DEF CtlPolls, CallOK
<1>3. CASE CtlPings
  BY <1>3, AskCalls DEF CtlPings
<1>4. CASE CtlHandlesKill
  <2>1. CASE Asks("logout")
    BY <2>1, AskCalls
  <2>2. CASE ctl = "turn" /\ ctl' \in {"poll", "turn"} /\ command' = command
    BY <2>2 DEF CallOK
  <2> QED BY <1>4, <2>1, <2>2 DEF CtlHandlesKill
<1>5. CASE CtlTakesLine
  <2>1. CASE Asks("logout")
    BY <2>1, AskCalls
  <2>2. CASE ctl' = "answer" /\ command' = "usage"
    BY <2>2 DEF CallOK
  <2>3. CASE Head(toCtl) \in Commands \ {"usage"} /\ Asks(Head(toCtl))
    BY <2>3, AskCalls DEF Commands
  <2> QED BY <1>5, <2>1, <2>2, <2>3 DEF CtlTakesLine
<1>6. CASE CtlGetsReply
  BY <1>6 DEF CtlGetsReply, CtlLeaves, CallOK
<1>7. CASE CtlGetsBadReply
  <2>1. CASE Asks("logout")
    BY <2>1, AskCalls
  <2>2. CASE CtlLeaves(AfterFailure(command))
    BY <2>2 DEF CtlLeaves, AfterFailure, CallOK
  <2> QED BY <1>7, <2>1, <2>2 DEF CtlGetsBadReply
<1>8. CASE CtlInstructs
  BY <1>8 DEF CtlInstructs, CtlLeaves, CallOK
<1>9. CASE CtlAnswers
  BY <1>9 DEF CtlAnswers, CtlLeaves, CallOK
<1> QED BY <1>1, <1>2, <1>3, <1>4, <1>5, <1>6, <1>7, <1>8, <1>9 DEF CtlStep

\* Only the controller's steps, the server's answer and a signal concern the call.
LEMMA CallKept == Spec => []CallOK
<1>1. Init => CallOK
  BY DEF Init, CallOK
<1>2. ExchangeOK /\ CallOK /\ [Next]_vars => CallOK'
  <2> SUFFICES ASSUME ExchangeOK, CallOK, [Next]_vars PROVE CallOK'
    OBVIOUS
  <2>a. ASSUME UNCHANGED <<server, ctl, command>> PROVE CallOK'
    BY <2>a DEF CallOK
  <2>1. CASE MainStep \/ UiStep \/ RcvStep
    <3>1. UNCHANGED <<server, ctl, command>>
      BY <2>1
      DEF MainStep, MainOthers, MainWakes, MainKillsController, MainKillsReceiver,
          MainJoinsReceiver, MainJoinsController, MainKillsUi, MainJoinsUi, MainTerminates,
          UiStep, UiOthers, UiStarts, UiPolls, UiHandlesKill, UiShowsNote, UiHitsEof,
          UiSendsLine, UiRaisesSigint, UiGetsAnswer, UiExits, RcvStep, RcvOthers, RcvStarts,
          RcvPolls, RcvHandlesKill, RcvTakesTopic, RcvForwardsChat, RcvHandlesCommand,
          ctlVars, serverVars
    <3> QED BY <2>a, <3>1
  <2>2. CASE ServerAnswersLate \/ ServerStops \/ OthersWrite \/ UserTypes \/ Interrupt
             \/ RcvInterrupted \/ UiInterrupted \/ Ended \/ UNCHANGED vars
    <3>1. UNCHANGED <<server, ctl, command>>
      BY <2>2
      DEF ServerAnswersLate, ServerHandles, ServerStops, OthersWrite, UserTypes, Interrupt,
          RcvInterrupted, UiInterrupted, Ended, vars, ThreadsUntouched, UiOthers, ctlVars,
          serverVars
    <3> QED BY <2>a, <3>1
  <2>3. CASE ServerAnswers
    <3>1. server' \in {"ok", "bad"} /\ UNCHANGED <<ctl, command>>
      BY <2>3 DEF ServerAnswers, ServerHandles, ThreadsUntouched, ctlVars
    <3> QED BY <3>1 DEF CallOK
  <2>4. CASE CtlInterrupted
    <3>1. CASE ctl = "call" /\ Fails(command)
      BY <3>1, AskCalls DEF ExchangeOK
    <3>2. CASE ctl = "blocked" /\ CtlLeaves("answer")
      BY <3>2 DEF CallOK, CtlLeaves
    <3> QED BY <2>4, <3>1, <3>2 DEF CtlInterrupted
  <2> QED BY <2>1, <2>2, <2>3, <2>4, CtlCalls DEF Next
<1> QED BY <1>1, <1>2, ExchangeKept, PTL DEF Spec

-------------------------------------------------------------------------------
\* The start

\* Nobody types or stops the process before every thread has subscribed.
StartedOK ==
  signal \/ main # "wait" \/ stdin # "none" \/ ui = "raise" =>
    ui # "start" /\ ctl # "start" /\ rcv # "start"

\* No thread starts a second time.
LEMMA StartsOnce ==
  ASSUME [Next]_vars
  PROVE  /\ ui # "start" => ui' # "start"
         /\ ctl # "start" => ctl' # "start"
         /\ rcv # "start" => rcv' # "start"
<1>1. CASE MainStep
  BY <1>1
  DEF MainStep, MainOthers, MainWakes, MainKillsController, MainKillsReceiver,
      MainJoinsReceiver, MainJoinsController, MainKillsUi, MainJoinsUi, MainTerminates,
      uiVars, ctlVars, rcvVars
<1>2. CASE UiStep
  BY <1>2
  DEF UiStep, UiOthers, UiStarts, UiPolls, UiHandlesKill, UiShowsNote, UiHitsEof, UiAtStdin,
      UiSendsLine, UiRaisesSigint, UiGetsAnswer, UiExits, UiLeaves, UiGoesOn, UiLineLeaves,
      ctlVars, rcvVars
<1>3. CASE CtlStep
  <2>1. UNCHANGED <<ui, rcv>>
    BY <1>3
    DEF CtlStep, CtlOthers, CtlStarts, CtlPolls, CtlPings, CtlHandlesKill, CtlTakesLine,
        CtlGetsReply, CtlGetsBadReply, CtlInstructs, CtlAnswers, uiVars, rcvVars
  <2>2. ASSUME NEW request, Asks(request) PROVE ctl' # "start"
    BY <2>2 DEF Asks, Fails, AfterFailure
  <2>3. ctl' # "start"
    BY <1>3, <2>2
    DEF CtlStep, CtlStarts, CtlPolls, CtlPings, CtlHandlesKill, CtlTakesLine,
        CtlGetsReply, CtlGetsBadReply, CtlInstructs, CtlAnswers, CtlLeaves, AfterFailure
  <2> QED BY <2>1, <2>3
<1>4. CASE RcvStep
  BY <1>4
  DEF RcvStep, RcvOthers, RcvStarts, RcvPolls, RcvHandlesKill, RcvTakesTopic, RcvForwardsChat,
      RcvHandlesCommand, RcvGoesOn, uiVars, ctlVars
<1>5. CASE Environment
  BY <1>5
  DEF Environment, ServerAnswers, ServerAnswersLate, ServerHandles, ServerStops, OthersWrite,
      UserTypes, Interrupt, RcvInterrupted, UiInterrupted, CtlInterrupted, Ended, vars,
      ThreadsUntouched, UiOthers, UiLineLeaves, UiLeaves, CtlLeaves, Fails, AfterFailure,
      uiVars, ctlVars, rcvVars
<1>6. CASE UNCHANGED vars
  BY <1>6 DEF vars
<1> QED BY <1>1, <1>2, <1>3, <1>4, <1>5, <1>6 DEF Next, Environment

\* Without a start in haste the user's lines and signals come to threads that listen
\* (chat_client.c:36-58).
LEMMA StartedKept ==
  ASSUME "early" \notin Events
  PROVE  Spec => []StartedOK
<1>1. Init => StartedOK
  BY DEF Init, StartedOK
<1>2. StartedOK /\ [Next]_vars => StartedOK'
  <2> SUFFICES ASSUME StartedOK, [Next]_vars PROVE StartedOK'
    OBVIOUS
  <2>a. Settled => ui # "start" /\ ctl # "start" /\ rcv # "start"
    BY DEF Settled, Location, Threads
  <2>b. ASSUME UNCHANGED <<signal, main, stdin, ui>> PROVE StartedOK'
    BY <2>b, StartsOnce DEF StartedOK
  <2>1. CASE MainStep
    <3>1. UNCHANGED <<signal, stdin, ui>> /\ (signal \/ main # "wait")
      BY <2>1
      DEF MainStep, MainGoes, MainOthers, MainWakes, MainKillsController, MainKillsReceiver,
          MainJoinsReceiver, MainJoinsController, MainKillsUi, MainJoinsUi, MainTerminates,
          uiVars, userVars
    <3> QED BY <3>1, StartsOnce DEF StartedOK
  <2>2. CASE UiStep
    <3>1. /\ main' = main
          /\ signal' # signal => ui = "raise"
          /\ stdin' # "none" => stdin # "none"
          /\ ui' = "raise" => stdin # "none"
      BY <2>2
      DEF UiStep, UiOthers, UiStarts, UiPolls, UiHandlesKill, UiShowsNote, UiHitsEof,
          UiAtStdin, UiSendsLine, UiRaisesSigint, UiGetsAnswer, UiExits, UiLeaves, UiGoesOn,
          UiLineLeaves
    <3> QED BY <3>1, StartsOnce DEF StartedOK
  <2>3. CASE CtlStep \/ RcvStep
    <3>1. UNCHANGED <<signal, main, stdin, ui>>
      BY <2>3
      DEF CtlStep, CtlOthers, CtlStarts, CtlPolls, CtlPings, CtlHandlesKill, CtlTakesLine,
          CtlGetsReply, CtlGetsBadReply, CtlInstructs, CtlAnswers, RcvStep, RcvOthers,
          RcvStarts, RcvPolls, RcvHandlesKill, RcvTakesTopic, RcvForwardsChat, RcvHandlesCommand,
          uiVars, userVars
    <3> QED BY <2>b, <3>1
  <2>4. CASE ServerAnswers \/ ServerAnswersLate \/ ServerStops \/ OthersWrite \/ Ended
             \/ UNCHANGED vars
    <3>1. UNCHANGED <<signal, main, stdin, ui>>
      BY <2>4
      DEF ServerAnswers, ServerAnswersLate, ServerHandles, ServerStops, OthersWrite, Ended,
          vars, ThreadsUntouched, uiVars, userVars
    <3> QED BY <2>b, <3>1
  <2>5. CASE UserTypes \/ Interrupt \/ RcvInterrupted \/ UiInterrupted \/ CtlInterrupted
    <3>1. Settled
      BY <2>5
      DEF UserTypes, Interrupt, RcvInterrupted, UiInterrupted, CtlInterrupted, Signalled
    <3> QED BY <2>a, <3>1, StartsOnce DEF StartedOK
  <2> QED BY <2>1, <2>2, <2>3, <2>4, <2>5 DEF Next
<1> QED BY <1>1, <1>2, PTL DEF Spec

-------------------------------------------------------------------------------
\* The KILL messages

\* A thread that has read its KILL_CONTROLLER, or does not need to: it is on its way out.
Leaving(t) ==
  \/ t = "ui" /\ ui \in {"exit", "done"}
  \/ t = "controller" /\ (ctl = "done" \/ command = "logout")
  \/ t = "receiver" /\ rcv = "done"

Warned(t) == inbox[t] # <<>> /\ Head(inbox[t]) = "KILL_CONTROLLER"

\* Nobody has a KILL message before main publishes one.  Then the first message of every
\* thread that goes on is KILL_CONTROLLER, the one all three loops end with.
KillOK ==
  IF main \in {"wait", "kill_controller"}
  THEN \A t \in Threads : inbox[t] = <<>>
  ELSE \A t \in Threads :
         Leaving(t) \/ Warned(t)

StopOK == Typed /\ CallOK /\ StartedOK /\ JoinedOK

\* Another message goes behind the first.
LEMMA FirstStays ==
  ASSUME NEW S, NEW s \in Seq(S), NEW e \in S
  PROVE  /\ Append(s, e) # <<>>
         /\ Head(Append(s, e)) = IF s = <<>> THEN e ELSE Head(s)
<1>1. Append(s, e) # <<>> /\ Append(s, e) \in Seq(S) /\ Len(s) \in Nat
  OBVIOUS
<1>2. CASE s = <<>>
  BY <1>2
<1>3. CASE s # <<>>
  <2>1. Append(s, e)[1] = s[1] /\ Head(s) = s[1] /\ Head(Append(s, e)) = Append(s, e)[1]
    BY <1>1, <1>3, AppendProperties
  <2> QED BY <1>1, <1>3, <2>1
<1> QED BY <1>2, <1>3

\* Main's messages reach every thread that has not left (chat_client.c:59-79).
LEMMA MainKills == StopOK /\ KillOK /\ MainStep => KillOK'
<1> SUFFICES ASSUME StopOK, KillOK, MainStep PROVE KillOK'
  OBVIOUS
<1>a. UNCHANGED <<ui, ctl, rcv, command>>
  BY DEF MainStep, MainOthers, MainWakes, MainKillsController, MainKillsReceiver,
         MainJoinsReceiver, MainJoinsController, MainKillsUi, MainJoinsUi, MainTerminates,
         uiVars, ctlVars, rcvVars
<1>b. \A t \in Threads : Leaving(t) => Leaving(t)'
  BY <1>a DEF Leaving
<1>1. ASSUME inbox' = inbox,
             main \in {"wait", "kill_controller"} <=> main' \in {"wait", "kill_controller"}
      PROVE  KillOK'
  BY <1>1, <1>b DEF KillOK, Warned
<1>2. ASSUME NEW m \in Kills, inbox' = Published(m), main # "wait",
             m = "KILL_CONTROLLER" \/ main \notin {"wait", "kill_controller"},
             main' \notin {"wait", "kill_controller"}
      PROVE  KillOK'
  <2> SUFFICES ASSUME NEW t \in Threads, ~Leaving(t)
               PROVE  Warned(t)'
    <3>1. KillOK' <=> \A t \in Threads :
                        Leaving(t)' \/ Warned(t)'
      BY <1>2 DEF KillOK
    <3> QED BY <3>1, <1>b
  <2>1. Location(t) \notin {"start", "done"}
    BY <1>2 DEF StopOK, StartedOK, Threads, Location, Leaving
  <2>2. inbox'[t] = Append(inbox[t], m)
    BY <1>2, <2>1 DEF Published
  <2>3. inbox[t] \in Seq(Kills)
    BY DEF StopOK, Typed, TypeOK, Kills
  <2>4. /\ inbox'[t] # <<>>
        /\ Head(inbox'[t]) = IF inbox[t] = <<>> THEN m ELSE Head(inbox[t])
    BY <2>2, <2>3, FirstStays
  <2>5. inbox[t] = <<>> \/ Head(inbox[t]) = "KILL_CONTROLLER"
    BY DEF KillOK, Warned
  <2>6. inbox[t] = <<>> => m = "KILL_CONTROLLER"
    BY <1>2 DEF KillOK, Warned
  <2> QED BY <2>4, <2>5, <2>6 DEF Warned
<1>3. CASE MainWakes \/ MainJoinsReceiver \/ MainJoinsController \/ MainJoinsUi \/ MainTerminates
  BY <1>3, <1>1
  DEF MainWakes, MainJoinsReceiver, MainJoinsController, MainJoinsUi, MainTerminates, MainGoes
<1>4. CASE MainKillsController \/ MainKillsReceiver \/ MainKillsUi
  BY <1>4, <1>2 DEF MainKillsController, MainKillsReceiver, MainKillsUi, MainGoes, Kills
<1> QED BY <1>3, <1>4 DEF MainStep

\* A thread leaves when it reads its first KILL message, and keeps it until then.
LEMMA OneReads ==
  ASSUME StopOK, KillOK, main' = main, NEW t \in Threads,
         \A u \in Threads \ {t} : inbox'[u] = inbox[u] /\ (Leaving(u) => Leaving(u)'),
         Leaving(t) => Leaving(t)',
         \/ inbox'[t] = inbox[t]
         \/ /\ inbox[t] # <<>>
            /\ Head(inbox[t]) = "KILL_CONTROLLER" \/ Leaving(t) => Leaving(t)'
  PROVE  KillOK'
<1>1. CASE main \in {"wait", "kill_controller"}
  <2>1. \A u \in Threads : inbox[u] = <<>>
    BY <1>1 DEF KillOK
  <2>2. \A u \in Threads : inbox'[u] = inbox[u]
    BY <2>1
  <2> QED BY <1>1, <2>1, <2>2 DEF KillOK
<1>2. CASE main \notin {"wait", "kill_controller"}
  <2>1. \A u \in Threads :
          Leaving(u) \/ Warned(u)
    BY <1>2 DEF KillOK
  <2>2. ASSUME NEW u \in Threads
        PROVE  Leaving(u)' \/ Warned(u)'
    <3>1. CASE u = t
      BY <2>1, <3>1 DEF Warned
    <3>2. CASE u # t
      BY <2>1, <3>2 DEF Warned
    <3> QED BY <3>1, <3>2
  <2> QED BY <1>2, <2>2 DEF KillOK
<1> QED BY <1>1, <1>2

\* The ui's loop ends with KILL_CONTROLLER (chat_client_ui.c:95-107).
LEMMA UiKills == StopOK /\ KillOK /\ UiStep => KillOK'
<1> SUFFICES ASSUME StopOK, KillOK, UiStep PROVE KillOK'
  OBVIOUS
<1>a. /\ main' = main
      /\ \A u \in Threads \ {"ui"} : Leaving(u)' = Leaving(u)
      /\ Leaving("ui") => Leaving("ui")'
  BY DEF UiStep, UiOthers, UiStarts, UiPolls, UiHandlesKill, UiShowsNote, UiHitsEof,
         UiAtStdin, UiSendsLine, UiRaisesSigint, UiGetsAnswer, UiExits, UiLeaves,
         Threads, Leaving, ctlVars, rcvVars
<1>b. "ui" \in Threads
  BY DEF Threads
<1>1. CASE UiHandlesKill
  <2>1. inbox["ui"] # <<>>
    BY <1>1 DEF UiHandlesKill, StopOK, Typed, ReadyOK
  <2>2. Head(inbox["ui"]) = "KILL_CONTROLLER" => Leaving("ui")'
    BY <1>1 DEF UiHandlesKill, UiLeaves, Leaving
  <2>3. \A u \in Threads \ {"ui"} : inbox'[u] = inbox[u]
    BY <1>1, <1>b, <2>1, InboxRead DEF UiHandlesKill, StopOK, Typed, TypeOK, Kills
  <2> QED BY <1>a, <1>b, <2>1, <2>2, <2>3, OneReads
<1>2. CASE ~UiHandlesKill
  <2>1. inbox' = inbox
    BY <1>2 DEF UiStep, UiStarts, UiPolls, UiShowsNote, UiHitsEof, UiSendsLine,
                UiRaisesSigint, UiGetsAnswer, UiExits
  <2> QED BY <1>a, <1>b, <2>1, OneReads
<1> QED BY <1>1, <1>2

\* A controller that has begun to log out never goes back to its loop.
LEMMA LogoutLeaves ==
  ASSUME StopOK, CtlStep, ctl = "done" \/ command = "logout"
  PROVE  ctl' = "done" \/ command' = "logout"
<1>1. ctl \in {"call", "done"}
  BY DEF StopOK, CallOK
<1>2. CASE CtlGetsReply \/ CtlGetsBadReply
  BY <1>2 DEF CtlGetsReply, CtlGetsBadReply, CtlLeaves, AfterFailure, GivenUp
<1>3. CASE ~(CtlGetsReply \/ CtlGetsBadReply)
  BY <1>1, <1>3
  DEF CtlStep, CtlStarts, CtlPolls, CtlPings, CtlHandlesKill, CtlTakesLine, CtlInstructs,
      CtlAnswers
<1> QED BY <1>2, <1>3

\* The controller's loop ends with KILL_CONTROLLER, after a logout
\* (chat_client_controller.c:165-209).
LEMMA CtlKills == StopOK /\ KillOK /\ CtlStep => KillOK'
<1> SUFFICES ASSUME StopOK, KillOK, CtlStep PROVE KillOK'
  OBVIOUS
<1>a. UNCHANGED <<main, ui, rcv>>
  BY DEF CtlStep, CtlOthers, CtlStarts, CtlPolls, CtlPings, CtlHandlesKill, CtlTakesLine,
         CtlGetsReply, CtlGetsBadReply, CtlInstructs, CtlAnswers, uiVars, rcvVars
<1>b. /\ \A u \in Threads \ {"controller"} : Leaving(u)' = Leaving(u)
      /\ Leaving("controller") => Leaving("controller")'
      /\ "controller" \in Threads
  BY <1>a, LogoutLeaves DEF Threads, Leaving
<1>1. CASE CtlHandlesKill
  <2>1. inbox["controller"] # <<>>
    BY <1>1 DEF CtlHandlesKill, StopOK, Typed, ReadyOK
  <2>2. Head(inbox["controller"]) = "KILL_CONTROLLER" => Leaving("controller")'
    BY <1>1, AskCalls DEF CtlHandlesKill, Leaving
  <2>3. \A u \in Threads \ {"controller"} : inbox'[u] = inbox[u]
    BY <1>1, <1>b, <2>1, InboxRead DEF CtlHandlesKill, StopOK, Typed, TypeOK, Kills
  <2> QED BY <1>a, <1>b, <2>1, <2>2, <2>3, OneReads
<1>2. CASE ~CtlHandlesKill
  <2>1. inbox' = inbox
    BY <1>2 DEF CtlStep, CtlStarts, CtlPolls, CtlPings, CtlTakesLine,
                CtlGetsReply, CtlGetsBadReply, CtlInstructs, CtlAnswers
  <2> QED BY <1>a, <1>b, <2>1, OneReads
<1> QED BY <1>1, <1>2

\* The receiver's loop ends with KILL_CONTROLLER (chat_client_receiver.c:98-121).
LEMMA RcvKills == StopOK /\ KillOK /\ RcvStep => KillOK'
<1> SUFFICES ASSUME StopOK, KillOK, RcvStep PROVE KillOK'
  OBVIOUS
<1>a. /\ main' = main
      /\ \A u \in Threads \ {"receiver"} : Leaving(u)' = Leaving(u)
      /\ Leaving("receiver") => Leaving("receiver")'
      /\ "receiver" \in Threads
  BY DEF RcvStep, RcvOthers, RcvStarts, RcvPolls, RcvHandlesKill, RcvTakesTopic, RcvForwardsChat,
         RcvHandlesCommand, Threads, Leaving, uiVars, ctlVars
<1>1. CASE RcvHandlesKill
  <2>1. inbox["receiver"] # <<>>
    BY <1>1 DEF RcvHandlesKill, StopOK, Typed, ReadyOK
  <2>2. Head(inbox["receiver"]) = "KILL_CONTROLLER" => Leaving("receiver")'
    BY <1>1 DEF RcvHandlesKill, Leaving
  <2>3. \A u \in Threads \ {"receiver"} : inbox'[u] = inbox[u]
    BY <1>1, <1>a, <2>1, InboxRead DEF RcvHandlesKill, StopOK, Typed, TypeOK, Kills
  <2> QED BY <1>a, <2>1, <2>2, <2>3, OneReads
<1>2. CASE ~RcvHandlesKill
  <2>1. inbox' = inbox
    BY <1>2 DEF RcvStep, RcvStarts, RcvPolls, RcvTakesTopic, RcvForwardsChat, RcvHandlesCommand
  <2> QED BY <1>a, <2>1, OneReads
<1> QED BY <1>1, <1>2

\* The environment reads no KILL message, and a signal keeps nobody from leaving
\* (signal_handler.h:18-31).
LEMMA EnvironmentKills == StopOK /\ KillOK /\ Environment => KillOK'
<1> SUFFICES ASSUME StopOK, KillOK, Environment PROVE KillOK'
  OBVIOUS
<1>1. inbox' = inbox /\ main' = main
  BY DEF Environment, ServerAnswers, ServerAnswersLate, ServerHandles, ServerStops,
         OthersWrite, UserTypes, Interrupt, RcvInterrupted, UiInterrupted, CtlInterrupted,
         Ended, vars, ThreadsUntouched, UiOthers
<1>2. CASE CtlInterrupted
  <2>1. ui' = ui /\ rcv' = rcv
    BY <1>2 DEF CtlInterrupted, uiVars, rcvVars
  <2>2. ctl = "done" \/ command = "logout" => ctl' = "done" \/ command' = "logout"
    BY <1>2 DEF CtlInterrupted, Fails, CtlLeaves, GivenUp
  <2> QED BY <1>1, <2>1, <2>2 DEF KillOK, Warned, Leaving
<1>3. CASE ~CtlInterrupted
  <2>1. /\ ctl' = ctl /\ command' = command
        /\ ui \in {"exit", "done"} => ui' \in {"exit", "done"}
        /\ rcv = "done" => rcv' = "done"
    BY <1>3
    DEF Environment, ServerAnswers, ServerAnswersLate, ServerHandles, ServerStops,
        OthersWrite, UserTypes, Interrupt, RcvInterrupted, UiInterrupted, Ended, vars,
        ThreadsUntouched, UiOthers, uiVars, ctlVars, rcvVars
  <2> QED BY <1>1, <2>1 DEF KillOK, Warned, Leaving
<1> QED BY <1>2, <1>3

\* Every thread that goes on after KILL_CONTROLLER has it as its next message.
LEMMA KillKept ==
  ASSUME "early" \notin Events
  PROVE  Spec => [](StopOK /\ KillOK)
<1>1. Init => KillOK
  BY DEF Init, KillOK, Threads
<1>2. StopOK /\ KillOK /\ [Next]_vars => KillOK'
  <2>1. ASSUME KillOK, UNCHANGED vars PROVE KillOK'
    BY <2>1 DEF vars, KillOK, Warned, Leaving
  <2> QED BY <2>1, MainKills, UiKills, CtlKills, RcvKills, EnvironmentKills DEF Next, Environment
<1>3. Typed /\ CallOK /\ StartedOK /\ JoinedOK => StopOK
  BY DEF StopOK
<1> QED BY <1>1, <1>2, <1>3, AlwaysTyped, CallKept, StartedKept, JoinedKept, PTL DEF Spec

\* After a signal main, the three threads and the server never all wait for each other,
\* but when the process has ended or hangs in one of the ways of Hung (chat_client.c:58-79,
\* chat_client_ui.c:82-160, chat_client_controller.c:157-209, chat_client_receiver.c:66-186).
THEOREM HangsOnlyAsKnown ==
  ASSUME "early" \notin Events
  PROVE  Spec => []OnlyKnownHangs
<1>1. StopOK /\ KillOK => OnlyKnownHangs
  <2> SUFFICES ASSUME StopOK, KillOK, signal, main # "done", ~Hung,
                      MainWaits, UiWaits, CtlWaits, RcvWaits, ServerWaits
               PROVE  FALSE
    BY DEF OnlyKnownHangs
  <2>a. ~LogSocketLeaked /\ "blocked" \notin {ui, ctl, rcv} /\ ~(rcv = "data" /\ net = <<>>)
    BY DEF Hung
  <2>b. main \in {"join_receiver", "join_controller", "join_ui"}
    BY <2>a DEF MainWaits
  <2>c. \A t \in Threads : Leaving(t) \/ inbox[t] # <<>>
    BY <2>b DEF KillOK, Warned
  <2>1. CASE main = "join_receiver"
    <3>1. rcv = "poll" /\ RcvFinds = {}
      BY <2>1, <2>a DEF MainWaits, RcvWaits
    <3>2. inbox["receiver"] # <<>>
      BY <2>c, <3>1 DEF Leaving, Threads
    <3> QED BY <3>1, <3>2 DEF RcvFinds
  <2>2. CASE main = "join_controller"
    <3>1. ctl = "call" /\ server = "asked"
      BY <2>2, <2>a DEF MainWaits, CtlWaits, StopOK, CallOK
    <3> QED BY <3>1 DEF ServerWaits, Hung
  <2>3. CASE main = "join_ui"
    <3>1. ctl = "done" /\ ui # "done"
      BY <2>3 DEF MainWaits, StopOK, JoinedOK
    <3>2. ui = "poll" /\ UiFinds = {}
      BY <2>a, <3>1 DEF UiWaits, Hung
    <3>3. inbox["ui"] # <<>>
      BY <2>c, <3>2 DEF Leaving, Threads
    <3> QED BY <3>2, <3>3 DEF UiFinds
  <2> QED BY <2>b, <2>1, <2>2, <2>3
<1> QED BY <1>1, KillKept, PTL
===============================================================================
