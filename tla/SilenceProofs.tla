----------------------------- MODULE SilenceProofs -----------------------------
(***************************************************************************)
(* Theorems about what a client's silence costs it: how long the server    *)
(* can go without hearing of a client that runs, when the checker finds it *)
(* dead, when it never does, and which session tokens stay behind.         *)
(***************************************************************************)
EXTENDS ChatSystemProofs, ChatSystemClaims, FiniteSetTheorems

-------------------------------------------------------------------------------
\* The silence of a client that runs

\* A loop that waits for a REP socket that owes a reply does so for ever.
LEMMA StuckForever ==
  ASSUME Sound, [SystemNext]_systemVars, Stuck
  PROVE  /\ Stuck'
         /\ \A c \in Names : ~Deliver(c)
         /\ ~TouchClient /\ ~JoinClient /\ ~ReplyToClient
<1> USE DEF Stuck
<1>1. main = "recv" /\ rep = "send"
  BY DEF Sound, ControlOK, ReplyOwed, Requests, Handled
<1>2. ASSUME NEW c \in Names PROVE ~Deliver(c)
  BY <1>1 DEF Deliver, Receive, ReceiveGarbled
<1>3. ASSUME NEW c \in Names, ClientAlone(c) PROVE req' = req
  BY <1>3, ClientAloneUnchanged DEF vars
<1>4. ~TouchClient /\ ~JoinClient /\ ~ReplyToClient
  BY <1>1 DEF TouchClient, Touch, JoinClient, HandleJoinRoom, ReplyToClient, Reply
<1>5. ServerAlone \/ TimePasses \/ UNCHANGED systemVars => req' = req
  BY <1>1
  DEF ServerAlone, HandleLogin, HandleLeaveRoom, HandleListRooms, HandleLogout, Publish,
      CheckerStep, Scan, EvictFromRoom, EvictSession, NotifyEviction, mainVars,
      TimePasses, Tick, systemVars, vars
<1> QED BY <1>2, <1>3, <1>4, <1>5, SystemSteps

\* The server has touched the user of the client's login.
Met(c) ==
  /\ Running(c)
  /\ asked[c].kind = "login" =>
       phase[c] = "answered" \/ (phase[c] = "served" /\ main \notin {"recv", "touch"})

\* The assumptions on time.
IdleOK == \A c \in Names : idle[c] <= IF Running(c) THEN Longest(c) ELSE 0

Allowed(c) ==
  Cycle * unheard[c] + idle[c] + IF phase[c] = "polling" THEN MaxDelay ELSE 0

\* The inductive form of SilenceBounded, which speaks of the polls only.
SilenceOK == \A c \in Names : Met(c) /\ ~WaitsInVain(c) => Silence(c) <= Allowed(c)

\* Who waits in vain goes on waiting until it ends.
LEMMA VainForever ==
  ASSUME Sound, [SystemNext]_systemVars, NEW c \in Names, Met(c)', WaitsInVain(c)
  PROVE  WaitsInVain(c)'
<1> USE DEF WaitsInVain
<1>1. Stuck' /\ ~TouchClient /\ ~JoinClient /\ ~ReplyToClient /\ \A d \in Names : ~Deliver(d)
  BY StuckForever
<1>2. ASSUME NEW d \in Names, ClientAlone(d) PROVE phase'[c] \in {"sent", "served"}
  BY <1>2
  DEF Sound, ClientsTypeOK, ClientAlone, Start, Ask, CommandLocal, InstructJoin,
      InstructLeave, Instruct, TakeReply, Exit, Crash, HandleCommand, Met, Running
<1>3. ServerAlone \/ TimePasses \/ UNCHANGED systemVars => phase' = phase
  BY DEF ServerAlone, clientVars, TimePasses, systemVars
<1> QED BY <1>1, <1>2, <1>3, SystemSteps

LEMMA AllowedType ==
  ASSUME ClientsTypeOK, NEW c \in Names
  PROVE  /\ Allowed(c) \in Nat
         /\ {unheard[c], idle[c], Cycle * unheard[c], PingPeriod, MaxDelay, Cycle} \subseteq Nat
         /\ Cycle = PingPeriod + MaxDelay
         /\ Cycle * (unheard[c] + 1) = Cycle * unheard[c] + Cycle
<1>1. {unheard[c], idle[c], PingPeriod, MaxDelay} \subseteq Nat
  BY SystemAssumption DEF ClientsTypeOK
<1>2. Cycle \in Nat /\ Cycle = PingPeriod + MaxDelay
  BY <1>1 DEF Cycle
<1>3. Cycle * unheard[c] \in Nat /\ Cycle * (unheard[c] + 1) = Cycle * unheard[c] + Cycle
  BY <1>1, <1>2
<1> QED BY <1>1, <1>2, <1>3 DEF Allowed

\* No client polls, or takes from one poll to the next, for longer than is assumed.
LEMMA IdleCorrect == SystemSpec => []IdleOK
<1>1. SystemInit => IdleOK
  <2> SUFFICES ASSUME SystemInit, NEW c \in Names
               PROVE  idle[c] <= IF Running(c) THEN Longest(c) ELSE 0
    BY DEF IdleOK
  <2>1. idle[c] = 0 /\ ~Running(c)
    BY DEF SystemInit, Running
  <2> QED BY <2>1
<1>2. IdleOK /\ Sound /\ [SystemNext]_systemVars => IdleOK'
  <2> SUFFICES ASSUME IdleOK, Sound, [SystemNext]_systemVars, NEW c \in Names
               PROVE  (idle[c] <= IF Running(c) THEN Longest(c) ELSE 0)'
    BY DEF IdleOK
  <2>a. /\ ClientsTypeOK /\ {idle[c], PingPeriod, MaxDelay} \subseteq Nat
        /\ idle[c] <= IF Running(c) THEN Longest(c) ELSE 0
    BY SystemAssumption DEF IdleOK, Sound, ClientsTypeOK
  <2> USE DEF Running, Longest
  <2>1. CASE ClientAlone(c)
    <3>1. idle'[c] = 0 \/ (phase' = phase /\ idle' = idle) \/ Start(c)
      BY <2>1, <2>a
      DEF ClientAlone, Ask, CommandLocal, InstructJoin, InstructLeave, Instruct, TakeReply,
          Exit, Crash, Gone, HandleCommand, ClientsTypeOK
    <3>2. Start(c) => idle' = idle /\ phase[c] = "off"
      BY DEF Start
    <3>3. idle[c] = 0 \/ phase[c] # "off"
      BY <2>a
    <3> QED BY <3>1, <3>2, <3>3, <2>a
  <2>2. CASE Deliver(c)
    BY <2>2, <2>a DEF Deliver, ClientsTypeOK
  <2>3. ASSUME NEW d \in Names \ {c}, ClientAlone(d) \/ Deliver(d)
        PROVE  phase'[c] = phase[c] /\ idle'[c] = idle[c]
    BY <2>3, <2>a
    DEF ClientsTypeOK, ClientAlone, Start, Ask, CommandLocal, InstructJoin, InstructLeave,
        Instruct, TakeReply, Exit, Crash, Gone, HandleCommand, Deliver
  <2>4. CASE TouchClient \/ JoinClient \/ ServerAlone \/ UNCHANGED systemVars
    BY <2>4, <2>a DEF TouchClient, JoinClient, ServerAlone, clientVars, systemVars
  <2>5. CASE ReplyToClient
    BY <2>5, <2>a DEF ReplyToClient
  <2>6. CASE TimePasses
    <3>1. /\ phase' = phase
          /\ idle'[c] = IF Running(c) /\ ~WaitsInVain(c) THEN idle[c] + 1 ELSE idle[c]
      BY <2>6 DEF TimePasses
    <3>2. Running(c) /\ ~WaitsInVain(c) => idle[c] < Longest(c)
      BY <2>6 DEF TimePasses, HasTime
    <3> QED BY <3>1, <3>2, <2>a
  <2> QED BY <2>1, <2>2, <2>3, <2>4, <2>5, <2>6, <2>a, SystemSteps
<1> QED BY <1>1, <1>2, SoundAlways, PTL DEF SystemSpec

\* The steps of a client keep it.
LEMMA SilenceOwnStep ==
  ASSUME Sound, RoutingOK, IdleOK, NEW c \in Names, ClientAlone(c), Met(c)'
  PROVE  Met(c) /\ Silence(c)' = Silence(c) /\ Allowed(c) <= Allowed(c)'
<1>a. ClientsTypeOK
  BY DEF Sound
<1>b. Silence(c)' = Silence(c) /\ main' = main
  BY ClientAloneUnchanged DEF vars, Silence
<1>c. /\ Allowed(c) \in Nat
      /\ {unheard[c], idle[c], Cycle * unheard[c], PingPeriod, MaxDelay, Cycle} \subseteq Nat
      /\ Cycle = PingPeriod + MaxDelay
      /\ Cycle * (unheard[c] + 1) = Cycle * unheard[c] + Cycle
  BY <1>a, AllowedType
<1>d. Running(c) => idle[c] <= Longest(c)
  BY DEF IdleOK
<1> USE DEF Met, Running
<1>1. ASSUME NEW q \in Asks(c), Ask(c, q) PROVE Met(c) /\ Allowed(c) <= Allowed(c)'
  <2>1. phase[c] = "polling" /\ unheard'[c] = unheard[c] + 1 /\ idle'[c] = 0
    BY <1>1, <1>a DEF Ask, ClientsTypeOK
  <2>2. phase'[c] = "sent"
    BY <1>1, <1>a DEF Ask, ClientsTypeOK
  <2>3. Allowed(c)' = Cycle * unheard[c] + Cycle
    BY <2>1, <2>2, <1>c DEF Allowed, Cycle
  <2>4. Allowed(c) = Cycle * unheard[c] + idle[c] + MaxDelay /\ idle[c] <= PingPeriod
    BY <2>1, <1>d DEF Allowed, Longest
  <2>5. asked[c] = Idle
    BY <2>1 DEF RoutingOK
  <2> QED BY <1>c, <2>1, <2>3, <2>4, <2>5 DEF Idle
<1>2. ASSUME CommandLocal(c) PROVE Met(c) /\ Allowed(c) <= Allowed(c)'
  <2>1. phase[c] = "polling" /\ unheard'[c] = unheard[c] + 1 /\ idle'[c] = 0
    BY <1>2, <1>a DEF CommandLocal, ClientsTypeOK
  <2>2. phase' = phase
    BY <1>2 DEF CommandLocal
  <2>3. Allowed(c)' = Cycle * unheard[c] + Cycle + MaxDelay
    BY <2>1, <2>2, <1>c DEF Allowed, Cycle
  <2>4. Allowed(c) = Cycle * unheard[c] + idle[c] + MaxDelay /\ idle[c] <= PingPeriod
    BY <2>1, <1>d DEF Allowed, Longest
  <2>5. asked[c] = Idle
    BY <2>1 DEF RoutingOK
  <2> QED BY <1>c, <2>1, <2>3, <2>4, <2>5 DEF Idle
<1>3. ASSUME InstructJoin(c) \/ InstructLeave(c) \/ TakeReply(c)
      PROVE  phase[c] = "answered" /\ Allowed(c) <= Allowed(c)'
  <2>1. /\ phase[c] = "answered" /\ phase'[c] = "polling" /\ idle'[c] = 0
        /\ unheard' = unheard
    BY <1>3, <1>a DEF InstructJoin, InstructLeave, Instruct, TakeReply, ClientsTypeOK
  <2>2. Allowed(c)' = Cycle * unheard[c] + MaxDelay
    BY <2>1, <1>c DEF Allowed, Cycle
  <2>3. Allowed(c) = Cycle * unheard[c] + idle[c] /\ idle[c] <= MaxDelay
    BY <2>1, <1>c, <1>d DEF Allowed, Longest
  <2> QED BY <2>1, <2>2, <2>3, <1>c
<1>4. ASSUME HandleCommand(c)
      PROVE  phase' = phase /\ asked' = asked /\ idle' = idle /\ unheard' = unheard
  BY <1>4 DEF HandleCommand
<1>5. ~Start(c) /\ ~Exit(c) /\ ~Crash(c)
  BY <1>a DEF Start, Exit, Crash, ClientsTypeOK, Request
<1> QED BY <1>b, <1>c, <1>1, <1>2, <1>3, <1>4, <1>5 DEF ClientAlone, Allowed

\* The steps of the others that a client does not take part in leave its variables alone.
LEMMA SilenceOthers ==
  ASSUME ClientsTypeOK, NEW c \in Names, NEW d \in Names \ {c}, ClientAlone(d) \/ Deliver(d)
  PROVE  /\ phase'[c] = phase[c] /\ asked'[c] = asked[c]
         /\ Allowed(c)' = Allowed(c)
         /\ Silence(c)' = Silence(c)
<1>1. CASE ClientAlone(d)
  <2>1. phase'[c] = phase[c] /\ asked'[c] = asked[c] /\ idle'[c] = idle[c]
          /\ unheard'[c] = unheard[c]
    BY <1>1
    DEF ClientsTypeOK, ClientAlone, Start, Ask, CommandLocal, InstructJoin, InstructLeave,
        Instruct, TakeReply, Exit, Crash, Gone, HandleCommand
  <2>2. UNCHANGED <<now, lastSeen>>
    BY <1>1, ClientAloneUnchanged DEF vars
  <2> QED BY <2>1, <2>2 DEF Allowed, Silence
<1>2. CASE Deliver(d)
  BY <1>2 DEF ClientsTypeOK, Deliver, Receive, ReceiveGarbled, sessionVars, Allowed, Silence
<1> QED BY <1>1, <1>2

\* No step of the server makes a client more silent.
LEMMA SilenceServerStep ==
  ASSUME Sound, RoutingOK, NEW c \in Names, Met(c)',
         TouchClient \/ JoinClient \/ ReplyToClient \/ ServerAlone
  PROVE  \/ Silence(c)' = 0 /\ Allowed(c)' \in Nat
         \/ Met(c) /\ Silence(c)' = Silence(c) /\ Allowed(c)' = Allowed(c)
<1>a. ClientsTypeOK /\ TypeOK
  BY DEF Sound
<1>b. Allowed(c) \in Nat
  BY <1>a, AllowedType
<1> USE DEF Met, Running
<1>1. CASE TouchClient
  <2>1. /\ lastSeen' = TouchUser(lastSeen, req.user, now) /\ now' = now /\ now \in Nat
        /\ UNCHANGED <<phase, asked, idle>>
        /\ unheard' = [d \in Names |-> IF d = req.user THEN 0 ELSE unheard[d]]
    BY <1>1, <1>a DEF TouchClient, Touch, TypeOK
  <2>2. CASE c = req.user
    <3>1. lastSeen'[c] = now /\ c \in DOMAIN lastSeen'
      BY <2>1, <2>2, NamesAssumption DEF TouchUser
    <3>2. unheard'[c] = 0 /\ idle'[c] \in Nat
      BY <2>1, <2>2, <1>a DEF ClientsTypeOK
    <3>3. Allowed(c)' \in Nat
      BY <3>2, SystemAssumption DEF Allowed, Cycle
    <3> QED BY <2>1, <3>1, <3>3 DEF Silence
  <2>3. CASE c # req.user
    <3>1. Silence(c)' = Silence(c)
      BY <2>1, <2>3 DEF TouchUser, Silence
    <3>2. Allowed(c)' = Allowed(c)
      BY <2>1, <2>3 DEF Allowed
    <3>3. ~(phase[c] = "served" /\ asked[c].kind = "login")
      BY <2>3 DEF RoutingOK, Asked, Asks, Request
    <3> QED BY <2>1, <3>1, <3>2, <3>3
  <2> QED BY <2>2, <2>3
<1>2. CASE JoinClient
  BY <1>2 DEF JoinClient, HandleJoinRoom, sessionVars, Silence, Allowed
<1>3. CASE ReplyToClient
  BY <1>3, <1>a DEF ReplyToClient, Reply, sessionVars, Silence, Allowed, ClientsTypeOK
<1>4. CASE ServerAlone
  <2>1. UNCHANGED clientVars
    BY <1>4 DEF ServerAlone
  <2>2. /\ now' = now
        /\ lastSeen' = lastSeen \/ \E u : lastSeen' = Forget(lastSeen, u)
        /\ main' = main \/ main \notin {"recv", "touch"}
    BY <1>4
    DEF ServerAlone, HandleLogin, HandleLeaveRoom, HandleListRooms, HandleLogout, Publish,
        CheckerStep, Scan, EvictFromRoom, EvictSession, NotifyEviction, mainVars, sessionVars
  <2>3. Met(c) /\ Allowed(c)' = Allowed(c)
    BY <2>1, <2>2 DEF clientVars, Allowed
  <2>4. Silence(c)' \in {Silence(c), 0}
    BY <2>2 DEF Silence, Forget
  <2> QED BY <1>b, <2>3, <2>4
<1> QED BY <1>1, <1>2, <1>3, <1>4

\* The clock counts against the poll, or against the delay.
LEMMA SilenceTick ==
  ASSUME Sound, NEW c \in Names, ~WaitsInVain(c), Met(c)', TimePasses
  PROVE  Met(c) /\ Silence(c)' <= Silence(c) + 1 /\ Allowed(c)' = Allowed(c) + 1
<1>a. ClientsTypeOK /\ TypeOK
  BY DEF Sound
<1>b. {Cycle * unheard[c], idle[c], MaxDelay} \subseteq Nat
  BY <1>a, AllowedType
<1>1. UNCHANGED <<phase, asked, unheard, main, lastSeen>> /\ now' = now + 1
  BY DEF TimePasses, Tick, mainVars, sessionVars
<1>2. Met(c)
  BY <1>1 DEF Met, Running
<1>3. idle'[c] = idle[c] + 1
  BY <1>2 DEF TimePasses, Met
<1>4. Allowed(c)' = Allowed(c) + 1
  BY <1>1, <1>3, <1>b DEF Allowed
<1>5. Silence(c)' <= Silence(c) + 1
  <2>1. CASE c \in DOMAIN lastSeen
    <3>1. lastSeen[c] \in Nat /\ now \in Nat
      BY <2>1, <1>a DEF TypeOK
    <3> QED BY <1>1, <2>1, <3>1 DEF Silence
  <2>2. CASE c \notin DOMAIN lastSeen
    BY <1>1, <2>2 DEF Silence
  <2> QED BY <2>1, <2>2
<1> QED BY <1>2, <1>4, <1>5

LEMMA SilenceType ==
  ASSUME TypeOK, NEW c \in Names
  PROVE  Silence(c) \in Int
BY DEF TypeOK, Silence

\* The server hears of whoever it has met, in time.
LEMMA SilenceCorrect == SystemSpec => []SilenceOK
<1>1. SystemInit => SilenceOK
  BY DEF SystemInit, SilenceOK, Met, Running
<1>2. SilenceOK /\ IdleOK /\ RoutingOK /\ Sound /\ Sound' /\ [SystemNext]_systemVars =>
        SilenceOK'
  <2> SUFFICES ASSUME SilenceOK, IdleOK, RoutingOK, Sound, Sound', [SystemNext]_systemVars,
                      NEW c \in Names, Met(c)', ~WaitsInVain(c)'
               PROVE  Silence(c)' <= Allowed(c)'
    BY DEF SilenceOK
  <2>a. ~WaitsInVain(c) /\ (Met(c) => Silence(c) <= Allowed(c))
    BY VainForever DEF SilenceOK
  <2>b. /\ Silence(c) \in Int /\ Silence(c)' \in Int
        /\ Allowed(c) \in Nat /\ Allowed(c)' \in Nat
    <3>1. Silence(c) \in Int /\ Allowed(c) \in Nat
      BY SilenceType, AllowedType DEF Sound
    <3>2. Silence(c)' \in Int
      BY DEF Sound, TypeOK, Silence
    <3>3. Allowed(c)' \in Nat
      <4>1. {unheard'[c], idle'[c], PingPeriod, MaxDelay} \subseteq Nat
        BY SystemAssumption DEF Sound, ClientsTypeOK
      <4> QED BY <4>1 DEF Allowed, Cycle
    <3> QED BY <3>1, <3>2, <3>3
  <2>1. CASE ClientAlone(c)
    BY <2>1, <2>a, <2>b, SilenceOwnStep
  <2>2. CASE Deliver(c)
    <3>1. /\ phase[c] = "sent" /\ asked'[c] = asked[c] /\ phase'[c] = "served"
          /\ asked[c].kind = "login" => main' \in {"recv", "touch"}
          /\ UNCHANGED <<now, lastSeen, idle, unheard>>
      BY <2>2
      DEF Deliver, Receive, ReceiveGarbled, Handled, sessionVars, Met, Running, Sound, ClientsTypeOK
    <3> QED BY <3>1, <2>a DEF Met, Running, Silence, Allowed
  <2>3. ASSUME NEW d \in Names \ {c}, ClientAlone(d) \/ Deliver(d)
        PROVE  Silence(c)' <= Allowed(c)'
    <3>1. /\ phase'[c] = phase[c] /\ asked'[c] = asked[c]
          /\ Allowed(c)' = Allowed(c) /\ Silence(c)' = Silence(c)
      BY <2>3, SilenceOthers DEF Sound
    <3>2. ClientAlone(d) => main' = main
      BY ClientAloneUnchanged DEF vars
    <3>3. Deliver(d) => phase[c] # "served"
      BY NamesAssumption DEF Deliver, Receive, ReceiveGarbled, RoutingOK
    <3>4. Met(c)
      BY <2>3, <3>1, <3>2, <3>3 DEF Met, Running
    <3> QED BY <2>a, <3>1, <3>4
  <2>4. CASE TouchClient \/ JoinClient \/ ReplyToClient \/ ServerAlone
    BY <2>4, <2>a, <2>b, SilenceServerStep
  <2>5. CASE TimePasses
    BY <2>5, <2>a, <2>b, SilenceTick
  <2>6. CASE UNCHANGED systemVars
    <3>1. Met(c) /\ Silence(c)' = Silence(c) /\ Allowed(c)' = Allowed(c)
      BY <2>6 DEF systemVars, vars, clientVars, Met, Running, Silence, Allowed
    <3> QED BY <2>a, <3>1
  <2> QED BY <2>1, <2>2, <2>3, <2>4, <2>5, <2>6, SystemSteps
<1> QED BY <1>1, <1>2, SoundAlways, RoutingCorrect, IdleCorrect, PTL DEF SystemSpec

\* When a client polls, the server has heard of it within a MaxDelay and the time of this
\* poll, and a Cycle more for each command without its name.
THEOREM SilenceIsBounded == SystemSpec => []SilenceBounded
<1>1. SilenceOK /\ RoutingOK /\ Sound => SilenceBounded
  <2> SUFFICES ASSUME SilenceOK, RoutingOK, Sound, NEW c \in Names, phase[c] = "polling"
               PROVE  Silence(c) <= Cycle * unheard[c] + MaxDelay + idle[c]
    BY DEF SilenceBounded
  <2>1. Met(c) /\ ~WaitsInVain(c)
    BY DEF RoutingOK, Met, Running, Idle, WaitsInVain
  <2>2. Allowed(c) = Cycle * unheard[c] + MaxDelay + idle[c]
    BY AllowedType, SystemAssumption DEF Sound, Allowed
  <2> QED BY <2>1, <2>2 DEF SilenceOK
<1> QED BY <1>1, SilenceCorrect, RoutingCorrect, SoundAlways, PTL

\* Whom the checker finds dead the server has not heard of for longer than the timeout.
LEMMA FoundDeadSilent ==
  ASSUME Sound, [SystemNext]_systemVars, NEW c \in dead' \ dead
  PROVE  c \in Names /\ Silence(c) > Timeout
<1>1. Scan
  <2>1. ASSUME NEW d \in Names, ClientAlone(d) \/ Deliver(d) PROVE dead' = dead
    BY <2>1, ClientAloneUnchanged DEF vars, Deliver, Receive, ReceiveGarbled, checkerVars
  <2>2. TouchClient \/ JoinClient \/ ReplyToClient \/ TimePasses => dead' = dead
    BY DEF TouchClient, Touch, JoinClient, HandleJoinRoom, ReplyToClient, Reply, TimePasses,
           Tick, checkerVars
  <2>3. HandleLogin \/ HandleLeaveRoom \/ HandleListRooms \/ HandleLogout \/ Publish =>
          dead' = dead
    BY DEF HandleLogin, HandleLeaveRoom, HandleListRooms, HandleLogout, Publish, checkerVars
  <2>4. EvictFromRoom \/ EvictSession \/ NotifyEviction => dead' \subseteq dead
    BY DEF EvictFromRoom, EvictSession, NotifyEviction
  <2>5. UNCHANGED systemVars => dead' = dead
    BY DEF systemVars, vars
  <2> QED BY <2>1, <2>2, <2>3, <2>4, <2>5, SystemSteps DEF ServerAlone, CheckerStep
<1>2. c \in DOMAIN lastSeen /\ now > lastSeen[c] + Timeout
  BY <1>1 DEF Scan, GetDeadUsers
<1>3. c \in Names /\ lastSeen[c] \in Nat /\ now \in Nat /\ Timeout \in Nat
  BY <1>2, ServerAssumption DEF Sound, TypeOK
<1> QED BY <1>2, <1>3 DEF Silence

\* The checker finds a client that runs dead only after so many commands without its name
\* in a row that a Cycle for each of them, and one more, is more than the timeout.
THEOREM OnlyUnheardEvicted == SystemSpec => EvictsOnlyUnheard
<1>1. SilenceOK /\ IdleOK /\ Sound /\ [SystemNext]_systemVars =>
        [\A c \in dead' \ dead : Running(c) /\ asked[c].kind # "login" /\ ~WaitsInVain(c) =>
            Cycle * (unheard[c] + 1) > Timeout]_systemVars
  <2> SUFFICES ASSUME SilenceOK, IdleOK, Sound, [SystemNext]_systemVars,
                      NEW c \in dead' \ dead, Running(c), asked[c].kind # "login",
                      ~WaitsInVain(c)
               PROVE  Cycle * (unheard[c] + 1) > Timeout
    OBVIOUS
  <2>1. c \in Names /\ Silence(c) > Timeout
    BY FoundDeadSilent
  <2>2. Silence(c) <= Allowed(c)
    BY <2>1 DEF SilenceOK, Met
  <2>3. /\ {unheard[c], idle[c], Cycle * unheard[c], PingPeriod, MaxDelay, Cycle} \subseteq Nat
        /\ Cycle = PingPeriod + MaxDelay
        /\ Cycle * (unheard[c] + 1) = Cycle * unheard[c] + Cycle
        /\ Silence(c) \in Int /\ Timeout \in Nat
    BY <2>1, AllowedType, SilenceType, ServerAssumption DEF Sound
  <2>4. idle[c] <= Longest(c)
    BY <2>1 DEF IdleOK
  <2>5. Allowed(c) <= Cycle * unheard[c] + Cycle
    BY <2>3, <2>4 DEF Allowed, Longest
  <2>6. Allowed(c) \in Nat
    BY <2>1, AllowedType DEF Sound
  <2> QED BY <2>1, <2>2, <2>3, <2>5, <2>6
<1> QED BY <1>1, SilenceCorrect, IdleCorrect, SoundAlways, PTL DEF SystemSpec, EvictsOnlyUnheard

-------------------------------------------------------------------------------
\* When no client that runs is logged off

\* A request that carries the username is on its way to TouchUser; or it is a logout, which
\* the server does not count as a sign of life and after which no other command comes, or
\* what ends the server's answers to anybody.
AboutToBeHeard(c) ==
  \/ Running(c) /\ asked[c].kind = "logout"
  \/ phase[c] = "sent" /\ asked[c] = Garbled
  \/ asked[c].user = c /\ (phase[c] = "sent" \/ (phase[c] = "served" /\ main = "touch"))

\* What has put off the sign of life: the commands without the username that the user may
\* type, and the poll that the request with it has ended.
PutOff(c) ==
  \/ unheard[c] <= Allowance(c)
  \/ unheard[c] = Allowance(c) + 1 /\ AboutToBeHeard(c)

UnheardOK == ~Stuck => \A c \in Names : PutOff(c)

LEMMA AllowanceType ==
  ASSUME NEW c
  PROVE  Allowance(c) \in Nat /\ Allowance(c) <= MaxUnheard
BY SystemAssumption DEF Allowance

\* A poll that ends adds a command without the username only while there may be one more.
LEMMA PollCounts ==
  ASSUME NEW c \in Names, Ping(c) \/ (c \notin Lurkers /\ Command(c))
  PROVE  \/ unheard[c] < Allowance(c) /\ (CommandLocal(c) \/ \E q \in Asks(c) : Ask(c, q))
         \/ \E q \in Asks(c) : (q.user = c \/ q = Garbled) /\ Ask(c, q)
<1>1. CASE c \notin Lurkers /\ (CommandList(c) \/ CommandLocal(c))
  BY <1>1, PollEnds DEF Command, CommandList, CommandLocal, Allowance
<1>2. CASE Ping(c) \/ Quit(c) \/ CommandMessage(c)
  <2>1. /\ Request("heartbeat", c, General) \in Asks(c)
        /\ Request("logout", c, General) \in Asks(c)
        /\ \A k \in {"room_msg", "direct_msg"} : Request(k, c, General) \in Asks(c)
    BY RoomsAssumption DEF Request, Asks, Requests, Handled
  <2> QED BY <1>2, <2>1 DEF Ping, Quit, CommandMessage, Request
<1>3. CASE CommandJoin(c) \/ CommandLeave(c)
  <2>1. \A k \in {"join", "leave"}, r \in RoomNames : Request(k, c, r) \in Asks(c)
    BY DEF Request, Asks, Requests, Handled
  <2> QED BY <1>3, <2>1 DEF CommandJoin, CommandLeave, Request
<1>4. CASE CommandGarbled(c)
  <2>1. Garbled \in Asks(c)
    BY DEF Garbled, Asks
  <2> QED BY <1>4, <2>1 DEF CommandGarbled
<1> QED BY <1>1, <1>2, <1>3, <1>4 DEF Command

\* The server receives what it can decode.
LEMMA NothingGarbled == ASSUME ~Undecodable PROVE SystemSpec => []~Stuck
<1>1. Init => ~Stuck
  BY DEF Init, Idle, Stuck
<1>2. ~Stuck /\ [Next]_vars => (~Stuck)'
  <2> SUFFICES ASSUME ~Stuck, [Next]_vars PROVE req'.kind # "garbled"
    BY DEF Stuck
  <2>1. CASE Receive
    BY <2>1 DEF Receive, Requests, Handled
  <2>2. CASE HandlerStep \/ CheckerStep \/ Tick \/ UNCHANGED vars
    BY <2>2
    DEF HandlerStep, Touch, HandleLogin, HandleJoinRoom, HandleLeaveRoom, HandleListRooms,
        HandleLogout, Publish, Reply, CheckerStep, Scan, EvictFromRoom, EvictSession,
        NotifyEviction, Tick, mainVars, vars, Stuck, Idle
  <2> QED BY <2>1, <2>2 DEF Next, ReceiveGarbled
<1> QED BY <1>1, <1>2, SystemRunsServer, PTL DEF Spec

\* It is put off by these commands at most.
LEMMA UnheardCorrect == SystemSpec => []UnheardOK
<1>1. SystemInit => UnheardOK
  <2> SUFFICES ASSUME SystemInit, NEW c \in Names PROVE PutOff(c)
    BY DEF UnheardOK
  <2>1. unheard[c] = 0
    BY DEF SystemInit
  <2> QED BY <2>1, AllowanceType DEF PutOff
<1>2. UnheardOK /\ RoutingOK /\ Sound /\ [SystemNext]_systemVars => UnheardOK'
  <2> SUFFICES ASSUME UnheardOK, RoutingOK, Sound, [SystemNext]_systemVars, ~Stuck',
                      NEW c \in Names
               PROVE  PutOff(c)'
    BY DEF UnheardOK
  <2>s. ~Stuck
    BY StuckForever
  <2>a. ClientsTypeOK /\ unheard[c] \in Nat /\ Allowance(c) \in Nat
    BY AllowanceType DEF Sound, ClientsTypeOK
  <2>b. \/ unheard[c] <= Allowance(c)
        \/ unheard[c] = Allowance(c) + 1 /\ AboutToBeHeard(c)
    BY <2>s DEF UnheardOK, PutOff
  <2>c. phase[c] \in {"off", "polling"} => asked[c] = Idle /\ unheard[c] <= Allowance(c)
    BY <2>b, NamesAssumption DEF RoutingOK, AboutToBeHeard, Running, Idle
  <2>d. ASSUME unheard'[c] = unheard[c], asked'[c] = asked[c],
               phase'[c] = phase[c], main' = main \/ ~(phase[c] = "served" /\ main = "touch")
        PROVE  PutOff(c)'
    BY <2>b, <2>d DEF PutOff, AboutToBeHeard, Running
  <2>e. unheard'[c] <= Allowance(c) => PutOff(c)'
    BY DEF PutOff
  <2> DEFINE Says == Ping(c) \/ (c \notin Lurkers /\ Command(c))
  <2>1. CASE Says
    <3>1. CASE unheard[c] < Allowance(c) /\ (CommandLocal(c) \/ \E q \in Asks(c) : Ask(c, q))
      <4>1. unheard'[c] = unheard[c] + 1
        BY <3>1, <2>a DEF CommandLocal, Ask, ClientsTypeOK
      <4> QED BY <3>1, <4>1, <2>a, <2>e
    <3>2. ASSUME NEW q \in Asks(c), q.user = c \/ q = Garbled, Ask(c, q) PROVE PutOff(c)'
      <4>1. /\ phase[c] = "polling" /\ phase'[c] = "sent" /\ asked'[c] = q
            /\ unheard'[c] = unheard[c] + 1
        BY <3>2, <2>a DEF Ask, ClientsTypeOK
      <4>2. unheard'[c] <= Allowance(c) \/ unheard'[c] = Allowance(c) + 1
        BY <4>1, <2>a, <2>c
      <4> QED BY <3>2, <4>1, <4>2 DEF PutOff, AboutToBeHeard
    <3> QED BY <2>1, <3>1, <3>2, PollCounts
  <2>2. CASE Start(c) \/ InstructJoin(c) \/ InstructLeave(c) \/ TakeReply(c)
    <3>1. /\ unheard' = unheard
          /\ \/ phase[c] = "off"
             \/ phase[c] = "answered" /\ asked[c].kind # "logout"
      BY <2>2 DEF Start, InstructJoin, InstructLeave, Instruct, TakeReply
    <3>2. unheard[c] <= Allowance(c)
      BY <3>1, <2>b, <2>c DEF AboutToBeHeard
    <3> QED BY <3>1, <3>2, <2>e
  <2>3. CASE Exit(c) \/ Crash(c)
    <3>1. unheard'[c] = 0
      BY <2>3, <2>a DEF Exit, Crash, Gone, ClientsTypeOK
    <3> QED BY <3>1, <2>a, <2>e
  <2>4. CASE HandleCommand(c)
    BY <2>4, <2>d DEF HandleCommand, vars
  <2>5. CASE Deliver(c)
    <3>1. /\ unheard' = unheard /\ phase[c] \in {"sent", "stray"}
          /\ phase'[c] = IF phase[c] = "sent" THEN "served" ELSE "off"
          /\ phase[c] = "sent" => asked'[c] = asked[c]
          /\ asked[c] \in Asked(c) /\ req' = asked[c]
      BY <2>5, <2>a DEF Deliver, ClientsTypeOK, RoutingOK
    <3>2. asked[c] # Garbled
      BY <3>1 DEF Stuck, Garbled
    <3>3. CASE phase[c] = "stray"
      <4>1. unheard[c] <= Allowance(c)
        BY <3>2, <3>3, <2>b DEF AboutToBeHeard, Running
      <4> QED BY <3>1, <4>1, <2>e
    <3>4. CASE phase[c] = "sent"
      <4>1. ASSUME asked[c].user = c PROVE asked[c].kind = "logout" \/ main' = "touch"
        <5>1. c # NoName
          BY NamesAssumption
        <5>2. Receive
          BY <2>5, <3>2 DEF Deliver
        <5>3. req'.kind = "unknown" => req'.user = NoName
          BY <5>2 DEF Receive, Requests, Handled
        <5> QED BY <3>1, <4>1, <5>1, <5>2, <5>3 DEF Receive
      <4> QED BY <3>1, <3>2, <3>4, <4>1, <2>b DEF PutOff, AboutToBeHeard, Running
    <3> QED BY <3>1, <3>3, <3>4
  <2>6. ASSUME NEW d \in Names \ {c}, ClientAlone(d) \/ Deliver(d) PROVE PutOff(c)'
    <3>1. CASE ClientAlone(d)
      <4>1. /\ phase'[c] = phase[c] /\ asked'[c] = asked[c]
            /\ unheard'[c] = unheard[c]
        BY <2>a, <3>1
        DEF ClientsTypeOK, ClientAlone, Start, Ask, CommandLocal, InstructJoin, InstructLeave,
            Instruct, TakeReply, Exit, Crash, Gone, HandleCommand
      <4>2. main' = main
        BY <3>1, ClientAloneUnchanged DEF vars
      <4> QED BY <2>d, <4>1, <4>2
    <3>2. CASE Deliver(d)
      <4>1. /\ unheard' = unheard /\ phase'[c] = phase[c] /\ asked'[c] = asked[c]
            /\ main = "recv"
        BY <2>a, <3>2 DEF ClientsTypeOK, Deliver, Receive, ReceiveGarbled
      <4> QED BY <2>d, <4>1
    <3> QED BY <2>6, <3>1, <3>2
  <2>7. CASE TouchClient
    <3>1. /\ UNCHANGED <<phase, asked>> /\ main = "touch" /\ req.kind \in Handled
          /\ unheard'[c] = IF c = req.user THEN 0 ELSE unheard[c]
      BY <2>7 DEF TouchClient, Touch, Sound, ControlOK
    <3>2. c # req.user => ~(phase[c] = "served" /\ asked[c].user = c)
      BY DEF RoutingOK
    <3>3. CASE c = req.user
      BY <2>a, <2>e, <3>1, <3>3
    <3>4. CASE c # req.user
      BY <2>b, <3>1, <3>2, <3>4 DEF PutOff, AboutToBeHeard, Running
    <3> QED BY <3>3, <3>4
  <2>8. CASE JoinClient \/ ServerAlone
    <3>1. UNCHANGED <<phase, asked, unheard>> /\ (main' = main \/ main # "touch")
      BY <2>8
      DEF JoinClient, HandleJoinRoom, ServerAlone, clientVars, HandleLogin, HandleLeaveRoom,
          HandleListRooms, HandleLogout, Publish, CheckerStep, Scan, EvictFromRoom,
          EvictSession, NotifyEviction, mainVars
    <3> QED BY <2>d, <3>1
  <2>9. CASE ReplyToClient
    <3>1. /\ UNCHANGED <<asked, unheard>> /\ main = "reply"
          /\ \/ phase'[c] = phase[c]
             \/ phase[c] = "served" /\ phase'[c] = "answered"
      BY <2>9 DEF ReplyToClient, Reply
    <3> QED BY <2>b, <3>1 DEF PutOff, AboutToBeHeard, Running
  <2>10. CASE TimePasses
    <3>1. UNCHANGED <<phase, asked, unheard, main>>
      BY <2>10 DEF TimePasses, Tick, mainVars
    <3> QED BY <2>d, <3>1
  <2>11. CASE UNCHANGED systemVars
    BY <2>d, <2>11 DEF systemVars, vars, clientVars
  <2>12. ASSUME NEW d \in Names, ControllerStep(d) \/ Crash(d) \/ HandleCommand(d)
         PROVE  ClientAlone(d)
    BY <2>12, PollEnds DEF ControllerStep, ClientAlone
  <2> QED
    BY <2>1, <2>2, <2>3, <2>4, <2>5, <2>6, <2>7, <2>8, <2>9, <2>10, <2>11, <2>12
    DEF SystemNext, ControllerStep, ServerStep, ServerAlone
<1> QED BY <1>1, <1>2, SoundAlways, RoutingCorrect, PTL DEF SystemSpec

LEMMA ProductGrows ==
  ASSUME NEW p \in Nat, NEW m \in Nat, NEW n \in Nat, m <= n
  PROVE  p * m <= p * n
<1>1. p * n = p * m + p * (n - m)
  OBVIOUS
<1>2. p * (n - m) \in Nat /\ p * m \in Nat
  OBVIOUS
<1> QED BY <1>1, <1>2

\* A user who makes himself heard in time is not silent for longer than the timeout.
LEMMA PatientHeard ==
  ASSUME SilenceOK, IdleOK, UnheardOK, Sound, RoutingOK, ~Stuck, NEW c \in Names, Met(c),
         Patient(c)
  PROVE  Silence(c) <= Timeout
<1> DEFINE most == Allowance(c)
<1>1. Silence(c) <= Allowed(c)
  BY DEF SilenceOK, WaitsInVain
<1>2. /\ {unheard[c], idle[c], Cycle * unheard[c], PingPeriod, MaxDelay, Cycle} \subseteq Nat
      /\ Cycle = PingPeriod + MaxDelay /\ Allowed(c) \in Nat
      /\ most \in Nat /\ Timeout \in Nat /\ Silence(c) \in Int
  BY AllowanceType, AllowedType, SilenceType, ServerAssumption DEF Sound
<1>3. Cycle * (most + 1) + MaxDelay <= Timeout
  BY DEF Patient
<1>4. unheard[c] <= most \/ (unheard[c] = most + 1 /\ phase[c] # "polling")
  BY NamesAssumption DEF UnheardOK, PutOff, RoutingOK, AboutToBeHeard, Running, Idle
<1>5. idle[c] <= Longest(c)
  BY DEF IdleOK, Met
<1> HIDE DEF most
<1>6. /\ Cycle * (most + 1) = Cycle * most + Cycle
      /\ Cycle * most \in Nat /\ Cycle * (most + 1) \in Nat
  BY <1>2
<1>7. Allowed(c) <= Cycle * (most + 1) + MaxDelay
  <2>1. CASE unheard[c] <= most
    <3>1. Cycle * unheard[c] <= Cycle * most
      BY <1>2, <2>1, ProductGrows
    <3>2. Allowed(c) <= Cycle * unheard[c] + Cycle
      BY <1>2, <1>5 DEF Allowed, Longest
    <3> QED BY <1>2, <1>6, <3>1, <3>2
  <2>2. CASE unheard[c] = most + 1 /\ phase[c] # "polling"
    <3>1. Allowed(c) = Cycle * (most + 1) + idle[c] /\ idle[c] <= MaxDelay
      BY <2>2, <1>2, <1>5, <1>6 DEF Allowed, Longest
    <3> QED BY <1>2, <1>6, <3>1
  <2> QED BY <1>4, <2>1, <2>2
<1> QED BY <1>1, <1>2, <1>3, <1>6, <1>7

\* What the comment in the server says of its checker holds where every request can be
\* decoded, the commands in a row without the username are few enough, and the delays
\* short enough: whom it finds dead has no client that runs and has logged in.  The
\* condition ties the three together.  With the program's polls of two seconds and its
\* timeout of six it allows delays of two seconds where no such command is typed, of two
\* thirds of a second where never two are typed in a row, and none where two are
\* (server.go:50, 62, chat_client_controller.c:163).
THEOREM OnlyTheDeadAreLoggedOff ==
  ASSUME ~Undecodable, Cycle * (MaxUnheard + 1) + MaxDelay <= Timeout
  PROVE  SystemSpec => OnlyDeadLoggedOff
<1>1. SilenceOK /\ IdleOK /\ UnheardOK /\ Sound /\ RoutingOK /\ ~Stuck /\ [SystemNext]_systemVars =>
        [\A c \in dead' \ dead : Running(c) => asked[c].kind = "login"]_systemVars
  <2> SUFFICES ASSUME SilenceOK, IdleOK, UnheardOK, Sound, RoutingOK, ~Stuck,
                      [SystemNext]_systemVars, NEW c \in dead' \ dead, Running(c),
                      asked[c].kind # "login"
               PROVE  FALSE
    OBVIOUS
  <2>1. c \in Names /\ Silence(c) > Timeout
    BY FoundDeadSilent
  <2>2. Patient(c)
    <3> DEFINE most == Allowance(c)
    <3>1. {Cycle, MaxDelay, MaxUnheard, Timeout, most} \subseteq Nat
      BY AllowanceType, SystemAssumption, ServerAssumption DEF Cycle
    <3>2. most + 1 <= MaxUnheard + 1
      BY AllowanceType, <3>1
    <3> HIDE DEF most
    <3>3. Cycle * (most + 1) <= Cycle * (MaxUnheard + 1)
      BY <3>1, <3>2, ProductGrows
    <3>4. Cycle * (most + 1) \in Nat /\ Cycle * (MaxUnheard + 1) \in Nat
      BY <3>1
    <3>5. Cycle * (most + 1) + MaxDelay <= Timeout
      BY <3>1, <3>3, <3>4
    <3> QED BY <3>5 DEF Patient, most
  <2>3. Silence(c) <= Timeout
    BY <2>1, <2>2, PatientHeard DEF Met
  <2>4. Silence(c) \in Int /\ Timeout \in Nat
    BY <2>1, SilenceType, ServerAssumption DEF Sound
  <2> QED BY <2>1, <2>3, <2>4
<1> QED
  BY <1>1, SilenceCorrect, IdleCorrect, UnheardCorrect, NothingGarbled, SoundAlways,
     RoutingCorrect, PTL
  DEF SystemSpec, OnlyDeadLoggedOff

-------------------------------------------------------------------------------
\* Session tokens

\* A login of the client is on its way or not yet entered; its logout has been entered.
LoginAhead(c) ==
  \/ phase[c] \in {"sent", "stray"} /\ asked[c].kind = "login"
  \/ served = c /\ req.kind = "login" /\ main \in {"touch", "create"}

LogoutDone(c) ==
  \/ served = c /\ req.kind = "logout" /\ main \in {"publish", "reply"}
  \/ phase[c] = "answered" /\ asked[c].kind = "logout"

Ahead(c) == IF LoginAhead(c) THEN 1 ELSE 0
Alive(c) == IF Running(c) /\ ~LogoutDone(c) THEN 1 ELSE 0

\* The inductive form of TokensLeftByCrashes: a client that has not logged out is good for
\* a token, a crash makes that lasting, and a login under way will use it up.
Covered(c) ==
  /\ IsFiniteSet(TokensOf(users, c))
  /\ Cardinality(TokensOf(users, c)) + Ahead(c) <= crashes[c] + Alive(c)

TokensOK == \A c \in Names : Covered(c)

\* A login adds one token of the user at most, and takes away none but those it replaces.
LEMMA CreateSessionTokens ==
  ASSUME NEW tokens, NEW u \in Names, NEW t, NEW c
  PROVE  TokensOf(CreateSession(tokens, u, t), c) \subseteq
           TokensOf(tokens, c) \cup (IF c = u THEN {TokenFor(u, t)} ELSE {})
BY NamesAssumption DEF TokensOf, CreateSession

\* RemoveUser takes one token of the user, if there is one, and none of another.
LEMMA RemoveUserTokens ==
  ASSUME NEW tokens, NEW u, NEW c, NEW left \in WithoutOneToken(tokens, u)
  PROVE  /\ TokensOf(left, c) \subseteq TokensOf(tokens, c)
         /\ \/ TokensOf(tokens, u) = {}
            \/ \E t \in TokensOf(tokens, u) : t \notin TokensOf(left, u)
BY DEF TokensOf, WithoutOneToken

\* With no more tokens and no less cover, a client stays covered.
LEMMA CoverKept ==
  ASSUME NEW c \in Names, ClientsTypeOK, Covered(c), crashes'[c] \in Nat,
         TokensOf(users', c) \subseteq TokensOf(users, c),
         Ahead(c)' - Ahead(c) <= crashes'[c] - crashes[c] + Alive(c)' - Alive(c)
  PROVE  Covered(c)'
<1> DEFINE old == TokensOf(users, c)
<1> DEFINE new == TokensOf(users', c)
<1>1. IsFiniteSet(new) /\ Cardinality(new) <= Cardinality(old)
  BY FS_Subset DEF Covered
<1>2. Cardinality(new) \in Nat /\ Cardinality(old) \in Nat
  BY <1>1, FS_CardinalityType DEF Covered
<1>3. crashes[c] \in Nat /\ {Ahead(c), Ahead(c)', Alive(c), Alive(c)'} \subseteq {0, 1}
  BY DEF ClientsTypeOK, Ahead, Alive
<1> HIDE DEF old, new
<1>4. Cardinality(new) + Ahead(c)' <= crashes'[c] + Alive(c)'
  <2>1. Cardinality(old) + Ahead(c) <= crashes[c] + Alive(c)
    BY DEF Covered, old
  <2> QED BY <1>1, <1>2, <1>3, <2>1
<1> QED BY <1>1, <1>4 DEF Covered, new

\* The steps of a client leave it covered: a crash makes up for what it ends.
LEMMA CoveredOwnStep ==
  ASSUME Sound, RoutingOK, TokensOK, NEW c \in Names, ClientAlone(c), ClientsTypeOK'
  PROVE  Covered(c)'
<1>a. ClientsTypeOK /\ Covered(c)
  BY DEF Sound, TokensOK
<1>b. users' = users /\ main' = main /\ req' = req /\ served' = served
  BY ClientAloneUnchanged DEF vars
<1>c. crashes[c] \in Nat /\ crashes'[c] \in Nat
  BY <1>a DEF ClientsTypeOK
<1>d. served = c => phase[c] \in {"served", "off"}
  BY DEF RoutingOK
<1> SUFFICES Ahead(c)' - Ahead(c) <= crashes'[c] - crashes[c] + Alive(c)' - Alive(c)
  BY <1>a, <1>b, <1>c, CoverKept
<1> USE DEF Ahead, Alive, LoginAhead, LogoutDone, Running
<1>1. CASE Start(c)
  <2>1. phase[c] = "off" /\ served # c /\ phase'[c] = "sent" /\ crashes' = crashes
    BY <1>1, <1>a DEF Start, ClientsTypeOK
  <2> QED BY <1>b, <1>c, <2>1
<1>2. ASSUME NEW q \in Asks(c), Ask(c, q)
      PROVE  Ahead(c)' - Ahead(c) <= crashes'[c] - crashes[c] + Alive(c)' - Alive(c)
  <2>1. /\ phase[c] = "polling" /\ phase'[c] = "sent" /\ asked'[c].kind # "login"
        /\ crashes' = crashes
    BY <1>2, <1>a DEF Ask, Asks, ClientsTypeOK
  <2> QED BY <1>b, <1>c, <1>d, <2>1
<1>3. CASE CommandLocal(c) \/ HandleCommand(c)
  BY <1>3, <1>b, <1>c DEF CommandLocal, HandleCommand
<1>4. CASE InstructJoin(c) \/ InstructLeave(c) \/ TakeReply(c)
  <2>1. /\ phase[c] = "answered" /\ phase'[c] = "polling" /\ asked[c].kind # "logout"
        /\ crashes' = crashes
    BY <1>4, <1>a DEF InstructJoin, InstructLeave, Instruct, TakeReply, ClientsTypeOK
  <2> QED BY <1>b, <1>c, <1>d, <2>1
<1>5. CASE Exit(c)
  <2>1. /\ phase[c] = "answered" /\ phase'[c] = "off" /\ asked[c].kind = "logout"
        /\ crashes' = crashes
    BY <1>5, <1>a DEF Exit, ClientsTypeOK
  <2> QED BY <1>b, <1>c, <1>d, <2>1
<1>6. CASE Crash(c)
  <2>1. /\ phase[c] \notin {"off", "stray"} /\ crashes'[c] = crashes[c] + 1
        /\ \/ phase'[c] = "off"
           \/ phase[c] = "sent" /\ phase'[c] = "stray" /\ asked' = asked
    BY <1>6, <1>a DEF Crash, ClientsTypeOK
  <2> QED BY <1>b, <1>c, <1>d, <2>1
<1> QED BY <1>1, <1>2, <1>3, <1>4, <1>5, <1>6 DEF ClientAlone

\* What the server does with a request is accounted for to the client that sent it.
LEMMA CoveredServerStep ==
  ASSUME Sound, RoutingOK, TokensOK, NEW c \in Names, crashes' = crashes,
         UNCHANGED <<phase[c], asked[c], served>>,
         TouchClient \/ JoinClient \/ ServerAlone
  PROVE  Covered(c)'
<1>a. ClientsTypeOK /\ TypeOK /\ ControlOK /\ Covered(c)
  BY DEF Sound, TokensOK
<1>b. crashes[c] \in Nat /\ crashes'[c] = crashes[c]
  BY <1>a DEF ClientsTypeOK
<1>c. served = c => phase[c] \in {"served", "off"} /\ req \in Asked(c) /\ rep = "send"
  BY <1>a, NamesAssumption DEF RoutingOK, TypeOK
<1>d. served = c => req.user = c \/ req.kind \notin {"login", "logout"}
  BY <1>c DEF Asked, Asks, Request
<1>e. main \notin {"recv", "publish"} => served \in Names /\ req.user \in {served, NoName}
  BY <1>a DEF Sound, ReplyOwed, TypeOK, RoutingOK, ClientsTypeOK, Asked, Asks, Request
<1> USE DEF Ahead, Alive, LoginAhead, LogoutDone, Running
<1>1. CASE TouchClient \/ JoinClient
  <2>1. /\ users' = users /\ req' = req
        /\ req.kind \in Handled
        /\ \/ main = "touch" /\ main' = AfterTouch
           \/ main = "join" /\ main' = "reply"
    <3>1. CASE TouchClient
      BY <3>1, <1>a DEF TouchClient, Touch, ControlOK
    <3>2. CASE JoinClient
      BY <3>2, <1>a DEF JoinClient, HandleJoinRoom, Prepare, ControlOK, Handled, sessionVars
    <3> QED BY <1>1, <3>1, <3>2
  <2>2. req.kind # "logout" /\ (AfterTouch = "create" <=> req.kind = "login")
        /\ AfterTouch \notin {"touch"}
    BY <2>1 DEF AfterTouch, Handled
  <2>3. Ahead(c)' = Ahead(c) /\ Alive(c)' = Alive(c)
    BY <2>1, <2>2, <1>a DEF ControlOK
  <2> QED BY <1>a, <1>b, <2>1, <2>3, CoverKept
<1>2. CASE HandleLogin
  <2>1. /\ main = "create" /\ main' \in {"join", "reply"} /\ req' = req /\ req.kind = "login"
        /\ users' = CreateSession(users, req.user, now)
        /\ served \in Names /\ req.user = served
    BY <1>2, <1>a, <1>e
    DEF HandleLogin, Prepare, ControlOK, RoutingOK, Asked, Asks, Request
  <2>2. CASE served # c
    <3>1. TokensOf(users', c) \subseteq TokensOf(users, c)
      BY <2>1, <2>2, CreateSessionTokens
    <3>2. Ahead(c)' = Ahead(c) /\ Alive(c)' = Alive(c)
      BY <2>2
    <3> QED BY <1>a, <1>b, <3>1, <3>2, CoverKept
  <2>3. CASE served = c
    <3> DEFINE old == TokensOf(users, c)
    <3> DEFINE more == old \cup {TokenFor(c, now)}
    <3>1. IsFiniteSet(old) /\ Cardinality(old) + 1 <= crashes[c] + Alive(c)
      BY <1>a, <2>1, <2>3 DEF Covered
    <3>2. IsFiniteSet(more) /\ Cardinality(more) <= Cardinality(old) + 1
      <4>1. /\ IsFiniteSet(more)
            /\ Cardinality(more) = IF TokenFor(c, now) \in old THEN Cardinality(old)
                                                             ELSE Cardinality(old) + 1
        BY <3>1, FS_AddElement
      <4>2. Cardinality(old) \in Nat
        BY <3>1, FS_CardinalityType
      <4> QED BY <4>1, <4>2
    <3>3. TokensOf(users', c) \subseteq more
      BY <2>1, <2>3, CreateSessionTokens
    <3>4. IsFiniteSet(TokensOf(users', c)) /\ Cardinality(TokensOf(users', c)) <= Cardinality(more)
      BY <3>2, <3>3, FS_Subset
    <3>5. Ahead(c)' = 0 /\ Alive(c)' = Alive(c) /\ Alive(c) \in Nat
      BY <1>c, <2>1, <2>3
    <3>6. /\ Cardinality(old) \in Nat /\ Cardinality(more) \in Nat
          /\ Cardinality(TokensOf(users', c)) \in Nat
      BY <3>1, <3>2, <3>4, FS_CardinalityType
    <3> HIDE DEF old, more
    <3>7. Cardinality(TokensOf(users', c)) + Ahead(c)' <= crashes'[c] + Alive(c)'
      BY <1>b, <3>1, <3>2, <3>4, <3>5, <3>6
    <3> QED BY <3>4, <3>7 DEF Covered
  <2> QED BY <2>2, <2>3
<1>3. CASE HandleLogout
  <2>1. /\ main = "remove" /\ main' = "publish" /\ req' = req /\ req.kind = "logout"
        /\ users' \in WithoutOneToken(users, req.user)
        /\ served \in Names /\ req.user = served
    BY <1>3, <1>a, <1>e
    DEF HandleLogout, ControlOK, RoutingOK, Asked, Asks, Request
  <2>2. CASE served # c
    <3>1. TokensOf(users', c) \subseteq TokensOf(users, c)
      BY <2>1, RemoveUserTokens
    <3>2. Ahead(c)' = Ahead(c) /\ Alive(c)' = Alive(c)
      BY <2>2
    <3> QED BY <1>a, <1>b, <3>1, <3>2, CoverKept
  <2>3. CASE served = c
    <3> DEFINE old == TokensOf(users, c)
    <3> DEFINE new == TokensOf(users', c)
    <3>1. /\ IsFiniteSet(old) /\ Cardinality(old) \in Nat
          /\ Cardinality(old) <= crashes[c] + 1
      BY <1>a, <1>b, FS_CardinalityType DEF Covered
    <3>2. new \subseteq old /\ (old = {} \/ \E t \in old : t \notin new)
      BY <2>1, <2>3, RemoveUserTokens
    <3>3. IsFiniteSet(new) /\ Cardinality(new) \in Nat
      BY <3>1, <3>2, FS_Subset, FS_CardinalityType
    <3>4. Cardinality(new) <= crashes[c]
      <4>1. CASE old = {}
        BY <3>2, <4>1, <1>b, FS_EmptySet
      <4>2. CASE \E t \in old : t \notin new
        <5>1. PICK t \in old : t \notin new
          BY <4>2
        <5>2. IsFiniteSet(old \ {t}) /\ Cardinality(old \ {t}) = Cardinality(old) - 1
          BY <3>1, <5>1, FS_RemoveElement
        <5>3. new \subseteq old \ {t}
          BY <3>2, <5>1
        <5>4. Cardinality(new) <= Cardinality(old) - 1
          BY <5>2, <5>3, FS_Subset
        <5> QED BY <1>b, <3>1, <3>3, <5>4
      <4> QED BY <3>2, <4>1, <4>2
    <3>5. Ahead(c)' = 0 /\ Alive(c)' = 0
      BY <1>c, <2>1, <2>3
    <3> HIDE DEF old, new
    <3>6. Cardinality(new) + Ahead(c)' <= crashes'[c] + Alive(c)'
      BY <1>b, <3>3, <3>4, <3>5
    <3> QED BY <3>3, <3>6 DEF Covered, new
  <2> QED BY <2>2, <2>3
<1>4. CASE HandleLeaveRoom \/ HandleListRooms
  <2>1. /\ users' = users /\ req' = req /\ main \in {"leave", "list"}
        /\ req.kind \in {"leave", "list", "logout"}
        /\ req.kind = "logout" => main' = "remove"
    BY <1>4, <1>a DEF HandleLeaveRoom, HandleListRooms, Prepare, ControlOK, sessionVars
  <2>2. Ahead(c)' = Ahead(c) /\ Alive(c)' = Alive(c)
    BY <2>1
  <2> QED BY <1>a, <1>b, <2>1, <2>2, CoverKept
<1>5. CASE Publish
  <2>1. /\ users' = users /\ main = "publish"
        /\ IF req.kind = "logout" THEN main' = "reply" /\ req' = req ELSE served # c
    BY <1>5, <1>c DEF Publish, sessionVars, Sound, ReplyOwed
  <2>2. Ahead(c)' = Ahead(c) /\ Alive(c)' = Alive(c)
    BY <2>1
  <2> QED BY <1>a, <1>b, <2>1, <2>2, CoverKept
<1>6. CASE CheckerStep
  <2>1. /\ users' = users \/ users' \in WithoutOneToken(users, victim)
        /\ UNCHANGED <<main, req>>
    BY <1>6
    DEF CheckerStep, Scan, EvictFromRoom, EvictSession, NotifyEviction, mainVars, sessionVars
  <2>2. TokensOf(users', c) \subseteq TokensOf(users, c)
    BY <2>1, RemoveUserTokens
  <2>3. Ahead(c)' = Ahead(c) /\ Alive(c)' = Alive(c)
    BY <2>1
  <2> QED BY <1>a, <1>b, <2>2, <2>3, CoverKept
<1> QED BY <1>1, <1>2, <1>3, <1>4, <1>5, <1>6 DEF ServerAlone

\* One token for each crash at most, and one for the client that runs.
LEMMA TokensCorrect == SystemSpec => []TokensOK
<1>1. SystemInit => TokensOK
  <2> SUFFICES ASSUME SystemInit, NEW c \in Names PROVE Covered(c)
    BY DEF TokensOK
  <2>1. TokensOf(users, c) = {}
    BY DEF SystemInit, Init, NewSessionManager, TokensOf
  <2>2. IsFiniteSet({}) /\ Cardinality({}) = 0
    BY FS_EmptySet
  <2>3. Ahead(c) = 0 /\ Alive(c) = 0 /\ crashes[c] = 0
    BY NamesAssumption
    DEF SystemInit, Init, Ahead, Alive, LoginAhead, LogoutDone, Running
  <2> QED BY <2>1, <2>2, <2>3 DEF Covered
<1>2. TokensOK /\ RoutingOK /\ Sound /\ Sound' /\ [SystemNext]_systemVars => TokensOK'
  <2> SUFFICES ASSUME TokensOK, RoutingOK, Sound, Sound', [SystemNext]_systemVars,
                      NEW c \in Names
               PROVE  Covered(c)'
    BY DEF TokensOK
  <2>a. ClientsTypeOK /\ ClientsTypeOK' /\ Covered(c) /\ crashes[c] \in Nat
    BY DEF Sound, TokensOK, ClientsTypeOK
  <2>b. Ahead(c) - Ahead(c) <= crashes[c] - crashes[c] + Alive(c) - Alive(c)
    BY <2>a DEF Ahead, Alive
  <2>1. CASE ClientAlone(c)
    BY <2>1, <2>a, CoveredOwnStep
  <2>2. ASSUME NEW d \in Names \ {c}, ClientAlone(d) PROVE Covered(c)'
    <3>1. UNCHANGED <<users, main, req, served>>
      BY <2>2, ClientAloneUnchanged DEF vars
    <3>2. /\ phase'[c] = phase[c] /\ asked'[c] = asked[c]
          /\ crashes'[c] = crashes[c]
      BY <2>2, <2>a
      DEF ClientsTypeOK, ClientAlone, Start, Ask, CommandLocal, InstructJoin, InstructLeave,
          Instruct, TakeReply, Exit, Crash, Gone, HandleCommand
    <3> QED BY <2>a, <3>1, <3>2 DEF Covered, Ahead, Alive, LoginAhead, LogoutDone, Running
  <2>3. ASSUME NEW d \in Names, Deliver(d) PROVE Covered(c)'
    <3>1. /\ users' = users /\ crashes' = crashes /\ served # c /\ served' = d
          /\ req' = asked[d]
      BY <2>3, NamesAssumption
      DEF Deliver, Receive, ReceiveGarbled, RoutingOK, sessionVars
    <3>2. d # c => phase'[c] = phase[c] /\ asked'[c] = asked[c]
      BY <2>3, <2>a DEF Deliver, ClientsTypeOK
    <3>3. d # c => Ahead(c)' = Ahead(c) /\ Alive(c)' = Alive(c)
      BY <3>1, <3>2 DEF Ahead, Alive, LoginAhead, LogoutDone, Running
    <3>4. ASSUME d = c PROVE Ahead(c)' = Ahead(c) /\ Alive(c)' = Alive(c)
      <4>1. /\ phase[c] \in {"sent", "stray"} /\ asked[c] \in Asked(c)
            /\ phase'[c] = IF phase[c] = "sent" THEN "served" ELSE "off"
        BY <2>3, <3>4, <2>a DEF Deliver, ClientsTypeOK, RoutingOK
      <4>2. asked[c].kind = "logout" => asked[c].user # NoName
        BY <4>1, NamesAssumption DEF Asked, Asks, Request
      <4>3. /\ asked[c].kind = "login" => main' = "touch"
            /\ asked[c].kind = "logout" => main' = "leave"
        BY <2>3, <3>4, <4>2 DEF Deliver, Receive, ReceiveGarbled, Handled, Garbled
      <4> QED BY <3>1, <3>4, <4>1, <4>3 DEF Ahead, Alive, LoginAhead, LogoutDone, Running
    <3> QED BY <2>a, <2>b, <3>1, <3>3, <3>4, CoverKept
  <2>4. CASE TouchClient \/ JoinClient \/ ServerAlone
    <3>1. UNCHANGED <<phase, asked, served, crashes>>
      BY <2>4 DEF TouchClient, JoinClient, ServerAlone, clientVars
    <3> QED BY <2>4, <3>1, CoveredServerStep
  <2>5. CASE ReplyToClient
    <3>1. /\ users' = users /\ crashes' = crashes /\ asked' = asked /\ served' = NoName
          /\ main = "reply" /\ rep = "send"
          /\ phase'[c] = IF c = served /\ phase[c] = "served" THEN "answered" ELSE phase[c]
      BY <2>5 DEF ReplyToClient, Reply, sessionVars
    <3>2. Ahead(c)' = Ahead(c) /\ Alive(c)' = Alive(c)
      BY <3>1, NamesAssumption
      DEF RoutingOK, Ahead, Alive, LoginAhead, LogoutDone, Running
    <3> QED BY <2>a, <2>b, <3>1, <3>2, CoverKept
  <2>6. CASE TimePasses \/ UNCHANGED systemVars
    <3>1. UNCHANGED <<users, main, req, phase, asked, served, crashes>>
      BY <2>6 DEF TimePasses, Tick, sessionVars, mainVars, systemVars, vars, clientVars
    <3> QED BY <2>a, <3>1 DEF Covered, Ahead, Alive, LoginAhead, LogoutDone, Running
  <2> QED BY <2>1, <2>2, <2>3, <2>4, <2>5, <2>6, SystemSteps
<1> QED BY <1>1, <1>2, SoundAlways, RoutingCorrect, PTL DEF SystemSpec

\* A session token stays behind only for a client that crashed.
THEOREM OnlyCrashesLeaveTokens == SystemSpec => []TokensLeftByCrashes
<1>1. TokensOK /\ Sound => TokensLeftByCrashes
  <2> SUFFICES ASSUME TokensOK, Sound, NEW c \in Names
               PROVE  Cardinality(TokensOf(users, c)) <=
                        crashes[c] + IF phase[c] = "off" THEN 0 ELSE 1
    BY DEF TokensLeftByCrashes
  <2>1. Covered(c) /\ crashes[c] \in Nat /\ Cardinality(TokensOf(users, c)) \in Nat
    BY FS_CardinalityType DEF TokensOK, Covered, Sound, ClientsTypeOK
  <2>2. Ahead(c) \in {0, 1} /\ Alive(c) \in {0, 1} /\ (phase[c] = "off" => Alive(c) = 0)
    BY DEF Ahead, Alive, Running
  <2> QED BY <2>1, <2>2 DEF Covered
<1> QED BY <1>1, TokensCorrect, SoundAlways, PTL
===============================================================================
