---------------------------- MODULE TopicBusProofs ----------------------------
(***************************************************************************)
(* Theorems about the bus: types for any publishers; and, as long as no    *)
(* two publishers send at once, that the protocol of two frames keeps the  *)
(* receiver in step, loses nothing and delivers the subscriber's feed, for *)
(* any topics and number of messages.  One publisher sends alone.          *)
(***************************************************************************)
EXTENDS TopicBus, SequenceTheorems, TLAPS

-------------------------------------------------------------------------------
\* Types

\* A frame sent is a frame of a message that was begun (socket.go:69-82).
THEOREM TypeCorrect == Spec => []TypeOK
<1> USE BusAssumption
<1>1. Init => TypeOK
  BY DEF Init, TypeOK
<1>2. TypeOK /\ [Next]_vars => TypeOK'
  <2> SUFFICES ASSUME TypeOK, [Next]_vars PROVE TypeOK'
    OBVIOUS
  <2> USE DEF TypeOK
  <2>1. ASSUME NEW p \in Publishers, NEW t \in TopicsOf(p), SendTopic(p, t) PROVE TypeOK'
    <3>1. t \in Topics
      BY <2>1 DEF TopicsOf
    <3>2. log' \in Seq(Topics) /\ Len(log') = Len(log) + 1 /\ Len(log') \in 1..MaxMessages
      BY <2>1, <3>1 DEF SendTopic
    <3>3. Frame("topic", Len(log')) \in Frames
      BY <3>2 DEF Frame, Frames
    <3>4. partial' \in Seq(Frames)
      BY <2>1, <3>3 DEF SendTopic
    <3>5. half' \in [Publishers -> 0..MaxMessages]
      BY <2>1, <3>2 DEF SendTopic
    <3> QED BY <2>1, <3>2, <3>4, <3>5 DEF SendTopic
  <2>2. ASSUME NEW p \in Publishers, SendPayload(p) PROVE TypeOK'
    <3>1. half[p] \in 1..MaxMessages
      BY <2>2 DEF SendPayload
    <3>2. Frame("payload", half[p]) \in Frames
      BY <3>1 DEF Frame, Frames
    <3>3. Append(partial, Frame("payload", half[p])) \in Seq(Frames)
      BY <3>2
    <3>4. queue' \in Seq(Frames)
      BY <2>2, <3>3 DEF SendPayload
    <3> QED BY <2>2, <3>4 DEF SendPayload
  <2>3. CASE ReceiveTopic
    BY <2>3 DEF ReceiveTopic
  <2>4. CASE ReceiveData
    <3>1. Head(queue) \in Frames /\ queue' \in Seq(Frames)
      BY <2>4 DEF ReceiveData
    <3>2. Head(queue).message \in 1..MaxMessages
      BY <3>1 DEF Frames
    <3>3. shown' \in Seq(1..MaxMessages)
      <4>1. Append(shown, Head(queue).message) \in Seq(1..MaxMessages)
        BY <3>2
      <4> QED BY <2>4, <4>1 DEF ReceiveData
    <3> QED BY <2>4, <3>1, <3>3 DEF ReceiveData
  <2>5. CASE UNCHANGED vars
    BY <2>5 DEF vars
  <2> QED BY <2>1, <2>2, <2>3, <2>4, <2>5 DEF Next, Publish
<1> QED BY <1>1, <1>2, PTL DEF Spec

-------------------------------------------------------------------------------
\* One publisher at a time

Quiet == \A p \in Publishers : half[p] = 0

\* Either nothing is begun on the PUB socket, or the last message by its topic frame.
BegunOK ==
  /\ Quiet => partial = <<>>
  /\ \A p \in Publishers :
       half[p] # 0 => half[p] = Len(log) /\ partial = <<Frame("topic", half[p])>>

\* The frames on the SUB socket end with a whole message.
WholeOK == (reading = "topic") = (Len(queue) % 2 = 0)

\* The messages that have been sent, both frames of them.
Sent == IF Quiet THEN Len(log) ELSE Len(log) - 1

Payloads == {i \in DOMAIN queue : queue[i].part = "payload"}

\* What waits is wanted, was sent, comes in order, and after what has been shown.
OrderOK ==
  /\ \A i \in Payloads :
       /\ queue[i].message \in 1..Sent
       /\ log[queue[i].message] \in Subscribed
       /\ \A j \in Payloads : i < j => queue[i].message < queue[j].message
       /\ \A k \in DOMAIN shown : shown[k] < queue[i].message
  /\ \A k \in DOMAIN shown : shown[k] <= Sent

BusOK == BegunOK /\ WholeOK /\ Aligned /\ OrderOK

\* A sequence of one element with another one appended, as PublishTopicEnvelope makes it.
LEMMA AppendToOne ==
  ASSUME NEW S, NEW a \in S, NEW b \in S
  PROVE  Append(<<a>>, b) = <<a, b>> /\ Head(<<a, b>>) = a
<1>1. Head(<<a, b>>) = a
  OBVIOUS
<1>2. <<a>> \in Seq(S) /\ <<a, b>> \in Seq(S)
  OBVIOUS
<1>3. Len(Append(<<a>>, b)) = 2 /\ Append(<<a>>, b) \in Seq(S)
  BY <1>2
<1>4. \A i \in 1..2 : Append(<<a>>, b)[i] = <<a, b>>[i]
  <2>1. Append(<<a>>, b)[1] = a
    BY <1>2, AppendProperties
  <2>2. Append(<<a>>, b)[2] = b
    BY <1>2, AppendProperties
  <2> QED BY <2>1, <2>2
<1> QED BY <1>1, <1>2, <1>3, <1>4, SeqEqual

\* Frames are told apart by whether their place is odd.
LEMMA Parity ==
  ASSUME NEW n \in Nat
  PROVE  /\ n % 2 \in {0, 1}
         /\ (n + 1) % 2 = 1 - (n % 2)
         /\ (n + 2) % 2 = n % 2
  OBVIOUS

\* A whole message after whole messages leaves the receiver where it was.
LEMMA TwoMore ==
  ASSUME NEW a \in Frames, NEW b \in Frames, queue \in Seq(Frames),
         reading \in {"topic", "data"},
         a.part = "topic", b.part = "payload", WholeOK, Aligned,
         queue' = queue \o <<a, b>>, reading' = reading
  PROVE  /\ WholeOK' /\ Aligned'
         /\ Payloads' = Payloads \cup {Len(queue) + 2}
         /\ queue'[Len(queue) + 2] = b
         /\ \A i \in DOMAIN queue : queue'[i] = queue[i]
<1> DEFINE n == Len(queue)
<1>1. n \in Nat /\ DOMAIN queue = 1..n
  BY LenProperties
<1>2. Len(queue') = n + 2 /\ DOMAIN queue' = 1..(n + 2)
  OBVIOUS
<1>3. queue'[n + 1] = a /\ queue'[n + 2] = b /\ \A i \in 1..n : queue'[i] = queue[i]
  OBVIOUS
<1>4. (reading = "topic") = (n % 2 = 0)
  BY DEF WholeOK
<1> HIDE DEF n
<1>5. /\ n % 2 \in {0, 1}
      /\ (n + 1) % 2 = 1 - (n % 2)
      /\ (n + 2) % 2 = n % 2
  BY <1>1, Parity
<1>6. WholeOK'
  BY <1>2, <1>4, <1>5 DEF WholeOK
<1>7. Aligned'
  <2> SUFFICES ASSUME NEW i \in 1..(n + 2)
               PROVE  queue'[i].part = IF (reading = "topic") = (i % 2 = 1) THEN "topic" ELSE "payload"
    BY <1>2 DEF Aligned
  <2>1. CASE i \in 1..n
    BY <2>1, <1>1, <1>3 DEF Aligned
  <2>2. CASE i = n + 1
    <3>1. (i % 2 = 1) = (n % 2 = 0)
      <4>1. CASE n % 2 = 0
        <5>1. (n + 1) % 2 = 1
          BY <4>1, <1>1, <1>5
        <5>2. i % 2 = 1
          BY <5>1, <2>2
        <5> QED BY <4>1, <5>2
      <4>2. CASE n % 2 = 1
        <5>1. i % 2 = 0
          BY <4>2, <2>2, <1>1, <1>5
        <5> QED BY <4>2, <5>1
      <4> QED BY <4>1, <4>2, <1>5
    <3> QED BY <2>2, <3>1, <1>3, <1>4
  <2>3. CASE i = n + 2
    <3>1. (i % 2 = 1) = ~(n % 2 = 0)
      BY <2>3, <1>5
    <3> QED BY <2>3, <3>1, <1>3, <1>4
  <2> QED BY <1>1, <2>1, <2>2, <2>3
<1>8. Payloads' = Payloads \cup {n + 2}
  <2>1. \A i \in 1..(n + 2) : i \in 1..n \/ i = n + 1 \/ i = n + 2
    BY <1>1
  <2> QED BY <2>1, <1>1, <1>2, <1>3 DEF Payloads
<1> QED BY <1>1, <1>3, <1>6, <1>7, <1>8 DEF n

\* Reading one frame puts the receiver between or into messages, and shifts the rest.
LEMMA OneLess ==
  ASSUME queue \in Seq(Frames), queue # <<>>, WholeOK, Aligned, queue' = Tail(queue),
         reading' = IF reading = "topic" THEN "data" ELSE "topic",
         reading \in {"topic", "data"}
  PROVE  /\ WholeOK' /\ Aligned'
         /\ \A i \in Payloads' : i + 1 \in Payloads /\ queue'[i] = queue[i + 1]
         /\ 1 \in Payloads <=> reading = "data"
<1> DEFINE n == Len(queue)
<1>1. n \in Nat /\ n # 0 /\ DOMAIN queue = 1..n
  BY EmptySeq, LenProperties
<1>2. Len(queue') = n - 1 /\ DOMAIN queue' = 1..(n - 1)
  BY <1>1
<1>3. \A i \in 1..(n - 1) : queue'[i] = queue[i + 1]
  BY <1>1
<1>4. (reading = "topic") = (n % 2 = 0)
  BY DEF WholeOK
<1> HIDE DEF n
<1>5. (n - 1) % 2 = 0 <=> ~(n % 2 = 0)
  <2>1. n - 1 \in Nat /\ (n - 1) + 1 = n
    BY <1>1
  <2> HIDE DEF n
  <2> QED BY <2>1, Parity
<1>6. WholeOK'
  BY <1>2, <1>4, <1>5 DEF WholeOK
<1>7. Aligned'
  <2> SUFFICES ASSUME NEW i \in 1..(n - 1)
               PROVE  queue'[i].part = IF (reading' = "topic") = (i % 2 = 1) THEN "topic" ELSE "payload"
    BY <1>2 DEF Aligned
  <2>1. i \in Nat /\ i + 1 \in 1..n
    BY <1>1
  <2>2. ((i + 1) % 2 = 1) = ~(i % 2 = 1)
    BY <2>1, Parity
  <2>3. queue[i + 1].part = IF (reading = "topic") = ((i + 1) % 2 = 1) THEN "topic" ELSE "payload"
    BY <2>1, <1>1 DEF Aligned
  <2> QED BY <2>2, <2>3, <1>3
<1>8. \A i \in Payloads' : i + 1 \in Payloads /\ queue'[i] = queue[i + 1]
  <2> SUFFICES ASSUME NEW i \in 1..(n - 1), queue'[i].part = "payload"
               PROVE  i + 1 \in Payloads /\ queue'[i] = queue[i + 1]
    BY <1>2 DEF Payloads
  <2>1. i + 1 \in 1..n
    BY <1>1
  <2> QED BY <2>1, <1>1, <1>3 DEF Payloads
<1>9. 1 \in Payloads <=> reading = "data"
  <2>1. 1 \in DOMAIN queue /\ 1 % 2 = 1
    BY <1>1
  <2>2. queue[1].part = IF (reading = "topic") = (1 % 2 = 1) THEN "topic" ELSE "payload"
    BY <2>1 DEF Aligned
  <2> QED BY <2>1, <2>2 DEF Payloads
<1> QED BY <1>6, <1>7, <1>8, <1>9

\* What the second frame of a message completes, and for whom (socket.go:79-85).
LEMMA MessageSent ==
  ASSUME TypeOK, BusOK, Exclusive, NEW p \in Publishers, SendPayload(p)
  PROVE  /\ half[p] = Len(log) /\ half[p] \in 1..MaxMessages
         /\ Frame("topic", half[p]) \in Frames /\ Frame("payload", half[p]) \in Frames
         /\ queue' = IF log[half[p]] \in Subscribed
                     THEN queue \o <<Frame("topic", half[p]), Frame("payload", half[p])>>
                     ELSE queue
         /\ UNCHANGED <<log, reading, shown>> /\ partial' = <<>> /\ half'[p] = 0 /\ Quiet'
<1> DEFINE h == half[p]
           whole == Append(partial, Frame("payload", h))
<1>1. half \in [Publishers -> 0..MaxMessages] /\ MaxMessages \in Nat
  BY BusAssumption DEF TypeOK
<1>2. h = Len(log) /\ partial = <<Frame("topic", h)>> /\ h \in 1..MaxMessages
  BY <1>1 DEF SendPayload, BusOK, BegunOK
<1>3. /\ log' = log /\ reading' = reading /\ shown' = shown
      /\ partial' = <<>> /\ half' = [half EXCEPT ![p] = 0]
  BY DEF SendPayload
<1>4. Quiet'
  BY <1>1, <1>3 DEF Quiet, Exclusive, SendPayload
<1>5. /\ Frame("topic", h) \in Frames /\ Frame("payload", h) \in Frames
      /\ Frame("topic", h).part = "topic" /\ Frame("topic", h).message = h
  BY <1>2 DEF Frame, Frames
<1>6. whole = <<Frame("topic", h), Frame("payload", h)>>
  <2>1. Append(<<Frame("topic", h)>>, Frame("payload", h)) = <<Frame("topic", h), Frame("payload", h)>>
    BY <1>5, AppendToOne
  <2> QED BY <1>2, <2>1
<1>7. Head(whole) = Frame("topic", h)
  <2>1. Head(<<Frame("topic", h), Frame("payload", h)>>) = Frame("topic", h)
    BY <1>5, AppendToOne
  <2> QED BY <1>6, <2>1
<1>8. queue' = IF log[h] \in Subscribed THEN queue \o whole ELSE queue
  BY <1>5, <1>7 DEF SendPayload, Matches
<1>9. queue' = IF log[h] \in Subscribed
              THEN queue \o <<Frame("topic", h), Frame("payload", h)>>
              ELSE queue
  BY <1>6, <1>8
<1> QED BY <1>1, <1>2, <1>3, <1>4, <1>5, <1>9

\* An alternation of topic and payload, in the order of sending, is kept by every step
\* after which at most one publisher is between its frames.
LEMMA BusStep ==
  ASSUME TypeOK, BusOK, Exclusive, Exclusive', Next
  PROVE  BusOK'
<1> USE BusAssumption DEF BusOK
<1>1. /\ Len(log) \in Nat /\ DOMAIN log = 1..Len(log)
      /\ log \in Seq(Topics) /\ queue \in Seq(Frames) /\ reading \in {"topic", "data"}
      /\ DOMAIN shown = 1..Len(shown) /\ Len(shown) \in Nat /\ shown \in Seq(1..MaxMessages)
      /\ half \in [Publishers -> 0..MaxMessages]
  BY LenProperties DEF TypeOK
<1>2. \A i \in Payloads : queue[i].message \in Nat /\ queue[i].part = "payload" /\ i \in DOMAIN queue
  <2> SUFFICES ASSUME NEW i \in DOMAIN queue, queue[i].part = "payload"
               PROVE  queue[i].message \in Nat
    BY DEF Payloads
  <2>1. queue[i] \in Frames
    BY <1>1
  <2> QED BY <2>1 DEF Frames
<1>3. ASSUME NEW p \in Publishers, NEW t \in TopicsOf(p), SendTopic(p, t) PROVE BusOK'
  <2>1. /\ half[p] = 0 /\ half' = [half EXCEPT ![p] = Len(log')]
        /\ UNCHANGED <<queue, reading, shown>>
    BY <1>3 DEF SendTopic
  <2>2. t \in Topics
    BY <1>3 DEF TopicsOf
  <2>3. /\ log' \in Seq(Topics) /\ Len(log') = Len(log) + 1
        /\ \A k \in 1..Len(log) : log'[k] = log[k]
    BY <1>3, <2>2, <1>1 DEF SendTopic
  <2>4. half'[p] = Len(log') /\ half'[p] # 0
    BY <2>1, <1>1, <2>3
  <2>5. \A q \in Publishers \ {p} : half'[q] = half[q] /\ half'[q] = 0
    BY <2>1, <2>4, <1>1 DEF Exclusive
  <2>6. Quiet /\ ~Quiet'
    BY <2>1, <2>4, <2>5 DEF Quiet
  <2>7. partial' = <<Frame("topic", half'[p])>>
    BY <1>3, <2>4, <2>6 DEF SendTopic, BegunOK
  <2>8. BegunOK'
    BY <2>4, <2>5, <2>6, <2>7 DEF BegunOK
  <2>9. WholeOK' /\ Aligned' /\ Payloads' = Payloads
    BY <2>1 DEF WholeOK, Aligned, Payloads
  <2>10. Sent = Len(log) /\ Sent' = Len(log)
    BY <2>3, <2>6, <1>1 DEF Sent
  <2>11. OrderOK'
    BY <2>1, <2>3, <2>9, <2>10 DEF OrderOK
  <2> QED BY <2>8, <2>9, <2>11
<1>4. ASSUME NEW p \in Publishers, SendPayload(p) PROVE BusOK'
  <2> DEFINE h == half[p]
  <2>1. h = Len(log) /\ h \in 1..MaxMessages
    BY <1>4, MessageSent
  <2>2. /\ log' = log /\ reading' = reading /\ shown' = shown
        /\ partial' = <<>> /\ Quiet'
    BY <1>4, MessageSent
  <2>3. /\ Frame("topic", h) \in Frames /\ Frame("payload", h) \in Frames
        /\ Frame("topic", h).part = "topic" /\ Frame("payload", h).part = "payload"
        /\ Frame("topic", h).message = h /\ Frame("payload", h).message = h
    BY <2>1 DEF Frame, Frames
  <2>6. queue' = IF log[h] \in Subscribed
                 THEN queue \o <<Frame("topic", h), Frame("payload", h)>>
                 ELSE queue
    BY <1>4, MessageSent
  <2>7. Sent = h - 1 /\ Sent' = h /\ Sent \in Nat
    <3>1. ~Quiet
      BY <1>4 DEF Quiet, SendPayload
    <3>2. Sent' = Len(log)
      BY <2>2 DEF Sent
    <3>3. Sent = Len(log) - 1
      BY <3>1 DEF Sent
    <3> QED BY <2>1, <3>2, <3>3
  <2>8. BegunOK'
    BY <2>2 DEF BegunOK, Quiet
  <2> HIDE DEF h
  <2>9. CASE log[h] \in Subscribed
    <3> DEFINE n == Len(queue)
    <3>1. /\ WholeOK' /\ Aligned' /\ Payloads' = Payloads \cup {n + 2}
          /\ queue'[n + 2] = Frame("payload", h)
          /\ \A i \in DOMAIN queue : queue'[i] = queue[i]
      <4>1. queue' = queue \o <<Frame("topic", h), Frame("payload", h)>>
        BY <2>9, <2>6
      <4> QED BY <4>1, <1>1, <2>2, <2>3, TwoMore
    <3>2. n \in Nat /\ DOMAIN queue = 1..n
      BY <1>1, LenProperties
    <3> HIDE DEF n
    <3>3. queue'[n + 2].message = h
      BY <3>1, <2>3
    <3>4. \A i \in Payloads : /\ i < n + 2 /\ ~(n + 2 < i) /\ queue'[i] = queue[i]
                              /\ queue[i].message < h /\ queue[i].message \in 1..h
                              /\ log'[queue[i].message] \in Subscribed
      BY <3>1, <3>2, <1>2, <2>2, <2>7, <2>1 DEF OrderOK
    <3>5. \A k \in DOMAIN shown' : shown'[k] < h /\ shown'[k] <= h
      <4> SUFFICES ASSUME NEW k \in DOMAIN shown PROVE shown[k] < h /\ shown[k] <= h
        BY <2>2
      <4>1. shown[k] <= Sent /\ shown[k] \in Nat
        BY <1>1 DEF OrderOK
      <4> QED BY <4>1, <2>7, <2>1
    <3>6. ASSUME NEW i \in Payloads'
          PROVE  /\ queue'[i].message \in 1..h
                 /\ log'[queue'[i].message] \in Subscribed
                 /\ \A j \in Payloads' : i < j => queue'[i].message < queue'[j].message
                 /\ \A k \in DOMAIN shown' : shown'[k] < queue'[i].message
      <4>1. CASE i \in Payloads
        <5>1. /\ queue'[i] = queue[i]
              /\ \A j \in Payloads : i < j => queue[i].message < queue[j].message
              /\ \A k \in DOMAIN shown : shown[k] < queue[i].message
          BY <4>1, <3>4 DEF OrderOK
        <5> QED BY <4>1, <5>1, <3>1, <3>3, <3>4, <2>2
      <4>2. CASE i = n + 2
        <5>1. ~(n + 2 < n + 2)
          BY <3>2
        <5> QED BY <4>2, <5>1, <3>1, <3>3, <3>4, <3>5, <2>1, <2>2, <2>9
      <4> QED BY <4>1, <4>2, <3>1
    <3>7. OrderOK'
      BY <3>5, <3>6, <2>7 DEF OrderOK
    <3> QED BY <2>8, <3>1, <3>7
  <2>10. CASE ~(log[h] \in Subscribed)
    <3>1. queue' = queue
      BY <2>10, <2>6
    <3>2. WholeOK' /\ Aligned' /\ Payloads' = Payloads
      BY <2>2, <3>1 DEF WholeOK, Aligned, Payloads
    <3>3. \A i \in Payloads : queue[i].message \in 1..h
      BY <2>7, <2>1 DEF OrderOK
    <3>4. \A k \in DOMAIN shown : shown[k] <= h
      <4> SUFFICES ASSUME NEW k \in DOMAIN shown PROVE shown[k] <= h
        OBVIOUS
      <4>1. shown[k] <= Sent /\ shown[k] \in Nat
        BY <1>1 DEF OrderOK
      <4> QED BY <4>1, <2>7, <2>1
    <3>5. OrderOK'
      BY <2>2, <2>7, <3>1, <3>2, <3>3, <3>4 DEF OrderOK
    <3> QED BY <2>8, <3>2, <3>5
  <2> QED BY <2>9, <2>10
<1>5. CASE ReceiveTopic
  <2>1. /\ reading = "topic" /\ queue # <<>> /\ queue' = Tail(queue) /\ reading' = "data"
        /\ UNCHANGED <<log, half, partial, shown>>
    BY <1>5 DEF ReceiveTopic
  <2>2. WholeOK' /\ Aligned' /\ \A i \in Payloads' : i + 1 \in Payloads /\ queue'[i] = queue[i + 1]
    BY <2>1, <1>1, OneLess
  <2>3. BegunOK' /\ Sent' = Sent
    BY <2>1 DEF BegunOK, Sent, Quiet
  <2>4. Payloads' \subseteq Int
    BY <2>1, <1>1 DEF Payloads
  <2>5. \A i, j \in Payloads' : i < j => i + 1 < j + 1
    BY <2>4
  <2>6. OrderOK'
    BY <2>1, <2>2, <2>3, <2>5 DEF OrderOK
  <2> QED BY <2>2, <2>3, <2>6
<1>6. CASE ReceiveData
  <2> DEFINE first == queue[1].message
  <2>1. /\ reading = "data" /\ queue # <<>> /\ queue' = Tail(queue) /\ reading' = "topic"
        /\ UNCHANGED <<log, half, partial>>
    BY <1>6 DEF ReceiveData
  <2>2. /\ WholeOK' /\ Aligned' /\ 1 \in Payloads
        /\ \A i \in Payloads' : i + 1 \in Payloads /\ queue'[i] = queue[i + 1]
    BY <2>1, <1>1, OneLess
  <2>3. shown' = Append(shown, first)
    BY <1>6, <2>2, <1>2, <2>1, <1>1 DEF ReceiveData
  <2>4. BegunOK' /\ Sent' = Sent
    BY <2>1 DEF BegunOK, Sent, Quiet
  <2>5. first \in 1..Sent /\ first \in Nat
    BY <2>2, <1>2 DEF OrderOK
  <2>6. DOMAIN shown' = 1..(Len(shown) + 1) /\ shown'[Len(shown) + 1] = first
        /\ \A k \in DOMAIN shown : shown'[k] = shown[k]
    <3> HIDE DEF first
    <3> QED BY <2>3, <1>1, <2>5
  <2> HIDE DEF first
  <2>7. \A k \in DOMAIN shown' : k \in DOMAIN shown \/ k = Len(shown) + 1
    BY <2>6, <1>1
  <2>8. Payloads' \subseteq Int
    BY <2>1, <1>1 DEF Payloads
  <2>9. \A i \in Payloads' : 1 < i + 1
    BY <2>1, <1>1 DEF Payloads
  <2>10. \A i \in Payloads' : first < queue'[i].message
    BY <2>2, <2>9 DEF OrderOK, first
  <2>11. \A i, j \in Payloads' : i < j => i + 1 < j + 1
    BY <2>8
  <2>12. \A i \in Payloads', k \in DOMAIN shown' : shown'[k] < queue'[i].message
    BY <2>2, <2>6, <2>7, <2>10 DEF OrderOK
  <2>13. \A k \in DOMAIN shown' : shown'[k] <= Sent
    BY <2>5, <2>6, <2>7 DEF OrderOK
  <2>14. OrderOK'
    BY <2>1, <2>2, <2>4, <2>11, <2>12, <2>13 DEF OrderOK
  <2> QED BY <2>2, <2>4, <2>14
<1> QED BY <1>3, <1>4, <1>5, <1>6 DEF Next, Publish

\* As long as no two publishers send at once, the protocol of two frames keeps its order
\* at every step (socket.go:69-85, chat_client_receiver.c:129-186).
LEMMA BusInvariant == Spec /\ []Exclusive => [](TypeOK /\ BusOK)
<1>1. Init => BusOK
  <2> SUFFICES ASSUME Init PROVE BusOK
    OBVIOUS
  <2>1. Len(queue) % 2 = 0
    BY DEF Init
  <2>2. Quiet
    BY DEF Init, Quiet
  <2> QED BY <2>1, <2>2 DEF Init, BusOK, BegunOK, WholeOK, Aligned, OrderOK, Payloads, Sent
<1>2. TypeOK /\ BusOK /\ Exclusive /\ Exclusive' /\ [Next]_vars => BusOK'
  <2>1. ASSUME BusOK, UNCHANGED vars PROVE BusOK'
    BY <2>1 DEF vars, BusOK, BegunOK, WholeOK, Aligned, OrderOK, Payloads, Sent, Quiet
  <2> QED BY <2>1, BusStep
<1> QED BY <1>1, <1>2, TypeCorrect, PTL DEF Spec

\* One publisher never sends while another does: none does but the request handlers as
\* long as the checker has nobody to log off.
LEMMA AloneIsExclusive ==
  ASSUME NEW p, Publishers = {p}
  PROVE  Exclusive
BY DEF Exclusive

\* As long as no two publishers send at once the receiver is between two messages whenever
\* it reads a first frame (chat_client_receiver.c:129-141).
THEOREM ReceiverInStep == Spec /\ []Exclusive => []Aligned
<1>1. BusOK => Aligned
  BY DEF BusOK
<1> QED BY <1>1, BusInvariant, PTL

\* With one publisher the receiver is always in step.
COROLLARY ReceiverInStepAlone ==
  ASSUME NEW p, Publishers = {p}
  PROVE  Spec => []Aligned
BY ReceiverInStep, AloneIsExclusive, PTL

-------------------------------------------------------------------------------
\* Nothing is lost

\* Reading a frame loses no message: a topic that is read as a topic is not one, and a
\* payload that is read as data is shown (chat_client_receiver.c:129-186).
LEMMA ReadLosesNothing ==
  ASSUME TypeOK, BusOK, NothingLost, ReceiveTopic \/ ReceiveData
  PROVE  NothingLost'
<1>1. /\ queue \in Seq(Frames) /\ queue # <<>> /\ queue' = Tail(queue)
      /\ reading' = (IF reading = "topic" THEN "data" ELSE "topic")
      /\ reading \in {"topic", "data"}
      /\ UNCHANGED <<log, half>>
  BY DEF ReceiveTopic, ReceiveData, TypeOK
<1>2. 1 \in Payloads <=> reading = "data"
  BY <1>1, OneLess DEF BusOK
<1>3. ASSUME NEW n, NEW i \in DOMAIN queue, WaitsAt(i, n), i # 1
      PROVE  \E j \in DOMAIN queue' : WaitsAt(j, n)'
  <2>1. i - 1 \in DOMAIN queue' /\ queue'[i - 1] = queue[i]
    BY <1>1, <1>3
  <2> QED BY <2>1, <1>3 DEF WaitsAt
<1>4. ASSUME NEW n, WaitsAt(1, n), 1 \in DOMAIN queue PROVE ShownAt(n)'
  <2>1. queue[1].part = "payload" /\ queue[1].message = n
    BY <1>4 DEF WaitsAt, Frame
  <2>2. reading = "data"
    BY <1>2, <1>4, <2>1 DEF Payloads
  <2>3. shown' = Append(shown, n)
    <3>1. Head(queue) = queue[1]
      BY <1>1
    <3> QED BY <2>1, <2>2, <3>1 DEF ReceiveTopic, ReceiveData
  <2>4. n \in 1..MaxMessages /\ shown \in Seq(1..MaxMessages)
    <3>1. queue[1] \in Frames
      BY <1>1, <1>4
    <3> QED BY <2>1, <3>1 DEF Frames, TypeOK
  <2>5. Len(shown) + 1 \in DOMAIN shown' /\ shown'[Len(shown) + 1] = n
    BY <2>3, <2>4
  <2> QED BY <2>5 DEF ShownAt
<1>5. ASSUME NEW n, ShownAt(n) PROVE ShownAt(n)'
  <2>1. PICK k \in DOMAIN shown : shown[k] = n
    BY <1>5 DEF ShownAt
  <2>2. CASE shown' = shown
    BY <2>1, <2>2 DEF ShownAt
  <2>3. CASE shown' = Append(shown, Head(queue).message)
    <3>a. Head(queue) \in Frames
      BY <1>1
    <3>1. shown \in Seq(1..MaxMessages) /\ Head(queue).message \in 1..MaxMessages
      BY <3>a DEF TypeOK, Frames
    <3>2. k \in DOMAIN shown' /\ shown'[k] = n
      BY <2>1, <2>3, <3>1
    <3> QED BY <3>2 DEF ShownAt
  <2> QED BY <2>2, <2>3 DEF ReceiveTopic, ReceiveData
<1> QED BY <1>1, <1>3, <1>4, <1>5 DEF NothingLost

\* A message that is sent joins the frames that wait, behind those that do
\* (socket.go:69-85).
LEMMA SendLosesNothing ==
  ASSUME TypeOK, BusOK, Exclusive, NothingLost, NEW p \in Publishers, Publish(p)
  PROVE  NothingLost'
<1>1. /\ log \in Seq(Topics) /\ queue \in Seq(Frames) /\ Len(log) \in Nat
      /\ DOMAIN log = 1..Len(log) /\ half \in [Publishers -> 0..MaxMessages]
  BY LenProperties DEF TypeOK
<1>2. ASSUME NEW t \in TopicsOf(p), SendTopic(p, t) PROVE NothingLost'
  <2>1. /\ half[p] = 0 /\ log' = Append(log, t) /\ half' = [half EXCEPT ![p] = Len(log')]
        /\ UNCHANGED <<queue, shown>> /\ t \in Topics
    BY <1>2, BusAssumption DEF SendTopic, TopicsOf
  <2>2. /\ DOMAIN log' = 1..(Len(log) + 1) /\ Len(log') = Len(log) + 1
        /\ \A n \in DOMAIN log : log'[n] = log[n]
    BY <1>1, <2>1
  <2> SUFFICES ASSUME NEW n \in DOMAIN log', log'[n] \in Subscribed
               PROVE  \/ \E q \in Publishers : half'[q] = n
                      \/ \E i \in DOMAIN queue' : WaitsAt(i, n)'
                      \/ ShownAt(n)'
    BY DEF NothingLost
  <2>3. CASE n = Len(log')
    BY <1>1, <2>1, <2>3
  <2>4. CASE n \in DOMAIN log
    <3>1. log[n] \in Subscribed /\ n # 0
      BY <1>1, <2>2, <2>4
    <3>2. CASE \E q \in Publishers : half[q] = n
      BY <1>1, <2>1, <3>1, <3>2
    <3>3. CASE (\E i \in DOMAIN queue : WaitsAt(i, n)) \/ ShownAt(n)
      BY <2>1, <3>3 DEF WaitsAt, ShownAt
    <3> QED BY <2>4, <3>1, <3>2, <3>3 DEF NothingLost
  <2> QED BY <1>1, <2>2, <2>3, <2>4
<1>3. CASE SendPayload(p)
  <2> DEFINE h == half[p]
             two == <<Frame("topic", h), Frame("payload", h)>>
  <2>1. /\ Frame("topic", h) \in Frames /\ Frame("payload", h) \in Frames
        /\ queue' = IF log[h] \in Subscribed THEN queue \o two ELSE queue
        /\ log' = log /\ shown' = shown
    BY <1>3, MessageSent
  <2>2. /\ two \in Seq(Frames) /\ Len(two) = 2 /\ two[2] = Frame("payload", h)
    BY <2>1
  <2>3. \A q \in Publishers \ {p} : half[q] = 0
    BY <1>1, <1>3 DEF Exclusive, SendPayload
  <2> HIDE DEF h, two
  <2>4. \A i \in DOMAIN queue : i \in DOMAIN queue' /\ queue'[i] = queue[i]
    BY <1>1, <2>1, <2>2
  <2>5. ASSUME log[h] \in Subscribed
        PROVE  /\ Len(queue) + 2 \in DOMAIN queue'
               /\ queue'[Len(queue) + 2] = Frame("payload", h)
    <3>1. queue' = queue \o <<Frame("topic", h), Frame("payload", h)>> /\ reading' = reading
      BY <1>3, <2>5, MessageSent DEF h
    <3>2. Frame("topic", h).part = "topic" /\ Frame("payload", h).part = "payload"
      BY DEF Frame
    <3>3. /\ Len(queue) + 2 \in Payloads'
          /\ queue'[Len(queue) + 2] = Frame("payload", h)
      BY <1>1, <2>1, <3>1, <3>2, TwoMore DEF BusOK, TypeOK
    <3> QED BY <3>3 DEF Payloads
  <2> SUFFICES ASSUME NEW n \in DOMAIN log, log[n] \in Subscribed
               PROVE  \/ \E i \in DOMAIN queue' : WaitsAt(i, n)'
                      \/ ShownAt(n)'
    BY <2>1 DEF NothingLost
  <2>6. CASE \E q \in Publishers : half[q] = n
    <3>1. n = h
      BY <1>1, <2>3, <2>6 DEF h
    <3> QED BY <2>5, <3>1 DEF WaitsAt
  <2>7. CASE \E i \in DOMAIN queue : WaitsAt(i, n)
    BY <2>4, <2>7 DEF WaitsAt
  <2>8. CASE ShownAt(n)
    BY <2>1, <2>8 DEF ShownAt
  <2> QED BY <2>6, <2>7, <2>8 DEF NothingLost
<1> QED BY <1>2, <1>3 DEF Publish

\* As long as no two publishers send at once, what was published on a topic of the
\* client's is on its way to it or was shown to it (socket.go:69-85,
\* chat_client_receiver.c:129-186).
THEOREM BusLosesNothing == Spec /\ []Exclusive => []NothingLost
<1>1. Init => NothingLost
  BY DEF Init, NothingLost
<1>2. TypeOK /\ BusOK /\ Exclusive /\ NothingLost /\ [Next]_vars => NothingLost'
  <2>1. ASSUME NothingLost, UNCHANGED vars PROVE NothingLost'
    BY <2>1 DEF vars, NothingLost, WaitsAt, ShownAt
  <2> QED BY <2>1, ReadLosesNothing, SendLosesNothing DEF Next
<1> QED BY <1>1, <1>2, BusInvariant, PTL DEF Spec

-------------------------------------------------------------------------------
\* The subscriber's feed

\* As long as no two publishers send at once every step of the frames is a step of the
\* subscriber's feed or none (socket.go:69-85, chat_client_receiver.c:129-186).
THEOREM BusImplementsFeed == Spec /\ []Exclusive => ImplementsFeed
<1>1. Init => Feed!Init
  BY DEF Init, Feed!Init
<1>2. TypeOK /\ BusOK /\ [Next]_vars => [Feed!Next]_<<log, shown>>
  <2> SUFFICES ASSUME TypeOK, BusOK, [Next]_vars PROVE [Feed!Next]_<<log, shown>>
    OBVIOUS
  <2> USE DEF BusOK
  <2>1. ASSUME NEW p \in Publishers, NEW t \in TopicsOf(p), SendTopic(p, t) PROVE Feed!Next
    <3>1. t \in Topics
      BY <2>1, BusAssumption DEF TopicsOf
    <3> QED BY <2>1, <3>1 DEF SendTopic, Feed!Next, Feed!PublishOn
  <2>2. ASSUME NEW p \in Publishers, SendPayload(p) PROVE UNCHANGED <<log, shown>>
    BY <2>2 DEF SendPayload
  <2>3. CASE ReceiveTopic
    BY <2>3 DEF ReceiveTopic
  <2>4. CASE ReceiveData
    <3>1. 1 \in Payloads /\ queue[1].part = "payload" /\ Head(queue) = queue[1]
      <4>1. queue \in Seq(Frames) /\ queue # <<>> /\ 1 \in DOMAIN queue /\ reading = "data"
        BY <2>4 DEF TypeOK, ReceiveData
      <4>2. queue[1].part = IF (reading = "topic") = (1 % 2 = 1) THEN "topic" ELSE "payload"
        BY <4>1 DEF Aligned
      <4> QED BY <4>1, <4>2 DEF Payloads
    <3> DEFINE first == queue[1].message
    <3>2. shown' = Append(shown, first) /\ log' = log
      BY <2>4, <3>1 DEF ReceiveData
    <3>3. first \in 1..Sent /\ log[first] \in Subscribed /\ \A k \in DOMAIN shown : shown[k] < first
      BY <3>1 DEF OrderOK
    <3>4. first \in DOMAIN log
      BY <3>3 DEF Sent, TypeOK
    <3> QED BY <3>2, <3>3, <3>4 DEF Feed!Next, Feed!Show
  <2>5. CASE UNCHANGED vars
    BY <2>5 DEF vars
  <2> QED BY <2>1, <2>2, <2>3, <2>4, <2>5 DEF Next, Publish
<1> QED BY <1>1, <1>2, BusInvariant, PTL DEF Spec, ImplementsFeed, Feed!Spec

\* With one publisher the protocol of two frames implements the subscriber's feed.
COROLLARY BusImplementsFeedAlone ==
  ASSUME NEW p, Publishers = {p}
  PROVE  Spec => ImplementsFeed
BY BusImplementsFeed, AloneIsExclusive, PTL
===============================================================================
