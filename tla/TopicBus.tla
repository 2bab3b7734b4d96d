------------------------------- MODULE TopicBus -------------------------------
(***************************************************************************)
(* The bus from the server to a client: PublishTopicEnvelope sends a topic *)
(* frame and a payload frame on the PUB socket (internal/server/socket.go),*)
(* and handle_chat_message of the client's receiver reads two frames       *)
(* (src/client/chat_client_receiver.c).                                    *)
(*                                                                         *)
(* The request handlers and the heartbeat checker share the PUB socket and *)
(* take no lock: each Send is a step.  (libzmq promises nothing to threads *)
(* that are inside a call on one socket at once; that they are not is the  *)
(* best case.)  A message of ØMQ ends with the first frame that is sent    *)
(* without SNDMORE, and goes to those subscribed to its first frame.       *)
(***************************************************************************)
EXTENDS Naturals, Sequences

CONSTANTS
  Topics,       \* the topics there are
  Subscribed,   \* those the client has subscribed to
  General,      \* the topic of the welcome room
  Publishers,   \* the goroutines that publish: "handler", "checker"
  MaxMessages   \* bound: the messages published

ASSUME BusAssumption ==
  /\ Subscribed \subseteq Topics
  /\ General \in Topics
  /\ Publishers \subseteq {"handler", "checker"}
  /\ MaxMessages \in Nat

VARIABLES
  log,      \* the topic of each message, in the order in which they were begun
  half,     \* the message each publisher has sent the topic frame of, or 0
  partial,  \* the frames of the message that is not finished on the PUB socket
  queue,    \* the frames that wait on the client's SUB socket
  reading,  \* the frame the receiver reads next: "topic" or "data"
  shown     \* the messages forwarded to the user interface

vars == <<log, half, partial, queue, reading, shown>>

\* A message is known by its number in log.
Frames == [part : {"topic", "payload"}, message : 1..MaxMessages]

Frame(p, n) == [part |-> p, message |-> n]

TopicsOf(p) == IF p = "checker" THEN {General} ELSE Topics

Init ==
  /\ log = <<>>
  /\ half = [p \in Publishers |-> 0]
  /\ partial = <<>>
  /\ queue = <<>>
  /\ reading = "topic"
  /\ shown = <<>>

\* Faulty variant: the topic is sent without SNDMORE, a message of its own.
SendTopicAlone(p, t) ==
  /\ half[p] = 0
  /\ Len(log) < MaxMessages
  /\ log' = Append(log, t)
  /\ half' = [half EXCEPT ![p] = Len(log')]
  /\ queue' = IF t \in Subscribed THEN Append(queue, Frame("topic", Len(log'))) ELSE queue
  /\ UNCHANGED <<partial, reading, shown>>

\* Faulty variant: the topic is that of the first message every time.
SendTopicStale(p, t) ==
  /\ half[p] = 0
  /\ Len(log) < MaxMessages
  /\ log' = Append(log, t)
  /\ half' = [half EXCEPT ![p] = Len(log')]
  /\ partial' = Append(partial, Frame("topic", 1))
  /\ UNCHANGED <<queue, reading, shown>>

\* sock.Send(topic, SNDMORE).
SendTopic(p, t) ==
  /\ half[p] = 0
  /\ Len(log) < MaxMessages
  /\ log' = Append(log, t)
  /\ half' = [half EXCEPT ![p] = Len(log')]
  /\ partial' = Append(partial, Frame("topic", Len(log')))
  /\ UNCHANGED <<queue, reading, shown>>

\* A payload that is sent as a first frame begins like no topic.
Matches(frame) == frame.part = "topic" /\ log[frame.message] \in Subscribed

\* Faulty variant: the envelope is given up before it is sent.
SendPayloadTooLate(p) ==
  /\ half[p] # 0
  /\ half' = [half EXCEPT ![p] = 0]
  /\ LET whole == Append(partial, Frame("payload", half'[p])) IN
       queue' = IF Matches(Head(whole)) THEN queue \o whole ELSE queue
  /\ partial' = <<>>
  /\ UNCHANGED <<log, reading, shown>>

\* sock.SendBytes(outBytes, 0).
SendPayload(p) ==
  /\ half[p] # 0
  /\ LET whole == Append(partial, Frame("payload", half[p])) IN
       queue' = IF Matches(Head(whole)) THEN queue \o whole ELSE queue
  /\ partial' = <<>>
  /\ half' = [half EXCEPT ![p] = 0]
  /\ UNCHANGED <<log, reading, shown>>

\* The first socket_sub_recv; what it returns is not looked at.
ReceiveTopic ==
  /\ reading = "topic" /\ queue # <<>>
  /\ queue' = Tail(queue)
  /\ reading' = "data"
  /\ UNCHANGED <<log, half, partial, shown>>

\* The second one, without a look at RCVMORE.  A payload is unpacked and forwarded; a
\* topic is not an envelope with a payload, and is dropped.
ReceiveData ==
  /\ reading = "data" /\ queue # <<>>
  /\ queue' = Tail(queue)
  /\ reading' = "topic"
  /\ shown' = IF Head(queue).part = "payload"
              THEN Append(shown, Head(queue).message)
              ELSE shown
  /\ UNCHANGED <<log, half, partial>>

Publish(p) == SendPayload(p) \/ \E t \in TopicsOf(p) : SendTopic(p, t)

Next == ReceiveTopic \/ ReceiveData \/ \E p \in Publishers : Publish(p)

Spec == Init /\ [][Next]_vars

\* A publisher that has begun a message goes on, and the receiver reads what there is.
FairSpec ==
  /\ Spec
  /\ WF_vars(ReceiveTopic \/ ReceiveData)
  /\ \A p \in Publishers : WF_vars(SendPayload(p))

-------------------------------------------------------------------------------
\* Properties

\* Every frame belongs to a message that was begun (socket.go:65-85).
TypeOK ==
  /\ log \in Seq(Topics) /\ Len(log) <= MaxMessages
  /\ half \in [Publishers -> 0..MaxMessages]
  /\ partial \in Seq(Frames)
  /\ queue \in Seq(Frames)
  /\ reading \in {"topic", "data"}
  /\ shown \in Seq(1..MaxMessages)

\* The receiver takes a topic for a topic: it is between two messages whenever it reads
\* a first frame (chat_client_receiver.c:129-141).
Aligned ==
  \A i \in DOMAIN queue :
    queue[i].part = IF (reading = "topic") = (i % 2 = 1) THEN "topic" ELSE "payload"

Feed == INSTANCE TopicFeed

\* No two publishers are between their frames at once: what one publisher, or a lock
\* around PublishTopicEnvelope, would ensure (socket.go:65-85).
Exclusive == \A p, q \in Publishers : half[p] # 0 /\ half[q] # 0 => p = q

\* With one publisher the two-frame protocol implements the subscriber's feed.
ImplementsFeed == Feed!Spec

ShownAt(n) == \E i \in DOMAIN shown : shown[i] = n

WaitsAt(i, n) == queue[i] = Frame("payload", n)

\* A message on a topic the client has subscribed to is still being sent, waits on its
\* socket or has been shown: the drop of what is no payload and the filter on the first
\* frame never hit it (socket.go:69-85, chat_client_receiver.c:129-186).
NothingLost ==
  \A n \in DOMAIN log : log[n] \in Subscribed =>
    \/ \E p \in Publishers : half[p] = n
    \/ \E i \in DOMAIN queue : WaitsAt(i, n)
    \/ ShownAt(n)

\* Every message on a topic the client has subscribed to reaches its user.
EveryMessageShown ==
  \A n \in 1..MaxMessages :
    n \in DOMAIN log /\ log[n] \in Subscribed ~> ShownAt(n)
===============================================================================
