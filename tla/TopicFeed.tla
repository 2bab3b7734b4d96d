------------------------------- MODULE TopicFeed -------------------------------
(***************************************************************************)
(* What a subscriber may expect of the server's bus: it is shown messages  *)
(* that were published on topics it subscribed to, each once and in the    *)
(* order in which they were published.                                     *)
(***************************************************************************)
EXTENDS Naturals, Sequences

CONSTANTS
  Topics,      \* the topics there are
  Subscribed   \* those of this subscriber

VARIABLES
  log,    \* the topic of each message published, in order
  shown   \* the numbers of the messages the subscriber has been shown

Init == log = <<>> /\ shown = <<>>

PublishOn(t) == log' = Append(log, t) /\ shown' = shown

\* Messages are shown by their place in the log.
Show(n) ==
  /\ n \in DOMAIN log
  /\ log[n] \in Subscribed
  /\ \A i \in DOMAIN shown : shown[i] < n
  /\ shown' = Append(shown, n)
  /\ log' = log

Next == (\E t \in Topics : PublishOn(t)) \/ (\E n \in DOMAIN log : Show(n))

Spec == Init /\ [][Next]_<<log, shown>>
================================================================================
