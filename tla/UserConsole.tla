------------------------------ MODULE UserConsole ------------------------------
(***************************************************************************)
(* What the client promises to whoever types: one line at a time, and the  *)
(* answer that is shown is the answer to that line, until the client stops *)
(* answering for good.                                                     *)
(***************************************************************************)
CONSTANT Lines  \* what can be typed, "none" apart

VARIABLES
  waiting,  \* the user has typed a line and is shown nothing else until it is answered
  line,     \* the line nobody has answered yet, or "none"
  answer,   \* the line whose answer is ready to be shown, or "none"
  closed    \* no line is answered any more

Init == waiting = FALSE /\ line = "none" /\ answer = "none" /\ closed = FALSE

\* Once the console is closed the line may be lost.
Enter(l) ==
  /\ ~waiting /\ waiting' = TRUE
  /\ line' = l \/ (closed /\ line' = line)
  /\ UNCHANGED <<answer, closed>>

Answer ==
  /\ waiting /\ ~closed
  /\ line # "none" /\ line' = "none"
  /\ answer' = line
  /\ UNCHANGED <<waiting, closed>>

Show ==
  /\ waiting /\ waiting' = FALSE
  /\ answer # "none" /\ answer' = "none"
  /\ UNCHANGED <<line, closed>>

\* The line that is worked on is given up, or not.
Close ==
  /\ ~closed /\ closed' = TRUE
  /\ line' \in {line, "none"}
  /\ UNCHANGED <<waiting, answer>>

Next == (\E l \in Lines : Enter(l)) \/ Answer \/ Show \/ Close

Spec == Init /\ [][Next]_<<waiting, line, answer, closed>>
================================================================================
