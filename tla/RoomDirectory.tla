----------------------------- MODULE RoomDirectory -----------------------------
(***************************************************************************)
(* What the server promises about room membership, whatever representation *)
(* it keeps: a set of (room, user) pairs of which one step adds or removes *)
(* at most one, and General is the room every user can fall back to.       *)
(***************************************************************************)
CONSTANTS Names, RoomNames

VARIABLE member

Init == member = {}

Enter(r, u) == member' = member \cup {<<r, u>>}

Exit(r, u) == member' = member \ {<<r, u>>}

Next == \E r \in RoomNames, u \in Names : Enter(r, u) \/ Exit(r, u)

Spec == Init /\ [][Next]_member
================================================================================
