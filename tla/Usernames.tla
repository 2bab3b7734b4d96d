------------------------------- MODULE Usernames -------------------------------
(***************************************************************************)
(* The usernames that requests carry.  Every method of the server that     *)
(* takes a username compares it with the empty string before it does       *)
(* anything, so the empty one is kept apart from the others.               *)
(***************************************************************************)
CONSTANTS
  Names,   \* the non-empty usernames
  NoName   \* the empty username

ASSUME NamesAssumption == NoName \notin Names
================================================================================
