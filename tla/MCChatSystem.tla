----------------------------- MODULE MCChatSystem -----------------------------
(***************************************************************************)
(* The instances of ChatSystem for TLC: a user who types and one who does  *)
(* not, and in one of them, beside the welcome room, a room whose name     *)
(* begins that of the welcome room.                                        *)
(***************************************************************************)
EXTENDS ChatSystem

MCBegins == {<<"g", General>>}
===============================================================================
