------------------------------- MODULE MCChat -------------------------------
(* Chat on rosters small enough for TLC. *)
EXTENDS Chat
=============================================================================
