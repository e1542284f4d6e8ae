------------------------------ MODULE MCAudio ------------------------------
(* The mixer and its ring, small enough for TLC. *)
EXTENDS Audio
=============================================================================
