---------------------------- MODULE MCJobPool ----------------------------
(* The pool on an instance small enough for TLC. *)
EXTENDS JobPool
=============================================================================
