----------------------------- MODULE MCSession -----------------------------
(* Session as TLC checks it. *)
EXTENDS Session

=============================================================================
