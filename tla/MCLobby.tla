------------------------------ MODULE MCLobby ------------------------------
(* Lobby as TLC checks it. *)
EXTENDS Lobby

=============================================================================
