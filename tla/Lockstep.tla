------------------------------ MODULE Lockstep ------------------------------
(***************************************************************************)
(* What a lockstep session promises.  Every peer writes a script, one      *)
(* input per tick, never revised.  A peer runs the ticks in order, each    *)
(* with the input of every peer for that tick, and so only when every      *)
(* script has come that far.  A peer that has seen the worlds disagree     *)
(* runs nothing further.                                                   *)
(***************************************************************************)
EXTENDS Naturals, Sequences

CONSTANTS Peer, Input

VARIABLES
  script,   (* what each peer has submitted                                *)
  ran,      (* the input sets each peer has run                            *)
  stopped   (* peers that have reported a desync                           *)

vars == <<script, ran, stopped>>

Init ==
  /\ script = [p \in Peer |-> << >>]
  /\ ran = [p \in Peer |-> << >>]
  /\ stopped = {}

Submit(p) ==
  /\ \E i \in Input : script' = [script EXCEPT ![p] = Append(@, i)]
  /\ UNCHANGED <<ran, stopped>>

Run(p) ==
  LET tick == Len(ran[p]) + 1
  IN /\ p \notin stopped
     /\ \A q \in Peer : tick <= Len(script[q])
     /\ ran' = [ran EXCEPT ![p] = Append(@, [q \in Peer |-> script[q][tick]])]
     /\ UNCHANGED <<script, stopped>>

Stop(p) ==
  /\ stopped' = stopped \cup {p}
  /\ UNCHANGED <<script, ran>>

Next == \E p \in Peer : Submit(p) \/ Run(p) \/ Stop(p)

Spec == Init /\ [][Next]_vars

=============================================================================
