------------------------------ MODULE MCGlide ------------------------------
(* The windowed loop with a world scaled down: a pipe every second tick,   *)
(* two on the screen, slots taken again from the third on.                 *)
EXTENDS Glide

MCEntitySlots == 1..4
MCSnapshotSlots == 1..2
MCGaps == {1, 7}
=============================================================================
