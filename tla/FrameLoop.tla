----------------------------- MODULE FrameLoop -----------------------------
(***************************************************************************)
(* The fixed-step schedule of crates/frame: time is banked, spent in steps *)
(* of Dt, and what the budget refuses is dropped, never carried over.      *)
(* Time is an integer; the caller gives the time since the last frame.     *)
(* The tick counter and the statistics, which decide nothing here, are     *)
(* left out.                                                               *)
(***************************************************************************)
EXTENDS Naturals

CONSTANTS
  Dt,       \* one step, in units of time
  Budget    \* the steps one frame may run

ASSUME FrameLoopAssumption == Dt \in Nat \ {0} /\ Budget \in Nat \ {0}

Anchored == 0

BeginFrame(bank, elapsed) ==
  LET total == bank + elapsed
      due == total \div Dt
      steps == IF due < Budget THEN due ELSE Budget
  IN  [steps |-> steps, dropped |-> due - steps, remainder |-> total % Dt]
=============================================================================
