------------------------------- MODULE MCGpu -------------------------------
(***************************************************************************)
(* A kept image k and a frame-scoped image s.  The frames: every legal     *)
(* sequence of up to two passes into k and two that sample it, alone; the  *)
(* short ones of s; and a few that use both.                               *)
(***************************************************************************)
EXTENDS Gpu, TLC
CONSTANTS k, s

Clear == Target("Clear", "Store")
Load == Target("Load", "Store")
Discard == Target("Clear", "Discard")

Uses == { <<Clear>>, <<Discard>>, <<Load>>, <<Discard, Clear, Sample>>, <<Clear, Load>>,
          <<Sample>>, <<Load, Sample>> }
MCFrames ==
  {[uses |-> (k :> u @@ s :> <<>>), data |-> FALSE] : u \in Uses}
    \cup {[uses |-> (k :> u @@ s :> <<Clear, Sample>>), data |-> TRUE] : u \in {<<>>, <<Sample>>}}
=============================================================================
