---------------------------- MODULE ParallelFor ----------------------------
(***************************************************************************)
(* What JobPool::parallel_for promises its caller: a blocking call that    *)
(* runs every chunk of its plan exactly once, in any order and several at  *)
(* a time, and comes back only when no chunk is being run.  A chunk that   *)
(* panics breaks the pool for good: the call in progress panics, later     *)
(* calls are refused.                                                      *)
(***************************************************************************)
EXTENDS Integers

CONSTANTS MaxChunks

VARIABLES
  calling,   (* a call is in progress                                      *)
  todo,      (* chunks of the call that nobody has started                 *)
  doing,     (* chunks whose body is being run                             *)
  done,      (* chunks of the current or the last call that came to an end *)
  broken,    (* some chunk has panicked                                    *)
  result     (* how the last call ended                                    *)

vars == <<calling, todo, doing, done, broken, result>>

Init ==
  /\ calling = FALSE
  /\ todo = {} /\ doing = {} /\ done = {}
  /\ broken = FALSE
  /\ result = "none"

Call(n) ==
  /\ ~calling
  /\ ~broken
  /\ calling' = TRUE
  /\ todo' = 0..(n - 1)
  /\ done' = {}
  /\ result' = "busy"
  /\ UNCHANGED <<doing, broken>>

(* A call with nothing to do, or on a broken pool *)
CallNothing ==
  /\ ~calling
  /\ done' = {}
  /\ \/ result' = "ok"
     \/ broken /\ result' = "refused"
  /\ UNCHANGED <<calling, todo, doing, broken>>

Begin(i) ==
  /\ calling
  /\ i \in todo
  /\ todo' = todo \ {i}
  /\ doing' = doing \cup {i}
  /\ UNCHANGED <<calling, done, broken, result>>

End(i) ==
  /\ i \in doing
  /\ doing' = doing \ {i}
  /\ done' = done \cup {i}
  /\ UNCHANGED <<calling, todo, broken, result>>

Panic(i) ==
  /\ i \in doing
  /\ doing' = doing \ {i}
  /\ broken' = TRUE
  /\ UNCHANGED <<calling, todo, done, result>>

Return ==
  /\ calling
  /\ doing = {}
  /\ \/ ~broken /\ todo = {} /\ result' = "ok"
     \/ broken /\ result' = "panic"
  /\ calling' = FALSE
  /\ todo' = {}
  /\ UNCHANGED <<doing, done, broken>>

Next ==
  \/ \E n \in 1..MaxChunks : Call(n)
  \/ CallNothing
  \/ \E i \in 0..(MaxChunks - 1) : Begin(i) \/ End(i) \/ Panic(i)
  \/ Return

Spec == Init /\ [][Next]_vars

=============================================================================
