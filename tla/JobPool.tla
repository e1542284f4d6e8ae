------------------------------ MODULE JobPool ------------------------------
(***************************************************************************)
(* The worker pool of crates/jobs: one dispatcher thread (the owner of the *)
(* JobPool, thread 0) and N worker threads that share one State under one  *)
(* mutex, with the condition variables work_ready and work_done.           *)
(*                                                                         *)
(* A step is one critical section of the mutex, one atomic read-modify-    *)
(* write of the claim cursor, one notify_all, or the end of one chunk's    *)
(* body.  A thread parked on a condition variable is woken by a            *)
(* notification or spuriously, as the standard library allows.             *)
(*                                                                         *)
(* The dispatcher's stack frame, which the erased pointer of a TaskRef     *)
(* designates, is named by the number of the dispatch it belongs to, so    *)
(* that a pointer to a dead frame is told from a pointer to the frame that *)
(* took its place.                                                         *)
(***************************************************************************)
EXTENDS Integers, FiniteSets

CONSTANTS
  N,              (* PoolConfig::workers: threads the pool asks for        *)
  MaxChunks,      (* bound: the most chunks a plan has                     *)
  MaxDispatches,  (* bound: the calls of parallel_for                      *)
  EpochMod        (* the epoch counter wraps at this value (2^64)          *)

ASSUME NAssumption == N \in Nat
ASSUME MaxChunksAssumption == MaxChunks \in Nat
ASSUME MaxDispatchesAssumption == MaxDispatches \in Nat
ASSUME EpochModAssumption == EpochMod \in Nat /\ EpochMod > 1

Caller == 0
Worker == 1..N
Thread == 0..N
Index == 0..(MaxChunks - 1)
NoFrame == 0
Frame == 0..MaxDispatches

VARIABLES
  (* State, under the mutex *)
  epoch, task, active, panicked, poisoned, shutdown,
  (* Batch, on the dispatcher's stack: the live frame and its two words   *)
  frame, chunks, next,
  (* each thread: where it is, the index it claimed; each worker: the     *)
  (* epoch it last joined and the pointer it copied                       *)
  pc, index, last_epoch, held,
  (* JobPool.workers: threads spawned, threads joined                     *)
  spawned, joined,
  (* what the caller saw of its last call, and how often it called        *)
  result, dispatches,
  (* history: the indices the body came back from, in the current or      *)
  (* last dispatch                                                        *)
  done

state == <<epoch, task, active, panicked, poisoned, shutdown>>
batch == <<frame, chunks, next>>
pool == <<spawned, joined>>
history == <<done>>
vars == <<state, batch, pc, index, last_epoch, held, pool, result, dispatches,
          history>>

WorkerPc == {"unspawned", "loop", "parked", "claim", "run", "close",
             "closePanic", "exited", "dead"}
CallerPc == {"build", "idle", "inline", "inlineRun", "inlineUnwind", "notify",
             "claim", "run", "drain", "parked", "unwind", "unwindParked", "shutdown",
             "notifyExit", "join", "gone"}

PcOK ==
  /\ pc \in [Thread -> WorkerPc \cup CallerPc]
  /\ pc[Caller] \in CallerPc
  /\ \A w \in Worker : pc[w] \in WorkerPc

StateOK ==
  /\ epoch \in 0..(EpochMod - 1)
  /\ task \in Frame
  /\ active \in Nat
  /\ {panicked, poisoned, shutdown} \subseteq BOOLEAN

BatchOK ==
  /\ frame \in Frame
  /\ chunks \in 0..MaxChunks
  /\ next \in Nat

ThreadOK ==
  /\ index \in [Thread -> Nat]
  /\ last_epoch \in [Worker -> 0..(EpochMod - 1)]
  /\ held \in [Worker -> Frame]

CallOK ==
  /\ spawned \in 0..N
  /\ joined \in 0..N
  /\ result \in {"none", "busy", "ok", "panic", "refused"}
  /\ dispatches \in 0..MaxDispatches
  /\ done \in SUBSET Nat

TypeOK == PcOK /\ StateOK /\ BatchOK /\ ThreadOK /\ CallOK

Init ==
  /\ epoch = 0 /\ task = NoFrame /\ active = 0
  /\ panicked = FALSE /\ poisoned = FALSE /\ shutdown = FALSE
  /\ frame = NoFrame /\ chunks = 0 /\ next = 0
  /\ pc = [t \in Thread |-> IF t = Caller THEN "build" ELSE "unspawned"]
  /\ index = [t \in Thread |-> 0]
  /\ last_epoch = [w \in Worker |-> 0]
  /\ held = [w \in Worker |-> NoFrame]
  /\ spawned = 0 /\ joined = 0
  /\ result = "none" /\ dispatches = 0
  /\ done = {}

Goto(t, from, to) ==
  /\ pc[t] = from
  /\ pc' = [pc EXCEPT ![t] = to]

-----------------------------------------------------------------------------
(* JobPool::build and shutdown_and_join *)

Spawn ==
  /\ pc[Caller] = "build"
  /\ spawned < N
  /\ pc' = [pc EXCEPT ![spawned + 1] = "loop"]
  /\ spawned' = spawned + 1
  /\ UNCHANGED <<state, batch, index, last_epoch, held, joined, result,
                 dispatches, history>>

SpawnFails ==
  /\ spawned < N
  /\ Goto(Caller, "build", "shutdown")
  /\ UNCHANGED <<state, batch, index, last_epoch, held, pool, result,
                 dispatches, history>>

Built ==
  /\ spawned = N
  /\ Goto(Caller, "build", "idle")
  /\ UNCHANGED <<state, batch, index, last_epoch, held, pool, result,
                 dispatches, history>>

Drop ==
  /\ Goto(Caller, "idle", "shutdown")
  /\ UNCHANGED <<state, batch, index, last_epoch, held, pool, result,
                 dispatches, history>>

FlagShutdown ==
  /\ Goto(Caller, "shutdown", "notifyExit")
  /\ shutdown' = TRUE
  /\ UNCHANGED <<epoch, task, active, panicked, poisoned, batch, index,
                 last_epoch, held, pool, result, dispatches, history>>

(* Mutant: notify_one instead of notify_all *)
NotifiedOne ==
  LET parked == {w \in Worker : pc[w] = "parked"}
  IN  IF parked = {} THEN {} ELSE {CHOOSE w \in parked : TRUE}

(* work_ready.notify_all(): every parked worker goes back to its wait loop *)
Notified == {w \in Worker : pc[w] = "parked"}

WakeWorkers(from, to) ==
  /\ pc[Caller] = from
  /\ pc' = [t \in Thread |-> IF t = Caller THEN to
                              ELSE IF t \in Notified THEN "loop" ELSE pc[t]]
  /\ UNCHANGED <<state, batch, index, last_epoch, held, pool, result,
                 dispatches, history>>

NotifyExit == WakeWorkers("notifyExit", "join")

JoinNext ==
  /\ pc[Caller] = "join"
  /\ joined < spawned
  /\ pc[joined + 1] \in {"exited", "dead"}
  /\ joined' = joined + 1
  /\ UNCHANGED <<state, batch, pc, index, last_epoch, held, spawned, result,
                 dispatches, history>>

Gone ==
  /\ joined = spawned
  /\ Goto(Caller, "join", "gone")
  /\ UNCHANGED <<state, batch, index, last_epoch, held, pool, result,
                 dispatches, history>>

-----------------------------------------------------------------------------
(* parallel_for: the plan has n chunks.  None returns at once; one, or a   *)
(* pool without workers, runs inline; the rest is published.               *)

Called(n) ==
  /\ dispatches < MaxDispatches
  /\ dispatches' = dispatches + 1
  /\ chunks' = n
  /\ done' = {}

Inline(n) == N = 0 \/ n = 1

Usable == ~poisoned

EmptyDispatch ==
  /\ pc[Caller] = "idle"
  /\ Called(0)
  /\ result' = "ok"
  /\ UNCHANGED <<state, frame, next, pc, index, last_epoch, held, pool>>

RefuseDispatch(n) ==
  /\ pc[Caller] = "idle"
  /\ n > 0
  /\ ~Usable
  /\ Called(n)
  /\ result' = "refused"
  /\ UNCHANGED <<state, frame, next, pc, index, last_epoch, held, pool>>

InlineDispatch(n) ==
  /\ n > 0 /\ Inline(n)
  /\ Usable
  /\ Called(n)
  /\ Goto(Caller, "idle", "inline")
  /\ index' = [index EXCEPT ![Caller] = 0]
  /\ result' = "busy"
  /\ UNCHANGED <<state, frame, next, last_epoch, held, pool>>

(* for index in 0..plan.chunks { run_chunk } *)
InlineChunk ==
  /\ index[Caller] < chunks
  /\ Goto(Caller, "inline", "inlineRun")
  /\ UNCHANGED <<state, batch, index, last_epoch, held, pool, result,
                 dispatches, history>>

InlineChunkReturns ==
  /\ Goto(Caller, "inlineRun", "inline")
  /\ done' = done \cup {index[Caller]}
  /\ index' = [index EXCEPT ![Caller] = @ + 1]
  /\ UNCHANGED <<state, batch, last_epoch, held, pool, result, dispatches>>

InlineChunkPanics ==
  /\ Goto(Caller, "inlineRun", "inlineUnwind")
  /\ UNCHANGED <<state, batch, index, last_epoch, held, pool, result,
                 dispatches, history>>

(* InlineGuard::drop *)
InlineUnwinds ==
  /\ Goto(Caller, "inlineUnwind", "idle")
  /\ poisoned' = TRUE
  /\ result' = "panic"
  /\ UNCHANGED <<epoch, task, active, panicked, shutdown, batch, index,
                 last_epoch, held, pool, dispatches, history>>

InlineReturns ==
  /\ index[Caller] >= chunks
  /\ Goto(Caller, "inline", "idle")
  /\ result' = "ok"
  /\ UNCHANGED <<state, batch, index, last_epoch, held, pool, dispatches,
                 history>>

(* wrapping_add *)
NextEpoch == (epoch + 1) % EpochMod

(* dispatch: the batch comes to life on the stack and is published under   *)
(* the lock.  (A live task is refused too: exclusive access to the pool    *)
(* makes that case unreachable: FrameLives of the proofs says so.)         *)
Publish(n) ==
  /\ n > 0 /\ ~Inline(n)
  /\ Usable
  /\ task = NoFrame
  /\ Called(n)
  /\ Goto(Caller, "idle", "notify")
  /\ frame' = dispatches'
  /\ next' = 0
  /\ task' = frame'
  /\ epoch' = NextEpoch
  /\ panicked' = FALSE
  /\ result' = "busy"
  /\ UNCHANGED <<active, poisoned, shutdown, index, last_epoch, held, pool>>

NotifyWork == WakeWorkers("notify", "claim")

-----------------------------------------------------------------------------
(* run_batch, on the caller and on the workers alike: claim an index, run  *)
(* its chunk, until the cursor has passed the plan.                        *)

AfterBatch(t) == IF t = Caller THEN "drain" ELSE "close"
AfterPanic(t) == IF t = Caller THEN "unwind" ELSE "closePanic"

(* batch.next.fetch_add(1) *)
FetchAdd == next + 1

(* Mutant: the bound is off by one *)
ChunkLeftInclusive == next <= chunks

ChunkLeft == next < chunks

ClaimChunk(t) ==
  /\ ChunkLeft
  /\ Goto(t, "claim", "run")
  /\ index' = [index EXCEPT ![t] = next]
  /\ next' = FetchAdd
  /\ UNCHANGED <<state, frame, chunks, last_epoch, held, pool, result,
                 dispatches, history>>

ClaimNone(t) ==
  /\ ~ChunkLeft
  /\ Goto(t, "claim", AfterBatch(t))
  /\ next' = FetchAdd
  /\ UNCHANGED <<state, frame, chunks, index, last_epoch, held, pool, result,
                 dispatches, history>>

ChunkReturns(t) ==
  /\ Goto(t, "run", "claim")
  /\ done' = done \cup {index[t]}
  /\ UNCHANGED <<state, batch, index, last_epoch, held, pool, result,
                 dispatches>>

ChunkPanics(t) ==
  /\ Goto(t, "run", AfterPanic(t))
  /\ UNCHANGED <<state, batch, index, last_epoch, held, pool, result,
                 dispatches, history>>

-----------------------------------------------------------------------------
(* DispatchGuard: finish on return, drop on unwind; both drain.            *)

(* Mutant: the dispatcher does not wait for the workers *)
BracketsClosedAlways == TRUE

BracketsClosed == active = 0

DrainWaits ==
  /\ ~BracketsClosed
  /\ \/ Goto(Caller, "drain", "parked")
     \/ Goto(Caller, "unwind", "unwindParked")
  /\ UNCHANGED <<state, batch, index, last_epoch, held, pool, result,
                 dispatches, history>>

(* state.task = None *)
Retired == NoFrame

(* The last lines of drain, and the assertion dispatch raises from the     *)
(* flag drain read: the frame dies with this step.                         *)
Finish ==
  /\ BracketsClosed
  /\ Goto(Caller, "drain", "idle")
  /\ task' = Retired
  /\ frame' = NoFrame
  /\ result' = IF panicked THEN "panic" ELSE "ok"
  /\ UNCHANGED <<epoch, active, panicked, poisoned, shutdown, chunks, next,
                 index, last_epoch, held, pool, dispatches, history>>

FinishUnwinding ==
  /\ BracketsClosed
  /\ Goto(Caller, "unwind", "idle")
  /\ task' = Retired
  /\ frame' = NoFrame
  /\ poisoned' = TRUE
  /\ result' = "panic"
  /\ UNCHANGED <<epoch, active, panicked, shutdown, chunks, next, index,
                 last_epoch, held, pool, dispatches, history>>

-----------------------------------------------------------------------------
(* worker_main: one look at the state under the lock, which ends the       *)
(* thread, takes the batch and opens the bracket, or parks.                *)

Fresh(w) == epoch # last_epoch[w] /\ task # NoFrame

Exit(w) ==
  /\ shutdown
  /\ Goto(w, "loop", "exited")
  /\ UNCHANGED <<state, batch, index, last_epoch, held, pool, result,
                 dispatches, history>>

Join(w) ==
  /\ ~shutdown
  /\ Fresh(w)
  /\ Goto(w, "loop", "claim")
  /\ held' = [held EXCEPT ![w] = task]
  /\ last_epoch' = [last_epoch EXCEPT ![w] = epoch]
  /\ active' = active + 1
  /\ UNCHANGED <<epoch, task, panicked, poisoned, shutdown, batch, index,
                 pool, result, dispatches, history>>

Park(w) ==
  /\ ~shutdown
  /\ ~Fresh(w)
  /\ Goto(w, "loop", "parked")
  /\ UNCHANGED <<state, batch, index, last_epoch, held, pool, result,
                 dispatches, history>>

(* Mutant: the notification is sent one worker too early *)
LastOutEarly(n) == n = 1

LastOut(n) == n = 0

(* WorkerGuard::drop: the last worker out wakes the dispatcher.            *)
CloseBracket(w, from, to) ==
  /\ pc[w] = from
  /\ active' = active - 1
  /\ pc' = [t \in Thread |->
              CASE t = w -> to
                [] t = Caller /\ LastOut(active') /\ pc[t] = "parked" -> "drain"
                [] t = Caller /\ LastOut(active') /\ pc[t] = "unwindParked" -> "unwind"
                [] OTHER -> pc[t]]
  /\ UNCHANGED <<epoch, task, shutdown, batch, index, last_epoch, held, pool,
                 result, dispatches, history>>

Close(w) ==
  /\ CloseBracket(w, "close", "loop")
  /\ UNCHANGED <<panicked, poisoned>>

ClosePanicking(w) ==
  /\ CloseBracket(w, "closePanic", "dead")
  /\ panicked' = TRUE
  /\ poisoned' = TRUE

SpuriousWakeup(t) ==
  /\ \/ t # Caller /\ Goto(t, "parked", "loop")
     \/ t = Caller /\ Goto(t, "parked", "drain")
     \/ t = Caller /\ Goto(t, "unwindParked", "unwind")
  /\ UNCHANGED <<state, batch, index, last_epoch, held, pool, result,
                 dispatches, history>>

-----------------------------------------------------------------------------

(* What the code does once it was called *)
CallerStep ==
  \/ Spawn \/ SpawnFails \/ Built
  \/ FlagShutdown \/ NotifyExit \/ JoinNext \/ Gone
  \/ InlineChunk \/ InlineChunkReturns \/ InlineChunkPanics \/ InlineUnwinds
  \/ InlineReturns
  \/ NotifyWork \/ DrainWaits \/ Finish \/ FinishUnwinding

BatchStep(t) ==
  \/ ClaimChunk(t) \/ ClaimNone(t) \/ ChunkReturns(t) \/ ChunkPanics(t)

WorkerStep(w) ==
  \/ Exit(w) \/ Join(w) \/ Park(w) \/ Close(w) \/ ClosePanicking(w)

(* What the owner of the pool may ask for *)
CallIn ==
  \/ Drop
  \/ EmptyDispatch
  \/ \E n \in 1..MaxChunks : RefuseDispatch(n) \/ InlineDispatch(n) \/ Publish(n)

(* The owner is gone: nothing is left to run, and nothing has to.          *)
Terminated == pc[Caller] = "gone" /\ UNCHANGED vars

Next ==
  \/ CallerStep
  \/ CallIn
  \/ \E t \in Thread : BatchStep(t) \/ SpuriousWakeup(t)
  \/ \E w \in Worker : WorkerStep(w)
  \/ Terminated

Spec == Init /\ [][Next]_vars

(* The scheduler runs every thread that can run, and a chunk's body comes  *)
(* to an end.  Calls and spurious wakeups are nobody's duty.               *)
Fairness ==
  /\ WF_vars(CallerStep \/ BatchStep(Caller))
  /\ \A w \in Worker : WF_vars(WorkerStep(w) \/ BatchStep(w))

FairSpec == Spec /\ Fairness

-----------------------------------------------------------------------------
(* Properties *)

InBracket == {w \in Worker : pc[w] \in {"claim", "run", "close", "closePanic"}}

(* The soundness bracket: a worker that can still dereference the pointer  *)
(* it copied holds the frame that is on the dispatcher's stack now, never  *)
(* one that was popped (the SAFETY argument at TaskRef).                   *)
NoDanglingFrame ==
  \A w \in InBracket : held[w] = frame /\ frame # NoFrame

(* A parked worker has nothing to do: it already joined the live epoch, or *)
(* the notification that wakes it is still to come; and none sleeps        *)
(* through a shutdown (no wakeup is lost between the check and the wait).  *)
NoLostWakeup ==
  \A w \in Worker : pc[w] = "parked" =>
    /\ task # NoFrame => last_epoch[w] = epoch \/ pc[Caller] = "notify"
    /\ shutdown => pc[Caller] = "notifyExit"

(* The dispatcher does not wait at the barrier when the last bracket has   *)
(* already been closed.                                                    *)
BarrierIsAwake ==
  pc[Caller] \in {"parked", "unwindParked"} => active # 0

(* Every call of parallel_for returns, whatever panics and wherever.       *)
CallsReturn == result = "busy" ~> result # "busy"

(* A dropped pool, or one whose construction failed, joins every thread it *)
(* spawned: none is left asleep.                                           *)
DropJoins ==
  pc[Caller] = "shutdown" ~>
    pc[Caller] = "gone" /\ \A w \in 1..spawned : pc[w] \in {"exited", "dead"}

-----------------------------------------------------------------------------
(* What the pool promises, with no thread in it: ParallelFor.              *)

Busy == result = "busy"

Running(t) == pc[t] \in {"run", "inlineRun"}

(* The first index nobody has claimed *)
Cursor ==
  CASE pc[Caller] = "inline" -> index[Caller]
    [] pc[Caller] \in {"inlineRun", "inlineUnwind"} -> index[Caller] + 1
    [] OTHER -> next

Todo == IF Busy THEN {i \in Index : Cursor <= i /\ i < chunks} ELSE {}

Doing == {index[t] : t \in {u \in Thread : Running(u)}}

(* A panic that its guard has not recorded yet is one already *)
Unwinding(t) == pc[t] \in {"closePanic", "unwind", "unwindParked", "inlineUnwind"}

Broken == poisoned \/ \E t \in Thread : Unwinding(t)

Promise == INSTANCE ParallelFor WITH
  calling <- Busy, todo <- Todo, doing <- Doing, broken <- Broken

(* The pool implements ParallelFor: chunks start and end between call and  *)
(* return only, each once, and a panic is what the caller sees.            *)
ImplementsParallelFor == Promise!Spec

=============================================================================
