-------------------------- MODULE JobPool_proofs --------------------------
(***************************************************************************)
(* Proofs about JobPool, for any number of workers, chunks and calls and   *)
(* any width of the epoch counter.                                         *)
(***************************************************************************)
EXTENDS JobPool, FiniteSetTheorems, TLAPS

USE NAssumption, MaxChunksAssumption, MaxDispatchesAssumption, EpochModAssumption
    DEF Thread, Worker, Caller, Frame, NoFrame, Goto

(* The steps of the caller, of the owner and of the workers, for citation  *)
LEMMA Actions ==
  ASSUME Next
  PROVE  \/ Spawn \/ SpawnFails \/ Built \/ FlagShutdown \/ NotifyExit
         \/ JoinNext \/ Gone \/ InlineChunk \/ InlineChunkReturns
         \/ InlineChunkPanics \/ InlineUnwinds \/ InlineReturns \/ NotifyWork
         \/ DrainWaits \/ Finish \/ FinishUnwinding
         \/ Drop \/ EmptyDispatch
         \/ (\E n \in 1..MaxChunks : RefuseDispatch(n))
         \/ (\E n \in 1..MaxChunks : InlineDispatch(n))
         \/ (\E n \in 1..MaxChunks : Publish(n))
         \/ (\E t \in Thread : ClaimChunk(t)) \/ (\E t \in Thread : ClaimNone(t))
         \/ (\E t \in Thread : ChunkReturns(t)) \/ (\E t \in Thread : ChunkPanics(t))
         \/ (\E t \in Thread : SpuriousWakeup(t))
         \/ (\E w \in Worker : Exit(w)) \/ (\E w \in Worker : Join(w))
         \/ (\E w \in Worker : Park(w)) \/ (\E w \in Worker : Close(w))
         \/ (\E w \in Worker : ClosePanicking(w))
         \/ UNCHANGED vars
BY DEF Next, CallerStep, CallIn, BatchStep, WorkerStep, Terminated

-----------------------------------------------------------------------------
(* Every worker inside a bracket is counted, and holds the live frame.     *)

LivePc == {"notify", "claim", "run", "drain", "parked", "unwind", "unwindParked"}

ActiveCounts == active = Cardinality(InBracket)

FrameIsTask == frame = task

FrameLives == frame # NoFrame <=> pc[Caller] \in LivePc

ShutdownPc == shutdown <=> pc[Caller] \in {"notifyExit", "join", "gone"}

UnspawnedPc == \A w \in Worker : pc[w] = "unspawned" <=> w > spawned

BracketInv ==
  /\ TypeOK
  /\ ActiveCounts
  /\ FrameIsTask
  /\ FrameLives
  /\ ShutdownPc
  /\ UnspawnedPc
  /\ NoDanglingFrame
  /\ BarrierIsAwake
  /\ NoLostWakeup

(* Finitely many workers, so finitely many open brackets. *)
LEMMA BracketFinite == IsFiniteSet(InBracket) /\ Cardinality(InBracket) \in Nat
<1>1. IsFiniteSet(Worker)
  BY FS_Interval
<1>2. InBracket \subseteq Worker
  BY DEF InBracket
<1>. QED
  BY <1>1, <1>2, FS_Subset, FS_CardinalityType

(* A worker in a bracket is one the count knows of *)
LEMMA InBracketCounted ==
  ASSUME ActiveCounts, NEW w \in InBracket PROVE active - 1 \in Nat
<1>1. Cardinality(InBracket) # 0
  BY BracketFinite, FS_EmptySet
<1>. QED
  BY <1>1, BracketFinite DEF ActiveCounts

(* A step leaves every thread at a place of its own program. *)
LEMMA PcStep ==
  ASSUME PcOK, CallOK, [Next]_vars PROVE PcOK'
<1>1. CASE Spawn
  BY <1>1 DEF PcOK, WorkerPc, CallerPc, Spawn, CallOK
<1>2. CASE SpawnFails
  BY <1>2 DEF PcOK, WorkerPc, CallerPc, SpawnFails
<1>3. CASE Built
  BY <1>3 DEF PcOK, WorkerPc, CallerPc, Built
<1>4. CASE FlagShutdown
  BY <1>4 DEF PcOK, WorkerPc, CallerPc, FlagShutdown
<1>5. CASE NotifyExit
  BY <1>5 DEF PcOK, WorkerPc, CallerPc, NotifyExit, WakeWorkers, Notified
<1>6. CASE JoinNext
  BY <1>6 DEF PcOK, WorkerPc, CallerPc, JoinNext
<1>7. CASE Gone
  BY <1>7 DEF PcOK, WorkerPc, CallerPc, Gone
<1>8. CASE InlineChunk
  BY <1>8 DEF PcOK, WorkerPc, CallerPc, InlineChunk
<1>9. CASE InlineChunkReturns
  BY <1>9 DEF PcOK, WorkerPc, CallerPc, InlineChunkReturns
<1>10. CASE InlineChunkPanics
  BY <1>10 DEF PcOK, WorkerPc, CallerPc, InlineChunkPanics
<1>11. CASE InlineUnwinds
  BY <1>11 DEF PcOK, WorkerPc, CallerPc, InlineUnwinds
<1>12. CASE InlineReturns
  BY <1>12 DEF PcOK, WorkerPc, CallerPc, InlineReturns
<1>13. CASE NotifyWork
  BY <1>13 DEF PcOK, WorkerPc, CallerPc, NotifyWork, WakeWorkers, Notified
<1>14. CASE DrainWaits
  BY <1>14 DEF PcOK, WorkerPc, CallerPc, DrainWaits, BracketsClosed
<1>15. CASE Finish
  BY <1>15 DEF PcOK, WorkerPc, CallerPc, Finish, BracketsClosed, Retired
<1>16. CASE FinishUnwinding
  BY <1>16 DEF PcOK, WorkerPc, CallerPc, FinishUnwinding, BracketsClosed,
     Retired
<1>17. CASE Drop
  BY <1>17 DEF PcOK, WorkerPc, CallerPc, Drop
<1>18. CASE EmptyDispatch
  BY <1>18 DEF PcOK, WorkerPc, CallerPc, EmptyDispatch, Called
<1>19. ASSUME NEW n \in 1..MaxChunks, RefuseDispatch(n) PROVE PcOK'
  BY <1>19 DEF PcOK, WorkerPc, CallerPc, RefuseDispatch, Called, Usable
<1>20. ASSUME NEW n \in 1..MaxChunks, InlineDispatch(n) PROVE PcOK'
  BY <1>20 DEF PcOK, WorkerPc, CallerPc, InlineDispatch, Called, Inline, Usable
<1>21. ASSUME NEW n \in 1..MaxChunks, Publish(n) PROVE PcOK'
  BY <1>21 DEF PcOK, WorkerPc, CallerPc, Publish, Called, Inline, NextEpoch,
     Usable
<1>22. ASSUME NEW t \in Thread, ClaimChunk(t) PROVE PcOK'
  BY <1>22 DEF PcOK, WorkerPc, CallerPc, ClaimChunk, FetchAdd, ChunkLeft
<1>23. ASSUME NEW t \in Thread, ClaimNone(t) PROVE PcOK'
  BY <1>23 DEF PcOK, WorkerPc, CallerPc, ClaimNone, FetchAdd, ChunkLeft,
     AfterBatch
<1>24. ASSUME NEW t \in Thread, ChunkReturns(t) PROVE PcOK'
  BY <1>24 DEF PcOK, WorkerPc, CallerPc, ChunkReturns
<1>25. ASSUME NEW t \in Thread, ChunkPanics(t) PROVE PcOK'
  BY <1>25 DEF PcOK, WorkerPc, CallerPc, ChunkPanics, AfterPanic
<1>26. ASSUME NEW t \in Thread, SpuriousWakeup(t) PROVE PcOK'
  BY <1>26 DEF PcOK, WorkerPc, CallerPc, SpuriousWakeup
<1>27. ASSUME NEW w \in Worker, Exit(w) PROVE PcOK'
  BY <1>27 DEF PcOK, WorkerPc, CallerPc, Exit, Fresh
<1>28. ASSUME NEW w \in Worker, Join(w) PROVE PcOK'
  BY <1>28 DEF PcOK, WorkerPc, CallerPc, Join, Fresh
<1>29. ASSUME NEW w \in Worker, Park(w) PROVE PcOK'
  BY <1>29 DEF PcOK, WorkerPc, CallerPc, Park, Fresh
<1>30. ASSUME NEW w \in Worker, Close(w) PROVE PcOK'
  BY <1>30 DEF PcOK, WorkerPc, CallerPc, Close, CloseBracket, LastOut
<1>31. ASSUME NEW w \in Worker, ClosePanicking(w) PROVE PcOK'
  BY <1>31 DEF PcOK, WorkerPc, CallerPc, ClosePanicking, CloseBracket, LastOut
<1>32. CASE UNCHANGED vars
  BY <1>32 DEF PcOK, WorkerPc, CallerPc, vars
<1>. QED
  BY <1>1, <1>2, <1>3, <1>4, <1>5, <1>6, <1>7, <1>8, <1>9, <1>10, <1>11,
     <1>12, <1>13, <1>14, <1>15, <1>16, <1>17, <1>18, <1>19, <1>20, <1>21,
     <1>22, <1>23, <1>24, <1>25, <1>26, <1>27, <1>28, <1>29, <1>30, <1>31,
     <1>32, Actions

(* A step keeps the type of the state under the mutex: the epoch wraps,    *)
(* active never goes below zero (WakeWorkers, WorkerGuard::drop).          *)
LEMMA StateStep ==
  ASSUME StateOK, BatchOK, CallOK, ActiveCounts, [Next]_vars PROVE StateOK'
<1>1. CASE Spawn
  BY <1>1 DEF StateOK, state, Spawn
<1>2. CASE SpawnFails
  BY <1>2 DEF StateOK, state, SpawnFails
<1>3. CASE Built
  BY <1>3 DEF StateOK, state, Built
<1>4. CASE FlagShutdown
  BY <1>4 DEF StateOK, state, FlagShutdown
<1>5. CASE NotifyExit
  BY <1>5 DEF StateOK, state, NotifyExit, WakeWorkers, Notified
<1>6. CASE JoinNext
  BY <1>6 DEF StateOK, state, JoinNext
<1>7. CASE Gone
  BY <1>7 DEF StateOK, state, Gone
<1>8. CASE InlineChunk
  BY <1>8 DEF StateOK, state, InlineChunk
<1>9. CASE InlineChunkReturns
  BY <1>9 DEF StateOK, state, InlineChunkReturns
<1>10. CASE InlineChunkPanics
  BY <1>10 DEF StateOK, state, InlineChunkPanics
<1>11. CASE InlineUnwinds
  BY <1>11 DEF StateOK, state, InlineUnwinds
<1>12. CASE InlineReturns
  BY <1>12 DEF StateOK, state, InlineReturns
<1>13. CASE NotifyWork
  BY <1>13 DEF StateOK, state, NotifyWork, WakeWorkers, Notified
<1>14. CASE DrainWaits
  BY <1>14 DEF StateOK, state, DrainWaits, BracketsClosed
<1>15. CASE Finish
  BY <1>15 DEF StateOK, state, Finish, BracketsClosed, Retired
<1>16. CASE FinishUnwinding
  BY <1>16 DEF StateOK, state, FinishUnwinding, BracketsClosed, Retired
<1>17. CASE Drop
  BY <1>17 DEF StateOK, state, Drop
<1>18. CASE EmptyDispatch
  BY <1>18 DEF StateOK, state, EmptyDispatch, Called
<1>19. ASSUME NEW n \in 1..MaxChunks, RefuseDispatch(n) PROVE StateOK'
  BY <1>19 DEF StateOK, state, RefuseDispatch, Called, Usable
<1>20. ASSUME NEW n \in 1..MaxChunks, InlineDispatch(n) PROVE StateOK'
  BY <1>20 DEF StateOK, state, InlineDispatch, Called, Inline, Usable
<1>21. ASSUME NEW n \in 1..MaxChunks, Publish(n) PROVE StateOK'
  <2>1. task' \in Frame
    BY <1>21 DEF Publish, Called, CallOK
  <2>2. NextEpoch \in 0..(EpochMod - 1)
    BY DEF NextEpoch, StateOK
  <2>. QED
    BY <1>21, <2>1, <2>2 DEF StateOK, Publish
<1>22. ASSUME NEW t \in Thread, ClaimChunk(t) PROVE StateOK'
  BY <1>22 DEF StateOK, state, ClaimChunk, FetchAdd, ChunkLeft
<1>23. ASSUME NEW t \in Thread, ClaimNone(t) PROVE StateOK'
  BY <1>23 DEF StateOK, state, ClaimNone, FetchAdd, ChunkLeft, AfterBatch
<1>24. ASSUME NEW t \in Thread, ChunkReturns(t) PROVE StateOK'
  BY <1>24 DEF StateOK, state, ChunkReturns
<1>25. ASSUME NEW t \in Thread, ChunkPanics(t) PROVE StateOK'
  BY <1>25 DEF StateOK, state, ChunkPanics, AfterPanic
<1>26. ASSUME NEW t \in Thread, SpuriousWakeup(t) PROVE StateOK'
  BY <1>26 DEF StateOK, state, SpuriousWakeup
<1>27. ASSUME NEW w \in Worker, Exit(w) PROVE StateOK'
  BY <1>27 DEF StateOK, state, Exit, Fresh
<1>28. ASSUME NEW w \in Worker, Join(w) PROVE StateOK'
  BY <1>28 DEF StateOK, state, Join, Fresh
<1>29. ASSUME NEW w \in Worker, Park(w) PROVE StateOK'
  BY <1>29 DEF StateOK, state, Park, Fresh
<1>30. ASSUME NEW w \in Worker, Close(w) PROVE StateOK'
  <2>1. w \in InBracket
    BY <1>30 DEF Close, CloseBracket, InBracket
  <2>. QED
    BY <1>30, <2>1, InBracketCounted DEF StateOK, Close, CloseBracket
<1>31. ASSUME NEW w \in Worker, ClosePanicking(w) PROVE StateOK'
  <2>1. w \in InBracket
    BY <1>31 DEF ClosePanicking, CloseBracket, InBracket
  <2>. QED
    BY <1>31, <2>1, InBracketCounted DEF StateOK, ClosePanicking, CloseBracket
<1>32. CASE UNCHANGED vars
  BY <1>32 DEF StateOK, state, vars
<1>. QED
  BY <1>1, <1>2, <1>3, <1>4, <1>5, <1>6, <1>7, <1>8, <1>9, <1>10, <1>11,
     <1>12, <1>13, <1>14, <1>15, <1>16, <1>17, <1>18, <1>19, <1>20, <1>21,
     <1>22, <1>23, <1>24, <1>25, <1>26, <1>27, <1>28, <1>29, <1>30, <1>31,
     <1>32, Actions

(* A step keeps the type of the batch on the dispatcher's stack. *)
LEMMA BatchStepOK ==
  ASSUME BatchOK, CallOK, [Next]_vars PROVE BatchOK'
<1>1. CASE Spawn
  BY <1>1 DEF BatchOK, CallOK, batch, Spawn
<1>2. CASE SpawnFails
  BY <1>2 DEF BatchOK, CallOK, batch, SpawnFails
<1>3. CASE Built
  BY <1>3 DEF BatchOK, CallOK, batch, Built
<1>4. CASE FlagShutdown
  BY <1>4 DEF BatchOK, CallOK, batch, FlagShutdown
<1>5. CASE NotifyExit
  BY <1>5 DEF BatchOK, CallOK, batch, NotifyExit, WakeWorkers, Notified
<1>6. CASE JoinNext
  BY <1>6 DEF BatchOK, CallOK, batch, JoinNext
<1>7. CASE Gone
  BY <1>7 DEF BatchOK, CallOK, batch, Gone
<1>8. CASE InlineChunk
  BY <1>8 DEF BatchOK, CallOK, batch, InlineChunk
<1>9. CASE InlineChunkReturns
  BY <1>9 DEF BatchOK, CallOK, batch, InlineChunkReturns
<1>10. CASE InlineChunkPanics
  BY <1>10 DEF BatchOK, CallOK, batch, InlineChunkPanics
<1>11. CASE InlineUnwinds
  BY <1>11 DEF BatchOK, CallOK, batch, InlineUnwinds
<1>12. CASE InlineReturns
  BY <1>12 DEF BatchOK, CallOK, batch, InlineReturns
<1>13. CASE NotifyWork
  BY <1>13 DEF BatchOK, CallOK, batch, NotifyWork, WakeWorkers, Notified
<1>14. CASE DrainWaits
  BY <1>14 DEF BatchOK, CallOK, batch, DrainWaits, BracketsClosed
<1>15. CASE Finish
  BY <1>15 DEF BatchOK, CallOK, batch, Finish, BracketsClosed, Retired
<1>16. CASE FinishUnwinding
  BY <1>16 DEF BatchOK, CallOK, batch, FinishUnwinding, BracketsClosed, Retired
<1>17. CASE Drop
  BY <1>17 DEF BatchOK, CallOK, batch, Drop
<1>18. CASE EmptyDispatch
  BY <1>18 DEF BatchOK, CallOK, batch, EmptyDispatch, Called
<1>19. ASSUME NEW n \in 1..MaxChunks, RefuseDispatch(n) PROVE BatchOK'
  BY <1>19 DEF BatchOK, CallOK, batch, RefuseDispatch, Called, Usable
<1>20. ASSUME NEW n \in 1..MaxChunks, InlineDispatch(n) PROVE BatchOK'
  BY <1>20 DEF BatchOK, CallOK, batch, InlineDispatch, Called, Inline, Usable
<1>21. ASSUME NEW n \in 1..MaxChunks, Publish(n) PROVE BatchOK'
  BY <1>21 DEF BatchOK, CallOK, batch, Publish, Called, Inline, NextEpoch,
     Usable
<1>22. ASSUME NEW t \in Thread, ClaimChunk(t) PROVE BatchOK'
  BY <1>22 DEF BatchOK, CallOK, batch, ClaimChunk, FetchAdd, ChunkLeft
<1>23. ASSUME NEW t \in Thread, ClaimNone(t) PROVE BatchOK'
  BY <1>23 DEF BatchOK, CallOK, batch, ClaimNone, FetchAdd, ChunkLeft,
     AfterBatch
<1>24. ASSUME NEW t \in Thread, ChunkReturns(t) PROVE BatchOK'
  BY <1>24 DEF BatchOK, CallOK, batch, ChunkReturns
<1>25. ASSUME NEW t \in Thread, ChunkPanics(t) PROVE BatchOK'
  BY <1>25 DEF BatchOK, CallOK, batch, ChunkPanics, AfterPanic
<1>26. ASSUME NEW t \in Thread, SpuriousWakeup(t) PROVE BatchOK'
  BY <1>26 DEF BatchOK, CallOK, batch, SpuriousWakeup
<1>27. ASSUME NEW w \in Worker, Exit(w) PROVE BatchOK'
  BY <1>27 DEF BatchOK, CallOK, batch, Exit, Fresh
<1>28. ASSUME NEW w \in Worker, Join(w) PROVE BatchOK'
  BY <1>28 DEF BatchOK, CallOK, batch, Join, Fresh
<1>29. ASSUME NEW w \in Worker, Park(w) PROVE BatchOK'
  BY <1>29 DEF BatchOK, CallOK, batch, Park, Fresh
<1>30. ASSUME NEW w \in Worker, Close(w) PROVE BatchOK'
  BY <1>30 DEF BatchOK, CallOK, batch, Close, CloseBracket, LastOut
<1>31. ASSUME NEW w \in Worker, ClosePanicking(w) PROVE BatchOK'
  BY <1>31 DEF BatchOK, CallOK, batch, ClosePanicking, CloseBracket, LastOut
<1>32. CASE UNCHANGED vars
  BY <1>32 DEF BatchOK, CallOK, batch, vars
<1>. QED
  BY <1>1, <1>2, <1>3, <1>4, <1>5, <1>6, <1>7, <1>8, <1>9, <1>10, <1>11,
     <1>12, <1>13, <1>14, <1>15, <1>16, <1>17, <1>18, <1>19, <1>20, <1>21,
     <1>22, <1>23, <1>24, <1>25, <1>26, <1>27, <1>28, <1>29, <1>30, <1>31,
     <1>32, Actions

(* A step keeps the type of what a thread remembers between its critical   *)
(* sections. *)
LEMMA ThreadStep ==
  ASSUME ThreadOK, StateOK, BatchOK, [Next]_vars PROVE ThreadOK'
<1>1. CASE Spawn
  BY <1>1 DEF ThreadOK, StateOK, BatchOK, Spawn
<1>2. CASE SpawnFails
  BY <1>2 DEF ThreadOK, StateOK, BatchOK, SpawnFails
<1>3. CASE Built
  BY <1>3 DEF ThreadOK, StateOK, BatchOK, Built
<1>4. CASE FlagShutdown
  BY <1>4 DEF ThreadOK, StateOK, BatchOK, FlagShutdown
<1>5. CASE NotifyExit
  BY <1>5 DEF ThreadOK, StateOK, BatchOK, NotifyExit, WakeWorkers, Notified
<1>6. CASE JoinNext
  BY <1>6 DEF ThreadOK, StateOK, BatchOK, JoinNext
<1>7. CASE Gone
  BY <1>7 DEF ThreadOK, StateOK, BatchOK, Gone
<1>8. CASE InlineChunk
  BY <1>8 DEF ThreadOK, StateOK, BatchOK, InlineChunk
<1>9. CASE InlineChunkReturns
  <2>1. index' \in [Thread -> Nat]
    BY <1>9 DEF ThreadOK, InlineChunkReturns
  <2>. QED
    BY <1>9, <2>1 DEF ThreadOK, InlineChunkReturns
<1>10. CASE InlineChunkPanics
  BY <1>10 DEF ThreadOK, StateOK, BatchOK, InlineChunkPanics
<1>11. CASE InlineUnwinds
  BY <1>11 DEF ThreadOK, StateOK, BatchOK, InlineUnwinds
<1>12. CASE InlineReturns
  BY <1>12 DEF ThreadOK, StateOK, BatchOK, InlineReturns
<1>13. CASE NotifyWork
  BY <1>13 DEF ThreadOK, StateOK, BatchOK, NotifyWork, WakeWorkers, Notified
<1>14. CASE DrainWaits
  BY <1>14 DEF ThreadOK, StateOK, BatchOK, DrainWaits, BracketsClosed
<1>15. CASE Finish
  BY <1>15 DEF ThreadOK, StateOK, BatchOK, Finish, BracketsClosed, Retired
<1>16. CASE FinishUnwinding
  BY <1>16 DEF ThreadOK, StateOK, BatchOK, FinishUnwinding, BracketsClosed,
     Retired
<1>17. CASE Drop
  BY <1>17 DEF ThreadOK, StateOK, BatchOK, Drop
<1>18. CASE EmptyDispatch
  BY <1>18 DEF ThreadOK, StateOK, BatchOK, EmptyDispatch, Called
<1>19. ASSUME NEW n \in 1..MaxChunks, RefuseDispatch(n) PROVE ThreadOK'
  BY <1>19 DEF ThreadOK, StateOK, BatchOK, RefuseDispatch, Called, Usable
<1>20. ASSUME NEW n \in 1..MaxChunks, InlineDispatch(n) PROVE ThreadOK'
  BY <1>20 DEF ThreadOK, StateOK, BatchOK, InlineDispatch, Called, Inline,
     Usable
<1>21. ASSUME NEW n \in 1..MaxChunks, Publish(n) PROVE ThreadOK'
  BY <1>21 DEF ThreadOK, StateOK, BatchOK, Publish, Called, Inline,
     NextEpoch, Usable
<1>22. ASSUME NEW t \in Thread, ClaimChunk(t) PROVE ThreadOK'
  BY <1>22 DEF ThreadOK, StateOK, BatchOK, ClaimChunk, FetchAdd, ChunkLeft
<1>23. ASSUME NEW t \in Thread, ClaimNone(t) PROVE ThreadOK'
  BY <1>23 DEF ThreadOK, StateOK, BatchOK, ClaimNone, FetchAdd, ChunkLeft,
     AfterBatch
<1>24. ASSUME NEW t \in Thread, ChunkReturns(t) PROVE ThreadOK'
  BY <1>24 DEF ThreadOK, StateOK, BatchOK, ChunkReturns
<1>25. ASSUME NEW t \in Thread, ChunkPanics(t) PROVE ThreadOK'
  BY <1>25 DEF ThreadOK, StateOK, BatchOK, ChunkPanics, AfterPanic
<1>26. ASSUME NEW t \in Thread, SpuriousWakeup(t) PROVE ThreadOK'
  BY <1>26 DEF ThreadOK, StateOK, BatchOK, SpuriousWakeup
<1>27. ASSUME NEW w \in Worker, Exit(w) PROVE ThreadOK'
  BY <1>27 DEF ThreadOK, StateOK, BatchOK, Exit, Fresh
<1>28. ASSUME NEW w \in Worker, Join(w) PROVE ThreadOK'
  BY <1>28 DEF ThreadOK, StateOK, BatchOK, Join, Fresh
<1>29. ASSUME NEW w \in Worker, Park(w) PROVE ThreadOK'
  BY <1>29 DEF ThreadOK, StateOK, BatchOK, Park, Fresh
<1>30. ASSUME NEW w \in Worker, Close(w) PROVE ThreadOK'
  BY <1>30 DEF ThreadOK, StateOK, BatchOK, Close, CloseBracket, LastOut
<1>31. ASSUME NEW w \in Worker, ClosePanicking(w) PROVE ThreadOK'
  BY <1>31 DEF ThreadOK, StateOK, BatchOK, ClosePanicking, CloseBracket,
     LastOut
<1>32. CASE UNCHANGED vars
  BY <1>32 DEF ThreadOK, StateOK, BatchOK, vars
<1>. QED
  BY <1>1, <1>2, <1>3, <1>4, <1>5, <1>6, <1>7, <1>8, <1>9, <1>10, <1>11,
     <1>12, <1>13, <1>14, <1>15, <1>16, <1>17, <1>18, <1>19, <1>20, <1>21,
     <1>22, <1>23, <1>24, <1>25, <1>26, <1>27, <1>28, <1>29, <1>30, <1>31,
     <1>32, Actions

(* A step keeps the type of the caller's own records. *)
LEMMA CallStep ==
  ASSUME CallOK, BatchOK, ThreadOK, [Next]_vars PROVE CallOK'
<1>1. CASE Spawn
  BY <1>1 DEF CallOK, BatchOK, ThreadOK, Index, pool, history, Spawn
<1>2. CASE SpawnFails
  BY <1>2 DEF CallOK, BatchOK, ThreadOK, Index, pool, history, SpawnFails
<1>3. CASE Built
  BY <1>3 DEF CallOK, BatchOK, ThreadOK, Index, pool, history, Built
<1>4. CASE FlagShutdown
  BY <1>4 DEF CallOK, BatchOK, ThreadOK, Index, pool, history, FlagShutdown
<1>5. CASE NotifyExit
  BY <1>5 DEF CallOK, BatchOK, ThreadOK, Index, pool, history, NotifyExit,
     WakeWorkers, Notified
<1>6. CASE JoinNext
  BY <1>6 DEF CallOK, BatchOK, ThreadOK, Index, pool, history, JoinNext
<1>7. CASE Gone
  BY <1>7 DEF CallOK, BatchOK, ThreadOK, Index, pool, history, Gone
<1>8. CASE InlineChunk
  BY <1>8 DEF CallOK, BatchOK, ThreadOK, Index, pool, history, InlineChunk
<1>9. CASE InlineChunkReturns
  <2>1. index[Caller] \in Nat
    BY DEF ThreadOK
  <2>. QED
    BY <1>9, <2>1 DEF CallOK, InlineChunkReturns, pool
<1>10. CASE InlineChunkPanics
  BY <1>10 DEF CallOK, BatchOK, ThreadOK, Index, pool, history,
     InlineChunkPanics
<1>11. CASE InlineUnwinds
  BY <1>11 DEF CallOK, BatchOK, ThreadOK, Index, pool, history, InlineUnwinds
<1>12. CASE InlineReturns
  BY <1>12 DEF CallOK, BatchOK, ThreadOK, Index, pool, history, InlineReturns
<1>13. CASE NotifyWork
  BY <1>13 DEF CallOK, BatchOK, ThreadOK, Index, pool, history, NotifyWork,
     WakeWorkers, Notified
<1>14. CASE DrainWaits
  BY <1>14 DEF CallOK, BatchOK, ThreadOK, Index, pool, history, DrainWaits,
     BracketsClosed
<1>15. CASE Finish
  BY <1>15 DEF CallOK, BatchOK, ThreadOK, Index, pool, history, Finish,
     BracketsClosed, Retired
<1>16. CASE FinishUnwinding
  BY <1>16 DEF CallOK, BatchOK, ThreadOK, Index, pool, history,
     FinishUnwinding, BracketsClosed, Retired
<1>17. CASE Drop
  BY <1>17 DEF CallOK, BatchOK, ThreadOK, Index, pool, history, Drop
<1>18. CASE EmptyDispatch
  BY <1>18 DEF CallOK, BatchOK, ThreadOK, Index, pool, history,
     EmptyDispatch, Called
<1>19. ASSUME NEW n \in 1..MaxChunks, RefuseDispatch(n) PROVE CallOK'
  BY <1>19 DEF CallOK, BatchOK, ThreadOK, Index, pool, history,
     RefuseDispatch, Called, Usable
<1>20. ASSUME NEW n \in 1..MaxChunks, InlineDispatch(n) PROVE CallOK'
  BY <1>20 DEF CallOK, BatchOK, ThreadOK, Index, pool, history,
     InlineDispatch, Called, Inline, Usable
<1>21. ASSUME NEW n \in 1..MaxChunks, Publish(n) PROVE CallOK'
  BY <1>21 DEF CallOK, BatchOK, ThreadOK, Index, pool, history, Publish,
     Called, Inline, NextEpoch, Usable
<1>22. ASSUME NEW t \in Thread, ClaimChunk(t) PROVE CallOK'
  BY <1>22 DEF CallOK, BatchOK, ThreadOK, Index, pool, history, ClaimChunk,
     FetchAdd, ChunkLeft
<1>23. ASSUME NEW t \in Thread, ClaimNone(t) PROVE CallOK'
  BY <1>23 DEF CallOK, BatchOK, ThreadOK, Index, pool, history, ClaimNone,
     FetchAdd, ChunkLeft, AfterBatch
<1>24. ASSUME NEW t \in Thread, ChunkReturns(t) PROVE CallOK'
  BY <1>24 DEF CallOK, BatchOK, ThreadOK, Index, pool, history, ChunkReturns
<1>25. ASSUME NEW t \in Thread, ChunkPanics(t) PROVE CallOK'
  BY <1>25 DEF CallOK, BatchOK, ThreadOK, Index, pool, history, ChunkPanics,
     AfterPanic
<1>26. ASSUME NEW t \in Thread, SpuriousWakeup(t) PROVE CallOK'
  BY <1>26 DEF CallOK, BatchOK, ThreadOK, Index, pool, history, SpuriousWakeup
<1>27. ASSUME NEW w \in Worker, Exit(w) PROVE CallOK'
  BY <1>27 DEF CallOK, BatchOK, ThreadOK, Index, pool, history, Exit, Fresh
<1>28. ASSUME NEW w \in Worker, Join(w) PROVE CallOK'
  BY <1>28 DEF CallOK, BatchOK, ThreadOK, Index, pool, history, Join, Fresh
<1>29. ASSUME NEW w \in Worker, Park(w) PROVE CallOK'
  BY <1>29 DEF CallOK, BatchOK, ThreadOK, Index, pool, history, Park, Fresh
<1>30. ASSUME NEW w \in Worker, Close(w) PROVE CallOK'
  BY <1>30 DEF CallOK, BatchOK, ThreadOK, Index, pool, history, Close,
     CloseBracket, LastOut
<1>31. ASSUME NEW w \in Worker, ClosePanicking(w) PROVE CallOK'
  BY <1>31 DEF CallOK, BatchOK, ThreadOK, Index, pool, history,
     ClosePanicking, CloseBracket, LastOut
<1>32. CASE UNCHANGED vars
  BY <1>32 DEF CallOK, BatchOK, ThreadOK, Index, pool, history, vars
<1>. QED
  BY <1>1, <1>2, <1>3, <1>4, <1>5, <1>6, <1>7, <1>8, <1>9, <1>10, <1>11,
     <1>12, <1>13, <1>14, <1>15, <1>16, <1>17, <1>18, <1>19, <1>20, <1>21,
     <1>22, <1>23, <1>24, <1>25, <1>26, <1>27, <1>28, <1>29, <1>30, <1>31,
     <1>32, Actions

-----------------------------------------------------------------------------
(* The count of the open brackets *)

(* Every step that opens or closes a bracket counts it (worker_main,       *)
(* WorkerGuard::drop). *)
LEMMA ActiveStep ==
  ASSUME ActiveCounts, PcOK, CallOK, UnspawnedPc, [Next]_vars PROVE ActiveCounts'
<1>1. CASE Spawn
  <2>1. InBracket' = InBracket
    BY <1>1 DEF InBracket, PcOK, Spawn, CallerPc, WorkerPc, UnspawnedPc, CallOK
  <2>2. active' = active
    BY <1>1 DEF Spawn, state
  <2>. QED
    BY <2>1, <2>2 DEF ActiveCounts
<1>2. CASE SpawnFails
  <2>1. InBracket' = InBracket
    BY <1>2 DEF InBracket, PcOK, SpawnFails, CallerPc, WorkerPc
  <2>2. active' = active
    BY <1>2 DEF SpawnFails, state
  <2>. QED
    BY <2>1, <2>2 DEF ActiveCounts
<1>3. CASE Built
  <2>1. InBracket' = InBracket
    BY <1>3 DEF InBracket, PcOK, Built, CallerPc, WorkerPc
  <2>2. active' = active
    BY <1>3 DEF Built, state
  <2>. QED
    BY <2>1, <2>2 DEF ActiveCounts
<1>4. CASE FlagShutdown
  <2>1. InBracket' = InBracket
    BY <1>4 DEF InBracket, PcOK, FlagShutdown, CallerPc, WorkerPc
  <2>2. active' = active
    BY <1>4 DEF FlagShutdown, state
  <2>. QED
    BY <2>1, <2>2 DEF ActiveCounts
<1>5. CASE NotifyExit
  <2>1. InBracket' = InBracket
    BY <1>5 DEF InBracket, PcOK, NotifyExit, WakeWorkers, Notified,
       CallerPc, WorkerPc
  <2>2. active' = active
    BY <1>5 DEF NotifyExit, WakeWorkers, state
  <2>. QED
    BY <2>1, <2>2 DEF ActiveCounts
<1>6. CASE JoinNext
  <2>1. InBracket' = InBracket
    BY <1>6 DEF InBracket, PcOK, JoinNext, CallerPc, WorkerPc
  <2>2. active' = active
    BY <1>6 DEF JoinNext, state
  <2>. QED
    BY <2>1, <2>2 DEF ActiveCounts
<1>7. CASE Gone
  <2>1. InBracket' = InBracket
    BY <1>7 DEF InBracket, PcOK, Gone, CallerPc, WorkerPc
  <2>2. active' = active
    BY <1>7 DEF Gone, state
  <2>. QED
    BY <2>1, <2>2 DEF ActiveCounts
<1>8. CASE InlineChunk
  <2>1. InBracket' = InBracket
    BY <1>8 DEF InBracket, PcOK, InlineChunk, CallerPc, WorkerPc
  <2>2. active' = active
    BY <1>8 DEF InlineChunk, state
  <2>. QED
    BY <2>1, <2>2 DEF ActiveCounts
<1>9. CASE InlineChunkReturns
  <2>1. InBracket' = InBracket
    BY <1>9 DEF InBracket, PcOK, InlineChunkReturns, CallerPc, WorkerPc
  <2>2. active' = active
    BY <1>9 DEF InlineChunkReturns, state
  <2>. QED
    BY <2>1, <2>2 DEF ActiveCounts
<1>10. CASE InlineChunkPanics
  <2>1. InBracket' = InBracket
    BY <1>10 DEF InBracket, PcOK, InlineChunkPanics, CallerPc, WorkerPc
  <2>2. active' = active
    BY <1>10 DEF InlineChunkPanics, state
  <2>. QED
    BY <2>1, <2>2 DEF ActiveCounts
<1>11. CASE InlineUnwinds
  <2>1. InBracket' = InBracket
    BY <1>11 DEF InBracket, PcOK, InlineUnwinds, CallerPc, WorkerPc
  <2>2. active' = active
    BY <1>11 DEF InlineUnwinds, state
  <2>. QED
    BY <2>1, <2>2 DEF ActiveCounts
<1>12. CASE InlineReturns
  <2>1. InBracket' = InBracket
    BY <1>12 DEF InBracket, PcOK, InlineReturns, CallerPc, WorkerPc
  <2>2. active' = active
    BY <1>12 DEF InlineReturns, state
  <2>. QED
    BY <2>1, <2>2 DEF ActiveCounts
<1>13. CASE NotifyWork
  <2>1. InBracket' = InBracket
    BY <1>13 DEF InBracket, PcOK, NotifyWork, WakeWorkers, Notified,
       CallerPc, WorkerPc
  <2>2. active' = active
    BY <1>13 DEF NotifyWork, WakeWorkers, state
  <2>. QED
    BY <2>1, <2>2 DEF ActiveCounts
<1>14. CASE DrainWaits
  <2>1. InBracket' = InBracket
    BY <1>14 DEF InBracket, PcOK, DrainWaits, BracketsClosed, CallerPc,
       WorkerPc
  <2>2. active' = active
    BY <1>14 DEF DrainWaits, state
  <2>. QED
    BY <2>1, <2>2 DEF ActiveCounts
<1>15. CASE Finish
  <2>1. InBracket' = InBracket
    BY <1>15 DEF InBracket, PcOK, Finish, BracketsClosed, Retired,
       CallerPc, WorkerPc
  <2>2. active' = active
    BY <1>15 DEF Finish, state
  <2>. QED
    BY <2>1, <2>2 DEF ActiveCounts
<1>16. CASE FinishUnwinding
  <2>1. InBracket' = InBracket
    BY <1>16 DEF InBracket, PcOK, FinishUnwinding, BracketsClosed, Retired,
       CallerPc, WorkerPc
  <2>2. active' = active
    BY <1>16 DEF FinishUnwinding, state
  <2>. QED
    BY <2>1, <2>2 DEF ActiveCounts
<1>17. CASE Drop
  <2>1. InBracket' = InBracket
    BY <1>17 DEF InBracket, PcOK, Drop, CallerPc, WorkerPc
  <2>2. active' = active
    BY <1>17 DEF Drop, state
  <2>. QED
    BY <2>1, <2>2 DEF ActiveCounts
<1>18. CASE EmptyDispatch
  <2>1. InBracket' = InBracket
    BY <1>18 DEF InBracket, PcOK, EmptyDispatch, Called, CallerPc, WorkerPc
  <2>2. active' = active
    BY <1>18 DEF EmptyDispatch, state
  <2>. QED
    BY <2>1, <2>2 DEF ActiveCounts
<1>19. ASSUME NEW n \in 1..MaxChunks, RefuseDispatch(n) PROVE ActiveCounts'
  <2>1. InBracket' = InBracket
    BY <1>19 DEF InBracket, PcOK, RefuseDispatch, Called, Usable, CallerPc,
       WorkerPc
  <2>2. active' = active
    BY <1>19 DEF RefuseDispatch, state
  <2>. QED
    BY <2>1, <2>2 DEF ActiveCounts
<1>20. ASSUME NEW n \in 1..MaxChunks, InlineDispatch(n) PROVE ActiveCounts'
  <2>1. InBracket' = InBracket
    BY <1>20 DEF InBracket, PcOK, InlineDispatch, Called, Inline, Usable,
       CallerPc, WorkerPc
  <2>2. active' = active
    BY <1>20 DEF InlineDispatch, state
  <2>. QED
    BY <2>1, <2>2 DEF ActiveCounts
<1>21. ASSUME NEW n \in 1..MaxChunks, Publish(n) PROVE ActiveCounts'
  <2>1. InBracket' = InBracket
    BY <1>21 DEF InBracket, PcOK, Publish, Called, Inline, NextEpoch,
       Usable, CallerPc, WorkerPc
  <2>2. active' = active
    BY <1>21 DEF Publish, state
  <2>. QED
    BY <2>1, <2>2 DEF ActiveCounts
<1>22. ASSUME NEW t \in Thread, ClaimChunk(t) PROVE ActiveCounts'
  <2>1. InBracket' = InBracket
    BY <1>22 DEF InBracket, PcOK, ClaimChunk, FetchAdd, ChunkLeft,
       CallerPc, WorkerPc
  <2>2. active' = active
    BY <1>22 DEF ClaimChunk, state
  <2>. QED
    BY <2>1, <2>2 DEF ActiveCounts
<1>23. ASSUME NEW t \in Thread, ClaimNone(t) PROVE ActiveCounts'
  <2>1. InBracket' = InBracket
    BY <1>23 DEF InBracket, PcOK, ClaimNone, FetchAdd, ChunkLeft,
       AfterBatch, CallerPc, WorkerPc
  <2>2. active' = active
    BY <1>23 DEF ClaimNone, state
  <2>. QED
    BY <2>1, <2>2 DEF ActiveCounts
<1>24. ASSUME NEW t \in Thread, ChunkReturns(t) PROVE ActiveCounts'
  <2>1. InBracket' = InBracket
    BY <1>24 DEF InBracket, PcOK, ChunkReturns, CallerPc, WorkerPc
  <2>2. active' = active
    BY <1>24 DEF ChunkReturns, state
  <2>. QED
    BY <2>1, <2>2 DEF ActiveCounts
<1>25. ASSUME NEW t \in Thread, ChunkPanics(t) PROVE ActiveCounts'
  <2>1. InBracket' = InBracket
    BY <1>25 DEF InBracket, PcOK, ChunkPanics, AfterPanic, CallerPc, WorkerPc
  <2>2. active' = active
    BY <1>25 DEF ChunkPanics, state
  <2>. QED
    BY <2>1, <2>2 DEF ActiveCounts
<1>26. ASSUME NEW t \in Thread, SpuriousWakeup(t) PROVE ActiveCounts'
  <2>1. InBracket' = InBracket
    BY <1>26 DEF InBracket, PcOK, SpuriousWakeup, CallerPc, WorkerPc
  <2>2. active' = active
    BY <1>26 DEF SpuriousWakeup, state
  <2>. QED
    BY <2>1, <2>2 DEF ActiveCounts
<1>27. ASSUME NEW w \in Worker, Exit(w) PROVE ActiveCounts'
  <2>1. InBracket' = InBracket
    BY <1>27 DEF InBracket, PcOK, Exit, Fresh, CallerPc, WorkerPc
  <2>2. active' = active
    BY <1>27 DEF Exit, state
  <2>. QED
    BY <2>1, <2>2 DEF ActiveCounts
<1>28. ASSUME NEW w \in Worker, Join(w) PROVE ActiveCounts'
  <2>1. w \notin InBracket /\ InBracket' = InBracket \cup {w}
    BY <1>28 DEF InBracket, PcOK, Join
  <2>2. Cardinality(InBracket') = Cardinality(InBracket) + 1
    BY <2>1, BracketFinite, FS_AddElement
  <2>. QED
    BY <1>28, <2>2 DEF ActiveCounts, Join
<1>29. ASSUME NEW w \in Worker, Park(w) PROVE ActiveCounts'
  <2>1. InBracket' = InBracket
    BY <1>29 DEF InBracket, PcOK, Park, Fresh, CallerPc, WorkerPc
  <2>2. active' = active
    BY <1>29 DEF Park, state
  <2>. QED
    BY <2>1, <2>2 DEF ActiveCounts
<1>30. ASSUME NEW w \in Worker, Close(w) PROVE ActiveCounts'
  <2>1. w \in InBracket /\ InBracket' = InBracket \ {w}
    BY <1>30 DEF InBracket, PcOK, Close, CloseBracket
  <2>2. Cardinality(InBracket') = Cardinality(InBracket) - 1
    BY <2>1, BracketFinite, FS_RemoveElement
  <2>. QED
    BY <1>30, <2>2 DEF ActiveCounts, Close, CloseBracket
<1>31. ASSUME NEW w \in Worker, ClosePanicking(w) PROVE ActiveCounts'
  <2>1. w \in InBracket /\ InBracket' = InBracket \ {w}
    BY <1>31 DEF InBracket, PcOK, ClosePanicking, CloseBracket
  <2>2. Cardinality(InBracket') = Cardinality(InBracket) - 1
    BY <2>1, BracketFinite, FS_RemoveElement
  <2>. QED
    BY <1>31, <2>2 DEF ActiveCounts, ClosePanicking, CloseBracket
<1>32. CASE UNCHANGED vars
  BY <1>32 DEF vars, state, ActiveCounts, InBracket
<1>. QED
  BY <1>1, <1>2, <1>3, <1>4, <1>5, <1>6, <1>7, <1>8, <1>9, <1>10, <1>11,
     <1>12, <1>13, <1>14, <1>15, <1>16, <1>17, <1>18, <1>19, <1>20, <1>21,
     <1>22, <1>23, <1>24, <1>25, <1>26, <1>27, <1>28, <1>29, <1>30, <1>31,
     <1>32, Actions

-----------------------------------------------------------------------------
(* The live frame is the published one; it lives exactly as long as the    *)
(* dispatcher is between the publication and the end of the barrier.       *)

(* The published pointer names the live frame until the barrier retires    *)
(* both in one critical section (dispatch, drain). *)
LEMMA FrameTaskStep ==
  ASSUME FrameIsTask, [Next]_vars PROVE FrameIsTask'
<1>1. CASE Spawn
  BY <1>1 DEF FrameIsTask, batch, state, Spawn
<1>2. CASE SpawnFails
  BY <1>2 DEF FrameIsTask, batch, state, SpawnFails
<1>3. CASE Built
  BY <1>3 DEF FrameIsTask, batch, state, Built
<1>4. CASE FlagShutdown
  BY <1>4 DEF FrameIsTask, batch, state, FlagShutdown
<1>5. CASE NotifyExit
  BY <1>5 DEF FrameIsTask, batch, state, NotifyExit, WakeWorkers, Notified
<1>6. CASE JoinNext
  BY <1>6 DEF FrameIsTask, batch, state, JoinNext
<1>7. CASE Gone
  BY <1>7 DEF FrameIsTask, batch, state, Gone
<1>8. CASE InlineChunk
  BY <1>8 DEF FrameIsTask, batch, state, InlineChunk
<1>9. CASE InlineChunkReturns
  BY <1>9 DEF FrameIsTask, batch, state, InlineChunkReturns
<1>10. CASE InlineChunkPanics
  BY <1>10 DEF FrameIsTask, batch, state, InlineChunkPanics
<1>11. CASE InlineUnwinds
  BY <1>11 DEF FrameIsTask, batch, state, InlineUnwinds
<1>12. CASE InlineReturns
  BY <1>12 DEF FrameIsTask, batch, state, InlineReturns
<1>13. CASE NotifyWork
  BY <1>13 DEF FrameIsTask, batch, state, NotifyWork, WakeWorkers, Notified
<1>14. CASE DrainWaits
  BY <1>14 DEF FrameIsTask, batch, state, DrainWaits, BracketsClosed
<1>15. CASE Finish
  BY <1>15 DEF FrameIsTask, batch, state, Finish, BracketsClosed, Retired
<1>16. CASE FinishUnwinding
  BY <1>16 DEF FrameIsTask, batch, state, FinishUnwinding, BracketsClosed,
     Retired
<1>17. CASE Drop
  BY <1>17 DEF FrameIsTask, batch, state, Drop
<1>18. CASE EmptyDispatch
  BY <1>18 DEF FrameIsTask, batch, state, EmptyDispatch, Called
<1>19. ASSUME NEW n \in 1..MaxChunks, RefuseDispatch(n) PROVE FrameIsTask'
  BY <1>19 DEF FrameIsTask, batch, state, RefuseDispatch, Called, Usable
<1>20. ASSUME NEW n \in 1..MaxChunks, InlineDispatch(n) PROVE FrameIsTask'
  BY <1>20 DEF FrameIsTask, batch, state, InlineDispatch, Called, Inline,
     Usable
<1>21. ASSUME NEW n \in 1..MaxChunks, Publish(n) PROVE FrameIsTask'
  BY <1>21 DEF FrameIsTask, batch, state, Publish, Called, Inline, NextEpoch,
     Usable
<1>22. ASSUME NEW t \in Thread, ClaimChunk(t) PROVE FrameIsTask'
  BY <1>22 DEF FrameIsTask, batch, state, ClaimChunk, FetchAdd, ChunkLeft
<1>23. ASSUME NEW t \in Thread, ClaimNone(t) PROVE FrameIsTask'
  BY <1>23 DEF FrameIsTask, batch, state, ClaimNone, FetchAdd, ChunkLeft,
     AfterBatch
<1>24. ASSUME NEW t \in Thread, ChunkReturns(t) PROVE FrameIsTask'
  BY <1>24 DEF FrameIsTask, batch, state, ChunkReturns
<1>25. ASSUME NEW t \in Thread, ChunkPanics(t) PROVE FrameIsTask'
  BY <1>25 DEF FrameIsTask, batch, state, ChunkPanics, AfterPanic
<1>26. ASSUME NEW t \in Thread, SpuriousWakeup(t) PROVE FrameIsTask'
  BY <1>26 DEF FrameIsTask, batch, state, SpuriousWakeup
<1>27. ASSUME NEW w \in Worker, Exit(w) PROVE FrameIsTask'
  BY <1>27 DEF FrameIsTask, batch, state, Exit, Fresh
<1>28. ASSUME NEW w \in Worker, Join(w) PROVE FrameIsTask'
  BY <1>28 DEF FrameIsTask, batch, state, Join, Fresh
<1>29. ASSUME NEW w \in Worker, Park(w) PROVE FrameIsTask'
  BY <1>29 DEF FrameIsTask, batch, state, Park, Fresh
<1>30. ASSUME NEW w \in Worker, Close(w) PROVE FrameIsTask'
  BY <1>30 DEF FrameIsTask, batch, state, Close, CloseBracket, LastOut
<1>31. ASSUME NEW w \in Worker, ClosePanicking(w) PROVE FrameIsTask'
  BY <1>31 DEF FrameIsTask, batch, state, ClosePanicking, CloseBracket, LastOut
<1>32. CASE UNCHANGED vars
  BY <1>32 DEF FrameIsTask, batch, state, vars
<1>. QED
  BY <1>1, <1>2, <1>3, <1>4, <1>5, <1>6, <1>7, <1>8, <1>9, <1>10, <1>11,
     <1>12, <1>13, <1>14, <1>15, <1>16, <1>17, <1>18, <1>19, <1>20, <1>21,
     <1>22, <1>23, <1>24, <1>25, <1>26, <1>27, <1>28, <1>29, <1>30, <1>31,
     <1>32, Actions

(* The frame is live exactly while the dispatcher is between publication   *)
(* and the end of the barrier. *)
LEMMA FrameLivesStep ==
  ASSUME FrameLives, PcOK, BatchOK, CallOK, [Next]_vars PROVE FrameLives'
<1>1. CASE Spawn
  BY <1>1 DEF FrameLives, LivePc, PcOK, CallerPc, WorkerPc, batch, Spawn,
     CallOK
<1>2. CASE SpawnFails
  BY <1>2 DEF FrameLives, LivePc, PcOK, CallerPc, WorkerPc, batch, SpawnFails
<1>3. CASE Built
  BY <1>3 DEF FrameLives, LivePc, PcOK, CallerPc, WorkerPc, batch, Built
<1>4. CASE FlagShutdown
  BY <1>4 DEF FrameLives, LivePc, PcOK, CallerPc, WorkerPc, batch, FlagShutdown
<1>5. CASE NotifyExit
  BY <1>5 DEF FrameLives, LivePc, PcOK, CallerPc, WorkerPc, batch,
     NotifyExit, WakeWorkers, Notified
<1>6. CASE JoinNext
  BY <1>6 DEF FrameLives, LivePc, PcOK, CallerPc, WorkerPc, batch, JoinNext
<1>7. CASE Gone
  BY <1>7 DEF FrameLives, LivePc, PcOK, CallerPc, WorkerPc, batch, Gone
<1>8. CASE InlineChunk
  BY <1>8 DEF FrameLives, LivePc, PcOK, CallerPc, WorkerPc, batch, InlineChunk
<1>9. CASE InlineChunkReturns
  BY <1>9 DEF FrameLives, LivePc, PcOK, CallerPc, WorkerPc, batch,
     InlineChunkReturns
<1>10. CASE InlineChunkPanics
  BY <1>10 DEF FrameLives, LivePc, PcOK, CallerPc, WorkerPc, batch,
     InlineChunkPanics
<1>11. CASE InlineUnwinds
  BY <1>11 DEF FrameLives, LivePc, PcOK, CallerPc, WorkerPc, batch,
     InlineUnwinds
<1>12. CASE InlineReturns
  BY <1>12 DEF FrameLives, LivePc, PcOK, CallerPc, WorkerPc, batch,
     InlineReturns
<1>13. CASE NotifyWork
  BY <1>13 DEF FrameLives, LivePc, PcOK, CallerPc, WorkerPc, batch,
     NotifyWork, WakeWorkers, Notified
<1>14. CASE DrainWaits
  BY <1>14 DEF FrameLives, LivePc, PcOK, CallerPc, WorkerPc, batch,
     DrainWaits, BracketsClosed
<1>15. CASE Finish
  BY <1>15 DEF FrameLives, LivePc, PcOK, CallerPc, WorkerPc, batch, Finish,
     BracketsClosed, Retired
<1>16. CASE FinishUnwinding
  BY <1>16 DEF FrameLives, LivePc, PcOK, CallerPc, WorkerPc, batch,
     FinishUnwinding, BracketsClosed, Retired
<1>17. CASE Drop
  BY <1>17 DEF FrameLives, LivePc, PcOK, CallerPc, WorkerPc, batch, Drop
<1>18. CASE EmptyDispatch
  BY <1>18 DEF FrameLives, LivePc, PcOK, CallerPc, WorkerPc, batch,
     EmptyDispatch, Called
<1>19. ASSUME NEW n \in 1..MaxChunks, RefuseDispatch(n) PROVE FrameLives'
  BY <1>19 DEF FrameLives, LivePc, PcOK, CallerPc, WorkerPc, batch,
     RefuseDispatch, Called, Usable
<1>20. ASSUME NEW n \in 1..MaxChunks, InlineDispatch(n) PROVE FrameLives'
  BY <1>20 DEF FrameLives, LivePc, PcOK, CallerPc, WorkerPc, batch,
     InlineDispatch, Called, Inline, Usable
<1>21. ASSUME NEW n \in 1..MaxChunks, Publish(n) PROVE FrameLives'
  BY <1>21 DEF FrameLives, LivePc, PcOK, CallerPc, WorkerPc, batch, Publish,
     Called, Inline, NextEpoch, Usable, CallOK
<1>22. ASSUME NEW t \in Thread, ClaimChunk(t) PROVE FrameLives'
  BY <1>22 DEF FrameLives, LivePc, PcOK, CallerPc, WorkerPc, batch,
     ClaimChunk, FetchAdd, ChunkLeft
<1>23. ASSUME NEW t \in Thread, ClaimNone(t) PROVE FrameLives'
  BY <1>23 DEF FrameLives, LivePc, PcOK, CallerPc, WorkerPc, batch,
     ClaimNone, FetchAdd, ChunkLeft, AfterBatch
<1>24. ASSUME NEW t \in Thread, ChunkReturns(t) PROVE FrameLives'
  BY <1>24 DEF FrameLives, LivePc, PcOK, CallerPc, WorkerPc, batch,
     ChunkReturns
<1>25. ASSUME NEW t \in Thread, ChunkPanics(t) PROVE FrameLives'
  BY <1>25 DEF FrameLives, LivePc, PcOK, CallerPc, WorkerPc, batch,
     ChunkPanics, AfterPanic
<1>26. ASSUME NEW t \in Thread, SpuriousWakeup(t) PROVE FrameLives'
  BY <1>26 DEF FrameLives, LivePc, PcOK, CallerPc, WorkerPc, batch,
     SpuriousWakeup
<1>27. ASSUME NEW w \in Worker, Exit(w) PROVE FrameLives'
  BY <1>27 DEF FrameLives, LivePc, PcOK, CallerPc, WorkerPc, batch, Exit, Fresh
<1>28. ASSUME NEW w \in Worker, Join(w) PROVE FrameLives'
  BY <1>28 DEF FrameLives, LivePc, PcOK, CallerPc, WorkerPc, batch, Join, Fresh
<1>29. ASSUME NEW w \in Worker, Park(w) PROVE FrameLives'
  BY <1>29 DEF FrameLives, LivePc, PcOK, CallerPc, WorkerPc, batch, Park, Fresh
<1>30. ASSUME NEW w \in Worker, Close(w) PROVE FrameLives'
  BY <1>30 DEF FrameLives, LivePc, PcOK, CallerPc, WorkerPc, batch, Close,
     CloseBracket, LastOut
<1>31. ASSUME NEW w \in Worker, ClosePanicking(w) PROVE FrameLives'
  BY <1>31 DEF FrameLives, LivePc, PcOK, CallerPc, WorkerPc, batch,
     ClosePanicking, CloseBracket, LastOut
<1>32. CASE UNCHANGED vars
  BY <1>32 DEF FrameLives, LivePc, PcOK, CallerPc, WorkerPc, batch, vars
<1>. QED
  BY <1>1, <1>2, <1>3, <1>4, <1>5, <1>6, <1>7, <1>8, <1>9, <1>10, <1>11,
     <1>12, <1>13, <1>14, <1>15, <1>16, <1>17, <1>18, <1>19, <1>20, <1>21,
     <1>22, <1>23, <1>24, <1>25, <1>26, <1>27, <1>28, <1>29, <1>30, <1>31,
     <1>32, Actions

(* Nothing is published once shutdown is flagged (shutdown_and_join). *)
LEMMA ShutdownStep ==
  ASSUME ShutdownPc, PcOK, CallOK, [Next]_vars PROVE ShutdownPc'
<1>1. CASE Spawn
  BY <1>1 DEF ShutdownPc, PcOK, state, Spawn, CallOK
<1>2. CASE SpawnFails
  BY <1>2 DEF ShutdownPc, PcOK, state, SpawnFails
<1>3. CASE Built
  BY <1>3 DEF ShutdownPc, PcOK, state, Built
<1>4. CASE FlagShutdown
  BY <1>4 DEF ShutdownPc, PcOK, state, FlagShutdown
<1>5. CASE NotifyExit
  BY <1>5 DEF ShutdownPc, PcOK, state, NotifyExit, WakeWorkers, Notified
<1>6. CASE JoinNext
  BY <1>6 DEF ShutdownPc, PcOK, state, JoinNext
<1>7. CASE Gone
  BY <1>7 DEF ShutdownPc, PcOK, state, Gone
<1>8. CASE InlineChunk
  BY <1>8 DEF ShutdownPc, PcOK, state, InlineChunk
<1>9. CASE InlineChunkReturns
  BY <1>9 DEF ShutdownPc, PcOK, state, InlineChunkReturns
<1>10. CASE InlineChunkPanics
  BY <1>10 DEF ShutdownPc, PcOK, state, InlineChunkPanics
<1>11. CASE InlineUnwinds
  BY <1>11 DEF ShutdownPc, PcOK, state, InlineUnwinds
<1>12. CASE InlineReturns
  BY <1>12 DEF ShutdownPc, PcOK, state, InlineReturns
<1>13. CASE NotifyWork
  BY <1>13 DEF ShutdownPc, PcOK, state, NotifyWork, WakeWorkers, Notified
<1>14. CASE DrainWaits
  BY <1>14 DEF ShutdownPc, PcOK, state, DrainWaits, BracketsClosed
<1>15. CASE Finish
  BY <1>15 DEF ShutdownPc, PcOK, state, Finish, BracketsClosed, Retired
<1>16. CASE FinishUnwinding
  BY <1>16 DEF ShutdownPc, PcOK, state, FinishUnwinding, BracketsClosed,
     Retired
<1>17. CASE Drop
  BY <1>17 DEF ShutdownPc, PcOK, state, Drop
<1>18. CASE EmptyDispatch
  BY <1>18 DEF ShutdownPc, PcOK, state, EmptyDispatch, Called
<1>19. ASSUME NEW n \in 1..MaxChunks, RefuseDispatch(n) PROVE ShutdownPc'
  BY <1>19 DEF ShutdownPc, PcOK, state, RefuseDispatch, Called, Usable
<1>20. ASSUME NEW n \in 1..MaxChunks, InlineDispatch(n) PROVE ShutdownPc'
  BY <1>20 DEF ShutdownPc, PcOK, state, InlineDispatch, Called, Inline, Usable
<1>21. ASSUME NEW n \in 1..MaxChunks, Publish(n) PROVE ShutdownPc'
  BY <1>21 DEF ShutdownPc, PcOK, state, Publish, Called, Inline, NextEpoch,
     Usable
<1>22. ASSUME NEW t \in Thread, ClaimChunk(t) PROVE ShutdownPc'
  BY <1>22 DEF ShutdownPc, PcOK, state, ClaimChunk, FetchAdd, ChunkLeft
<1>23. ASSUME NEW t \in Thread, ClaimNone(t) PROVE ShutdownPc'
  BY <1>23 DEF ShutdownPc, PcOK, state, ClaimNone, FetchAdd, ChunkLeft,
     AfterBatch
<1>24. ASSUME NEW t \in Thread, ChunkReturns(t) PROVE ShutdownPc'
  BY <1>24 DEF ShutdownPc, PcOK, state, ChunkReturns
<1>25. ASSUME NEW t \in Thread, ChunkPanics(t) PROVE ShutdownPc'
  BY <1>25 DEF ShutdownPc, PcOK, state, ChunkPanics, AfterPanic
<1>26. ASSUME NEW t \in Thread, SpuriousWakeup(t) PROVE ShutdownPc'
  BY <1>26 DEF ShutdownPc, PcOK, state, SpuriousWakeup
<1>27. ASSUME NEW w \in Worker, Exit(w) PROVE ShutdownPc'
  BY <1>27 DEF ShutdownPc, PcOK, state, Exit, Fresh
<1>28. ASSUME NEW w \in Worker, Join(w) PROVE ShutdownPc'
  BY <1>28 DEF ShutdownPc, PcOK, state, Join, Fresh
<1>29. ASSUME NEW w \in Worker, Park(w) PROVE ShutdownPc'
  BY <1>29 DEF ShutdownPc, PcOK, state, Park, Fresh
<1>30. ASSUME NEW w \in Worker, Close(w) PROVE ShutdownPc'
  BY <1>30 DEF ShutdownPc, PcOK, state, Close, CloseBracket, LastOut
<1>31. ASSUME NEW w \in Worker, ClosePanicking(w) PROVE ShutdownPc'
  BY <1>31 DEF ShutdownPc, PcOK, state, ClosePanicking, CloseBracket, LastOut
<1>32. CASE UNCHANGED vars
  BY <1>32 DEF ShutdownPc, PcOK, state, vars
<1>. QED
  BY <1>1, <1>2, <1>3, <1>4, <1>5, <1>6, <1>7, <1>8, <1>9, <1>10, <1>11,
     <1>12, <1>13, <1>14, <1>15, <1>16, <1>17, <1>18, <1>19, <1>20, <1>21,
     <1>22, <1>23, <1>24, <1>25, <1>26, <1>27, <1>28, <1>29, <1>30, <1>31,
     <1>32, Actions

(* A thread not yet spawned is in no bracket (build). *)
LEMMA UnspawnedStep ==
  ASSUME UnspawnedPc, PcOK, CallOK, [Next]_vars PROVE UnspawnedPc'
<1>1. CASE Spawn
  BY <1>1 DEF UnspawnedPc, PcOK, pool, Spawn, CallOK
<1>2. CASE SpawnFails
  BY <1>2 DEF UnspawnedPc, PcOK, pool, SpawnFails
<1>3. CASE Built
  BY <1>3 DEF UnspawnedPc, PcOK, pool, Built
<1>4. CASE FlagShutdown
  BY <1>4 DEF UnspawnedPc, PcOK, pool, FlagShutdown
<1>5. CASE NotifyExit
  BY <1>5 DEF UnspawnedPc, PcOK, pool, NotifyExit, WakeWorkers, Notified
<1>6. CASE JoinNext
  BY <1>6 DEF UnspawnedPc, PcOK, pool, JoinNext
<1>7. CASE Gone
  BY <1>7 DEF UnspawnedPc, PcOK, pool, Gone
<1>8. CASE InlineChunk
  BY <1>8 DEF UnspawnedPc, PcOK, pool, InlineChunk
<1>9. CASE InlineChunkReturns
  BY <1>9 DEF UnspawnedPc, PcOK, pool, InlineChunkReturns
<1>10. CASE InlineChunkPanics
  BY <1>10 DEF UnspawnedPc, PcOK, pool, InlineChunkPanics
<1>11. CASE InlineUnwinds
  BY <1>11 DEF UnspawnedPc, PcOK, pool, InlineUnwinds
<1>12. CASE InlineReturns
  BY <1>12 DEF UnspawnedPc, PcOK, pool, InlineReturns
<1>13. CASE NotifyWork
  BY <1>13 DEF UnspawnedPc, PcOK, pool, NotifyWork, WakeWorkers, Notified
<1>14. CASE DrainWaits
  BY <1>14 DEF UnspawnedPc, PcOK, pool, DrainWaits, BracketsClosed
<1>15. CASE Finish
  BY <1>15 DEF UnspawnedPc, PcOK, pool, Finish, BracketsClosed, Retired
<1>16. CASE FinishUnwinding
  BY <1>16 DEF UnspawnedPc, PcOK, pool, FinishUnwinding, BracketsClosed,
     Retired
<1>17. CASE Drop
  BY <1>17 DEF UnspawnedPc, PcOK, pool, Drop
<1>18. CASE EmptyDispatch
  BY <1>18 DEF UnspawnedPc, PcOK, pool, EmptyDispatch, Called
<1>19. ASSUME NEW n \in 1..MaxChunks, RefuseDispatch(n) PROVE UnspawnedPc'
  BY <1>19 DEF UnspawnedPc, PcOK, pool, RefuseDispatch, Called, Usable
<1>20. ASSUME NEW n \in 1..MaxChunks, InlineDispatch(n) PROVE UnspawnedPc'
  BY <1>20 DEF UnspawnedPc, PcOK, pool, InlineDispatch, Called, Inline, Usable
<1>21. ASSUME NEW n \in 1..MaxChunks, Publish(n) PROVE UnspawnedPc'
  BY <1>21 DEF UnspawnedPc, PcOK, pool, Publish, Called, Inline, NextEpoch,
     Usable
<1>22. ASSUME NEW t \in Thread, ClaimChunk(t) PROVE UnspawnedPc'
  BY <1>22 DEF UnspawnedPc, PcOK, pool, ClaimChunk, FetchAdd, ChunkLeft
<1>23. ASSUME NEW t \in Thread, ClaimNone(t) PROVE UnspawnedPc'
  BY <1>23 DEF UnspawnedPc, PcOK, pool, ClaimNone, FetchAdd, ChunkLeft,
     AfterBatch
<1>24. ASSUME NEW t \in Thread, ChunkReturns(t) PROVE UnspawnedPc'
  BY <1>24 DEF UnspawnedPc, PcOK, pool, ChunkReturns
<1>25. ASSUME NEW t \in Thread, ChunkPanics(t) PROVE UnspawnedPc'
  BY <1>25 DEF UnspawnedPc, PcOK, pool, ChunkPanics, AfterPanic
<1>26. ASSUME NEW t \in Thread, SpuriousWakeup(t) PROVE UnspawnedPc'
  BY <1>26 DEF UnspawnedPc, PcOK, pool, SpuriousWakeup
<1>27. ASSUME NEW w \in Worker, Exit(w) PROVE UnspawnedPc'
  BY <1>27 DEF UnspawnedPc, PcOK, pool, Exit, Fresh
<1>28. ASSUME NEW w \in Worker, Join(w) PROVE UnspawnedPc'
  BY <1>28 DEF UnspawnedPc, PcOK, pool, Join, Fresh
<1>29. ASSUME NEW w \in Worker, Park(w) PROVE UnspawnedPc'
  BY <1>29 DEF UnspawnedPc, PcOK, pool, Park, Fresh
<1>30. ASSUME NEW w \in Worker, Close(w) PROVE UnspawnedPc'
  BY <1>30 DEF UnspawnedPc, PcOK, pool, Close, CloseBracket, LastOut
<1>31. ASSUME NEW w \in Worker, ClosePanicking(w) PROVE UnspawnedPc'
  BY <1>31 DEF UnspawnedPc, PcOK, pool, ClosePanicking, CloseBracket, LastOut
<1>32. CASE UNCHANGED vars
  BY <1>32 DEF UnspawnedPc, PcOK, pool, vars
<1>. QED
  BY <1>1, <1>2, <1>3, <1>4, <1>5, <1>6, <1>7, <1>8, <1>9, <1>10, <1>11,
     <1>12, <1>13, <1>14, <1>15, <1>16, <1>17, <1>18, <1>19, <1>20, <1>21,
     <1>22, <1>23, <1>24, <1>25, <1>26, <1>27, <1>28, <1>29, <1>30, <1>31,
     <1>32, Actions

-----------------------------------------------------------------------------
(* No worker outlives the frame it uses.                                   *)

(* A step leaves no worker inside a bracket with a dead frame (drain). *)
LEMMA DanglingStep ==
  ASSUME NoDanglingFrame, ActiveCounts, FrameIsTask, FrameLives, UnspawnedPc, ThreadOK, PcOK, CallOK, [Next]_vars PROVE NoDanglingFrame'
<1>1. CASE Spawn
  BY <1>1 DEF NoDanglingFrame, InBracket, PcOK, batch, Spawn, CallOK,
     UnspawnedPc
<1>2. CASE SpawnFails
  BY <1>2 DEF NoDanglingFrame, InBracket, PcOK, batch, SpawnFails
<1>3. CASE Built
  BY <1>3 DEF NoDanglingFrame, InBracket, PcOK, batch, Built
<1>4. CASE FlagShutdown
  BY <1>4 DEF NoDanglingFrame, InBracket, PcOK, batch, FlagShutdown
<1>5. CASE NotifyExit
  BY <1>5 DEF NoDanglingFrame, InBracket, PcOK, batch, NotifyExit,
     WakeWorkers, Notified
<1>6. CASE JoinNext
  BY <1>6 DEF NoDanglingFrame, InBracket, PcOK, batch, JoinNext
<1>7. CASE Gone
  BY <1>7 DEF NoDanglingFrame, InBracket, PcOK, batch, Gone
<1>8. CASE InlineChunk
  BY <1>8 DEF NoDanglingFrame, InBracket, PcOK, batch, InlineChunk
<1>9. CASE InlineChunkReturns
  BY <1>9 DEF NoDanglingFrame, InBracket, PcOK, batch, InlineChunkReturns
<1>10. CASE InlineChunkPanics
  BY <1>10 DEF NoDanglingFrame, InBracket, PcOK, batch, InlineChunkPanics
<1>11. CASE InlineUnwinds
  BY <1>11 DEF NoDanglingFrame, InBracket, PcOK, batch, InlineUnwinds
<1>12. CASE InlineReturns
  BY <1>12 DEF NoDanglingFrame, InBracket, PcOK, batch, InlineReturns
<1>13. CASE NotifyWork
  BY <1>13 DEF NoDanglingFrame, InBracket, PcOK, batch, NotifyWork,
     WakeWorkers, Notified
<1>14. CASE DrainWaits
  BY <1>14 DEF NoDanglingFrame, InBracket, PcOK, batch, DrainWaits,
     BracketsClosed
<1>15. CASE Finish
  <2>1. InBracket = {}
    BY <1>15, BracketFinite, FS_EmptySet DEF Finish, BracketsClosed,
       ActiveCounts
  <2>. QED
    BY <1>15, <2>1 DEF NoDanglingFrame, InBracket, PcOK, Finish
<1>16. CASE FinishUnwinding
  <2>1. InBracket = {}
    BY <1>16, BracketFinite, FS_EmptySet DEF FinishUnwinding,
       BracketsClosed, ActiveCounts
  <2>. QED
    BY <1>16, <2>1 DEF NoDanglingFrame, InBracket, PcOK, FinishUnwinding
<1>17. CASE Drop
  BY <1>17 DEF NoDanglingFrame, InBracket, PcOK, batch, Drop
<1>18. CASE EmptyDispatch
  BY <1>18 DEF NoDanglingFrame, InBracket, PcOK, batch, EmptyDispatch, Called
<1>19. ASSUME NEW n \in 1..MaxChunks, RefuseDispatch(n) PROVE NoDanglingFrame'
  BY <1>19 DEF NoDanglingFrame, InBracket, PcOK, batch, RefuseDispatch,
     Called, Usable
<1>20. ASSUME NEW n \in 1..MaxChunks, InlineDispatch(n) PROVE NoDanglingFrame'
  BY <1>20 DEF NoDanglingFrame, InBracket, PcOK, batch, InlineDispatch,
     Called, Inline, Usable
<1>21. ASSUME NEW n \in 1..MaxChunks, Publish(n) PROVE NoDanglingFrame'
  BY <1>21 DEF NoDanglingFrame, InBracket, PcOK, batch, Publish, Called,
     Inline, NextEpoch, Usable, FrameLives, LivePc
<1>22. ASSUME NEW t \in Thread, ClaimChunk(t) PROVE NoDanglingFrame'
  BY <1>22 DEF NoDanglingFrame, InBracket, PcOK, batch, ClaimChunk, FetchAdd,
     ChunkLeft
<1>23. ASSUME NEW t \in Thread, ClaimNone(t) PROVE NoDanglingFrame'
  BY <1>23 DEF NoDanglingFrame, InBracket, PcOK, batch, ClaimNone, FetchAdd,
     ChunkLeft, AfterBatch
<1>24. ASSUME NEW t \in Thread, ChunkReturns(t) PROVE NoDanglingFrame'
  BY <1>24 DEF NoDanglingFrame, InBracket, PcOK, batch, ChunkReturns
<1>25. ASSUME NEW t \in Thread, ChunkPanics(t) PROVE NoDanglingFrame'
  BY <1>25 DEF NoDanglingFrame, InBracket, PcOK, batch, ChunkPanics, AfterPanic
<1>26. ASSUME NEW t \in Thread, SpuriousWakeup(t) PROVE NoDanglingFrame'
  BY <1>26 DEF NoDanglingFrame, InBracket, PcOK, batch, SpuriousWakeup
<1>27. ASSUME NEW w \in Worker, Exit(w) PROVE NoDanglingFrame'
  BY <1>27 DEF NoDanglingFrame, InBracket, PcOK, batch, Exit, Fresh
<1>28. ASSUME NEW w \in Worker, Join(w) PROVE NoDanglingFrame'
  BY <1>28 DEF NoDanglingFrame, InBracket, PcOK, batch, Join, Fresh,
     FrameIsTask, ThreadOK
<1>29. ASSUME NEW w \in Worker, Park(w) PROVE NoDanglingFrame'
  BY <1>29 DEF NoDanglingFrame, InBracket, PcOK, batch, Park, Fresh
<1>30. ASSUME NEW w \in Worker, Close(w) PROVE NoDanglingFrame'
  BY <1>30 DEF NoDanglingFrame, InBracket, PcOK, batch, Close, CloseBracket,
     LastOut
<1>31. ASSUME NEW w \in Worker, ClosePanicking(w) PROVE NoDanglingFrame'
  BY <1>31 DEF NoDanglingFrame, InBracket, PcOK, batch, ClosePanicking,
     CloseBracket, LastOut
<1>32. CASE UNCHANGED vars
  BY <1>32 DEF NoDanglingFrame, InBracket, PcOK, batch, vars
<1>. QED
  BY <1>1, <1>2, <1>3, <1>4, <1>5, <1>6, <1>7, <1>8, <1>9, <1>10, <1>11,
     <1>12, <1>13, <1>14, <1>15, <1>16, <1>17, <1>18, <1>19, <1>20, <1>21,
     <1>22, <1>23, <1>24, <1>25, <1>26, <1>27, <1>28, <1>29, <1>30, <1>31,
     <1>32, Actions

-----------------------------------------------------------------------------
(* Nobody sleeps through the event it waits for.                           *)

(* A dispatcher asleep in the barrier has a bracket to wait for, after any  *)
(* step (drain, WorkerGuard::drop). *)
LEMMA BarrierStep ==
  ASSUME BarrierIsAwake, ActiveCounts, StateOK, PcOK, CallOK, [Next]_vars PROVE BarrierIsAwake'
<1>1. CASE Spawn
  BY <1>1 DEF BarrierIsAwake, PcOK, state, Spawn, CallOK
<1>2. CASE SpawnFails
  BY <1>2 DEF BarrierIsAwake, PcOK, state, SpawnFails
<1>3. CASE Built
  BY <1>3 DEF BarrierIsAwake, PcOK, state, Built
<1>4. CASE FlagShutdown
  BY <1>4 DEF BarrierIsAwake, PcOK, state, FlagShutdown
<1>5. CASE NotifyExit
  BY <1>5 DEF BarrierIsAwake, PcOK, state, NotifyExit, WakeWorkers, Notified
<1>6. CASE JoinNext
  BY <1>6 DEF BarrierIsAwake, PcOK, state, JoinNext
<1>7. CASE Gone
  BY <1>7 DEF BarrierIsAwake, PcOK, state, Gone
<1>8. CASE InlineChunk
  BY <1>8 DEF BarrierIsAwake, PcOK, state, InlineChunk
<1>9. CASE InlineChunkReturns
  BY <1>9 DEF BarrierIsAwake, PcOK, state, InlineChunkReturns
<1>10. CASE InlineChunkPanics
  BY <1>10 DEF BarrierIsAwake, PcOK, state, InlineChunkPanics
<1>11. CASE InlineUnwinds
  BY <1>11 DEF BarrierIsAwake, PcOK, state, InlineUnwinds
<1>12. CASE InlineReturns
  BY <1>12 DEF BarrierIsAwake, PcOK, state, InlineReturns
<1>13. CASE NotifyWork
  BY <1>13 DEF BarrierIsAwake, PcOK, state, NotifyWork, WakeWorkers, Notified
<1>14. CASE DrainWaits
  BY <1>14 DEF BarrierIsAwake, PcOK, state, DrainWaits, BracketsClosed
<1>15. CASE Finish
  BY <1>15 DEF BarrierIsAwake, PcOK, state, Finish, BracketsClosed, Retired
<1>16. CASE FinishUnwinding
  BY <1>16 DEF BarrierIsAwake, PcOK, state, FinishUnwinding, BracketsClosed,
     Retired
<1>17. CASE Drop
  BY <1>17 DEF BarrierIsAwake, PcOK, state, Drop
<1>18. CASE EmptyDispatch
  BY <1>18 DEF BarrierIsAwake, PcOK, state, EmptyDispatch, Called
<1>19. ASSUME NEW n \in 1..MaxChunks, RefuseDispatch(n) PROVE BarrierIsAwake'
  BY <1>19 DEF BarrierIsAwake, PcOK, state, RefuseDispatch, Called, Usable
<1>20. ASSUME NEW n \in 1..MaxChunks, InlineDispatch(n) PROVE BarrierIsAwake'
  BY <1>20 DEF BarrierIsAwake, PcOK, state, InlineDispatch, Called, Inline,
     Usable
<1>21. ASSUME NEW n \in 1..MaxChunks, Publish(n) PROVE BarrierIsAwake'
  BY <1>21 DEF BarrierIsAwake, PcOK, state, Publish, Called, Inline,
     NextEpoch, Usable
<1>22. ASSUME NEW t \in Thread, ClaimChunk(t) PROVE BarrierIsAwake'
  BY <1>22 DEF BarrierIsAwake, PcOK, state, ClaimChunk, FetchAdd, ChunkLeft
<1>23. ASSUME NEW t \in Thread, ClaimNone(t) PROVE BarrierIsAwake'
  BY <1>23 DEF BarrierIsAwake, PcOK, state, ClaimNone, FetchAdd, ChunkLeft,
     AfterBatch
<1>24. ASSUME NEW t \in Thread, ChunkReturns(t) PROVE BarrierIsAwake'
  BY <1>24 DEF BarrierIsAwake, PcOK, state, ChunkReturns
<1>25. ASSUME NEW t \in Thread, ChunkPanics(t) PROVE BarrierIsAwake'
  BY <1>25 DEF BarrierIsAwake, PcOK, state, ChunkPanics, AfterPanic
<1>26. ASSUME NEW t \in Thread, SpuriousWakeup(t) PROVE BarrierIsAwake'
  BY <1>26 DEF BarrierIsAwake, PcOK, state, SpuriousWakeup
<1>27. ASSUME NEW w \in Worker, Exit(w) PROVE BarrierIsAwake'
  BY <1>27 DEF BarrierIsAwake, PcOK, state, Exit, Fresh
<1>28. ASSUME NEW w \in Worker, Join(w) PROVE BarrierIsAwake'
  BY <1>28 DEF BarrierIsAwake, PcOK, state, Join, Fresh, StateOK
<1>29. ASSUME NEW w \in Worker, Park(w) PROVE BarrierIsAwake'
  BY <1>29 DEF BarrierIsAwake, PcOK, state, Park, Fresh
<1>30. ASSUME NEW w \in Worker, Close(w) PROVE BarrierIsAwake'
  BY <1>30 DEF BarrierIsAwake, PcOK, state, Close, CloseBracket, LastOut
<1>31. ASSUME NEW w \in Worker, ClosePanicking(w) PROVE BarrierIsAwake'
  BY <1>31 DEF BarrierIsAwake, PcOK, state, ClosePanicking, CloseBracket,
     LastOut
<1>32. CASE UNCHANGED vars
  BY <1>32 DEF BarrierIsAwake, PcOK, state, vars
<1>. QED
  BY <1>1, <1>2, <1>3, <1>4, <1>5, <1>6, <1>7, <1>8, <1>9, <1>10, <1>11,
     <1>12, <1>13, <1>14, <1>15, <1>16, <1>17, <1>18, <1>19, <1>20, <1>21,
     <1>22, <1>23, <1>24, <1>25, <1>26, <1>27, <1>28, <1>29, <1>30, <1>31,
     <1>32, Actions

(* A worker asleep has nothing to do that no notification is on its way    *)
(* for, after any step (worker_main, dispatch). *)
LEMMA WakeupStep ==
  ASSUME NoLostWakeup, ShutdownPc, PcOK, CallOK, ThreadOK, [Next]_vars PROVE NoLostWakeup'
<1>1. CASE Spawn
  BY <1>1 DEF NoLostWakeup, PcOK, state, Spawn, CallOK
<1>2. CASE SpawnFails
  BY <1>2 DEF NoLostWakeup, PcOK, state, SpawnFails
<1>3. CASE Built
  BY <1>3 DEF NoLostWakeup, PcOK, state, Built, ShutdownPc
<1>4. CASE FlagShutdown
  BY <1>4 DEF NoLostWakeup, PcOK, state, FlagShutdown
<1>5. CASE NotifyExit
  BY <1>5 DEF NoLostWakeup, PcOK, state, NotifyExit, WakeWorkers, Notified
<1>6. CASE JoinNext
  BY <1>6 DEF NoLostWakeup, PcOK, state, JoinNext
<1>7. CASE Gone
  BY <1>7 DEF NoLostWakeup, PcOK, state, Gone, ShutdownPc
<1>8. CASE InlineChunk
  BY <1>8 DEF NoLostWakeup, PcOK, state, InlineChunk
<1>9. CASE InlineChunkReturns
  BY <1>9 DEF NoLostWakeup, PcOK, state, InlineChunkReturns
<1>10. CASE InlineChunkPanics
  BY <1>10 DEF NoLostWakeup, PcOK, state, InlineChunkPanics
<1>11. CASE InlineUnwinds
  BY <1>11 DEF NoLostWakeup, PcOK, state, InlineUnwinds
<1>12. CASE InlineReturns
  BY <1>12 DEF NoLostWakeup, PcOK, state, InlineReturns
<1>13. CASE NotifyWork
  BY <1>13 DEF NoLostWakeup, PcOK, state, NotifyWork, WakeWorkers, Notified
<1>14. CASE DrainWaits
  BY <1>14 DEF NoLostWakeup, PcOK, state, DrainWaits, BracketsClosed
<1>15. CASE Finish
  BY <1>15 DEF NoLostWakeup, PcOK, state, Finish, BracketsClosed, Retired
<1>16. CASE FinishUnwinding
  BY <1>16 DEF NoLostWakeup, PcOK, state, FinishUnwinding, BracketsClosed,
     Retired
<1>17. CASE Drop
  BY <1>17 DEF NoLostWakeup, PcOK, state, Drop
<1>18. CASE EmptyDispatch
  BY <1>18 DEF NoLostWakeup, PcOK, state, EmptyDispatch, Called
<1>19. ASSUME NEW n \in 1..MaxChunks, RefuseDispatch(n) PROVE NoLostWakeup'
  BY <1>19 DEF NoLostWakeup, PcOK, state, RefuseDispatch, Called, Usable
<1>20. ASSUME NEW n \in 1..MaxChunks, InlineDispatch(n) PROVE NoLostWakeup'
  BY <1>20 DEF NoLostWakeup, PcOK, state, InlineDispatch, Called, Inline,
     Usable
<1>21. ASSUME NEW n \in 1..MaxChunks, Publish(n) PROVE NoLostWakeup'
  BY <1>21 DEF NoLostWakeup, PcOK, state, Publish, Called, Inline, NextEpoch,
     Usable
<1>22. ASSUME NEW t \in Thread, ClaimChunk(t) PROVE NoLostWakeup'
  BY <1>22 DEF NoLostWakeup, PcOK, state, ClaimChunk, FetchAdd, ChunkLeft
<1>23. ASSUME NEW t \in Thread, ClaimNone(t) PROVE NoLostWakeup'
  BY <1>23 DEF NoLostWakeup, PcOK, state, ClaimNone, FetchAdd, ChunkLeft,
     AfterBatch
<1>24. ASSUME NEW t \in Thread, ChunkReturns(t) PROVE NoLostWakeup'
  BY <1>24 DEF NoLostWakeup, PcOK, state, ChunkReturns
<1>25. ASSUME NEW t \in Thread, ChunkPanics(t) PROVE NoLostWakeup'
  BY <1>25 DEF NoLostWakeup, PcOK, state, ChunkPanics, AfterPanic
<1>26. ASSUME NEW t \in Thread, SpuriousWakeup(t) PROVE NoLostWakeup'
  BY <1>26 DEF NoLostWakeup, PcOK, state, SpuriousWakeup
<1>27. ASSUME NEW w \in Worker, Exit(w) PROVE NoLostWakeup'
  BY <1>27 DEF NoLostWakeup, PcOK, state, Exit, Fresh
<1>28. ASSUME NEW w \in Worker, Join(w) PROVE NoLostWakeup'
  BY <1>28 DEF NoLostWakeup, PcOK, state, Join, Fresh, ThreadOK
<1>29. ASSUME NEW w \in Worker, Park(w) PROVE NoLostWakeup'
  BY <1>29 DEF NoLostWakeup, PcOK, state, Park, Fresh
<1>30. ASSUME NEW w \in Worker, Close(w) PROVE NoLostWakeup'
  BY <1>30 DEF NoLostWakeup, PcOK, state, Close, CloseBracket, LastOut
<1>31. ASSUME NEW w \in Worker, ClosePanicking(w) PROVE NoLostWakeup'
  BY <1>31 DEF NoLostWakeup, PcOK, state, ClosePanicking, CloseBracket, LastOut
<1>32. CASE UNCHANGED vars
  BY <1>32 DEF NoLostWakeup, PcOK, state, vars
<1>. QED
  BY <1>1, <1>2, <1>3, <1>4, <1>5, <1>6, <1>7, <1>8, <1>9, <1>10, <1>11,
     <1>12, <1>13, <1>14, <1>15, <1>16, <1>17, <1>18, <1>19, <1>20, <1>21,
     <1>22, <1>23, <1>24, <1>25, <1>26, <1>27, <1>28, <1>29, <1>30, <1>31,
     <1>32, Actions

-----------------------------------------------------------------------------

(* The inductive invariant: the count of brackets, the life of the frame   *)
(* and the sleepers hold in every state of every pool. *)
THEOREM BracketInvariant == Spec => []BracketInv
<1>1. Init => BracketInv
  <2> SUFFICES ASSUME Init PROVE BracketInv
    OBVIOUS
  <2>0. PcOK
    BY DEF Init, PcOK, WorkerPc, CallerPc
  <2>1. TypeOK
    <3>1. StateOK
      <4>1. {panicked, poisoned, shutdown} \subseteq BOOLEAN
        BY Zenon DEF Init
      <4>. QED
        BY <4>1 DEF Init, StateOK
    <3>4. BatchOK
      BY DEF Init, BatchOK
    <3>2. ThreadOK
      BY DEF Init, ThreadOK
    <3>3. CallOK
      BY DEF Init, CallOK, Index
    <3>. QED
      BY <2>0, <3>1, <3>2, <3>3, <3>4 DEF TypeOK
  <2>2. InBracket = {}
    BY DEF Init, InBracket
  <2>3. ActiveCounts
    BY <2>2, FS_EmptySet DEF Init, ActiveCounts
  <2>. QED
    BY <2>1, <2>2, <2>3 DEF Init, BracketInv, FrameIsTask, FrameLives,
       ShutdownPc, UnspawnedPc, NoDanglingFrame, BarrierIsAwake,
       NoLostWakeup, LivePc
<1>2. BracketInv /\ [Next]_vars => BracketInv'
  BY PcStep, StateStep, BatchStepOK, ThreadStep, CallStep, ActiveStep,
     FrameTaskStep, FrameLivesStep,
     ShutdownStep, UnspawnedStep, DanglingStep, BarrierStep, WakeupStep DEF BracketInv, TypeOK
<1>. QED
  BY <1>1, <1>2, PTL DEF Spec

(* Every variable of the pool keeps its type, for any number of workers.   *)
THEOREM TypeCorrect == Spec => []TypeOK
<1>1. BracketInv => TypeOK
  BY DEF BracketInv
<1>. QED
  BY <1>1, BracketInvariant, PTL

(* The argument of the SAFETY comment at TaskRef: no worker can reach the  *)
(* dispatcher's stack frame after it died.                                 *)
THEOREM BracketSound == Spec => []NoDanglingFrame
<1>1. BracketInv => NoDanglingFrame
  BY DEF BracketInv
<1>. QED
  BY <1>1, BracketInvariant, PTL

(* The two waits of the pool lose no wakeup: a worker asleep has nothing   *)
(* to do, a dispatcher asleep has a bracket to wait for.                   *)
THEOREM NoSleeper == Spec => [](NoLostWakeup /\ BarrierIsAwake)
<1>1. BracketInv => NoLostWakeup /\ BarrierIsAwake
  BY DEF BracketInv
<1>. QED
  BY <1>1, BracketInvariant, PTL

-----------------------------------------------------------------------------
(* The pool implements ParallelFor. A call is the time the caller is in a  *)
(* dispatch or runs its plan inline; a chunk is claimed before it is run,  *)
(* by one thread, and the pool is broken as soon as some chunk panics.     *)

InlinePc == {"inline", "inlineRun", "inlineUnwind"}

BusyPc == Busy <=> pc[Caller] \in LivePc \cup InlinePc

(* No two threads run one chunk, and what is run has been claimed.         *)
RunsApart ==
  \A t \in Thread : Running(t) =>
    /\ index[t] < Cursor /\ index[t] < chunks
    /\ \A u \in Thread \ {t} : Running(u) => index[u] # index[t]

(* The caller waits for the brackets when no chunk is left to claim.       *)
AllClaimed == pc[Caller] \in {"drain", "parked"} => next >= chunks

(* A call begins on a sound pool; only a worker's panic spoils it.         *)
PanicsTold ==
  /\ pc[Caller] \in LivePc => (panicked <=> poisoned)
  /\ pc[Caller] \in InlinePc => ~poisoned

RunInv == BusyPc /\ RunsApart /\ AllClaimed /\ PanicsTold

(* The frame is alive as long as somebody is inside a bracket.             *)
LEMMA InsideIsLive ==
  ASSUME BracketInv, NEW t \in Thread,
         pc[t] \in {"claim", "run", "close", "closePanic", "drain", "unwind"}
  PROVE  pc[Caller] \in LivePc
<1>1. CASE t = Caller
  BY <1>1 DEF LivePc, BracketInv, TypeOK, PcOK, CallerPc
<1>2. CASE t # Caller
  <2>1. t \in Worker /\ pc[t] \in WorkerPc
    BY <1>2 DEF BracketInv, TypeOK, PcOK
  <2>2. t \in InBracket
    BY <2>1 DEF InBracket, WorkerPc
  <2> QED  BY <2>2 DEF BracketInv, NoDanglingFrame, FrameLives
<1> QED  BY <1>1, <1>2

(* Out of a dispatch no worker runs, and none unwinds.                     *)
LEMMA NobodyInside ==
  ASSUME BracketInv, pc[Caller] \notin LivePc
  PROVE  \A w \in Worker : ~Running(w) /\ ~Unwinding(w)
<1> SUFFICES ASSUME NEW w \in Worker PROVE ~Running(w) /\ ~Unwinding(w)
  OBVIOUS
<1>1. w \in Thread /\ pc[w] \in WorkerPc
  BY DEF BracketInv, TypeOK, PcOK
<1>2. pc[w] \notin {"claim", "run", "close", "closePanic"}
  BY <1>1, InsideIsLive
<1> QED  BY <1>1, <1>2 DEF Running, Unwinding, WorkerPc

(* The numbers, for citation.                                              *)
LEMMA Numbers ==
  ASSUME BracketInv
  PROVE  /\ next \in Nat /\ chunks \in Nat /\ chunks <= MaxChunks
         /\ \A t \in Thread : index[t] \in Nat
         /\ index \in [Thread -> Nat] /\ Caller \in Thread /\ DOMAIN pc = Thread
         /\ pc[Caller] \in CallerPc /\ \A w \in Worker : pc[w] \in WorkerPc
         /\ MaxChunks \in Nat /\ N \in Nat
BY DEF BracketInv, TypeOK, BatchOK, ThreadOK, PcOK

(* In a dispatch the cursor is the batch's. *)
LEMMA LiveCursor == pc[Caller] \in LivePc => Cursor = next
BY DEF LivePc, Cursor

(* A step that starts, ends and breaks nothing. *)
Quiet ==
  /\ UNCHANGED <<index, next, chunks, poisoned, panicked, result, done>>
  /\ \A t \in Thread : (Running(t)' <=> Running(t)) /\ (Unwinding(t)' <=> Unwinding(t))
  /\ \A p \in InlinePc : pc'[Caller] = p <=> pc[Caller] = p
  /\ pc'[Caller] \in LivePc <=> pc[Caller] \in LivePc
  /\ pc'[Caller] \in {"drain", "parked"} => pc[Caller] \in {"drain", "parked"}

LEMMA QuietKeeps ==
  ASSUME RunInv, Quiet
  PROVE  RunInv' /\ UNCHANGED Promise!vars
<1>1. Cursor' = Cursor /\ Busy' = Busy
  BY DEF Quiet, Cursor, InlinePc, Busy
<1>2. BusyPc'
  BY <1>1 DEF RunInv, BusyPc, Quiet, InlinePc
<1>3. \A t \in Thread : (Running(t)' <=> Running(t)) /\ (Unwinding(t)' <=> Unwinding(t))
  BY DEF Quiet
<1>4. index' = index /\ chunks' = chunks /\ next' = next
      /\ poisoned' = poisoned /\ done' = done /\ result' = result
  BY DEF Quiet
<1>5. RunsApart'
  BY <1>1, <1>3, <1>4 DEF RunInv, RunsApart
<1>6. AllClaimed' /\ PanicsTold'
  BY DEF RunInv, AllClaimed, PanicsTold, Quiet, InlinePc
<1>7. Todo' = Todo
  BY <1>1, <1>4 DEF Todo
<1>8. Doing' = Doing
  <2>1. {u \in Thread : Running(u)}' = {u \in Thread : Running(u)}
    BY <1>3
  <2> QED  BY <1>4, <2>1 DEF Doing
<1>9. Broken' = Broken
  BY <1>3, <1>4 DEF Broken
<1> QED
  BY <1>1, <1>2, <1>4, <1>5, <1>6, <1>7, <1>8, <1>9 DEF RunInv, Promise!vars

(* Which steps are. *)
LEMMA QuietSteps ==
  ASSUME BracketInv, [Next]_vars
  PROVE  \/ Quiet
         \/ InlineChunk \/ InlineChunkReturns \/ InlineChunkPanics \/ InlineUnwinds
         \/ InlineReturns \/ Finish \/ FinishUnwinding \/ EmptyDispatch
         \/ (\E n \in 1..MaxChunks : RefuseDispatch(n) \/ InlineDispatch(n) \/ Publish(n))
         \/ (\E t \in Thread : ClaimChunk(t) \/ ClaimNone(t) \/ ChunkReturns(t) \/ ChunkPanics(t))
         \/ (\E w \in Worker : ClosePanicking(w))
<1>0. Caller \in Thread /\ DOMAIN pc = Thread /\ pc \in [Thread -> WorkerPc \cup CallerPc]
      /\ pc[Caller] \in CallerPc /\ \A w \in Worker : pc[w] \in WorkerPc
  BY Numbers DEF BracketInv, TypeOK, PcOK
<1> DEFINE Still(t) == (Running(t)' <=> Running(t)) /\ (Unwinding(t)' <=> Unwinding(t))
           Loud == {"run", "closePanic"} \cup InlinePc
           Same == UNCHANGED <<index, next, chunks, poisoned, panicked, result, done>>
<1>1. ASSUME Same, NEW t \in Thread, NEW from, NEW to, pc[t] = from,
             pc' = [pc EXCEPT ![t] = to],
             from \notin Loud, to \notin Loud,
             from \in {"unwind", "unwindParked"} <=> to \in {"unwind", "unwindParked"},
             t = Caller => /\ from \in LivePc <=> to \in LivePc
                           /\ to \in {"drain", "parked"} => from \in {"drain", "parked"}
      PROVE  Quiet
  <2>1. \A u \in Thread : pc'[u] = IF u = t THEN to ELSE pc[u]
    BY <1>0, <1>1
  <2>2. \A u \in Thread : Still(u)
    BY <1>1, <2>1 DEF Running, Unwinding, InlinePc
  <2> QED  BY <1>0, <1>1, <2>1, <2>2 DEF Quiet, InlinePc
<1>2. ASSUME NEW from \in {"notify", "notifyExit"}, NEW to \in {"claim", "join"},
             WakeWorkers(from, to), from = "notify" <=> to = "claim"
      PROVE  Quiet
  <2>1. /\ pc[Caller] = from /\ pc'[Caller] = to /\ Same
        /\ \A u \in Worker : pc'[u] = IF pc[u] = "parked" THEN "loop" ELSE pc[u]
    BY <1>0, <1>2 DEF WakeWorkers, Notified, state, batch, pool, history
  <2>2. \A u \in Thread : Still(u)
    BY <1>2, <2>1 DEF Running, Unwinding
  <2> QED  BY <1>2, <2>1, <2>2 DEF Quiet, InlinePc, LivePc
<1>3. ASSUME NEW w \in Worker, Close(w)
      PROVE  Quiet
  <2>1. /\ pc[w] = "close" /\ Same /\ w # Caller
        /\ \A u \in Thread \ {Caller} : pc'[u] = IF u = w THEN "loop" ELSE pc[u]
        /\ \/ pc'[Caller] = pc[Caller]
           \/ pc[Caller] = "parked" /\ pc'[Caller] = "drain"
           \/ pc[Caller] = "unwindParked" /\ pc'[Caller] = "unwind"
    BY <1>0, <1>3 DEF Close, CloseBracket, batch, pool, history
  <2>2. \A u \in Thread : Still(u)
    BY <2>1 DEF Running, Unwinding
  <2> QED  BY <2>1, <2>2 DEF Quiet, InlinePc, LivePc
<1>4. CASE Spawn
  <2>1. spawned + 1 \in Worker /\ pc[spawned + 1] = "unspawned"
    BY <1>4 DEF Spawn, BracketInv, TypeOK, CallOK, UnspawnedPc
  <2>2. Same /\ pc' = [pc EXCEPT ![spawned + 1] = "loop"]
    BY <1>4 DEF Spawn, state, batch, history
  <2>3. spawned + 1 \in Thread /\ spawned + 1 # Caller
    BY <2>1
  <2> DEFINE w == spawned + 1
  <2> HIDE DEF w
  <2>4. w \in Thread /\ w # Caller /\ pc[w] = "unspawned" /\ pc' = [pc EXCEPT ![w] = "loop"]
    BY <2>1, <2>2, <2>3 DEF w
  <2> QED  BY <1>1, <2>2, <2>4 DEF InlinePc
<1>5. CASE SpawnFails \/ Built \/ FlagShutdown \/ Gone \/ Drop
  <2> DEFINE Resting == {"build", "idle", "shutdown", "notifyExit", "join", "gone"}
  <2>1. Same /\ \E from, to \in Resting : pc[Caller] = from /\ pc' = [pc EXCEPT ![Caller] = to]
    BY <1>5 DEF SpawnFails, Built, FlagShutdown, Gone, Drop, state, batch, pool, history
  <2>2. PICK from \in Resting, to \in Resting :
          pc[Caller] = from /\ pc' = [pc EXCEPT ![Caller] = to]
    BY <2>1
  <2>3. /\ from \notin Loud /\ to \notin Loud /\ from \notin LivePc /\ to \notin LivePc
    BY DEF InlinePc, LivePc
  <2> QED  BY <1>0, <1>1, <2>1, <2>2, <2>3 DEF LivePc
<1>6. CASE NotifyExit \/ NotifyWork
  BY <1>2, <1>6 DEF NotifyExit, NotifyWork
<1>7. CASE JoinNext \/ UNCHANGED vars
  BY <1>7 DEF JoinNext, vars, state, batch, pool, history, Quiet, Running, Unwinding
<1>8. CASE DrainWaits
  <2>1. Same /\ \/ pc[Caller] = "drain" /\ pc' = [pc EXCEPT ![Caller] = "parked"]
                \/ pc[Caller] = "unwind" /\ pc' = [pc EXCEPT ![Caller] = "unwindParked"]
    BY <1>8 DEF DrainWaits, state, batch, pool, history
  <2> QED  BY <1>0, <1>1, <2>1 DEF InlinePc, LivePc
<1>9. ASSUME NEW t \in Thread, SpuriousWakeup(t)
      PROVE  Quiet
  <2>1. Same /\ \/ t # Caller /\ pc[t] = "parked" /\ pc' = [pc EXCEPT ![t] = "loop"]
                \/ t = Caller /\ pc[t] = "parked" /\ pc' = [pc EXCEPT ![t] = "drain"]
                \/ t = Caller /\ pc[t] = "unwindParked" /\ pc' = [pc EXCEPT ![t] = "unwind"]
    BY <1>9 DEF SpuriousWakeup, state, batch, pool, history
  <2> QED  BY <1>1, <2>1 DEF InlinePc, LivePc
<1>10. ASSUME NEW w \in Worker, Exit(w) \/ Join(w) \/ Park(w)
       PROVE  Quiet
  <2>1. Same /\ pc[w] = "loop" /\ \E to \in {"exited", "claim", "parked"} : pc' = [pc EXCEPT ![w] = to]
    BY <1>10 DEF Exit, Join, Park, state, batch, pool, history
  <2>2. w \in Thread /\ w # Caller
    OBVIOUS
  <2>3. PICK to \in {"exited", "claim", "parked"} : pc' = [pc EXCEPT ![w] = to]
    BY <2>1
  <2>4. to \notin Loud
    BY DEF InlinePc
  <2> QED  BY <1>1, <2>1, <2>2, <2>3, <2>4 DEF InlinePc
<1> QED
  BY <1>3, <1>4, <1>5, <1>6, <1>7, <1>8, <1>9, <1>10, Actions

(* The steps of a caller that runs its plan inline, and of one that is     *)
(* about to: nobody else runs or unwinds.                                  *)
LEMMA InlineStep ==
  ASSUME BracketInv, pc[Caller] \in InlinePc \cup {"idle"},
         NEW to \in InlinePc \cup {"idle", "notify"}, pc' = [pc EXCEPT ![Caller] = to]
  PROVE  /\ pc'[Caller] = to /\ pc[Caller] \notin LivePc
         /\ \A t \in Thread : (Running(t) <=> t = Caller /\ pc[Caller] = "inlineRun")
                              /\ (Running(t)' <=> t = Caller /\ to = "inlineRun")
         /\ Doing = IF pc[Caller] = "inlineRun" THEN {index[Caller]} ELSE {}
         /\ Doing' = IF to = "inlineRun" THEN {index'[Caller]} ELSE {}
         /\ Broken <=> poisoned \/ pc[Caller] = "inlineUnwind"
         /\ Broken' <=> poisoned' \/ to = "inlineUnwind"
<1>1. pc[Caller] \notin LivePc
  BY DEF InlinePc, LivePc
<1>2. \A w \in Worker : ~Running(w) /\ ~Unwinding(w)
  BY <1>1, NobodyInside
<1>3. /\ pc'[Caller] = to
      /\ \A w \in Worker : pc'[w] = pc[w]
  BY Numbers
<1>4. \A w \in Worker : ~Running(w)' /\ ~Unwinding(w)'
  BY <1>2, <1>3 DEF Running, Unwinding
<1>5. /\ Running(Caller) <=> pc[Caller] = "inlineRun"
      /\ Running(Caller)' <=> to = "inlineRun"
      /\ Unwinding(Caller) <=> pc[Caller] = "inlineUnwind"
      /\ Unwinding(Caller)' <=> to = "inlineUnwind"
  BY <1>3 DEF Running, Unwinding, InlinePc
<1>6. \A t \in Thread : t = Caller \/ t \in Worker
  BY Numbers
<1>7. \A t \in Thread : (Running(t) <=> t = Caller /\ pc[Caller] = "inlineRun")
                        /\ (Running(t)' <=> t = Caller /\ to = "inlineRun")
  BY <1>2, <1>4, <1>5, <1>6
<1>8. Caller \in Thread
  BY Numbers
<1>9. Doing = IF pc[Caller] = "inlineRun" THEN {index[Caller]} ELSE {}
  BY <1>7, <1>8 DEF Doing
<1>10. Doing' = IF to = "inlineRun" THEN {index'[Caller]} ELSE {}
  BY <1>7, <1>8 DEF Doing
<1>11. (\E t \in Thread : Unwinding(t)) <=> Unwinding(Caller)
  BY <1>2, <1>6, <1>8
<1>12. (\E t \in Thread : Unwinding(t)') <=> Unwinding(Caller)'
  BY <1>4, <1>6, <1>8
<1>13. Broken <=> poisoned \/ pc[Caller] = "inlineUnwind"
  BY <1>5, <1>11 DEF Broken
<1>14. Broken' <=> poisoned' \/ to = "inlineUnwind"
  BY <1>5, <1>12 DEF Broken
<1> QED  BY <1>1, <1>3, <1>7, <1>9, <1>10, <1>13, <1>14

LEMMA InlineKeeps ==
  ASSUME BracketInv, pc[Caller] \in InlinePc \cup {"idle"},
         NEW to \in InlinePc \cup {"idle"}, pc' = [pc EXCEPT ![Caller] = to],
         Busy' <=> to \in InlinePc,
         to = "inlineRun" => index'[Caller] \in Nat /\ index'[Caller] < chunks',
         to \in InlinePc => ~poisoned'
  PROVE  RunInv'
<1>1. /\ pc'[Caller] = to
      /\ \A t \in Thread : Running(t)' <=> t = Caller /\ to = "inlineRun"
  BY InlineStep
<1>2. to \notin LivePc /\ to \notin {"drain", "parked"}
  BY DEF InlinePc, LivePc
<1>3. BusyPc'
  BY <1>1, <1>2 DEF BusyPc
<1>4. to = "inlineRun" => Cursor' = index'[Caller] + 1
  BY <1>1 DEF Cursor
<1>5. RunsApart'
  BY <1>1, <1>4 DEF RunsApart
<1>6. AllClaimed' /\ PanicsTold'
  BY <1>1, <1>2 DEF AllClaimed, PanicsTold
<1> QED  BY <1>3, <1>5, <1>6 DEF RunInv

(* The inline loop begins a chunk. *)
LEMMA InlineChunkIs ==
  ASSUME BracketInv, RunInv, InlineChunk
  PROVE  RunInv' /\ index[Caller] \in Index /\ Promise!Begin(index[Caller])
<1> DEFINE i == index[Caller]
<1>1. /\ pc[Caller] = "inline" /\ pc' = [pc EXCEPT ![Caller] = "inlineRun"] /\ i < chunks
      /\ UNCHANGED <<index, chunks, next, poisoned, result, done>>
  BY DEF InlineChunk, state, batch, history
<1>2. i \in Nat /\ i \in Index /\ chunks <= MaxChunks /\ chunks \in Nat
  BY <1>1, Numbers DEF Index
<1>3. /\ pc'[Caller] = "inlineRun" /\ Doing = {} /\ Doing' = {i}
      /\ (Broken <=> poisoned) /\ (Broken' <=> poisoned')
  BY <1>1, InlineStep DEF InlinePc
<1>4. Busy /\ Busy' /\ ~poisoned
  BY <1>1 DEF RunInv, BusyPc, PanicsTold, Busy, InlinePc
<1>5. RunInv'
  BY <1>1, <1>2, <1>4, InlineKeeps DEF InlinePc
<1>6. Cursor = i /\ Cursor' = i + 1
  BY <1>1, <1>3 DEF Cursor
<1>7. i \in Todo /\ Todo' = Todo \ {i}
  BY <1>1, <1>2, <1>4, <1>6 DEF Todo, Index
<1>8. Broken' = Broken
  BY <1>1, <1>3 DEF Broken
<1> QED
  BY <1>1, <1>2, <1>3, <1>4, <1>5, <1>7, <1>8 DEF Promise!Begin, Busy

LEMMA InlineChunkReturnsIs ==
  ASSUME BracketInv, RunInv, InlineChunkReturns
  PROVE  RunInv' /\ index[Caller] \in Index /\ Promise!End(index[Caller])
<1> DEFINE i == index[Caller]
<1>1. /\ pc[Caller] = "inlineRun" /\ pc' = [pc EXCEPT ![Caller] = "inline"]
      /\ index' = [index EXCEPT ![Caller] = i + 1] /\ done' = done \cup {i}
      /\ UNCHANGED <<chunks, next, poisoned, result>>
  BY DEF InlineChunkReturns, state, batch
<1>2. i \in Nat /\ i \in Index /\ chunks <= MaxChunks /\ index'[Caller] = i + 1
  BY <1>1, Numbers DEF Index, RunInv, RunsApart, Running
<1>3. /\ pc'[Caller] = "inline" /\ Doing = {i} /\ Doing' = {}
      /\ (Broken <=> poisoned) /\ (Broken' <=> poisoned')
  BY <1>1, InlineStep DEF InlinePc
<1>4. Busy /\ Busy' /\ ~poisoned
  BY <1>1 DEF RunInv, BusyPc, PanicsTold, Busy, InlinePc
<1>5. RunInv'
  BY <1>1, <1>4, InlineKeeps DEF InlinePc
<1>6. Cursor = i + 1 /\ Cursor' = i + 1
  BY <1>1, <1>2, <1>3 DEF Cursor
<1>7. Todo' = Todo
  BY <1>1, <1>4, <1>6 DEF Todo
<1>8. Broken' = Broken
  BY <1>1, <1>3 DEF Broken
<1> QED
  BY <1>1, <1>2, <1>3, <1>4, <1>5, <1>7, <1>8 DEF Promise!End, Busy

LEMMA InlineChunkPanicsIs ==
  ASSUME BracketInv, RunInv, InlineChunkPanics
  PROVE  RunInv' /\ index[Caller] \in Index /\ Promise!Panic(index[Caller])
<1> DEFINE i == index[Caller]
<1>1. /\ pc[Caller] = "inlineRun" /\ pc' = [pc EXCEPT ![Caller] = "inlineUnwind"]
      /\ UNCHANGED <<index, chunks, next, poisoned, result, done>>
  BY DEF InlineChunkPanics, state, batch, history
<1>2. i \in Nat /\ i \in Index /\ chunks <= MaxChunks
  BY <1>1, Numbers DEF Index, RunInv, RunsApart, Running
<1>3. /\ pc'[Caller] = "inlineUnwind" /\ Doing = {i} /\ Doing' = {} /\ (Broken' <=> TRUE)
  BY <1>1, InlineStep DEF InlinePc
<1>4. Busy /\ Busy' /\ ~poisoned
  BY <1>1 DEF RunInv, BusyPc, PanicsTold, Busy, InlinePc
<1>5. RunInv'
  BY <1>1, <1>4, InlineKeeps DEF InlinePc
<1>6. Cursor = i + 1 /\ Cursor' = i + 1
  BY <1>1, <1>3 DEF Cursor
<1>7. Todo' = Todo
  BY <1>1, <1>4, <1>6 DEF Todo
<1>8. Broken' = TRUE
  BY <1>3 DEF Broken
<1> QED
  BY <1>1, <1>2, <1>3, <1>4, <1>5, <1>7, <1>8 DEF Promise!Panic, Busy

(* Both ends of an inline call. *)
LEMMA InlineEnds ==
  ASSUME BracketInv, RunInv, InlineUnwinds \/ InlineReturns
  PROVE  RunInv' /\ Promise!Return
<1>1. /\ pc[Caller] \in {"inlineUnwind", "inline"} /\ pc' = [pc EXCEPT ![Caller] = "idle"]
      /\ UNCHANGED <<index, chunks, done>> /\ result' \in {"panic", "ok"}
      /\ pc[Caller] = "inlineUnwind" => result' = "panic" /\ poisoned' = TRUE
      /\ pc[Caller] = "inline" => result' = "ok" /\ poisoned' = poisoned /\ index[Caller] >= chunks
  BY DEF InlineUnwinds, InlineReturns, state, batch, history
<1>2. /\ pc'[Caller] = "idle" /\ Doing = {} /\ Doing' = {}
      /\ (Broken <=> poisoned \/ pc[Caller] = "inlineUnwind") /\ (Broken' <=> poisoned')
  BY <1>1, InlineStep DEF InlinePc
<1>3. Busy /\ ~Busy' /\ ~poisoned
  BY <1>1 DEF RunInv, BusyPc, PanicsTold, Busy, InlinePc
<1>4. RunInv'
  BY <1>1, <1>3, InlineKeeps DEF InlinePc
<1>5. Todo' = {}
  BY <1>3 DEF Todo
<1>6. pc[Caller] = "inline" => Todo = {}
  <2>1. index[Caller] \in Nat /\ chunks \in Nat
    BY Numbers
  <2>2. pc[Caller] = "inline" => Cursor = index[Caller]
    BY DEF Cursor
  <2> QED  BY <1>1, <2>1, <2>2 DEF Todo, Index
<1>7. Broken' = Broken
  BY <1>1, <1>2, <1>3 DEF Broken
<1>8. pc[Caller] = "inlineUnwind" => Broken
  BY <1>2
<1>9. pc[Caller] = "inline" => ~Broken
  BY <1>2, <1>3
<1> QED
  BY <1>1, <1>2, <1>3, <1>4, <1>5, <1>6, <1>7, <1>8, <1>9 DEF Promise!Return, Busy

(* A call that has nothing to do, or is refused. *)
LEMMA NothingIs ==
  ASSUME BracketInv, RunInv,
         EmptyDispatch \/ \E n \in 1..MaxChunks : RefuseDispatch(n)
  PROVE  RunInv' /\ Promise!CallNothing
<1>1. /\ pc[Caller] = "idle" /\ pc' = pc /\ done' = {}
      /\ UNCHANGED <<index, poisoned>>
      /\ result' = "ok" \/ (result' = "refused" /\ poisoned)
  BY DEF EmptyDispatch, RefuseDispatch, Called, Usable, state
<1>2. pc' = [pc EXCEPT ![Caller] = "idle"]
  BY <1>1 DEF BracketInv, TypeOK, PcOK
<1>3. /\ Doing = {} /\ Doing' = {} /\ (Broken <=> poisoned) /\ (Broken' <=> poisoned')
  BY <1>1, <1>2, InlineStep DEF InlinePc
<1>4. ~Busy /\ ~Busy'
  BY <1>1 DEF RunInv, BusyPc, Busy, InlinePc, LivePc
<1>5. RunInv'
  BY <1>1, <1>2, <1>4, InlineKeeps DEF InlinePc
<1>6. Todo = {} /\ Todo' = {} /\ Broken' = Broken
  BY <1>1, <1>3, <1>4 DEF Todo, Broken
<1> QED
  BY <1>1, <1>3, <1>4, <1>5, <1>6 DEF Promise!CallNothing, Busy

(* A call that runs inline, and one that is published. *)
LEMMA CallIs ==
  ASSUME BracketInv, RunInv, NEW n \in 1..MaxChunks, InlineDispatch(n) \/ Publish(n)
  PROVE  RunInv' /\ Promise!Call(n)
<1> DEFINE to == IF InlineDispatch(n) THEN "inline" ELSE "notify"
<1>1. /\ pc[Caller] = "idle" /\ pc' = [pc EXCEPT ![Caller] = to] /\ done' = {} /\ chunks' = n
      /\ result' = "busy" /\ ~poisoned /\ poisoned' = poisoned
      /\ to = "inline" => index' = [index EXCEPT ![Caller] = 0]
      /\ to = "notify" => next' = 0 /\ panicked' = FALSE
  BY DEF InlineDispatch, Publish, Called, Usable, state
<1>2. to \in {"inline", "notify"}
  OBVIOUS
<1> HIDE DEF to
<1>3. /\ Doing = {} /\ Doing' = {} /\ (Broken <=> poisoned) /\ (Broken' <=> poisoned')
      /\ pc'[Caller] = to /\ \A t \in Thread : ~Running(t)'
  BY <1>1, <1>2, InlineStep DEF InlinePc
<1>4. ~Busy /\ Busy'
  BY <1>1 DEF RunInv, BusyPc, Busy, InlinePc, LivePc
<1>5. Cursor' = 0
  BY <1>1, <1>2, <1>3, Numbers DEF Cursor
<1>6. Todo' = 0..(n - 1)
  BY <1>1, <1>4, <1>5, Numbers DEF Todo, Index
<1>7. Todo = {} /\ Broken' = Broken
  BY <1>1, <1>3, <1>4 DEF Todo, Broken
<1>8. BusyPc' /\ RunsApart' /\ AllClaimed' /\ PanicsTold'
  BY <1>1, <1>2, <1>3, <1>4
     DEF BusyPc, RunsApart, AllClaimed, PanicsTold, InlinePc, LivePc
<1>9. ~Broken
  BY <1>1, <1>3
<1> QED
  BY <1>1, <1>3, <1>4, <1>6, <1>7, <1>8, <1>9 DEF Promise!Call, Busy, RunInv

(* A step of run_batch, by the caller or by a worker in its bracket.       *)
LEMMA LiveStep ==
  ASSUME BracketInv, RunInv, NEW t \in Thread, pc[t] \in {"claim", "run"},
         NEW to \in {"claim", "run", "drain", "close", "unwind", "closePanic"},
         to \in {"drain", "unwind"} => t = Caller,
         to \in {"close", "closePanic"} => t # Caller,
         pc' = [pc EXCEPT ![t] = to],
         UNCHANGED <<chunks, poisoned, panicked, result>>
  PROVE  /\ pc[Caller] \in LivePc /\ Busy /\ Busy' /\ BusyPc' /\ PanicsTold'
         /\ Cursor = next /\ Cursor' = next'
         /\ \A u \in Thread : Running(u)' <=> IF u = t THEN to = "run" ELSE Running(u)
         /\ Broken' <=> Broken \/ to \in {"unwind", "closePanic"}
<1>1. pc[Caller] \in LivePc
  BY InsideIsLive
<1>2. \A u \in Thread : pc'[u] = IF u = t THEN to ELSE pc[u]
  BY DEF BracketInv, TypeOK, PcOK
<1>3. pc'[Caller] \in LivePc
  <2>1. Caller \in Thread
    BY Numbers
  <2>2. t = Caller => to \in LivePc
    BY DEF LivePc
  <2> QED  BY <1>1, <1>2, <2>1, <2>2
<1>4. pc[Caller] \notin InlinePc /\ pc'[Caller] \notin InlinePc
  BY <1>1, <1>3 DEF LivePc, InlinePc
<1>5. Busy /\ Busy'
  BY <1>1 DEF RunInv, BusyPc, Busy
<1>6. Cursor = next /\ Cursor' = next'
  BY <1>1, <1>3 DEF Cursor, LivePc
<1>7. BusyPc' /\ PanicsTold'
  BY <1>1, <1>3, <1>4, <1>5 DEF RunInv, BusyPc, PanicsTold
<1>8. \A u \in Thread : Running(u)' <=> IF u = t THEN to = "run" ELSE Running(u)
  BY <1>2 DEF Running
<1>9. \A u \in Thread :
        Unwinding(u)' <=> IF u = t THEN to \in {"unwind", "closePanic"} ELSE Unwinding(u)
  BY <1>2 DEF Unwinding
<1>10. ~Unwinding(t)
  BY DEF Unwinding
<1>11. (\E u \in Thread : Unwinding(u)') <=>
         (\E u \in Thread : Unwinding(u)) \/ to \in {"unwind", "closePanic"}
  BY <1>9, <1>10
<1>12. Broken' <=> Broken \/ to \in {"unwind", "closePanic"}
  BY <1>11 DEF Broken
<1> QED
  BY <1>1, <1>5, <1>6, <1>7, <1>8, <1>12

(* A thread claims the index under the cursor and begins its chunk.        *)
LEMMA ClaimChunkIs ==
  ASSUME BracketInv, RunInv, NEW t \in Thread, ClaimChunk(t)
  PROVE  RunInv' /\ next \in Index /\ Promise!Begin(next)
<1>1. /\ pc[t] = "claim" /\ pc' = [pc EXCEPT ![t] = "run"] /\ next < chunks
      /\ index' = [index EXCEPT ![t] = next] /\ next' = next + 1
      /\ UNCHANGED <<chunks, poisoned, panicked, result, done>>
  BY DEF ClaimChunk, ChunkLeft, FetchAdd, state, history
<1>2. next \in Nat /\ chunks \in Nat /\ chunks <= MaxChunks /\ next \in Index
      /\ \A u \in Thread : index[u] \in Nat /\ index'[u] = IF u = t THEN next ELSE index[u]
  BY <1>1, Numbers DEF Index
<1>3. /\ pc[Caller] \in LivePc /\ Busy /\ Busy' /\ BusyPc' /\ PanicsTold'
      /\ Cursor = next /\ Cursor' = next'
      /\ \A u \in Thread : Running(u)' <=> IF u = t THEN TRUE ELSE Running(u)
      /\ Broken' <=> Broken
  BY <1>1, LiveStep
<1>4. RunsApart'
  <2>1. \A u \in Thread \ {t} : Running(u) => index[u] < next /\ index[u] < chunks
    BY <1>3 DEF RunInv, RunsApart
  <2>2. \A u \in Thread \ {t} : \A v \in Thread \ {t, u} :
          Running(u) /\ Running(v) => index[u] # index[v]
    BY DEF RunInv, RunsApart
  <2>3. SUFFICES ASSUME NEW u \in Thread, Running(u)'
                 PROVE  /\ index'[u] < Cursor' /\ index'[u] < chunks'
                        /\ \A v \in Thread \ {u} : Running(v)' => index'[v] # index'[u]
    BY DEF RunsApart
  <2>4. index'[u] < Cursor' /\ index'[u] < chunks'
    BY <1>1, <1>2, <1>3, <2>1, <2>3
  <2>5. ASSUME NEW v \in Thread \ {u}, Running(v)' PROVE index'[v] # index'[u]
    BY <1>2, <1>3, <2>1, <2>2, <2>3, <2>5
  <2> QED  BY <2>4, <2>5
<1>5. AllClaimed'
  <2>1. AllClaimed /\ next' >= next
    BY <1>1, <1>2 DEF RunInv
  <2>2. Caller \in Thread /\ (pc'[Caller] = IF t = Caller THEN "run" ELSE pc[Caller])
    BY <1>1, Numbers
  <2> QED  BY <1>1, <1>2, <2>1, <2>2 DEF AllClaimed
<1>6. next \in Todo /\ Todo' = Todo \ {next}
  BY <1>1, <1>2, <1>3 DEF Todo, Index
<1>7. Doing' = Doing \cup {next}
  <2>1. ~Running(t)
    BY <1>1 DEF Running
  <2>2. \A i : i \in Doing' <=> i = next \/ i \in Doing
    BY <1>2, <1>3, <2>1 DEF Doing
  <2> QED  BY <2>2
<1>8. Broken' = Broken
  BY <1>3 DEF Broken
<1> QED
  BY <1>1, <1>2, <1>3, <1>4, <1>5, <1>6, <1>7, <1>8 DEF Promise!Begin, RunInv

(* The cursor has passed the plan.                                         *)
LEMMA ClaimNoneIs ==
  ASSUME BracketInv, RunInv, NEW t \in Thread, ClaimNone(t)
  PROVE  RunInv' /\ UNCHANGED Promise!vars
<1> DEFINE to == AfterBatch(t)
<1>1. /\ pc[t] = "claim" /\ pc' = [pc EXCEPT ![t] = to] /\ next >= chunks
      /\ next' = next + 1
      /\ UNCHANGED <<index, chunks, poisoned, panicked, result, done>>
  BY Numbers DEF ClaimNone, ChunkLeft, FetchAdd, state, history
<1>2. next \in Nat /\ chunks \in Nat /\ \A u \in Thread : index[u] \in Nat
  BY Numbers
<1>3. to = (IF t = Caller THEN "drain" ELSE "close")
  BY DEF AfterBatch
<1> HIDE DEF to
<1>4. /\ pc[Caller] \in LivePc /\ Busy /\ Busy' /\ BusyPc' /\ PanicsTold'
      /\ Cursor = next /\ Cursor' = next'
      /\ \A u \in Thread : Running(u)' <=> IF u = t THEN FALSE ELSE Running(u)
      /\ Broken' <=> Broken
  BY <1>1, <1>3, LiveStep
<1>5. ~Running(t)
  BY <1>1 DEF Running
<1>6. \A u \in Thread : Running(u)' <=> Running(u)
  BY <1>4, <1>5
<1>7. RunsApart'
  <2>1. \A u \in Thread : Running(u) => index[u] < next /\ index[u] < chunks
    BY <1>4 DEF RunInv, RunsApart
  <2>2. \A u \in Thread : \A v \in Thread \ {u} : Running(u) /\ Running(v) => index[v] # index[u]
    BY DEF RunInv, RunsApart
  <2> QED  BY <1>1, <1>2, <1>4, <1>6, <2>1, <2>2 DEF RunsApart
<1>8. AllClaimed'
  BY <1>1, <1>2 DEF AllClaimed
<1>9. Todo' = Todo
  BY <1>1, <1>2, <1>4 DEF Todo, Index
<1>10. Doing' = Doing
  <2>1. {u \in Thread : Running(u)}' = {u \in Thread : Running(u)}
    BY <1>6
  <2> QED  BY <1>1, <2>1 DEF Doing
<1>11. Broken' = Broken /\ Busy' = Busy
  BY <1>1, <1>4 DEF Broken, Busy
<1> QED
  BY <1>1, <1>4, <1>7, <1>8, <1>9, <1>10, <1>11 DEF Promise!vars, RunInv

(* A chunk's body comes back, or unwinds: it is nobody's any more.         *)
LEMMA ChunkEnds ==
  ASSUME BracketInv, RunInv, NEW t \in Thread, pc[t] = "run",
         NEW to \in {"claim", "unwind", "closePanic"},
         to = "unwind" => t = Caller, to = "closePanic" => t # Caller,
         pc' = [pc EXCEPT ![t] = to],
         UNCHANGED <<index, next, chunks, poisoned, panicked, result>>
  PROVE  /\ RunInv' /\ index[t] \in Index /\ index[t] \in Doing
         /\ Doing' = Doing \ {index[t]} /\ UNCHANGED <<Busy, Todo>>
         /\ Broken' <=> Broken \/ to # "claim"
<1>1. next \in Nat /\ chunks \in Nat /\ chunks <= MaxChunks /\ \A u \in Thread : index[u] \in Nat
  BY Numbers
<1>2. /\ pc[Caller] \in LivePc /\ Busy /\ Busy' /\ BusyPc' /\ PanicsTold'
      /\ Cursor = next /\ Cursor' = next'
      /\ \A u \in Thread : Running(u)' <=> IF u = t THEN FALSE ELSE Running(u)
      /\ Broken' <=> Broken \/ to \in {"unwind", "closePanic"}
  BY LiveStep
<1>3. Running(t)
  BY DEF Running
<1>4. index[t] \in Index /\ index[t] \in Doing
  BY <1>1, <1>3 DEF RunInv, RunsApart, Index, Doing
<1>5. \A u \in Thread \ {t} : Running(u) => index[u] # index[t]
  BY <1>3 DEF RunInv, RunsApart
<1>6. Doing' = Doing \ {index[t]}
  <2>1. \A i : i \in Doing' <=> i \in Doing /\ i # index[t]
    BY <1>2, <1>3, <1>5 DEF Doing
  <2> QED  BY <2>1
<1>7. RunsApart'
  BY <1>2 DEF RunInv, RunsApart
<1>8. AllClaimed'
  <2>1. Caller \in Thread /\ (pc'[Caller] = IF t = Caller THEN to ELSE pc[Caller])
    BY Numbers
  <2> QED  BY <2>1 DEF RunInv, AllClaimed
<1>9. Busy' = Busy /\ Todo' = Todo
  BY <1>2 DEF Todo, Busy
<1> QED
  BY <1>2, <1>4, <1>6, <1>7, <1>8, <1>9 DEF RunInv

LEMMA ChunkReturnsIs ==
  ASSUME BracketInv, RunInv, NEW t \in Thread, ChunkReturns(t)
  PROVE  RunInv' /\ index[t] \in Index /\ Promise!End(index[t])
<1>1. /\ pc[t] = "run" /\ pc' = [pc EXCEPT ![t] = "claim"] /\ done' = done \cup {index[t]}
      /\ UNCHANGED <<index, next, chunks, poisoned, panicked, result>>
  BY DEF ChunkReturns, state, batch
<1>2. /\ RunInv' /\ index[t] \in Index /\ index[t] \in Doing
      /\ Doing' = Doing \ {index[t]} /\ UNCHANGED <<Busy, Todo>>
      /\ Broken' <=> Broken
  BY <1>1, ChunkEnds
<1>3. Broken' = Broken
  BY <1>2 DEF Broken
<1> QED  BY <1>1, <1>2, <1>3 DEF Promise!End

LEMMA ChunkPanicsIs ==
  ASSUME BracketInv, RunInv, NEW t \in Thread, ChunkPanics(t)
  PROVE  RunInv' /\ index[t] \in Index /\ Promise!Panic(index[t])
<1> DEFINE to == AfterPanic(t)
<1>1. /\ pc[t] = "run" /\ pc' = [pc EXCEPT ![t] = to]
      /\ UNCHANGED <<index, next, chunks, poisoned, panicked, result, done>>
  BY DEF ChunkPanics, state, batch, history
<1>2. to = (IF t = Caller THEN "unwind" ELSE "closePanic")
  BY DEF AfterPanic
<1> HIDE DEF to
<1>3. /\ RunInv' /\ index[t] \in Index /\ index[t] \in Doing
      /\ Doing' = Doing \ {index[t]} /\ UNCHANGED <<Busy, Todo>>
      /\ Broken' <=> Broken \/ to # "claim"
  BY <1>1, <1>2, ChunkEnds
<1>4. Broken' = TRUE
  BY <1>2, <1>3 DEF Broken
<1> QED  BY <1>1, <1>3, <1>4 DEF Promise!Panic

(* The caller comes back from the barrier: every bracket is closed.        *)
LEMMA Returns ==
  ASSUME BracketInv, RunInv, Finish \/ FinishUnwinding
  PROVE  RunInv' /\ Promise!Return
<1>1. /\ pc[Caller] \in {"drain", "unwind"} /\ pc' = [pc EXCEPT ![Caller] = "idle"] /\ active = 0
      /\ UNCHANGED <<index, chunks, next, done>> /\ result' \in {"ok", "panic"}
      /\ pc[Caller] = "drain" => poisoned' = poisoned /\ result' = IF panicked THEN "panic" ELSE "ok"
      /\ pc[Caller] = "unwind" => poisoned' = TRUE /\ result' = "panic"
  BY DEF Finish, FinishUnwinding, BracketsClosed, history
<1>2. /\ Caller \in Thread /\ \A t \in Thread : t = Caller \/ t \in Worker
      /\ \A w \in Worker : pc[w] \in WorkerPc /\ pc'[w] = pc[w]
      /\ pc'[Caller] = "idle"
  BY <1>1, Numbers
<1>3. InBracket = {}
  BY <1>1, BracketFinite, FS_EmptySet DEF BracketInv, ActiveCounts
<1>4. \A w \in Worker : /\ ~Running(w) /\ ~Unwinding(w)
                        /\ ~Running(w)' /\ ~Unwinding(w)'
  BY <1>2, <1>3 DEF InBracket, Running, Unwinding, WorkerPc
<1>5. ~Running(Caller) /\ ~Running(Caller)' /\ ~Unwinding(Caller)'
      /\ (Unwinding(Caller) <=> pc[Caller] = "unwind")
  BY <1>1, <1>2 DEF Running, Unwinding
<1>6. \A t \in Thread : ~Running(t) /\ ~Running(t)' /\ ~Unwinding(t)'
  BY <1>2, <1>4, <1>5
<1>7. Doing = {} /\ Doing' = {}
  BY <1>6 DEF Doing
<1>8. pc[Caller] \in LivePc /\ Busy /\ ~Busy' /\ Todo' = {}
  BY <1>1 DEF LivePc, RunInv, BusyPc, Busy, Todo
<1>9. /\ Broken <=> poisoned \/ pc[Caller] = "unwind"
      /\ Broken' <=> poisoned'
  <2>1. (\E t \in Thread : Unwinding(t)) <=> pc[Caller] = "unwind"
    BY <1>2, <1>4, <1>5
  <2> QED  BY <1>6, <2>1 DEF Broken
<1>10. Broken' = Broken
  BY <1>1, <1>9 DEF Broken
<1>11. panicked <=> poisoned
  BY <1>8 DEF RunInv, PanicsTold
<1>12. CASE result' = "ok"
  <2>1. pc[Caller] = "drain" /\ ~panicked
    BY <1>1, <1>12
  <2>2. ~Broken
    BY <1>9, <1>11, <2>1
  <2>3. Todo = {}
    <3>1. next >= chunks /\ next \in Nat /\ chunks \in Nat
      BY <2>1, Numbers DEF RunInv, AllClaimed
    <3>2. Cursor = next
      BY <1>8, LiveCursor
    <3> QED  BY <3>1, <3>2 DEF Todo, Index
  <2> QED
    BY <1>1, <1>2, <1>6, <1>7, <1>8, <1>10, <1>12, <2>2, <2>3
       DEF Promise!Return, RunInv, BusyPc, RunsApart, AllClaimed, PanicsTold, LivePc,
           InlinePc
<1>13. CASE result' = "panic"
  <2>1. Broken
    BY <1>1, <1>9, <1>11, <1>13
  <2> QED
    BY <1>1, <1>2, <1>6, <1>7, <1>8, <1>10, <1>13, <2>1
       DEF Promise!Return, RunInv, BusyPc, RunsApart, AllClaimed, PanicsTold, LivePc,
           InlinePc
<1> QED  BY <1>1, <1>12, <1>13

(* A panicking worker's guard records what was true already.               *)
LEMMA ClosePanickingIs ==
  ASSUME BracketInv, RunInv, NEW w \in Worker, ClosePanicking(w)
  PROVE  RunInv' /\ UNCHANGED Promise!vars
<1>1. /\ pc[w] = "closePanic" /\ w # Caller /\ w \in Thread /\ panicked' = TRUE /\ poisoned' = TRUE
      /\ UNCHANGED <<index, next, chunks, result, done>>
      /\ \A u \in Thread \ {Caller} : pc'[u] = IF u = w THEN "dead" ELSE pc[u]
      /\ \/ pc'[Caller] = pc[Caller]
         \/ pc[Caller] = "parked" /\ pc'[Caller] = "drain"
         \/ pc[Caller] = "unwindParked" /\ pc'[Caller] = "unwind"
  BY Numbers DEF ClosePanicking, CloseBracket, batch, pool, history
<1>2. pc[Caller] \in LivePc
  BY <1>1, InsideIsLive
<1>3. pc'[Caller] \in LivePc /\ pc[Caller] \notin InlinePc /\ pc'[Caller] \notin InlinePc
  BY <1>1, <1>2 DEF LivePc, InlinePc
<1>4. Busy /\ Busy'
  BY <1>1, <1>2 DEF RunInv, BusyPc, Busy
<1>5. Cursor' = Cursor
  BY <1>1, <1>2, <1>3 DEF Cursor, LivePc
<1>6. \A t \in Thread : Running(t)' <=> Running(t)
  BY <1>1 DEF Running
<1>7. Unwinding(w) /\ w \in Thread
  BY <1>1 DEF Unwinding
<1>8. Broken /\ Broken'
  BY <1>1, <1>7 DEF Broken
<1>9. Broken' = Broken
  BY <1>8 DEF Broken
<1>10. Doing' = Doing
  <2>1. {u \in Thread : Running(u)}' = {u \in Thread : Running(u)}
    BY <1>6
  <2> QED  BY <1>1, <2>1 DEF Doing
<1>11. Todo' = Todo
  BY <1>1, <1>4, <1>5 DEF Todo
<1>12. BusyPc' /\ PanicsTold'
  BY <1>1, <1>3, <1>4 DEF BusyPc, PanicsTold
<1>13. RunsApart'
  BY <1>1, <1>5, <1>6 DEF RunInv, RunsApart
<1>14. AllClaimed'
  BY <1>1 DEF RunInv, AllClaimed
<1> QED
  BY <1>1, <1>4, <1>9, <1>10, <1>11, <1>12, <1>13, <1>14 DEF RunInv, Promise!vars, Busy

(* Every step of the pool is one of the promise, or is not seen.           *)
LEMMA PoolSteps ==
  ASSUME BracketInv, RunInv, [Next]_vars
  PROVE  RunInv' /\ [Promise!Next]_(Promise!vars)
<1>1. Index = 0..(MaxChunks - 1)
  BY DEF Index
<1>2. CASE Quiet
  BY <1>2, QuietKeeps
<1>3. CASE InlineChunk
  BY <1>1, <1>3, InlineChunkIs DEF Promise!Next
<1>4. CASE InlineChunkReturns
  BY <1>1, <1>4, InlineChunkReturnsIs DEF Promise!Next
<1>5. CASE InlineChunkPanics
  BY <1>1, <1>5, InlineChunkPanicsIs DEF Promise!Next
<1>6. CASE InlineUnwinds \/ InlineReturns
  BY <1>6, InlineEnds DEF Promise!Next
<1>7. CASE Finish \/ FinishUnwinding
  BY <1>7, Returns DEF Promise!Next
<1>8. CASE EmptyDispatch \/ \E n \in 1..MaxChunks : RefuseDispatch(n)
  BY <1>8, NothingIs DEF Promise!Next
<1>9. ASSUME NEW n \in 1..MaxChunks, InlineDispatch(n) \/ Publish(n)
      PROVE  RunInv' /\ [Promise!Next]_(Promise!vars)
  BY <1>9, CallIs DEF Promise!Next
<1>10. ASSUME NEW t \in Thread, ClaimChunk(t)
       PROVE  RunInv' /\ [Promise!Next]_(Promise!vars)
  BY <1>1, <1>10, ClaimChunkIs DEF Promise!Next
<1>11. ASSUME NEW t \in Thread, ClaimNone(t)
       PROVE  RunInv' /\ [Promise!Next]_(Promise!vars)
  BY <1>11, ClaimNoneIs
<1>12. ASSUME NEW t \in Thread, ChunkReturns(t)
       PROVE  RunInv' /\ [Promise!Next]_(Promise!vars)
  BY <1>1, <1>12, ChunkReturnsIs DEF Promise!Next
<1>13. ASSUME NEW t \in Thread, ChunkPanics(t)
       PROVE  RunInv' /\ [Promise!Next]_(Promise!vars)
  BY <1>1, <1>13, ChunkPanicsIs DEF Promise!Next
<1>14. ASSUME NEW w \in Worker, ClosePanicking(w)
       PROVE  RunInv' /\ [Promise!Next]_(Promise!vars)
  BY <1>14, ClosePanickingIs
<1> QED
  BY <1>2, <1>3, <1>4, <1>5, <1>6, <1>7, <1>8, <1>9, <1>10, <1>11, <1>12, <1>13, <1>14,
     QuietSteps

(* JobPool::parallel_for keeps its promise for any number of workers,      *)
(* chunks and calls: no chunk is begun twice or out of a call, none is     *)
(* left out of a call that ends well, the call ends with nobody running,   *)
(* and it ends with a panic just when the pool was broken in it.           *)
THEOREM PoolImplementsParallelFor == Spec => ImplementsParallelFor
<1>1. Init => RunInv /\ Promise!Init
  <2> SUFFICES ASSUME Init PROVE RunInv /\ Promise!Init
    OBVIOUS
  <2>1. /\ ~Busy /\ next = 0 /\ ~poisoned /\ done = {} /\ result = "none" /\ Caller \in Thread
        /\ pc[Caller] = "build" /\ \A t \in Thread : pc[t] \in {"build", "unspawned"}
    BY DEF Init, Busy
  <2>2. \A t \in Thread : ~Running(t) /\ ~Unwinding(t)
    BY <2>1 DEF Running, Unwinding
  <2>3. RunInv
    BY <2>1, <2>2
       DEF RunInv, BusyPc, RunsApart, AllClaimed, PanicsTold, LivePc, InlinePc
  <2>4. Todo = {} /\ Doing = {}
    BY <2>1, <2>2 DEF Todo, Doing
  <2>5. ~Broken
    BY <2>1, <2>2 DEF Broken
  <2>6. Broken = FALSE /\ Busy = FALSE
    BY <2>1, <2>5 DEF Broken, Busy
  <2> QED  BY <2>1, <2>3, <2>4, <2>6 DEF Promise!Init
<1>2. BracketInv /\ RunInv /\ [Next]_vars => RunInv' /\ [Promise!Next]_(Promise!vars)
  BY PoolSteps
<1>3. Promise!Spec <=> Promise!Init /\ [][Promise!Next]_(Promise!vars)
  BY DEF Promise!Spec
<1> QED
  BY <1>1, <1>2, <1>3, BracketInvariant, PTL DEF Spec, ImplementsParallelFor

=============================================================================
