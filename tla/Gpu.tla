-------------------------------- MODULE Gpu --------------------------------
(***************************************************************************)
(* The `rhi` crate's two render targets on one device and one queue.       *)
(*                                                                         *)
(* A WindowTarget (vk/swapchain.rs) keeps a ring of frame slots: render    *)
(* waits for the slot's fence, copies the frame's bytes into the slot's    *)
(* regions, acquires, records, submits and presents, and returns while the *)
(* device is still working.  Whatever the submitted work reads must stay:  *)
(* the memory (the slot's retention table), the bytes, the swapchain.  A   *)
(* failure after the acquire tears the chain down, once the device is      *)
(* known to be idle; when that wait fails too, the target is parked.       *)
(* An OffscreenTarget (vk/offscreen.rs) waits for its own work, and is     *)
(* wedged when it cannot.  Both use the same render images, in the order   *)
(* of the queue, through the walk of FrameWalk.                            *)
(*                                                                         *)
(* One thread makes the calls; the device completes work concurrently, in  *)
(* submission order, and may be lost.                                      *)
(***************************************************************************)
EXTENDS FrameWalk

CONSTANTS
  Image,       \* render images
  Kept,        \* those created with `kept`
  Data,        \* the per-frame buffer, one region per slot
  Slots,       \* FRAMES_IN_FLIGHT
  Frames,      \* the frames callers render: [uses : [Image -> Seq(Use)], data : BOOLEAN]
  MaxImages,   \* MAX_FRAME_RENDER_IMAGES
  Transient,   \* the resources whose handles callers drop
  MayFail,     \* the calls that may fail
  MaxFaults    \* bound on how many do

ASSUME KeptAssumption == Kept \subseteq Image
ASSUME DataAssumption == Data \notin Image
ASSUME SlotsAssumption == Slots \in Nat \ {0}
ASSUME FramesAssumption == Frames \subseteq [uses : [Image -> Seq(Use)], data : BOOLEAN]

VARIABLES
  held,        \* resources the caller still has a handle to
  contents,    \* KeptContents of each image
  device,      \* each image on the device, in queue order (FrameWalk!Device)
  queue,       \* submitted work that has not completed
  lost,        \* the device is lost
  poisoned,    \* ... and the crate knows (LostFlag)
  call,        \* the call in progress and where it stands
  window, chain, acquired, pending, fence, retained, frame,  \* the WindowTarget
  off, offRetained, offFence,                                \* the OffscreenTarget
  faults       \* failures so far

windowVars == <<window, chain, acquired, pending, fence, retained, frame>>
offVars == <<off, offRetained, offFence>>
imageVars == <<contents, device>>
vars == <<held, imageVars, queue, lost, poisoned, call, windowVars, offVars, faults>>

Slot == 0 .. Slots - 1
Resource == Image \cup {Data}
Place == {"idle", "wait", "acquire", "record", "present", "abort", "resize", "offscreen"}
Work == [target : {"window", "offscreen"}, slot : Slot, needs : SUBSET Resource,
         chain : BOOLEAN, bytes : BOOLEAN]

Touched(f) == {i \in Image : f.uses[i] # <<>>}
Needs(f) == Touched(f) \cup (IF f.data THEN {Data} ELSE {})

WalkOf(f, i) == Walk(i \in Kept, contents[i], device[i], f.uses[i])
\* check_frame_contract: the dry walk, which moves nothing.
Legal(f) == /\ Cardinality(Touched(f)) <= MaxImages
            /\ \A i \in Touched(f) : ~WalkOf(f, i).refused

\* A frame as it is recorded: what it reads, and where its walk leaves the
\* images if it is submitted.  The contract's walk and the record walk read
\* the same images, since only a submit moves them, so one walk stands for both.
Recording(f) ==
  [needs |-> Needs(f), data |-> f.data,
   contents |-> [i \in Image |-> Settle(WalkOf(f, i).entry)],
   device |-> [i \in Image |-> WalkOf(f, i).device]]
NoFrame == [needs |-> {}, data |-> FALSE, contents |-> <<>>, device |-> <<>>]

At(place) == call.at = place
Goto(place) == call' = [call EXCEPT !.at = place]
Done(place) == call' = [at |-> place, frame |-> NoFrame]
Return == Done("idle")

(***************************************************************************)
(* Failures: an error code that names a lost device is noted on the spine. *)
(***************************************************************************)
Fault(name) == name \in MayFail /\ faults < MaxFaults /\ faults' = faults + 1
Fails(name) == \/ Fault(name) /\ UNCHANGED poisoned
               \/ lost /\ poisoned' = TRUE /\ UNCHANGED faults
NoFault == UNCHANGED <<faults, poisoned>>

Init ==
  /\ held = Resource
  /\ contents = [i \in Image |-> "Undefined"]
  /\ device = [i \in Image |-> NewImage]
  /\ queue = <<>> /\ lost = FALSE /\ poisoned = FALSE /\ faults = 0
  /\ call = [at |-> "idle", frame |-> NoFrame]
  /\ window = "none" /\ chain = FALSE /\ frame = 0
  /\ acquired = [s \in Slot |-> FALSE]
  /\ pending = [s \in Slot |-> FALSE]
  /\ fence = [s \in Slot |-> FALSE]
  /\ retained = [s \in Slot |-> {}]
  /\ off = "none" /\ offRetained = {} /\ offFence = FALSE

(***************************************************************************)
(* The caller's handles.  A resource dies when its last owner does.        *)
(***************************************************************************)
Alive == held \cup (UNION {retained[s] : s \in Slot}) \cup offRetained

Release(r) ==
  /\ At("idle") /\ r \in held \cap Transient
  /\ held' = held \ {r}
  /\ NoFault /\ UNCHANGED <<imageVars, queue, lost, call, windowVars, offVars>>

Create(r) ==
  /\ At("idle") /\ r \notin Alive
  /\ held' = held \cup {r}
  /\ contents' = [i \in Image |-> IF i = r THEN "Undefined" ELSE contents[i]]
  /\ device' = [i \in Image |-> IF i = r THEN NewImage ELSE device[i]]
  /\ NoFault /\ UNCHANGED <<queue, lost, call, windowVars, offVars>>

(***************************************************************************)
(* What a submit does, on either target: the work joins the queue, and     *)
(* only now are the images told where the frame leaves them.               *)
(***************************************************************************)
Enqueue(target, s, f) ==
  /\ ~lost
  /\ queue' = Append(queue, [target |-> target, slot |-> s, needs |-> f.needs,
                             chain |-> TRUE, bytes |-> TRUE])
  /\ contents' = f.contents /\ device' = f.device

(***************************************************************************)
(* WindowTarget                                                            *)
(***************************************************************************)
\* The chain goes, and the slot regions are rewritten, under whatever work is
\* still queued against them.
Unchained == [n \in DOMAIN queue |->
               IF queue[n].target = "window" THEN [queue[n] EXCEPT !.chain = FALSE] ELSE queue[n]]
Rewritten(s) == [n \in DOMAIN queue |->
               IF queue[n].target = "window" /\ queue[n].slot = s
               THEN [queue[n] EXCEPT !.bytes = FALSE] ELSE queue[n]]

\* Mutant: the retired slots stay pending.
RetireKeepsPending ==
  /\ retained' = [s \in Slot |-> {}] /\ fence' = [s \in Slot |-> FALSE] /\ UNCHANGED pending
\* Mutant: the fences of the retired slots stay signaled.
RetireKeepsFences ==
  /\ retained' = [s \in Slot |-> {}] /\ pending' = [s \in Slot |-> FALSE] /\ UNCHANGED fence
\* retire_fence_after_idle: called once the device is idle or lost.  The
\* result of each reset is ignored.
RetireFences ==
  /\ retained' = [s \in Slot |-> {}]
  /\ pending' = [s \in Slot |-> FALSE]
  /\ fence' \in {[s \in Slot |-> fence[s] /\ (pending[s] => s \in kept)] :
                   kept \in IF "retire" \in MayFail THEN SUBSET Slot ELSE {{}}}
DestroyChain ==
  /\ chain' = FALSE /\ queue' = Unchained
  /\ acquired' = [s \in Slot |-> FALSE]

\* Mutant: the teardown does not wait.
NoWait == poisoned' = (poisoned \/ lost) /\ UNCHANGED faults
\* device_wait_idle returns: nothing is queued, or the device is lost.
Idle == queue = <<>> /\ poisoned' = (poisoned \/ lost) /\ UNCHANGED faults

CreateWindow ==
  /\ At("idle") /\ window = "none" /\ ~poisoned
  /\ window' = "ready" /\ chain' \in BOOLEAN /\ frame' = 0
  /\ acquired' = [s \in Slot |-> FALSE] /\ pending' = [s \in Slot |-> FALSE]
  /\ fence' = [s \in Slot |-> FALSE] /\ retained' = [s \in Slot |-> {}]
  /\ NoFault /\ UNCHANGED <<held, imageVars, queue, lost, call, offVars>>

\* The wait at teardown is best effort: a target is dropped even when it fails.
TeardownWait == queue = <<>> \/ "drop" \in MayFail
DropWindow ==
  /\ At("idle") /\ window # "none"
  /\ TeardownWait
  /\ window' = "none" /\ RetireFences /\ DestroyChain
  /\ NoFault /\ UNCHANGED <<held, imageVars, lost, call, frame, offVars>>

\* render, once past the guards that return at once.
BeginRender(f) ==
  /\ At("idle") /\ window = "ready" /\ ~poisoned /\ Needs(f) \subseteq held /\ Legal(f)
  /\ call' = [at |-> "wait", frame |-> Recording(f)]
  /\ NoFault /\ UNCHANGED <<held, imageVars, queue, lost, windowVars, offVars>>

WaitFails ==
  /\ At("wait") /\ pending[frame]
  /\ \/ ~fence[frame] /\ Fault("timeout") /\ UNCHANGED poisoned
     \/ Fails("wait")
     \/ fence[frame] /\ Fault("reset") /\ UNCHANGED poisoned
  /\ Return
  /\ UNCHANGED <<held, imageVars, queue, lost, windowVars, offVars>>

WorkEnded == pending[frame] => fence[frame]

\* The slot's work has ended: its memory may die, its regions are rewritten.
CopyIn ==
  /\ At("wait") /\ WorkEnded
  /\ fence' = [fence EXCEPT ![frame] = @ /\ ~pending[frame]]
  /\ pending' = [pending EXCEPT ![frame] = FALSE]
  /\ IF chain THEN /\ retained' = [retained EXCEPT ![frame] = call.frame.needs]
                   /\ queue' = IF call.frame.data THEN Rewritten(frame) ELSE queue
                   /\ Goto("acquire")
              ELSE /\ retained' = [retained EXCEPT ![frame] = IF pending[frame] THEN {} ELSE @]
                   /\ Return /\ UNCHANGED queue
  /\ NoFault
  /\ UNCHANGED <<held, imageVars, lost, window, chain, acquired, frame, offVars>>

Acquire ==
  /\ At("acquire")
  /\ \/ /\ acquired' = [acquired EXCEPT ![frame] = TRUE]
        /\ Goto("record") /\ NoFault
     \/ Fails("acquire") /\ Return /\ UNCHANGED acquired
  /\ UNCHANGED <<held, imageVars, queue, lost, window, chain, pending, fence, retained, frame,
                 offVars>>

\* Mutant: a kept image is told what the frame does as it is recorded.
SettlesEarly ==
  /\ At("record")
  /\ (Fault("record") /\ UNCHANGED poisoned) \/ Fails("submit")
  /\ Done("abort") /\ contents' = call.frame.contents
  /\ UNCHANGED <<held, device, queue, lost, windowVars, offVars>>

\* A failure while recording, and a refused submit, end the frame in abort_frame.
RecordFails ==
  /\ At("record")
  /\ (Fault("record") /\ UNCHANGED poisoned) \/ Fails("submit")
  /\ Done("abort")
  /\ UNCHANGED <<held, imageVars, queue, lost, windowVars, offVars>>

NextSlot == (frame + 1) % Slots

Submit ==
  /\ At("record")
  /\ Enqueue("window", frame, call.frame)
  /\ acquired' = [acquired EXCEPT ![frame] = FALSE]
  /\ pending' = [pending EXCEPT ![frame] = TRUE]
  /\ frame' = NextSlot
  /\ Done("present")
  /\ NoFault /\ UNCHANGED <<held, lost, window, chain, fence, retained, offVars>>

Present ==
  /\ At("present")
  /\ (Return /\ NoFault) \/ (Fails("present") /\ Done("abort"))
  /\ UNCHANGED <<held, imageVars, queue, lost, windowVars, offVars>>

\* abort_frame: tear the chain down only on proof that the device stopped.
Abort ==
  /\ At("abort")
  /\ \/ Idle /\ RetireFences /\ DestroyChain /\ UNCHANGED window
     \/ /\ ~lost /\ Fault("idle") /\ window' = "dormant"
        /\ UNCHANGED <<queue, poisoned, chain, acquired, pending, fence, retained>>
  /\ Return
  /\ UNCHANGED <<held, imageVars, lost, frame, offVars>>

BeginResize ==
  /\ At("idle") /\ window # "none" /\ ~poisoned
  /\ Done("resize")
  /\ NoFault /\ UNCHANGED <<held, imageVars, queue, lost, windowVars, offVars>>

\* Mutant: the target stays parked.
StaysParked == IF window = "dormant" THEN "dormant" ELSE "ready"
Reborn == "ready"

\* No chain is built for a zero extent, or when building it fails.
Resize ==
  /\ At("resize")
  /\ \/ /\ ~lost /\ Idle /\ RetireFences
        /\ window' = Reborn /\ chain' \in BOOLEAN /\ queue' = Unchained
        /\ acquired' = [s \in Slot |-> FALSE]
     \/ Fails("idle") /\ UNCHANGED <<queue, window, chain, acquired, pending, fence, retained>>
  /\ Return
  /\ UNCHANGED <<held, imageVars, lost, frame, offVars>>

(***************************************************************************)
(* OffscreenTarget                                                         *)
(***************************************************************************)
CreateOffscreen ==
  /\ At("idle") /\ off = "none" /\ ~poisoned
  /\ off' = "ready" /\ offRetained' = {} /\ offFence' = FALSE
  /\ NoFault /\ UNCHANGED <<held, imageVars, queue, lost, call, windowVars>>

DropOffscreen ==
  /\ At("idle") /\ off # "none"
  /\ TeardownWait
  /\ off' = "none" /\ offRetained' = {} /\ offFence' = FALSE
  /\ NoFault /\ UNCHANGED <<held, imageVars, queue, lost, call, windowVars>>

\* The table is refilled before anything is recorded.
OffscreenRender(f) ==
  /\ At("idle") /\ off = "ready" /\ ~poisoned /\ ~f.data /\ Needs(f) \subseteq held /\ Legal(f)
  /\ offRetained' = Needs(f)
  /\ \/ Enqueue("offscreen", 0, Recording(f)) /\ Done("offscreen") /\ NoFault
     \/ /\ (Fault("record") /\ UNCHANGED poisoned) \/ Fails("submit")
        /\ UNCHANGED <<queue, imageVars, call>>
  /\ UNCHANGED <<held, lost, windowVars, off, offFence>>

OffscreenWait ==
  /\ At("offscreen")
  /\ \/ offFence /\ offFence' = FALSE /\ NoFault /\ UNCHANGED off
     \/ /\ \/ ~offFence /\ Fault("timeout") /\ UNCHANGED poisoned
           \/ Fails("wait")
           \/ offFence /\ Fault("reset") /\ UNCHANGED poisoned
        /\ off' = "wedged" /\ UNCHANGED offFence
  /\ Return
  /\ UNCHANGED <<held, imageVars, queue, lost, windowVars, offRetained>>

(***************************************************************************)
(* The device                                                              *)
(***************************************************************************)
Complete ==
  /\ queue # <<>>
  /\ queue' = Tail(queue)
  /\ IF Head(queue).target = "window"
     THEN fence' = [fence EXCEPT ![Head(queue).slot] = TRUE] /\ UNCHANGED offFence
     ELSE offFence' = TRUE /\ UNCHANGED fence
  /\ UNCHANGED <<held, imageVars, lost, poisoned, call, window, chain, acquired, pending,
                 retained, frame, off, offRetained, faults>>

Lose ==
  /\ "lost" \in MayFail /\ ~lost
  /\ lost' = TRUE /\ queue' = <<>>
  /\ NoFault /\ UNCHANGED <<held, imageVars, call, windowVars, offVars>>

CallStep == \/ WaitFails \/ CopyIn \/ Acquire \/ RecordFails \/ Submit \/ Present
            \/ Abort \/ Resize \/ OffscreenWait

Next ==
  \/ \E r \in Resource : Release(r) \/ Create(r)
  \/ \E f \in Frames : BeginRender(f) \/ OffscreenRender(f)
  \/ CreateWindow \/ DropWindow \/ BeginResize
  \/ CreateOffscreen \/ DropOffscreen
  \/ CallStep \/ Complete \/ Lose

Spec == Init /\ [][Next]_vars

\* The device makes progress, a call that can go on does, and an owner whose
\* window answers NeedsResize resizes it sooner or later.
FairSpec == Spec /\ WF_vars(Complete) /\ WF_vars(CallStep) /\ SF_vars(BeginResize)

(***************************************************************************)
(* Properties                                                              *)
(***************************************************************************)
TypeOK ==
  /\ held \subseteq Resource /\ contents \in [Image -> KeptContents]
  /\ queue \in Seq(Work) /\ {lost, poisoned, chain, offFence} \subseteq BOOLEAN
  /\ call.at \in Place /\ call.frame.needs \subseteq Resource
  /\ window \in {"none", "ready", "dormant"} /\ off \in {"none", "ready", "wedged"}
  /\ acquired \in [Slot -> BOOLEAN] /\ pending \in [Slot -> BOOLEAN]
  /\ fence \in [Slot -> BOOLEAN] /\ retained \in [Slot -> SUBSET Resource]
  /\ frame \in Slot /\ offRetained \subseteq Resource

Queued(target, s) == \E n \in DOMAIN queue : queue[n].target = target /\ queue[n].slot = s

\* Everything queued work reads outlives it unchanged: its resources have an
\* owner left, the swapchain it was recorded against stands, and the bytes in
\* its slot's regions are those of its own frame.
WorkIsIntact ==
  \A n \in DOMAIN queue :
    queue[n].needs \subseteq Alive /\ queue[n].chain /\ queue[n].bytes

\* What the CPU is about to reuse or read, the device is not using: the slot
\* being recorded has no work queued, a fresh fence and, until it acquires, an
\* idle semaphore; and a target that may be rendered to or read back again
\* (read_back_into trusts the wedged flag alone) has no work queued either.
SlotIsQuiet ==
  /\ TypeOK
  /\ At("acquire") => ~acquired[frame]
  /\ (At("acquire") \/ At("record")) =>
       ~Queued("window", frame) /\ ~pending[frame] /\ ~fence[frame]
  /\ (off = "ready" /\ At("idle")) => ~Queued("offscreen", 0) /\ ~offFence

\* The barriers order every access to an image across frames, targets and
\* failures: no access or change of layout races an earlier one, no barrier
\* names a layout the image is not in, and no pass reads undefined pixels.
NoImageHazard == \A i \in Image : device[i].safe

\* What a kept image remembers is what the submitted work leaves in it.
KeptIsTrue ==
  \A i \in Kept :
    CASE contents[i] = "Undefined" -> ~device[i].live
      [] contents[i] = "Stored" -> device[i].layout = "attachment" /\ device[i].live
      [] contents[i] = "Discarded" -> device[i].layout = "attachment"
      [] contents[i] = "Sampled" -> device[i].layout = "sampled" /\ device[i].live

\* Every call returns.
RenderReturns == ~At("idle") ~> At("idle")

\* A parked target comes back, unless the device is lost or the target dropped.
Thaws == window = "dormant" ~> (window # "dormant" \/ poisoned)
=============================================================================
