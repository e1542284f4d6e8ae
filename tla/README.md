# Renew: verification project

TLA+ models of the parts of the renew engine that are hard to test, the TLC
configurations that check them, and TLAPS proofs of what holds for every size.
`PROJECT.json` is the index: components, runs, mutants, the map from every
definition to the source lines it stands for, findings, hazards and theorems.

To check a run: `tlc -workers 2 -config <cfg> <module>.tla`. To check the
proofs: `tlapm` on each of `JobPool_proofs`, `Session_proofs`, `Lobby_proofs`,
`Chat_proofs`, `Audio_proofs`, `Gpu_proofs`, `Glide_proofs` and
`Ui_proofs` (the longest, some ten minutes).

## 1. The system

Renew is a game engine of 31 Rust crates under `src/crates`. Most of them are
deterministic, single-threaded and pure: file formats, mathematics, draw lists,
layout. What carries state between calls, and can go wrong between them, is in
a few places.

| Part | State it keeps | Operations | Talks to |
|---|---|---|---|
| `jobs` | one `State` under a mutex (epoch, task pointer, active count, panicked, poisoned, shutdown), a `Batch` on the dispatcher's stack with an atomic claim cursor, the worker threads | `build`, `parallel_for` (inline and published), the worker loop, `Drop` | callers lend it a stack frame; workers and dispatcher meet at `work_ready` and `work_done` |
| `net::session` | a ring of inputs per tick (`frames`, `present`, `slot_tick`), `pending`, `local_next`, fingerprints of its own and of the others, `hello_seen`, `playing_seen`, the outcome, what to emit | `submit`, `deliver`, `advance`, `commit`, `leave`, `next_outbound` | a driver, and its peers by datagrams that are never acknowledged |
| `net::lobby` | host: seats, credits, repeats of the go; joiner: the roster it holds | `deliver`, `start`, `next_outbound` | precedes the session: yields its parameters and addresses |
| `net::chat` | outbox of repeating messages, one duplicate window per sender, inbox ring | `send`, `deliver`, `next_message`, `next_outbound` | beside the session, on the same wire |
| `audio` | command ring under a mutex, voices with cursors | `play`, `fill` | game thread and device callback meet at the ring |
| `rhi` | window target: chain, frame slots with fence, semaphore and retention table, dormant flag; offscreen target: wedged flag; per image, what is in it | `render`, `resize`, `abort_frame`, `read_back_into`, drops | the Vulkan driver, and the callers whose resources it keeps alive |
| `ecs` | generational entity table, sparse-set stores | `spawn`, `despawn`, `insert`, `remove` | application |
| `frame` | fixed-step accumulator | `begin_frame`, `resync` | the main loop |
| `input` | bindings that are down, per action the hold and its two edges | `handle`, `advance`, `release_all` | window events in, the update out |
| `snapshot` | two captures of a slot space | `put`, `swap`, `pairs` | the update captures, the renderer blends |
| `ui` | an arena of linked nodes, solved rectangles, pointer, press and focus, the dress each node wears, a pool of text fields | `insert`, `remove`, `set_style`, `solve`, `handle`, `edit_field`, pools and tables | the host edits, window events decide |
| `samples/glide` | the windowed loop: pause menu, banked flaps, world, picture | event handler, `update_at` | puts `frame`, `input`, `ecs`, `snapshot` and `ui` together |
| `core/memory` | arenas, block pool with generations | `alloc`, `free`, `reset` | everything |
| `scene`, `particles`, `volume` | tables | sequential edits | application |
| `trace`, `replay`, `asset`, `json`, `png`, `mesh`, `wav`, `wire` | none across calls | parse and print | files, datagrams |
| `physics2d`, `physics3d`, `fixed`, `rng`, `math`, `camera`, `render2d`, `render3d` | numbers | numeric steps | application |

How they interact. A match begins in the lobby: it ends by handing every
machine the same roster and parameters, with which the driver builds a
`Session` and a `ChatChannel`. Each turn of the driver submits an input when
the session wants one, delivers what the socket holds, runs the ticks the
session hands out (each tick runs systems, some over the job pool), commits
them with a digest of the world, and pumps datagrams out. The tick may ask for
sounds, which go to the audio callback over the command ring. Presentation is
built anew each frame and has no say in the simulation.

What is hard, and what makes each part correct:

* **jobs**: workers dereference a pointer to a stack frame of the dispatcher.
  Correct means: never one that was popped, whatever the order of claims,
  panics, late joins, lost or spurious wakeups; each chunk exactly once; every
  panic reported; every call returns; a dropped pool joins its threads.
* **session**: no acknowledgement, fixed redundancy, a ring reused every 64
  ticks, digests that may be late. Correct means: every peer runs the same
  inputs in the same order; the frame anyone waits for is still being sent; the
  handshake and every stall end on a fair network; a desync is reported if and
  only if there was one; all sessions end together.
* **lobby**: rosters of every age in flight, programs that start over. Correct
  means: one seat per endpoint, and whoever starts agrees with everyone else on
  the whole roster; a host sends no more than it was asked for.
* **chat**: everything comes several times and out of order. Correct means:
  handed out once, nothing new refused, the newest kept.
* **audio**: a callback that must never wait. Correct means: no command lost,
  doubled or reordered; the right voice gives way; no sound clipped.
* **rhi**: a frame, its image and its fence retire on different clocks, two
  targets share images without waiting for each other, and a resize or a failure
  may come between any two steps. Correct means: what queued work reads does not
  change or die; no access to an image races another; a failure never leaves the
  books of a slot or an image saying what is not so.
* **ecs, snapshot**: handles that outlive what they name. Correct means: a stale
  handle names nothing, the sparse arrays invert the dense ones, and only two
  captures of one entity are blended.
* **frame, input, the windowed loop**: events at any rate between frames of any
  length. Correct means: no input lost or stuck, no step run in a pause, and a
  picture that never goes back.
* **ui**: identifiers, flags and caches (rectangles, dress, focus) that must
  follow a tree the host edits between events. Correct means: each decision is
  about the node under the pointer as it is now.

`PROJECT.json` lists each hazard at its line, with the properties that would
catch it.

## 2. Modules

| Module | Models | Composes |
|---|---|---|
| `ParallelFor` | what `parallel_for` promises, with no thread in it | |
| `JobPool` | `crates/jobs` | implements `ParallelFor` (`Promise`) |
| `JobPool_proofs` | | theorems about `JobPool`: the bracket, no lost wakeup, that it implements `ParallelFor` |
| `Lockstep` | what a lockstep session promises | |
| `Session` | `net/session.rs` for all peers, and the network | implements `Lockstep` (`Promise`) |
| `Session_proofs` | | theorems about `Session`: handshake, inputs, skew, that it implements `Lockstep`, that a desync report is true, that nothing is displaced |
| `Lobby` | `net/lobby.rs`, host and joiners, and the network | |
| `Lobby_proofs` | | theorems about `Lobby`: one seat each, rosters agree |
| `Chat` | `net/chat.rs` for all peers, and the network | |
| `Chat_proofs` | | theorems about `Chat`: what is refused, what comes twice |
| `Audio` | `audio/ring.rs` and `audio/mixer.rs` | ring and mixer, two threads |
| `Audio_proofs` | | theorems about `Audio`: order, stealing, whole sounds |
| `FrameWalk` | `rhi/vk/pass.rs`, `transition.rs`, `render_image.rs`: one frame's use of one image | |
| `Gpu` | `rhi/vk/swapchain.rs`, `offscreen.rs`: both targets, the queue, the handles | walks each image by `FrameWalk` |
| `Gpu_proofs` | | theorems about `FrameWalk` and `Gpu`: barriers, books of the slots |
| `FrameLoop` | `frame/schedule.rs` | |
| `InputMap` | `input` | |
| `Ecs` | `ecs/entity.rs`, `store.rs` | |
| `Snapshots` | `snapshot` | |
| `GlideWorld` | `samples/glide/world` | an `Ecs` allocator and two stores |
| `PauseMenu` | `samples/glide/src/menu.rs`, the pointer and queue of `ui/input.rs` | |
| `Glide` | `samples/glide/src/windowed.rs` | `FrameLoop`, `InputMap`, `Snapshots`, `GlideWorld`, `PauseMenu` |
| `Glide_proofs` | | theorems about the operators of `Ecs`, about one step of `GlideWorld`, and about `Glide`: stores, taps, keys, what is drawn |
| `UiTree` | `ui/lib.rs`: arena and links | |
| `UiLayout` | `ui/layout.rs`: solver and hit test | |
| `UiField` | `ui/field.rs`: one text field | |
| `Ui` | `ui/lib.rs`, `document.rs`, `input.rs`, `state.rs`: the tree and its host | `UiTree`, `UiLayout`, `UiField` |
| `Ui_proofs` | | theorems about `UiField`, `UiTree` and `Ui`: text, links, the click, dress, rectangles, fields |
| `MC*` | | what TLC needs beside each |

A definition whose comment begins `Mutant:` is a wrong twin of the definition
after it, kept to show that the properties notice: no specification uses it.

### JobPool

The dispatcher is thread 0, the workers are `1..N`. A step is one critical
section of the mutex, one atomic `fetch_add` on the claim cursor, one
`notify_all`, or the end of one chunk's body. `pc` says where a thread is;
`parked` is inside a condition variable, from which a notification
(`WakeWorkers`, `Close`) or a `SpuriousWakeup` brings it back to its loop. The
borrowed frame is named by the number of its dispatch, so a dangling pointer
(`held[w]`) is visible as a name that is not `frame`. `Publish` is the critical
section of `dispatch`; `DrainWaits` and `Finish` are the barrier loop and the
retirement; `FinishUnwinding` is the same barrier run by a guard's `drop` when
the dispatcher's own chunk panics; `SpawnFails` is a construction that fails
half way. `epoch` wraps at `EpochMod` in place of 2^64. How a slice is cut into
chunks is abstracted to the number of chunks.

### Session and Lockstep

One session per peer; the variables have the source's names. An input for tick
`t` is the number `t`, so that an input taken for another tick's is seen; a
world is the inputs it was built from and who departed. `Advance` and `Commit`
are separate, as they are for the driver, and anything may be delivered between
them. `Deliver` is `Session::deliver` on a parsed datagram: a refused one
changes only counters and is a stutter. `Pump` is `next_outbound` called until
it returns `None`, which is how every driver calls it. In `Spec` the network
`net` only grows: a datagram may be delivered late, repeatedly or never. In
`FairSpec` a datagram is taken out when delivered and lost when its sender pumps
again first (`Repump`).

`Lockstep` has a script per peer and the ticks each has run. `Promise` maps
`script` to what was submitted, `ran` to `folded` (the sets absorbed into the
input digest) and `stopped` to the peers that reported a desync.

### Lobby

A joiner is its endpoint. All that the host's parameters fix is one session
number, and an agreement digest is that number with the size of the roster. A
joiner's program, or the host's, may start over with datagrams of its earlier
life in flight. `HostPump` is a whole pump, `Rosters` and `Starts` what it
sends, `asking` the history of who asked since it was last answered.

### Chat

`Emit` is one call of `next_outbound` that returns a datagram and `EndPump` the
one that returns `None`, so a `Send` may fall between two datagrams of a pump.
`seen[p][q]` is the filter with its bitmap as the set of distances below the
newest. `arrived` and `sends` are history.

### Audio

The game thread can be preempted with the lock held (`Lock` then `Push`); the
callback tries the lock (`Drain` or `SkipDrain`), starts what it drained one by
one, and mixes. A sound is its length. `started`, `heard` and `cut` are history.

### FrameWalk and Gpu

`call` says how far the one thread has come in a call of `render`, `resize` or
an offscreen render; the device completes the head of `queue` at any moment
(`Complete`) or is lost (`Lose`). A frame is what it reads and, per image, the
uses its passes make of it. `FrameWalk!Walk` takes one image through those uses:
it is both the code's state machine (refusal, entry state, barriers, where the
image is left) and, in `device`, the synchronization the barriers give the
physical image, so that a barrier too weak shows as an access that races. A
queue entry remembers its target and slot, what it reads, and whether its chain
and the bytes of its slot still stand; memory lives while a handle or a retention
table holds it (`Alive`). Every call of the driver may fail: `Fault(name)` counts
against `MaxFaults`; `lost` makes all fail. Handles may be released and created
between any two calls. A frame is walked once when its render begins: the
contract's walk and the recording one read images that only a submit moves.

### Glide and its parts

Each event is an action; `Update` is the whole of `update_at`: it plans steps,
drains the menu, banks the flap, runs the world and captures it per step, sets
the blend factor and retires the edges. Time is in thirds of a step. `physical`
is the keyboard itself, of which the window hears only with the focus. `tap` is
history: how far the player's latest tap has come. A pipe's body is its x, the
bird the number of ticks it has been integrated, so that what is drawn can be
compared with what ran. Whether a step kills the bird is given.

### Ui and its parts

An event of the pointer first makes the code refresh the bits and the dress of
every node that may have changed (`Hear`). The host edits in the order of one of
a few plans, with events between any two edits; a call with a stale id changes
nothing and is no action. `serial` and `press_on` are history: who a node is,
whatever slot it has, and whose the press was. A style is a size and a
background; containers pack along one axis. A byte of a field names its character
and its place in it.

## 3. Runs

| Run | Instance | Shows |
|---|---|---|
| `jobs` | 2 workers, 3 calls of up to 3 chunks, epoch modulo 2 | the bracket, once-only chunks, panics, refinement of `ParallelFor`, every call returns, every thread is joined |
| `session_safety` | 2 peers, delay 1, redundancy 2, window 2, history 2, 3 ticks, a digest each tick, one peer with other parameters, one may depart and leave | inputs agree, nothing displaced, desync reports are real and bracket the departure, refinement of `Lockstep` |
| `session_fair` | 2 peers, 3 ticks with runs, ring and digest ring shorter than that, a digest every second tick, fair lossy network, one departs, one leaves | skew, the needed frame is in the next run, every tick confirms, every session ends and has run what it holds, a departure is found |
| `session_delay` | the crate's constants, delay 8 | violated: see section 6 |
| `session_report` | 2 peers, 3 ticks | violated |
| `lobby_safety` | 4 joiners for 2 seats, one with other content, one that restarts, 2 lobbies of the host | whoever starts agrees on the roster; a roster goes to exactly those who asked |
| `chat_safety` | 1 talker, 2 receivers, 3 messages, window 2, ring 2 | filter, ring, repeats |
| `audio` | 5 pushes, ring 3, 2 voices, sounds of 0, 2 and 3 samples, buffers of 2 | order, stealing, whole sounds, nothing left waiting |
| `gpu` | 2 frame slots, a kept and a frame-scoped image, 9 frames, any call failing, 2 faults and a loss | queued work is intact, slots are quiet, no image hazard, kept images are remembered truly, calls return, a parked target comes back |
| `glide` | 3 keys, 2 buttons, budget 2, 5 ticks, 2 events a frame, frames of 1 and 7 thirds of a step | stores and allocator agree, one tick blended, taps kept, no stuck key, the picture moves on |
| `ui` | 4 nodes, 2 fields of 2 bytes, 2 patches, 5 plans of up to 4 edits, one viewport | the links, the click, the dress, the rectangles, the field |
| `ui_rects` | the same, restyling freely | violated |

Why the bounds are enough. Each is the smallest at which the thing at issue
happens at least once more than needed: two workers race with the caller as a
third claimant; three calls let a worker sleep through one and meet the next,
and an epoch modulo 2 is back at its old value in that time; rings of 2 wrap
within 3 ticks, and a window of 2 has a frame inside, at and past its edge; three
ticks with runs of 2 let a peer that submits one tick too early push the frame
another waits for out of its run (with two ticks the bound itself would forbid it);
three seats with four joiners fill up; a window of 2 for 3 messages is jumped
over exactly; a command ring of 3 fills up and wraps within five pushes, and one
drain of three has a sound more than there are voices; two frame slots come round
twice while the offscreen target works between, and two faults let the second
meet what the first left; a gap of 7 thirds asks for more steps than the budget;
a pipe every second tick dies and its slot is taken again within five; a document
of four nodes fills its arena, so that every insert takes a slot back; a field of
two bytes is full with one wide character, and of two fields one is taken back
while the other stands (characters of other widths, edits with text after the
cursor and other viewports are left to the theorems). `MaxTick`,
`MaxDispatches`, `MaxMessages`, `MaxPushes`, `MaxSessions`, `MaxFaults`,
`MaxEvents`, `TicksWanted` (Glide's own exit), `MaxFields` and the length of a
plan bound counters and are in the guard of one action each.

The queue of decisions is never full within `MaxEvents`; two peers stand for any
number in the session runs, and the theorems of section 4 hold for every set of
peers. `session_fair` has the longest delay for its runs: `RunCoversNeed` needs
`2 * InputDelay + 2 <= Redundancy`, which section 4 proves enough and the crate
does not enforce; `session_delay` is a case beyond it. `ui` has
`MayReshape = FALSE`: a new base keeps the geometry its patches were compiled
against, without which `RectsCurrent` fails (`ui_rects`).

### Fairness

* `jobs`: every thread that can take a step takes one (an operating system
  schedules threads), a chunk's body ends. Calls and spurious wakeups are
  nobody's duty. No strong fairness: a thread that keeps losing the mutex would
  need it, and none has to be assumed.
* `session_fair`: the drivers keep looping, as the loop of
  `net/src/bin/net_digest.rs` does (weak fairness of pumping and of a turn's
  work). Of the frames one peer sends another again and again, some are delivered
  again and again, and so are some of its other datagrams together (strong
  fairness of delivery: the weakest assumption under which a protocol without
  acknowledgement can promise anything). Which of hello, digest and goodbye gets
  through while several are sent is left open.
* `chat`: pumps go on.
* `audio`: the device calls back for ever and the game lets go of the lock.
  That the callback ever finds it free is not assumed; with unbounded pushing
  and the worst preemption it might not, so `AllDrained` speaks of a game that
  pauses.
* `gpu`: the device makes progress (work submitted ends or the device is lost),
  a call that can go on does, and an owner told `NeedsResize` resizes sooner or
  later: what its contract asks of it. The owner calls nothing else of duty.

`glide` does not check deadlock: the loop exits after `TicksWanted`. Everywhere
else deadlock is checked.

## 4. Proofs

`JobPool_proofs` proves, for every number of workers, chunks, calls and epochs:

* `TypeCorrect`: `Spec => []TypeOK`.
* `BracketSound`: `Spec => []NoDanglingFrame`, the SAFETY argument of `TaskRef`:
  a worker that may dereference its pointer holds the live frame.
* `NoSleeper`: `Spec => [](NoLostWakeup /\ BarrierIsAwake)`.

`NoDanglingFrame` is not inductive: that `Finish` pops the frame only when no
worker is in its bracket must be known from `active = 0`. `BracketInv` therefore
adds that `active` counts the brackets (`ActiveCounts`), that the published
pointer is the live frame (`FrameIsTask`), where the frame is alive
(`FrameLives`), where the shutdown flag is up and which workers exist
(`ShutdownPc`, `UnspawnedPc`). `BracketInvariant` proves it inductive, one lemma
per conjunct and one step per action; `Actions` splits `Next` once for all. The
assumptions are those of the constants in `JobPool`, which TLC evaluates in
`jobs`.

* `PoolImplementsParallelFor`: `Spec => ImplementsParallelFor`.

The refinement maps a call to `result = "busy"`, what is still to do to the
indices of the plan from the cursor on, what is being done to the indices the
threads inside a chunk hold, and a broken pool to one that is poisoned or has a
thread unwinding. A claim, the end of a chunk's body, a panic, a call and its
return are the abstract steps; all else stutters (`QuietSteps`). Four facts make
it go, with `BracketInv`: a call is on exactly while the caller is in a dispatch
(`BusyPc`); no two threads hold one index, and what is held is behind the cursor
(`RunsApart`); the caller waits at the barrier only when the cursor has passed
the plan (`AllClaimed`), so that a call that ends well left no chunk out; and in a
dispatch the flag that tells of a panic and the poison agree (`PanicsTold`), so
that the caller hears of a panic just when there was one.

`Session_proofs` proves, for every set of peers and every window,
delay, run length, digest ring and period:

* `TypeCorrect`: `Spec => []TypeOK`.
* `HandshakeSound`, `AgreementSound`: `HandshakeProof` (seeing a peer play proves
  it heard this one) and `ParametersAgree` (nobody plays in a roster whose
  parameters differ); no run repeats them.
* `InputsAgreeEverywhere`: `Spec => []ConfirmedAgree`, what lockstep is for.
* `SkewBounded`: `Spec => []LockstepSkew`.
* `SessionImplementsLockstep`: `Spec => ImplementsLockstep`.
* `NoFalseDesync`: `Spec => []DesyncIsReal`.
* `NothingForgotten`: `Spec => NeverForgets`, an action property.
* `RunsReachBack`: `Spec => []RunCoversNeed`, when
  `2 * InputDelay + 2 <= Redundancy` and `Redundancy <= Window`.

The argument is a tower of inductive invariants, each proved from those below.

1. `CoreInv` adds to `TypeOK` that a slot holds the frame of its own
   `slot_tick` (`RingHolds`), that a run on the network carries each tick's own
   frame (`RunsHold`) and that the step in hand is the pending one (`Stepping`).
   That slots are reused is harmless because a reader compares `slot_tick` with
   the tick it wants; `ConfirmedAgree` follows.
2. `HandshakeInv` says that whoever plays has heard everyone (`HeardAll`), that
   only players send frames (`SentByPlayers`) and that who is heard agrees
   (`HeardAgree`): `HandshakeProof` alone is not inductive, since it is about the
   state of a datagram's author when it is received and not when it was sent.
3. `SkewInv` says that nobody submits past the delay (`Delayed`), that what is
   held or under way was submitted (`Submitted`) and that what was run was
   submitted by everyone (`Reached`). `LockstepSkew` is the sum of the first and
   the last.
4. `RingInv` says that what is held lies in the window (`HeldInWindow`) and that
   a peer still holds each of its own frames as long as nobody is a window past
   it (`OwnHeld`). Two ticks of one slot that both lie in a window are equal
   (`SlotInjective`, the one place that needs modular arithmetic), hence
   `NeverForgets`. For `RunCoversNeed`: the peer waited for has submitted at most
   `2 * InputDelay + 2` ticks from the one awaited on, by `SkewInv`, and holds
   them all, by `OwnHeld`, so that a run of that length begins early enough.
5. `ReportInv` says that every fingerprint, kept or under way, is one its peer
   may have published (`PrintFrom`): of a tick it has run, with its departure in
   it if and only if it departed by then. Two of one tick that differ therefore
   have a departure at or before that tick behind them, and a tick for which
   everyone's is held and equal was run before any departure.

The refinement maps `script` to `1..local_next` read as ticks, `ran` to `folded`
and `stopped` to the peers with a desync outcome. `Submit`, `Advance` and a
`Deliver` or `Commit` that finds a desync are the abstract steps; all else
stutters. `Submitted` is why a script is long enough whenever a tick is run, and
`OverEnds` (a session with an outcome is over) why a stopped peer runs none.

The assumptions are those of `Session`'s constants, evaluated by TLC in every
`session_*` run. One is about the encoding and not the code: `NoneAssumption`, the
value for "nothing" is neither a peer nor a number.

`Lobby_proofs` proves, for every set of joiners, every number of seats and
lobbies, and datagrams of any earlier life still under way:

* `WholeMeshAgrees`: `Spec => []MeshAgrees`, what the digest handshake is for.
* `OwesWhoAsked`: `Spec => []RostersAreAnswers`, when `RosterCredit = 1`, the
  value of the code's constant: with more, a host would answer an ask twice.

`MeshAgrees` compares two joiners who never spoke to each other. `MeshInv` goes
by way of the host: every roster under way is a prefix of its lobby's final one
(`RostersSound`, `RostersExtend`), a go is said for the whole roster only
(`StartsSound`, `StartsAgree`), and what a joiner holds or agreed to came in a
datagram (`HeldCame`, `AgreedCame`). That datagrams are never retracted is what
makes the last two inductive: a host that starts over leaves them true.

`Chat_proofs` proves, for every set of peers, window, ring and number of repeats:

* `NothingNewRefused`: `Spec => []RefusesOnlyRepeats`.
* `RepeatsFiltered`: `Spec => []TwiceOnlyAcrossJump`.
* `RingIsNewest`: `Spec => []InboxIsRecent`, ring arithmetic included.
* `RepeatsReachAll`: `Spec => SentToAll`, the safety half of `RepeatsSpent`: a
  message that leaves the outbox was sent to every peer its number of times, or
  once less to the peers the pump under way had passed when it was put there.

`FilterInv` ties the bitmap to the history: what was taken in is the newest,
marked, too old, or was forgotten in a jump of exactly the window (`Remembered`).

`Audio_proofs` proves, for every capacity, number of voices, buffer and set of
sounds:

* `CommandsInOrder`: `Spec => []InOrderOnce`.
* `OldestIsCut`: `Spec => []OldestGivesWay`.
* `SoundsHeardWhole`: `Spec => []HeardWhole`.

`MixerInv` says that the waiting slots hold the last commands accepted
(`RingHolds`, with the arithmetic of the ring in `Division` and its lemmas), that
the sounds of the mixer's own are started in the order accepted
(`StartedInOrder`), and that a busy voice plays one started sound, no other voice
plays it, and its cursor is what was heard of it (`VoicesPlay`).

`Gpu_proofs` proves, for every set of images and every set of frames of any
number of passes:

* `BarriersSuffice`: `Spec => []NoImageHazard`.
* `MemoryIsTrue`: `Spec => []KeptIsTrue`.
* `QueuedWorkIsIntact` and `QuietSlots`: `Spec => []WorkIsIntact` and
  `Spec => []SlotIsQuiet`, for any number of frame slots, when `Trusted`: the
  labels `retire` and `drop` are not among the failures. `retire_fence_after_idle`
  ignores the result of its reset and the two `Drop`s that of their wait; the
  run makes the same assumption. The two theorems about images need none.

The first two are about one frame before they are about the system. `DeviceOK`
says in which layout an image is left and that what is open for a stage is
harmless to the next access there; `Follows` ties the code's entry of the walk to
it. `PassFollows` shows that one pass keeps them, `WalkFollows` that a whole walk
does, by induction on the passes: `Walk` is a recursive function, and `Induction`
is the library's theorem on well-founded relations in terms of sets, which needs
no operator as parameter. The last two rest on `BooksInv`: which flag, fence and
retention table each queued piece of work answers to, and that no two answer to
the same.

`Glide_proofs` has three parts. The first is about the operators of `Ecs`, for every
set of slots and every type of component. A store that is well formed (`StoreOK`:
sparse inverts dense) is a function from slots to components; `InsertSetsOneSlot`
and `RemoveTakesOneSlot` say that an insert changes it at one slot and a removal,
whose swap moves the last entry, takes one slot away. `SpawnMintsFresh` and
`DespawnTakesOne` keep the allocator's books (`EntitiesOK`) and make alive, or end,
exactly one handle; `StaleStaysStale` says that an ended handle never names
anything again.

The second part is about the world. `WorldInv` says that the two stores hold the
living handles and nothing else (`WorldOK`), that every pipe was spawned a multiple
of the interval ago and is not out yet (`Spaced`), and that no two are in one place
(`Apart`). Hence at most `MaxPipes` slots are ever used, and nothing is ever
refused: with the code's constants `MaxPipes` is 373 / 90 + 1 = 5 and a capture has
16 slots (`PIPE_SLOTS`). `WorldAssumption` and `GlideAssumption` ask for `1..MaxPipes`
among the slots of the stores and of a capture. `WorldSteps` keeps `WorldInv`
through flight, spawn, move and sweep. `PictureInv` says that the current capture
shows the world as it is and that, slot by slot, the last two differ by what the
bird flew; `LoopInv` adds the loop's own numbers. They give, for every keyboard,
step, budget and geometry:

* `StoresAlwaysAgree`: `Spec => []StoresAgree`, that no capture refused a pipe
  included.
* `OneTickIsDrawn`: `Spec => []BlendsOneTick`.
* `TapsAreKept`: `Spec => []TapIsKept`.
* `PictureAlwaysMovesOn`: `Spec => PictureMovesOn`, an action property.

The loops of the code (the sweep, the iteration of a store, the steps of a frame)
are recursive functions, whose values the proofs reach by the induction on sets
that `Gpu_proofs` uses too.

The third part proves `NoKeySticks`, `Spec => []NoStuckKey`, for every set of
keys and bindings and every bound. `NoStuckKey` is not inductive: an open menu
swallows releases, and a window without the focus hears none. `LetGo` adds that
in either case every binding has been let go. The constants' assumptions are
those of `Glide` and its parts; that Escape is not the left button is one of them.

`Ui_proofs` proves, for every number of slots and fields, every field length,
document, pool, table and plan of a host:

* `TreeIsSound`: `Spec => []TreeSound`.
* `ClicksAreOneNode`: `Spec => ClickIsOneNode`, an action property.
* `DressIsFollowed`: `Spec => []DressFollows`.
* `RectsAreCurrent`: `Spec => []RectsCurrent`, when `MayReshape` is false: the
  condition under which the run finds it true, and without which `ui_rects` finds it
  false. No other theorem of the module needs it.
* `FieldsAreHeld`: `Spec => []FieldsHold`.

`TreeSound` says what a walk of the arena meets; a proof needs what the links say,
slot by slot. `Linked(t, waiting)` is that: siblings and parents agree among the live
nodes that do not wait to be freed (`Siblings`), there is a rank in which parents and
elder siblings come first (`Aged`: no cycle, and no walk longer than the slots), and
the free list is a stack of the dead slots (`Stacked`). `TreeInv` is `Linked` with
nothing waiting. `GrownKeepsTree` is `insert`. `remove` is a loop that breaks the
tree before it mends it: `free_subtree` runs a stack of detached nodes through their
`prev_sibling`, whose subtrees still hang off them. `Freeing` is `TreeInv` between
two of its turns, `UnlinkedMayBeFreed` the way in, `FreeOneKeeps` one turn,
and `PrunedKeepsTree` the way out: each turn frees one live slot, so that as many
turns as there are slots end it. `LoadedTree` builds the document. `TreeInvSound`
comes back to walks: `ChildrenAre` (a chain of links is the children, each once, in
order) and `OrderIs` (a walk by levels meets every live node once, since a node not
met has an ancestor of least rank not met).

Four more invariants rest on `TreeInv`, each on those before it. `PressInv` says that
an id never runs ahead of its slot's generation (`Known`), so that one which ended
names nothing again, and that a press that still names a node names the one pressed.
`DressInv` says, slot by slot, what is worn and who has bits (`Dressed`): a refresh
visits only the nodes it remembers and the three that have bits now, and that is
everyone whose bits changed. `RectsInv` adds that the flags of the pool are true of
every base (`Resolved`), since a patch that comes off without a layout pass must not
have moved anything; `SameSizes` says that `Solved` reads sizes and nothing else of
a style. `FieldsInv` gives each field the one number its bytes bear.

The text of a field is proved first: typing (`TypingKeepsText`) and every editing key
(`EditingKeepsText`) take a field of whole characters with its cursor between two
to another, for every alphabet of characters of one to
four bytes. The lemmas follow the code: what a cut and a splice do to a sequence
(`CutIs`, `TypedIs`), that a byte's character lies whole around it (`RunBefore`,
`RunAfter`), hence that a step back or forward over continuation bytes lands
between two characters (`BackIsBoundary`, `ForwardIsBoundary`).

The assumptions are those of `Ui`'s constants, which TLC evaluates in `ui`. A document
is a sequence whose parents come earlier, with tables in its pool and flags that are
true, as `check_tables` and the document's reader leave it; a pool has no entry for
"no patch" (`PoolAssumption`). That the value for "no node" is not an id
(`NoneAssumption`) is about the encoding.

Only model-checked: all liveness, which is out of the prover's reach (`CallsReturn`
and `DropJoins`, the progress of sessions, `AllDrained`, the calls and targets of
`Gpu`, and the liveness half of `RepeatsSpent`). Every other property of a passing
run is a theorem.

## 5. Plan

Done: the session, lobby, chat, jobs and audio; the GPU's frame protocol; the
simulation crates as `samples/glide` puts them together; the widget tree.

1. Compose the lobby with the session: parameters and addresses handed from one
   to the other, with rosters of the lobby still in flight while the session
   plays.
2. Model `core/memory`'s block pool and `scene`'s links against the same abstract
   finite map with names never reused that the theorems on `Ecs` state.

Every run asks a question of its own; a new one should replace the weakest.

## 6. What the runs found

* `session_delay`: with `input_delay >= INPUT_REDUNDANCY` the frame of tick 0 is
  never sent, and every peer stalls for ever without any loss. Validation
  accepts delays up to 63. `RunsReachBack` shows delays up to 3 safe for the run
  of 8. In between the session depends on its driver: one that runs several
  ticks between two pumps leaves frames out of every run it sends. TLC finds the
  same stall with a delay of 1 and a run of 2 in a window of 4.
* `session_report`: `report_at` filters the others' fingerprints by tick and not
  its own, so a desync found for an old tick can be reported with
  `inputs_agree = false` though the inputs agreed.
* `ui_rects`: a node is restyled, geometry and all, while it wears a patch whose
  `touches_layout` flag, made against the old base, is false. The tree is solved,
  the patch comes off, the size in force changes and nothing is marked dirty:
  `solve` returns early and events are decided on rectangles of a style that is no
  longer in force.

Seen while modelling, with no run of their own.

* Session: `last_agreed_before` counts a digest that never arrived as agreement, so
  that the divergence may lie before `last_agreed_tick`, where `desync.rs` says it
  lies inside `(last_agreed_tick, tick]`; `DesyncIsReal` says what holds, for the
  ticks everyone's digest is held of, and fails at once without that condition. A
  digest of tick `t` delayed by `DIGEST_HISTORY` takes the slot of a newer one.
  After a departure the peers may end with tick counts that differ by what the
  leaver's last frames were for.
* Lobby: only the first of the eight pumps of the go can carry a roster. A fresh
  joiner takes a delayed roster of the host's earlier lobby for a live one
  (`absorb_roster` compares the session only with a roster already held).
* Chat: a sequence number exactly `SeenWindow` above the newest forgets a message
  still inside the window, and its late repeat is handed out again
  (`TwiceOnlyAcrossJump` states the one case exactly). A message that is late but
  inside the window is handed out after newer ones of the same sender, where the
  module's doc says each sender's messages arrive in order.
* GPU: `retire_fence_after_idle` ignores the result of its reset, so the comment
  that it keeps "unsignaled when not pending" holds only if the driver never
  refuses one (`MayFail` leaves the labels `retire` and `drop` out of the run for
  that reason: a target may also be dropped when its wait fails). Of the failures
  in the middle of a frame, those of the wait, the reset and the acquire return
  without tearing the chain down. A present that is merely suboptimal still
  answers `NeedsResize`.
* Glide: the comment on `update_at` says the tick count of the digest line and the
  world can never disagree; they do in a pause and after a restart. A flap banked
  before a pause is flown after it; two taps in one frame are one flap. The frame
  that ends a pause may draw the bird up to one tick back, since the factor starts
  again from the schedule's remainder. The press of Escape that opens the menu is
  put down after everything was released and its release is swallowed, so the map
  keeps a key that is bound to nothing. A click on Resume still queued closes a
  menu that was closed and opened again before the update. Binding a held key
  again leaves the old action held. The allocator hands out the slot freed last, where
  its doc says the lowest.
* UI: the fourth state bit, disabled, is set by nothing.

## 7. Not modelled

* The wire codec, file formats and text codecs: pure functions of bytes, which
  the repository fuzzes and round-trips. The models exchange parsed datagrams.
* Numeric code (physics, fixed point, random numbers, resampling, matrices):
  words of 32 and 64 bits, beyond enumeration.
* The Vulkan calls other than those of the frame protocol (device, pipelines,
  shaders, uploads, formats), window, sockets, files and devices of `core/platform`:
  their state is the driver's or the operating system's.
* Of Glide: close requests, failed draws and resizes, the wedge check (each makes
  the next update exit and do nothing else), effects, sound, title, score, gaps of
  the pipes, key repeats.
* Of the UI: the cross axis, margins, padding, gaps and growth, the document codec,
  text measuring, the digest, drawing. The queue of decisions is in `PauseMenu`.
* `ecs` generations are natural numbers: they wrap after 2^32 despawns of one slot,
  where `entity.rs` itself gives its promise up.
* Statistics counters everywhere: no behaviour depends on them.
* Tools, samples, benchmarks, fuzz targets and third-party code.
* `scene`, `volume`, `particles`, `core/memory`: sequential tables and fixed pools
  with no caller between whose steps another can come; the memory pool's free list
  and generations repeat the entity table's.
