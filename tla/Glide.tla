------------------------------- MODULE Glide -------------------------------
(***************************************************************************)
(* The windowed loop of samples/glide, which puts the engine's simulation  *)
(* crates together: events reach the input map or the menu, an update      *)
(* plans steps, runs the world, captures it for the picture, and exits.    *)
(*                                                                         *)
(* update_at is one action. Drawing only reads. A failed draw or resize, a *)
(* close request and the wedge check make the next update exit and do      *)
(* nothing else: they cut a behaviour short and are left out, as are the   *)
(* effects, sound, title, score and statistics, which decide nothing here. *)
(***************************************************************************)
EXTENDS Integers, Sequences, FiniteSets, FrameLoop, InputMap, GlideWorld, Snapshots, PauseMenu

CONSTANTS
  OtherKeys,       \* bindings other than Escape and Left
  SnapshotSlots,   \* the slot budget of the picture's captures
  TicksWanted,     \* the loop exits once the world has run this many ticks
  FlapMax,         \* pending_flaps saturates here
  Gaps,            \* bound: the times between two updates
  MaxEvents        \* bound: the events between two updates

Keys == {Escape, Left} \cup OtherKeys

ASSUME GlideAssumption ==
  /\ Bound \subseteq Keys /\ Escape \notin Bound /\ Escape # Left
  /\ Gaps \subseteq Nat /\ FlapMax \in Nat \ {0}
  /\ 1..MaxPipes \subseteq SnapshotSlots

VARIABLES
  physical,   \* the keys that are down at the keyboard and mouse
  focused,    \* whether the window hears them
  events,     \* events since the last update
  input, menu, pending_flaps,
  bank, alpha, paused,
  world, picture,
  running,    \* the loop has not exited
  tap         \* the player's tap: none, fresh, or owed to a step

outside == <<physical, focused, events>>
program == <<input, menu, pending_flaps, bank, alpha, paused, world, picture, running>>
vars == <<outside, program, tap>>

NoTick == -1

(* The picture: the pipes' captures and the bird's last two positions. *)
NewPicture(w) == [pipes |-> NewPair(SnapshotSlots), bird |-> w.bird, before |-> NoTick]

Init ==
  /\ physical = {} /\ focused = TRUE /\ events = 0
  /\ input = NoInput /\ menu = NewMenu /\ pending_flaps = 0
  /\ bank = Anchored /\ alpha = 0 /\ paused = FALSE
  /\ world = NewWorld /\ picture = NewPicture(NewWorld)
  /\ running = TRUE
  /\ tap = "none"

----------------------------------------------------------------------------
(* Events *)

Event == running /\ events < MaxEvents /\ events' = events + 1

(* Mutant: opening the menu releases nothing. *)
OpenKeepsKeys(key, pressed) ==
  IF menu.open THEN input ELSE Set(input, key, pressed)

(* What the input map makes of an event: nothing while the menu was open   *)
(* as it arrived; the event that opens the menu lets every key go first.   *)
Routed(key, pressed) ==
  LET opens == ~menu.open /\ Handled(menu, key, pressed).open
  IN  IF menu.open
      THEN input
      ELSE Set(IF opens THEN ReleaseAll(input) ELSE input, key, pressed)

Deliver(key, pressed) ==
  /\ menu' = Handled(menu, key, pressed)
  /\ input' = Routed(key, pressed)
  /\ UNCHANGED <<pending_flaps, bank, alpha, paused, world, picture, running>>

(* A press at the window: with no other key of the action down and the     *)
(* menu closed, it is a tap.                                               *)
Press(key) ==
  /\ Event /\ focused /\ key \notin physical
  /\ physical' = physical \cup {key}
  /\ tap' = IF tap = "none" /\ key \in Bound /\ ~menu.open /\ physical \cap Bound = {}
            THEN "fresh" ELSE tap
  /\ Deliver(key, TRUE)
  /\ UNCHANGED focused

Let(key) ==
  /\ Event /\ focused /\ key \in physical
  /\ physical' = physical \ {key}
  /\ Deliver(key, FALSE)
  /\ UNCHANGED <<focused, tap>>

(* A key let go while another window has the focus: nobody tells.          *)
LetUnseen(key) ==
  /\ Event /\ ~focused /\ key \in physical
  /\ physical' = physical \ {key}
  /\ UNCHANGED <<focused, program, tap>>

(* A pointer move reaches the tree only while the menu is open. *)
Move(place) ==
  /\ Event /\ focused /\ menu.open /\ place # menu.pointer
  /\ menu' = UiMoved(menu, place)
  /\ UNCHANGED <<physical, focused, input, pending_flaps, bank, alpha, paused, world,
                 picture, running, tap>>

LoseFocus ==
  /\ Event /\ focused
  /\ focused' = FALSE
  /\ input' = ReleaseAll(input)
  /\ UNCHANGED <<physical, menu, pending_flaps, bank, alpha, paused, world, picture,
                 running, tap>>

GainFocus ==
  /\ Event /\ ~focused
  /\ focused' = TRUE
  /\ UNCHANGED <<physical, program, tap>>

----------------------------------------------------------------------------
(* update_at *)

Captures(p, w) ==
  [pipes |-> Captured(p.pipes, PipesOf(w)), bird |-> w.bird, before |-> p.bird]

Banked(flaps) ==
  IF ~menu.open /\ input.just_pressed /\ flaps < FlapMax THEN flaps + 1 ELSE flaps

(* Mutant: a restart keeps the picture of the world before it. *)
OldPicture(w) == picture

(* The captures belong to the world they were taken of. *)
PictureOf(w) == IF AsksRestart(menu) THEN NewPicture(w) ELSE picture

(* What the steps change, as the drained menu leaves it. *)
Begun ==
  LET fresh == IF AsksRestart(menu) THEN NewWorld ELSE world
  IN  [world   |-> fresh,
       picture |-> PictureOf(fresh),
       flaps   |-> IF AsksRestart(menu) THEN 0 ELSE Banked(pending_flaps),
       tap     |-> IF AsksRestart(menu) THEN "none"
                   ELSE IF tap # "fresh" THEN tap
                   ELSE IF menu.open THEN "none" ELSE "owed"]

(* One step of the plan: the world, its capture, and at most one flap.     *)
Stepped(s, dies) ==
  LET w == WorldStep(s.world, dies)
  IN  [world   |-> w,
       picture |-> Captures(s.picture, w),
       flaps   |-> IF s.flaps > 0 THEN s.flaps - 1 ELSE 0,
       tap     |-> IF s.flaps > 0 THEN "none" ELSE s.tap]

(* The plan's steps; the bird dies in step fatal, in none if fatal is 0.   *)
Run(s, steps, fatal) ==
  LET run[n \in 0..steps] ==
        IF n = 0 THEN s ELSE Stepped(run[n - 1], n = fatal)
  IN  run[steps]

(* Mutant: the factor follows the schedule through a pause. *)
FactorSweeps(frozen, remainder) == remainder

(* The blend factor moves only while the world does. *)
Factor(frozen, remainder) ==
  IF ~frozen THEN remainder ELSE IF AsksRestart(menu) THEN 0 ELSE alpha

Done(w) == w.tick >= TicksWanted

Update ==
  /\ running
  /\ \E gap \in Gaps, fatal \in 0..Budget :
       LET plan == BeginFrame(bank, gap)
           drained == Drained(menu)
           run == IF drained.open THEN Begun ELSE Run(Begun, plan.steps, fatal)
       IN  /\ fatal <= plan.steps
           /\ fatal > 0 => Begun.world.alive /\ ~drained.open
           /\ bank' = plan.remainder
           /\ menu' = drained
           /\ paused' = drained.open
           /\ world' = run.world
           /\ picture' = run.picture
           /\ pending_flaps' = run.flaps
           /\ tap' = run.tap
           /\ alpha' = Factor(drained.open, plan.remainder)
           /\ input' = Retired(input)
           /\ running' = ~Done(run.world)
  /\ events' = 0
  /\ UNCHANGED <<physical, focused>>

Next ==
  \/ \E key \in Keys : Press(key) \/ Let(key) \/ LetUnseen(key)
  \/ \E place \in Places : Move(place)
  \/ LoseFocus \/ GainFocus
  \/ Update

Spec == Init /\ [][Next]_vars

----------------------------------------------------------------------------
(* Properties *)

(* The allocator and both stores tell one story whatever was spawned,      *)
(* swept and restarted: the sparse arrays invert the dense ones, a pipe    *)
(* has a body and a live handle and nothing else is alive, no slot is      *)
(* leaked, and no capture is ever refused for a slot past its budget.      *)
StoresAgree ==
  /\ WorldOK(world)
  /\ ~picture.pipes.current.refused /\ ~picture.pipes.previous.refused
  /\ alpha \in 0..(Dt - 1) /\ pending_flaps \in 0..FlapMax

(* Everything drawn spans the same single tick: the newest end is the      *)
(* world as it stands, the older end is one tick of travel behind it (none *)
(* for a dead world), for the bird and every pipe alike, and no pipe is    *)
(* drawn twice.                                                            *)
BlendsOneTick ==
  LET drawn == Pairs(picture.pipes)
      living == {i \in DOMAIN drawn : drawn[i].fate = Living}
      newest == Present(picture.pipes)
      span == picture.bird - picture.before
  IN  /\ picture.bird = world.bird
      /\ picture.before # NoTick =>
           /\ span = 1 \/ (span = 0 /\ ~world.alive)
           /\ [i \in DOMAIN newest |->
                 [slot |-> newest[i].slot, generation |-> newest[i].generation,
                  value |-> newest[i].to]] = PipesOf(world)
      /\ \A i \in living : drawn[i].from - drawn[i].to = span
      /\ \A i, j \in DOMAIN drawn :
           i # j => <<drawn[i].slot, drawn[i].generation>> # <<drawn[j].slot, drawn[j].generation>>

(* Where the bird is drawn, in units of one tick's travel by Dt. *)
Shown ==
  IF picture.before = NoTick
  THEN picture.bird * Dt
  ELSE picture.before * Dt + (picture.bird - picture.before) * alpha

(* Between two restarts what is drawn never goes back and never jumps by   *)
(* more than the steps one frame may run, however late frames are; only    *)
(* the frame that ends a pause may step back, by less than a tick.         *)
MovesOn ==
  LET resumes == paused /\ ~paused'
  IN  Shown' - Shown \in (IF resumes THEN 1 - Dt ELSE 0)..((Budget + 1) * Dt - 1)

(* Every step moves the picture on so, but for the one that restarts. *)
PictureMovesOn == [][AsksRestart(menu) \/ MovesOn]_vars

(* A tap made while the game runs reaches a step: through frames that run  *)
(* none, through lost focus and through a pause, it stays in the press     *)
(* edge or in the bank until a step flaps, a restart drops it, or a pause  *)
(* that opened before the frame abandons it.                               *)
TapIsKept ==
  /\ tap = "fresh" => input.just_pressed
  /\ tap = "owed" => pending_flaps > 0

(* With the focus here, no key drives the action that the player is not    *)
(* holding: releases the window never saw or the menu swallowed leave      *)
(* nothing held.                                                           *)
NoStuckKey ==
  /\ input.held = (input.down \cap Bound # {})
  /\ focused => input.down \cap Bound \subseteq physical
=============================================================================
