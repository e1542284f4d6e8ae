------------------------------ MODULE InputMap ------------------------------
(***************************************************************************)
(* crates/input: physical bindings in, one action's state out.             *)
(*                                                                         *)
(* A map is [down, held, just_pressed, just_released] for one action, to   *)
(* which the bindings in Bound are bound; the other bindings reach the     *)
(* list of pressed bindings and drive nothing.                             *)
(***************************************************************************)
EXTENDS FiniteSets

CONSTANT Bound   \* the bindings of the action

NoInput ==
  [down |-> {}, held |-> FALSE, just_pressed |-> FALSE, just_released |-> FALSE]

AnyDown(map) == map.down \cap Bound # {}

(* set: a press of what is down and a release of what is not change        *)
(* nothing; an unbound key is remembered and drives no action.             *)
Set(map, key, pressed) ==
  LET down == IF pressed THEN map.down \cup {key} ELSE map.down \ {key}
      held == AnyDown([map EXCEPT !.down = down])
  IN  IF down = map.down \/ key \notin Bound
      THEN [map EXCEPT !.down = down]
      ELSE [down          |-> down,
            held          |-> held,
            just_pressed  |-> map.just_pressed \/ (held /\ ~map.held),
            just_released |-> map.just_released \/ (~held /\ map.held)]

(* The end of a tick: edges go, holds stay. *)
Retired(map) == [map EXCEPT !.just_pressed = FALSE, !.just_released = FALSE]

(* Mutant: release_all forgets the press edge with the hold. *)
ForgetsPress(map) ==
  [map EXCEPT !.down = {}, !.held = FALSE, !.just_pressed = FALSE,
              !.just_released = @ \/ map.held]

ReleaseAll(map) ==
  [map EXCEPT !.down = {}, !.held = FALSE,
              !.just_released = @ \/ map.held]
=============================================================================
