----------------------------- MODULE PauseMenu -----------------------------
(***************************************************************************)
(* samples/glide/src/menu.rs over the interaction state of crates/ui: a    *)
(* pointer, the node a press landed on, and the queue of activations. A    *)
(* place is the node under it, or Outside. Focus, the folds of the digest  *)
(* and text editing decide nothing here and are left out.                  *)
(***************************************************************************)
EXTENDS Naturals, Sequences

CONSTANTS
  Resume, Restart,   \* the two buttons
  OtherNodes,        \* the other boxes of the document
  QueueLimit,        \* the activations the tree's queue holds
  Escape, Left       \* the pause key and the primary button

Outside == "outside"
Nodes == {Resume, Restart} \cup OtherNodes
Places == Nodes \cup {Outside}

NewMenu == [open |-> FALSE, pointer |-> Outside, pressed |-> Outside, outputs |-> <<>>]

UiMoved(menu, place) == [menu EXCEPT !.pointer = place]

UiPressed(menu) == [menu EXCEPT !.pressed = menu.pointer]

(* A release on the node the press landed on activates it; a full queue    *)
(* drops the decision.                                                     *)
UiReleased(menu) ==
  [menu EXCEPT
     !.pressed = Outside,
     !.outputs = IF /\ menu.pressed # Outside
                    /\ menu.pointer = menu.pressed
                    /\ Len(@) < QueueLimit
                 THEN Append(@, menu.pressed)
                 ELSE @]

(* Escape toggles the menu, and parks and releases the pointer. *)
Toggled(menu) == UiReleased(UiMoved([menu EXCEPT !.open = ~@], Outside))

(* handle: the pause key from either state; the tree hears the rest only   *)
(* while the menu is open.                                                 *)
Handled(menu, key, pressed) ==
  CASE key = Escape /\ pressed -> Toggled(menu)
    [] key = Left /\ menu.open -> IF pressed THEN UiPressed(menu) ELSE UiReleased(menu)
    [] OTHER -> menu

(* drain: an activated button closes the menu. *)
Drained(menu) ==
  [menu EXCEPT !.outputs = <<>>,
               !.open = @ /\ \A i \in DOMAIN menu.outputs :
                               menu.outputs[i] \notin {Resume, Restart}]

AsksRestart(menu) == \E i \in DOMAIN menu.outputs : menu.outputs[i] = Restart
=============================================================================
