------------------------------ MODULE UiLayout ------------------------------
(***************************************************************************)
(* The solver of crates/ui/src/layout.rs and the hit test over what it     *)
(* solved, along the main axis: every container is a row, the default,     *)
(* packed at its start, without margins, padding, gaps or growth.  Across  *)
(* it all nodes with a size are alike and the pointer stays among them.    *)
(* A style is a size, in pixels or AutoSize, and a background, which       *)
(* layout does not see.                                                    *)
(***************************************************************************)
EXTENDS UiTree

AutoSize == -1
DefaultStyle == [size |-> AutoSize, background |-> "none"]
NoRect == [x |-> 0, width |-> 0]

MovesGeometry(base, resolved) == base.size # resolved.size

Sizes(style) == [s \in Slots |-> style[s].size]

(* measure: what each node wants, an AutoSize one its children together.   *)
Wanted(t, sizes) ==
  LET wanted[s \in Slots] ==
        LET children == ChildrenOf(t, s)
            below[n \in 0..Len(children)] ==
              IF n = 0 THEN 0 ELSE below[n - 1] + wanted[children[n]]
        IN IF sizes[s] = AutoSize THEN below[Len(children)] ELSE sizes[s]
  IN wanted

(* arrange: the root is the viewport; a first child is placed at its       *)
(* parent's left, another where its elder ends.  Dead slots keep their     *)
(* rectangle.                                                              *)
Solved(t, style, rect, width) ==
  LET wanted == Wanted(t, Sizes(style))
      left[s \in Slots] ==
        IF s = Root THEN 0
        ELSE IF t.prev[s] = Nil THEN left[t.parent[s]]
        ELSE left[t.prev[s]] + wanted[t.prev[s]]
  IN [s \in Slots |->
        IF t.live[s]
        THEN [x |-> left[s], width |-> IF s = Root THEN width ELSE wanted[s]]
        ELSE rect[s]]

Covers(r, x) == x >= r.x /\ x < r.x + r.width

(* The latest child that contains the point, or Nil. *)
Topmost(t, rect, x, at) ==
  LET children == ChildrenOf(t, at)
      over == {i \in DOMAIN children : Covers(rect[children[i]], x)}
  IN IF over = {} THEN Nil ELSE children[CHOOSE i \in over : \A j \in over : j <= i]

Deeper(t, rect, x, from) ==
  [at \in Slots |-> LET below == Topmost(t, rect, x, at)
                    IN IF below = Nil THEN at ELSE from[below]]

(* The deepest, latest node that contains the point, or Nil. *)
HitTest(t, rect, x) ==
  LET Turn(from) == Deeper(t, rect, x, from)
      deepest == Repeated(Turn, [at \in Slots |-> at])
  IN IF Covers(rect[Root], x) THEN deepest[Root] ELSE Nil
=============================================================================
