------------------------------- MODULE UiTree -------------------------------
(***************************************************************************)
(* The arena of crates/ui/src/lib.rs: nodes linked intrusively in slots    *)
(* fixed at construction, a free list threaded through the sibling links,  *)
(* and a generation per slot that ends every id of a removed node.         *)
(* Generations are 64 bits wide in the code and do not wrap here.          *)
(***************************************************************************)
EXTENDS Integers, Sequences, SequencesExt, FiniteSets

CONSTANT Nodes   \* the slots, UiLimits::nodes clamped

ASSUME NodesAssumption == Nodes \in Nat \ {0}

Slots == 0..(Nodes - 1)
Root == 0
Nil == -1
Links == Slots \cup {Nil}

(* A loop over a tree takes no more turns than there are slots. *)
Repeated(Turn(_), start) ==
  LET after[n \in 0..Nodes] == IF n = 0 THEN start ELSE Turn(after[n - 1])
  IN after[Nodes]

NewTree ==
  LET none == [s \in Slots |-> Nil]
  IN [generation |-> [s \in Slots |-> 1],
      live |-> [s \in Slots |-> s = Root],
      parent |-> none, first |-> none, last |-> none, prev |-> none,
      next |-> [s \in Slots |-> IF s # Root /\ s + 1 < Nodes THEN s + 1 ELSE Nil],
      free |-> IF Nodes > 1 THEN 1 ELSE Nil,
      count |-> 1]

IdAt(t, s) == [slot |-> s, generation |-> t.generation[s]]

(* slot_of finds the node *)
IsLive(t, id) == t.live[id.slot] /\ t.generation[id.slot] = id.generation

(* The slots met from s on, following a link. *)
Longer(link, from) ==
  [at \in Links |-> IF at = Nil THEN <<>> ELSE <<at>> \o from[link[at]]]

Chain(link, s) ==
  LET Turn(from) == Longer(link, from)
  IN Repeated(Turn, [at \in Links |-> <<>>])[s]

ChildrenOf(t, s) == Chain(t.next, t.first[s])

LinkedLast(t, parent, s) ==
  LET last == t.last[parent]
  IN [t EXCEPT !.first[parent] = IF last = Nil THEN s ELSE @,
               !.next = IF last = Nil THEN @ ELSE [@ EXCEPT ![last] = s],
               !.prev = IF last = Nil THEN @ ELSE [@ EXCEPT ![s] = last],
               !.last[parent] = s]

(* insert under a live parent, when a slot is free *)
Grown(t, parent) ==
  LET s == t.free
  IN LinkedLast([t EXCEPT !.free = t.next[s], !.live[s] = TRUE, !.parent[s] = parent,
                          !.first[s] = Nil, !.last[s] = Nil, !.prev[s] = Nil,
                          !.next[s] = Nil, !.count = @ + 1],
                parent, s)

(* Mutant: the parent's last child is not moved back *)
UnlinkedFront(t, s) ==
  LET parent == t.parent[s]  before == t.prev[s]  after == t.next[s]
  IN [t EXCEPT !.first[parent] = IF before = Nil THEN after ELSE @,
               !.next = IF before = Nil THEN @ ELSE [@ EXCEPT ![before] = after],
               !.prev = IF after = Nil THEN @ ELSE [@ EXCEPT ![after] = before]]

Unlinked(t, s) ==
  LET parent == t.parent[s]  before == t.prev[s]  after == t.next[s]
  IN [t EXCEPT !.first[parent] = IF before = Nil THEN after ELSE @,
               !.next = IF before = Nil THEN @ ELSE [@ EXCEPT ![before] = after],
               !.last[parent] = IF after = Nil THEN before ELSE @,
               !.prev = IF after = Nil THEN @ ELSE [@ EXCEPT ![after] = before]]

(* One turn of free_subtree: push the children of the pending slot on the  *)
(* stack that runs through prev, then free the slot.                       *)
FreeOne(work) ==
  LET t == work.tree
      s == work.pending
      children == ChildrenOf(t, s)
      stack == <<t.prev[s]>> \o children
      below == [i \in DOMAIN children |-> stack[i]]
  IN [pending |-> Last(stack),
      tree |-> [t EXCEPT
        !.prev = [n \in Slots |->
                    IF n = s THEN Nil
                    ELSE IF Contains(children, n)
                    THEN below[CHOOSE i \in DOMAIN children : children[i] = n]
                    ELSE @[n]],
        !.generation[s] = @ + 1, !.live[s] = FALSE, !.parent[s] = Nil,
        !.first[s] = Nil, !.last[s] = Nil, !.next[s] = t.free,
        !.free = s, !.count = @ - 1]]

FreeNext(work) == IF work.pending = Nil THEN work ELSE FreeOne(work)

(* remove: unlink the node, then free_subtree *)
Pruned(t, s) ==
  Repeated(FreeNext, [tree |-> [Unlinked(t, s) EXCEPT !.prev[s] = Nil], pending |-> s]).tree

(* The live nodes by levels, as a walk from the root meets them. *)
Visit(t, walk) ==
  IF walk.at > Len(walk.met) THEN walk
  ELSE [met |-> walk.met \o ChildrenOf(t, walk.met[walk.at]), at |-> walk.at + 1]

Order(t) ==
  LET Turn(walk) == Visit(t, walk)
  IN Repeated(Turn, [met |-> <<Root>>, at |-> 1]).met

(* The links are a tree: every live node hangs off the root once, parents, *)
(* children and neighbours agree, and the free list threads the rest.      *)
Sound(t) ==
  LET order == Order(t)
      unused == Chain(t.next, t.free)
  IN /\ IsInjective(order) /\ IsInjective(unused)
     /\ ToSet(order) = {s \in Slots : t.live[s]}
     /\ ToSet(unused) = {s \in Slots : ~t.live[s]}
     /\ t.count = Len(order)
     /\ \A s \in ToSet(order) :
          LET children == ChildrenOf(t, s)
          IN /\ t.last[s] = IF children = <<>> THEN Nil ELSE Last(children)
             /\ \A i \in DOMAIN children :
                  /\ t.parent[children[i]] = s
                  /\ t.prev[children[i]] = IF i = 1 THEN Nil ELSE children[i - 1]
=============================================================================
