----------------------------- MODULE GlideWorld -----------------------------
(***************************************************************************)
(* samples/glide/world: the rules, one fixed step at a time, over the      *)
(* entity allocator and two stores of crates/ecs.                          *)
(*                                                                         *)
(* A pipe's body is its x, moving one unit a tick. The bird is the number  *)
(* of ticks it has been integrated; whether a tick kills it (the floor, or *)
(* a pipe) is given. Gaps, the score, the generator and the digest are     *)
(* left out.                                                               *)
(***************************************************************************)
EXTENDS Integers, Sequences, Ecs

CONSTANTS
  EntitySlots,    \* the slots of the stores
  PipeInterval,   \* ticks between two pipes
  PipeSpawnX,     \* where a pipe enters, in ticks of travel
  PipeWidth

\* The pipes on the screen at once, and with them the slots ever used.
MaxPipes == (PipeSpawnX + PipeWidth) \div PipeInterval + 1

ASSUME WorldAssumption ==
  /\ PipeInterval \in Nat \ {0}
  /\ PipeSpawnX \in Nat /\ PipeWidth \in Nat
  /\ EntitySlots \subseteq Nat /\ 1..MaxPipes \subseteq EntitySlots

NewWorld ==
  [ent |-> NoEntities, pipe |-> NewStore(EntitySlots), body |-> NewStore(EntitySlots),
   alive |-> TRUE, tick |-> 0, bird |-> 0]

(* The slots in the order a store's iter walks them.                       *)
Ascending(slots) ==
  CHOOSE seq \in [1..Cardinality(slots) -> slots] :
    /\ \A s \in slots : \E i \in DOMAIN seq : seq[i] = s
    /\ \A i, j \in DOMAIN seq : i < j => seq[i] < seq[j]

SpawnPipes(w) ==
  LET e == SpawnedHandle(w.ent)
  IN  IF w.tick % PipeInterval # 0
      THEN w
      ELSE [w EXCEPT !.ent  = Spawned(@),
                     !.pipe = Inserted(@, e.slot, e),
                     !.body = Inserted(@, e.slot, PipeSpawnX)]

(* Mutant: the entries go and the entity stays. *)
SweptLeaks(w, slot) ==
  [w EXCEPT !.pipe = Removed(@, slot), !.body = Removed(@, slot)]

(* One pipe that left the screen: its handle goes back to the allocator,   *)
(* its entries leave both stores.                                          *)
Swept(w, slot) ==
  [w EXCEPT !.ent  = IF Holds(w.pipe, slot) THEN Despawned(@, Value(w.pipe, slot)) ELSE @,
            !.pipe = Removed(@, slot),
            !.body = Removed(@, slot)]

Sweep(w, slots) ==
  LET swept[n \in 0..Len(slots)] ==
        IF n = 0 THEN w ELSE Swept(swept[n - 1], slots[n])
  IN  swept[Len(slots)]

AdvancePipes(w) ==
  LET OneLeft(x) == x - 1
      moved == [w EXCEPT !.body = Updated(@, OneLeft)]
      out == {s \in Occupied(moved.body) : Value(moved.body, s) + PipeWidth < 0}
  IN  Sweep(moved, Ascending(out))

(* step: a dead world only counts. *)
WorldStep(w, dies) ==
  LET flown == AdvancePipes(SpawnPipes([w EXCEPT !.bird = @ + 1]))
  IN  IF w.alive
      THEN [flown EXCEPT !.alive = ~dies, !.tick = @ + 1]
      ELSE [w EXCEPT !.tick = @ + 1]

(* for_each_pipe: what the picture is captured from. *)
PipesOf(w) ==
  LET slots == Ascending(Occupied(w.body))
  IN  [i \in DOMAIN slots |->
         [slot       |-> slots[i],
          generation |-> IF Holds(w.pipe, slots[i]) THEN Value(w.pipe, slots[i]).generation ELSE 0,
          value      |-> Value(w.body, slots[i])]]

(* The stores and the allocator tell one story.                            *)
WorldOK(w) ==
  /\ EntitiesOK(w.ent)
  /\ StoreOK(w.pipe) /\ StoreOK(w.body)
  /\ Occupied(w.pipe) = Occupied(w.body)
  /\ Occupied(w.pipe) = {s \in Used(w.ent) : w.ent.alive[s]}
  /\ \A s \in Occupied(w.pipe) : Value(w.pipe, s).slot = s /\ IsAlive(w.ent, Value(w.pipe, s))
=============================================================================
