-------------------------------- MODULE Ecs --------------------------------
(***************************************************************************)
(* crates/ecs: the entity allocator and the sparse-set store.              *)
(*                                                                         *)
(* Slots and dense positions count from 1, so 0 can stand for ABSENT. The  *)
(* generation counter is a natural number: its wrap after 2^32 despawns of *)
(* one slot is out of the bounds. A store's sparse array is a function on  *)
(* all slots, ABSENT past the length the code has grown it to.             *)
(***************************************************************************)
EXTENDS Naturals, Sequences, FiniteSets

Absent == 0

----------------------------------------------------------------------------
(* Entities: one generation and one flag per slot ever used, and the slots *)
(* ready for reuse, newest first.                                          *)

NoEntities == [generation |-> <<>>, alive |-> <<>>, free |-> <<>>, live |-> 0]

Handle(slot, generation) == [slot |-> slot, generation |-> generation]

Used(ents) == DOMAIN ents.alive

IsAlive(ents, e) ==
  /\ e.slot \in Used(ents)
  /\ ents.alive[e.slot]
  /\ ents.generation[e.slot] = e.generation

(* The slot the next spawn takes. *)
NextSlot(ents) ==
  IF ents.free = <<>> THEN Len(ents.alive) + 1 ELSE ents.free[Len(ents.free)]

(* The allocator after a spawn, and the handle the spawn returns. *)
Spawned(ents) ==
  IF ents.free = <<>>
  THEN [generation |-> Append(ents.generation, 0),
        alive      |-> Append(ents.alive, TRUE),
        free       |-> <<>>,
        live       |-> ents.live + 1]
  ELSE [ents EXCEPT !.alive[NextSlot(ents)] = TRUE,
                    !.free = SubSeq(@, 1, Len(@) - 1),
                    !.live = @ + 1]

SpawnedHandle(ents) ==
  Handle(NextSlot(ents),
         IF ents.free = <<>> THEN 0 ELSE ents.generation[NextSlot(ents)])

Despawned(ents, e) ==
  IF IsAlive(ents, e)
  THEN [generation |-> [ents.generation EXCEPT ![e.slot] = @ + 1],
        alive      |-> [ents.alive EXCEPT ![e.slot] = FALSE],
        free       |-> Append(ents.free, e.slot),
        live       |-> ents.live - 1]
  ELSE ents

(* The free list names each dead slot once, and the count counts. *)
EntitiesOK(ents) ==
  /\ {ents.free[i] : i \in DOMAIN ents.free} = {s \in Used(ents) : ~ents.alive[s]}
  /\ \A i, j \in DOMAIN ents.free : ents.free[i] = ents.free[j] => i = j
  /\ ents.live = Cardinality({s \in Used(ents) : ents.alive[s]})
  /\ DOMAIN ents.generation = Used(ents)

----------------------------------------------------------------------------
(* Store: sparse[slot] is the slot's position in dense and values.         *)

NewStore(slots) ==
  [sparse |-> [s \in slots |-> Absent], dense |-> <<>>, values |-> <<>>]

Holds(st, slot) == st.sparse[slot] # Absent

(* The occupied slots; the code's iter walks them in ascending order. *)
Occupied(st) == {s \in DOMAIN st.sparse : st.sparse[s] # Absent}

Value(st, slot) == st.values[st.sparse[slot]]

Inserted(st, slot, value) ==
  IF Holds(st, slot)
  THEN [st EXCEPT !.values[st.sparse[slot]] = value]
  ELSE [sparse |-> [st.sparse EXCEPT ![slot] = Len(st.dense) + 1],
        dense  |-> Append(st.dense, slot),
        values |-> Append(st.values, value)]

(* The sequence with its last element moved over the p-th. *)
SwapRemoved(seq, p) == [i \in 1..(Len(seq) - 1) |-> IF i = p THEN seq[Len(seq)] ELSE seq[i]]

Removed(st, slot) ==
  LET p == st.sparse[slot]
      moved == st.dense[Len(st.dense)]
  IN  IF ~Holds(st, slot)
      THEN st
      ELSE [sparse |-> [s \in DOMAIN st.sparse |->
                          IF s = slot THEN Absent
                          ELSE IF s = moved THEN p
                          ELSE st.sparse[s]],
            dense  |-> SwapRemoved(st.dense, p),
            values |-> SwapRemoved(st.values, p)]

(* get_mut through a whole-store walk: every value v becomes Op(v).        *)
Updated(st, Op(_)) == [st EXCEPT !.values = [i \in DOMAIN @ |-> Op(@[i])]]

(* sparse and dense are each other's inverse, values runs beside dense. *)
StoreOK(st) ==
  /\ Len(st.values) = Len(st.dense)
  /\ \A s \in Occupied(st) :
       st.sparse[s] \in DOMAIN st.dense /\ st.dense[st.sparse[s]] = s
  /\ \A i \in DOMAIN st.dense :
       st.dense[i] \in DOMAIN st.sparse /\ st.sparse[st.dense[i]] = i

(* What a store means: a function from the occupied slots to their values. *)
Contents(st) == [s \in Occupied(st) |-> Value(st, s)]
=============================================================================
