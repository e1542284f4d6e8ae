---------------------------- MODULE Glide_proofs ----------------------------
(***************************************************************************)
(* Theorems about the windowed loop of Glide and the crates under it.      *)
(*                                                                         *)
(* What Ecs promises, for every set of slots and every type of component:  *)
(* a store is a function from slots to components, an insert changes it at *)
(* one slot and a remove takes one slot away, wherever the swap put the    *)
(* rest; and a spawn or a despawn keeps the allocator's books.             *)
(*                                                                         *)
(* That no key is ever stuck, that the world's stores, allocator and       *)
(* captures agree and fit the slots made for them, and that what is drawn  *)
(* is one tick of one world: for every set of keys and bindings, every     *)
(* length of step, spacing of pipes and number of events.                  *)
(***************************************************************************)
EXTENDS Glide, FiniteSetTheorems, SequenceTheorems, WellFoundedInduction, TLAPS


----------------------------------------------------------------------------
(* Entities and stores *)

StoreOf(Slots, V) == [sparse : [Slots -> Nat], dense : Seq(Slots), values : Seq(V)]

(* A position of the dense array is the position of one slot only.         *)
LEMMA DenseInjective ==
  ASSUME NEW Slots, NEW V, NEW st \in StoreOf(Slots, V), StoreOK(st),
         NEW i \in DOMAIN st.dense, NEW j \in DOMAIN st.dense, st.dense[i] = st.dense[j]
  PROVE  i = j
BY DEF StoreOK

(* An occupied slot has a position, and a value at it.                     *)
LEMMA PositionOf ==
  ASSUME NEW Slots, NEW V, NEW st \in StoreOf(Slots, V), StoreOK(st),
         NEW s \in Slots, Holds(st, s)
  PROVE  /\ st.sparse[s] \in 1..Len(st.dense)
         /\ st.dense[st.sparse[s]] = s
         /\ Value(st, s) \in V
<1>1. s \in Occupied(st)
  BY DEF Occupied, Holds, StoreOf, Absent
<1>2. st.sparse[s] \in DOMAIN st.dense /\ st.dense[st.sparse[s]] = s
  BY <1>1 DEF StoreOK
<1>3. DOMAIN st.dense = 1..Len(st.dense) /\ DOMAIN st.values = 1..Len(st.dense)
  BY DEF StoreOK, StoreOf
<1>. QED
  BY <1>2, <1>3 DEF Value, StoreOf

(* insert over a component: the arrays stand, one value changes.           *)
LEMMA InsertReplaces ==
  ASSUME NEW Slots, NEW V, NEW st \in StoreOf(Slots, V), StoreOK(st),
         NEW slot \in Slots, NEW v \in V, Holds(st, slot)
  PROVE  LET new == Inserted(st, slot, v)
         IN  /\ new \in StoreOf(Slots, V)
             /\ StoreOK(new)
             /\ Occupied(new) = Occupied(st)
             /\ \A s \in Occupied(st) :
                  Value(new, s) = IF s = slot THEN v ELSE Value(st, s)
<1>. DEFINE p == st.sparse[slot]
            new == Inserted(st, slot, v)
<1>1. new = [st EXCEPT !.values[p] = v]
  BY DEF Inserted
<1>2. p \in 1..Len(st.values) /\ DOMAIN st.values = 1..Len(st.values)
  BY PositionOf DEF StoreOK, StoreOf
<1>3. new.sparse = st.sparse /\ new.dense = st.dense /\ new.values = [st.values EXCEPT ![p] = v]
  BY <1>1 DEF StoreOf
<1>4. new.values \in Seq(V) /\ Len(new.values) = Len(st.values)
  BY <1>2, <1>3 DEF StoreOf
<1>5. new \in StoreOf(Slots, V)
  BY <1>1, <1>4, <1>3 DEF StoreOf
<1>6. Occupied(new) = Occupied(st)
  BY <1>3 DEF Occupied
<1>7. StoreOK(new)
  BY <1>3, <1>4, <1>6 DEF StoreOK
<1>8. ASSUME NEW s \in Occupied(st)
      PROVE  Value(new, s) = IF s = slot THEN v ELSE Value(st, s)
  <2>1. s \in Slots /\ Holds(st, s)
    BY DEF Occupied, StoreOf, Holds, Absent
  <2>2. st.sparse[s] \in 1..Len(st.values) /\ (st.sparse[s] = p => s = slot)
    BY <2>1, PositionOf DEF StoreOK
  <2>. QED
    BY <2>1, <2>2, <1>2, <1>3 DEF Value
<1>. HIDE DEF new
<1>. QED
  BY <1>5, <1>6, <1>7, <1>8 DEF new

(* insert at a free slot: the component goes to the end of the arrays.     *)
LEMMA InsertAppends ==
  ASSUME NEW Slots, NEW V, NEW st \in StoreOf(Slots, V), StoreOK(st),
         NEW slot \in Slots, NEW v \in V, ~Holds(st, slot)
  PROVE  LET new == Inserted(st, slot, v)
         IN  /\ new \in StoreOf(Slots, V)
             /\ StoreOK(new)
             /\ Occupied(new) = Occupied(st) \cup {slot}
             /\ \A s \in Occupied(st) \cup {slot} :
                  Value(new, s) = IF s = slot THEN v ELSE Value(st, s)
<1>. DEFINE n == Len(st.dense)
            new == Inserted(st, slot, v)
<1>1. /\ new.sparse = [st.sparse EXCEPT ![slot] = n + 1]
      /\ new.dense = Append(st.dense, slot)
      /\ new.values = Append(st.values, v)
      /\ new = [sparse |-> new.sparse, dense |-> new.dense, values |-> new.values]
  BY DEF Inserted
<1>2. n \in Nat /\ Len(st.values) = n /\ st.dense \in Seq(Slots) /\ st.values \in Seq(V)
      /\ st.sparse \in [Slots -> Nat]
  BY DEF StoreOK, StoreOf
<1>. HIDE DEF n, new
<1>3. /\ new.sparse \in [Slots -> Nat] /\ new.dense \in Seq(Slots) /\ new.values \in Seq(V)
      /\ Len(new.dense) = n + 1 /\ Len(new.values) = n + 1
      /\ new.dense[n + 1] = slot /\ new.values[n + 1] = v
      /\ \A i \in 1..n : new.dense[i] = st.dense[i] /\ new.values[i] = st.values[i]
  <2>1. new.sparse \in [Slots -> Nat]
    BY <1>1, <1>2
  <2>2. /\ new.dense \in Seq(Slots) /\ Len(new.dense) = n + 1 /\ new.dense[n + 1] = slot
        /\ \A i \in 1..n : new.dense[i] = st.dense[i]
    BY <1>1, <1>2 DEF n
  <2>3. /\ new.values \in Seq(V) /\ Len(new.values) = n + 1 /\ new.values[n + 1] = v
        /\ \A i \in 1..n : new.values[i] = st.values[i]
    BY <1>1, <1>2
  <2>. QED
    BY <2>1, <2>2, <2>3
<1>4. new \in StoreOf(Slots, V)
  BY <1>1, <1>3 DEF StoreOf
<1>5. Occupied(new) = Occupied(st) \cup {slot}
  BY <1>1, <1>2 DEF Occupied, Absent
<1>6. ASSUME NEW s \in Occupied(st)
      PROVE  /\ s # slot /\ s \in Slots
             /\ new.sparse[s] = st.sparse[s] /\ st.sparse[s] \in 1..n /\ st.dense[st.sparse[s]] = s
  <2>1. s \in Slots /\ Holds(st, s) /\ s # slot
    BY <1>2 DEF Occupied, Holds, Absent
  <2>. QED
    BY <2>1, PositionOf, <1>1, <1>2 DEF n
<1>7. ASSUME NEW i \in 1..n
      PROVE  st.dense[i] \in Slots /\ st.sparse[st.dense[i]] = i /\ st.dense[i] # slot
  BY <1>2 DEF StoreOK, Holds, Absent, n
<1>8. StoreOK(new)
  <2>1. \A s \in Occupied(new) : new.sparse[s] \in 1..(n + 1) /\ new.dense[new.sparse[s]] = s
    <3>1. new.sparse[slot] = n + 1
      BY <1>1, <1>2
    <3>2. ASSUME NEW s \in Occupied(st)
          PROVE  new.sparse[s] \in 1..(n + 1) /\ new.dense[new.sparse[s]] = s
      <4>1. new.sparse[s] \in 1..n /\ st.dense[new.sparse[s]] = s
        BY <1>6
      <4>2. new.dense[new.sparse[s]] = st.dense[new.sparse[s]]
        BY <4>1, <1>3
      <4>. QED
        BY <4>1, <4>2, <1>2
    <3>. QED
      BY <3>1, <3>2, <1>3, <1>5, <1>2
  <2>2. \A i \in 1..(n + 1) : new.dense[i] \in Slots /\ new.sparse[new.dense[i]] = i
    <3>1. ASSUME NEW i \in 1..n
          PROVE  new.dense[i] \in Slots /\ new.sparse[new.dense[i]] = i
      BY <1>7, <1>3, <1>1, <1>2, SMTT(40)
    <3>2. new.sparse[slot] = n + 1 /\ new.dense[n + 1] = slot
      BY <1>3, <1>1, <1>2
    <3>3. \A i \in 1..(n + 1) : i = n + 1 \/ i \in 1..n
      BY <1>2
    <3>. QED
      BY <3>1, <3>2, <3>3, <1>2, Zenon
  <2>3. DOMAIN new.sparse = Slots /\ DOMAIN new.dense = 1..(n + 1)
    BY <1>3, <1>2
  <2>. QED
    BY <2>1, <2>2, <2>3, <1>3 DEF StoreOK
<1>9. ASSUME NEW s \in Occupied(st) \cup {slot}
      PROVE  Value(new, s) = IF s = slot THEN v ELSE Value(st, s)
  <2>1. CASE s = slot
    BY <2>1, <1>1, <1>2, <1>3 DEF Value
  <2>2. CASE s # slot
    BY <2>2, <1>6, <1>3 DEF Value
  <2>. QED
    BY <2>1, <2>2
<1>. QED
  BY <1>4, <1>5, <1>8, <1>9 DEF new

(* insert, whether the slot had a component or not.                        *)
LEMMA InsertIs ==
  ASSUME NEW Slots, NEW V, NEW st \in StoreOf(Slots, V), StoreOK(st),
         NEW slot \in Slots, NEW v \in V
  PROVE  LET new == Inserted(st, slot, v)
         IN  /\ new \in StoreOf(Slots, V) /\ StoreOK(new)
             /\ Occupied(new) = Occupied(st) \cup {slot}
             /\ \A s \in Occupied(st) \cup {slot} :
                  Value(new, s) = IF s = slot THEN v ELSE Value(st, s)
<1>1. CASE Holds(st, slot)
  <2>1. slot \in Occupied(st)
    BY <1>1 DEF Holds, Occupied, StoreOf
  <2>. QED
    BY <1>1, <2>1, InsertReplaces
<1>2. CASE ~Holds(st, slot)
  BY <1>2, InsertAppends
<1>. QED
  BY <1>1, <1>2

(* What insert does to the function a store stands for: it is that         *)
(* function with the slot set, whatever was there (Store::insert).         *)
THEOREM InsertSetsOneSlot ==
  ASSUME NEW Slots, NEW V, NEW st \in StoreOf(Slots, V), StoreOK(st),
         NEW slot \in Slots, NEW v \in V
  PROVE  /\ Inserted(st, slot, v) \in StoreOf(Slots, V)
         /\ StoreOK(Inserted(st, slot, v))
         /\ Contents(Inserted(st, slot, v)) =
              [s \in Occupied(st) \cup {slot} |-> IF s = slot THEN v ELSE Contents(st)[s]]
<1>. DEFINE new == Inserted(st, slot, v)
<1>1. /\ new \in StoreOf(Slots, V) /\ StoreOK(new)
      /\ Occupied(new) = Occupied(st) \cup {slot}
      /\ \A s \in Occupied(st) \cup {slot} : Value(new, s) = IF s = slot THEN v ELSE Value(st, s)
  BY InsertIs
<1>2. ASSUME NEW s \in Occupied(st) \cup {slot}, s # slot
      PROVE  Contents(st)[s] = Value(st, s)
  BY <1>2 DEF Contents
<1>. HIDE DEF new
<1>3. Contents(new) = [s \in Occupied(st) \cup {slot} |-> IF s = slot THEN v ELSE Contents(st)[s]]
  BY <1>1, <1>2 DEF Contents
<1>. QED
  BY <1>1, <1>3 DEF new

----------------------------------------------------------------------------
(* The sequence a swap-remove leaves.                                      *)
LEMMA SwapRemovedIs ==
  ASSUME NEW S, NEW seq \in Seq(S), NEW p \in 1..Len(seq)
  PROVE  /\ SwapRemoved(seq, p) \in Seq(S)
         /\ Len(SwapRemoved(seq, p)) = Len(seq) - 1
         /\ \A i \in 1..(Len(seq) - 1) :
              SwapRemoved(seq, p)[i] = IF i = p THEN seq[Len(seq)] ELSE seq[i]
BY DEF SwapRemoved

(* remove at an occupied slot: the last component takes its place in the   *)
(* arrays, and its slot learns where it went.                              *)
LEMMA RemoveSwaps ==
  ASSUME NEW Slots, NEW V, NEW st \in StoreOf(Slots, V), StoreOK(st),
         NEW slot \in Slots, Holds(st, slot)
  PROVE  LET new == Removed(st, slot)
         IN  /\ new \in StoreOf(Slots, V)
             /\ StoreOK(new)
             /\ Occupied(new) = Occupied(st) \ {slot}
             /\ \A s \in Occupied(st) \ {slot} : Value(new, s) = Value(st, s)
<1>. DEFINE n == Len(st.dense)
            p == st.sparse[slot]
            moved == st.dense[n]
            new == Removed(st, slot)
<1>1. /\ new.sparse = [s \in DOMAIN st.sparse |->
                         IF s = slot THEN Absent ELSE IF s = moved THEN p ELSE st.sparse[s]]
      /\ new.dense = SwapRemoved(st.dense, p)
      /\ new.values = SwapRemoved(st.values, p)
      /\ new = [sparse |-> new.sparse, dense |-> new.dense, values |-> new.values]
  BY DEF Removed
<1>2. n \in Nat /\ Len(st.values) = n /\ st.dense \in Seq(Slots) /\ st.values \in Seq(V)
      /\ st.sparse \in [Slots -> Nat]
  BY DEF StoreOK, StoreOf
<1>3. p \in 1..n /\ st.dense[p] = slot /\ n >= 1 /\ n \in 1..n
  BY PositionOf, <1>2
<1>4. moved \in Slots /\ st.sparse[moved] = n
  BY <1>2, <1>3 DEF StoreOK
<1>5. ASSUME NEW i \in 1..n
      PROVE  st.dense[i] \in Slots /\ st.sparse[st.dense[i]] = i
  BY <1>2 DEF StoreOK
<1>6. ASSUME NEW s \in Occupied(st)
      PROVE  s \in Slots /\ st.sparse[s] \in 1..n /\ st.dense[st.sparse[s]] = s
             /\ Value(st, s) = st.values[st.sparse[s]]
  <2>1. s \in Slots /\ Holds(st, s)
    BY <1>2 DEF Occupied, Holds, Absent
  <2>. QED
    BY <2>1, PositionOf DEF Value
<1>7. Occupied(st) = {s \in Slots : st.sparse[s] # 0}
  BY <1>2 DEF Occupied, Absent
<1>. HIDE DEF n, p, moved, new
<1>8. /\ new.dense \in Seq(Slots) /\ Len(new.dense) = n - 1
      /\ \A i \in 1..(n - 1) : new.dense[i] = IF i = p THEN moved ELSE st.dense[i]
  <2>1. st.dense \in Seq(Slots) /\ p \in 1..Len(st.dense) /\ Len(st.dense) = n
    BY <1>2, <1>3 DEF n
  <2>2. /\ SwapRemoved(st.dense, p) \in Seq(Slots)
        /\ Len(SwapRemoved(st.dense, p)) = n - 1
        /\ \A i \in 1..(n - 1) :
             SwapRemoved(st.dense, p)[i] = IF i = p THEN st.dense[n] ELSE st.dense[i]
    <3>1. /\ SwapRemoved(st.dense, p) \in Seq(Slots)
          /\ Len(SwapRemoved(st.dense, p)) = Len(st.dense) - 1
          /\ \A i \in 1..(Len(st.dense) - 1) :
               SwapRemoved(st.dense, p)[i] = IF i = p THEN st.dense[Len(st.dense)] ELSE st.dense[i]
      BY <2>1, SwapRemovedIs, Zenon
    <3>. QED
      BY <3>1, <2>1, Zenon
  <2>3. new.dense = SwapRemoved(st.dense, p)
    BY <1>1
  <2>. QED
    BY <2>2, <2>3 DEF moved
<1>9. /\ new.values \in Seq(V) /\ Len(new.values) = n - 1
      /\ \A i \in 1..(n - 1) : new.values[i] = IF i = p THEN st.values[n] ELSE st.values[i]
  <2>1. /\ SwapRemoved(st.values, p) \in Seq(V)
        /\ Len(SwapRemoved(st.values, p)) = n - 1
        /\ \A i \in 1..(n - 1) :
             SwapRemoved(st.values, p)[i] = IF i = p THEN st.values[n] ELSE st.values[i]
    <3>1. st.values \in Seq(V) /\ p \in 1..Len(st.values) /\ Len(st.values) = n
      BY <1>2, <1>3
    <3>2. /\ SwapRemoved(st.values, p) \in Seq(V)
          /\ Len(SwapRemoved(st.values, p)) = Len(st.values) - 1
          /\ \A i \in 1..(Len(st.values) - 1) :
               SwapRemoved(st.values, p)[i] =
                 IF i = p THEN st.values[Len(st.values)] ELSE st.values[i]
      BY <3>1, SwapRemovedIs, Zenon
    <3>. QED
      BY <3>1, <3>2, Zenon
  <2>2. new.values = SwapRemoved(st.values, p)
    BY <1>1
  <2>. QED
    BY <2>1, <2>2
<1>10. /\ new.sparse \in [Slots -> Nat]
       /\ new.sparse[slot] = 0
       /\ \A s \in Slots \ {slot} : new.sparse[s] = IF s = moved THEN p ELSE st.sparse[s]
  BY <1>1, <1>2, <1>3 DEF Absent
<1>11. new \in StoreOf(Slots, V)
  BY <1>1, <1>8, <1>9, <1>10 DEF StoreOf
<1>12. Occupied(new) = Occupied(st) \ {slot}
  <2>1. Occupied(new) = {s \in Slots : new.sparse[s] # 0}
    BY <1>10 DEF Occupied, Absent
  <2>2. ASSUME NEW s \in Slots \ {slot}
        PROVE  new.sparse[s] # 0 <=> st.sparse[s] # 0
    BY <1>10, <1>3, <1>4, <1>2
  <2>. QED
    BY <2>1, <2>2, <1>7, <1>10
<1>13. ASSUME NEW s \in Occupied(st), s # slot
       PROVE  /\ new.sparse[s] \in 1..(n - 1)
              /\ new.dense[new.sparse[s]] = s
              /\ new.values[new.sparse[s]] = st.values[st.sparse[s]]
  <2>1. s \in Slots /\ st.sparse[s] \in 1..n /\ st.dense[st.sparse[s]] = s
    BY <1>6
  <2>2. st.sparse[s] # p
    BY <2>1, <1>13, <1>3
  <2>3. CASE s = moved
    <3>1. st.sparse[s] = n /\ new.sparse[s] = p /\ p \in 1..(n - 1)
      BY <2>1, <2>2, <2>3, <1>4, <1>10, <1>13, <1>3, <1>2
    <3>. QED
      BY <3>1, <2>3, <1>8, <1>9
  <2>4. CASE s # moved
    <3>1. new.sparse[s] = st.sparse[s]
      BY <2>4, <2>1, <1>10, <1>13
    <3>2. st.sparse[s] # n
      BY <2>4, <2>1 DEF moved
    <3>3. st.sparse[s] \in 1..(n - 1)
      BY <3>2, <2>1, <1>2
    <3>. QED
      BY <3>1, <3>3, <2>1, <2>2, <1>8, <1>9
  <2>. QED
    BY <2>3, <2>4
<1>14. StoreOK(new)
  <2>1. ASSUME NEW i \in 1..(n - 1)
        PROVE  new.dense[i] \in Slots /\ new.sparse[new.dense[i]] = i
    <3>1. CASE i = p
      <4>1. new.dense[i] = moved /\ moved # slot
        BY <3>1, <1>8, <1>3, <1>4, <1>2 DEF p
      <4>. QED
        BY <4>1, <3>1, <1>4, <1>10
    <3>2. CASE i # p
      <4>1. i \in 1..n /\ i # n
        BY <1>2
      <4>2. new.dense[i] = st.dense[i] /\ st.sparse[st.dense[i]] = i /\ st.dense[i] \in Slots
        BY <3>2, <4>1, <1>5, <1>8
      <4>3. st.dense[i] # slot /\ st.dense[i] # moved
        BY <4>1, <4>2, <3>2, <1>4 DEF p
      <4>. QED
        BY <4>2, <4>3, <1>10
    <3>. QED
      BY <3>1, <3>2
  <2>2. DOMAIN new.sparse = Slots /\ DOMAIN new.dense = 1..(n - 1)
        /\ Len(new.values) = Len(new.dense)
    BY <1>8, <1>9, <1>10, <1>2, <1>3
  <2>3. \A s \in Occupied(new) : new.sparse[s] \in 1..(n - 1) /\ new.dense[new.sparse[s]] = s
    BY <1>12, <1>13
  <2>. QED
    BY <2>1, <2>2, <2>3 DEF StoreOK
<1>15. ASSUME NEW s \in Occupied(st) \ {slot}
       PROVE  Value(new, s) = Value(st, s)
  BY <1>13, <1>6 DEF Value
<1>. QED
  BY <1>11, <1>12, <1>14, <1>15 DEF new

(* remove, whether the slot has a component or not.                        *)
LEMMA RemoveIs ==
  ASSUME NEW Slots, NEW V, NEW st \in StoreOf(Slots, V), StoreOK(st), NEW slot \in Slots
  PROVE  LET new == Removed(st, slot)
         IN  /\ new \in StoreOf(Slots, V) /\ StoreOK(new)
             /\ Occupied(new) = Occupied(st) \ {slot}
             /\ \A s \in Occupied(st) \ {slot} : Value(new, s) = Value(st, s)
<1>1. CASE Holds(st, slot)
  BY <1>1, RemoveSwaps
<1>2. CASE ~Holds(st, slot)
  <2>1. slot \notin Occupied(st)
    BY <1>2 DEF Holds, Occupied
  <2>2. Removed(st, slot) = st
    BY <1>2 DEF Removed
  <2>. QED
    BY <2>1, <2>2
<1>. QED
  BY <1>1, <1>2

(* What remove does to the function a store stands for: it takes the one   *)
(* slot out of it, and no other slot loses or changes its component        *)
(* however the arrays were reordered (Store::remove).                      *)
THEOREM RemoveTakesOneSlot ==
  ASSUME NEW Slots, NEW V, NEW st \in StoreOf(Slots, V), StoreOK(st), NEW slot \in Slots
  PROVE  /\ Removed(st, slot) \in StoreOf(Slots, V)
         /\ StoreOK(Removed(st, slot))
         /\ Contents(Removed(st, slot)) =
              [s \in Occupied(st) \ {slot} |-> Contents(st)[s]]
<1>. DEFINE new == Removed(st, slot)
<1>1. /\ new \in StoreOf(Slots, V) /\ StoreOK(new)
      /\ Occupied(new) = Occupied(st) \ {slot}
      /\ \A s \in Occupied(st) \ {slot} : Value(new, s) = Value(st, s)
  BY RemoveIs
<1>. HIDE DEF new
<1>2. Contents(new) = [s \in Occupied(st) \ {slot} |-> Contents(st)[s]]
  BY <1>1 DEF Contents
<1>. QED
  BY <1>1, <1>2 DEF new

----------------------------------------------------------------------------
EntitiesOf == [generation : Seq(Nat), alive : Seq(BOOLEAN), free : Seq(Nat), live : Nat]

Handles == [slot : Nat, generation : Nat]

LiveSlots(ents) == {s \in Used(ents) : ents.alive[s]}

(* The live slots are finitely many. *)
LEMMA LiveFinite ==
  ASSUME NEW ents \in EntitiesOf
  PROVE  IsFiniteSet(LiveSlots(ents))
<1>1. Used(ents) = 1..Len(ents.alive) /\ Len(ents.alive) \in Nat
  BY DEF EntitiesOf, Used
<1>2. IsFiniteSet(1..Len(ents.alive))
  BY <1>1, FS_Interval
<1>. QED
  BY <1>1, <1>2, FS_Subset DEF LiveSlots

(* What an append does to a sequence. *)
LEMMA AppendIs ==
  ASSUME NEW S, NEW seq \in Seq(S), NEW x \in S
  PROVE  /\ Append(seq, x) \in Seq(S)
         /\ Len(Append(seq, x)) = Len(seq) + 1
         /\ Append(seq, x)[Len(seq) + 1] = x
         /\ \A i \in 1..Len(seq) : Append(seq, x)[i] = seq[i]
OBVIOUS

(* What taking the last element off a sequence does. *)
LEMMA FrontIs ==
  ASSUME NEW S, NEW seq \in Seq(S), Len(seq) >= 1
  PROVE  /\ SubSeq(seq, 1, Len(seq) - 1) \in Seq(S)
         /\ Len(SubSeq(seq, 1, Len(seq) - 1)) = Len(seq) - 1
         /\ \A i \in 1..(Len(seq) - 1) : SubSeq(seq, 1, Len(seq) - 1)[i] = seq[i]
<1>. DEFINE k == Len(seq) - 1
            front == SubSeq(seq, 1, k)
<1>1. k \in Nat /\ 1 \in Int /\ k \in Int /\ \A i \in 1..k : i \in 1..Len(seq) /\ seq[i] \in S
  OBVIOUS
<1>2. /\ front \in Seq(S) /\ Len(front) = IF 1 <= k THEN k - 1 + 1 ELSE 0
      /\ \A i \in 1..(k - 1 + 1) : front[i] = seq[1 + i - 1]
  BY <1>1, SubSeqProperties
<1>. HIDE DEF front, k
<1>3. Len(front) = k
  BY <1>1, <1>2
<1>4. \A i \in 1..k : front[i] = seq[i]
  <2>1. \A i \in 1..k : i \in 1..(k - 1 + 1) /\ 1 + i - 1 = i
    BY <1>1
  <2>. QED
    BY <2>1, <1>2
<1>. QED
  BY <1>2, <1>3, <1>4 DEF front, k

(* The last slot of the free list is a dead one, and no other place of the *)
(* list names it.                                                          *)
LEMMA LastFree ==
  ASSUME NEW ents \in EntitiesOf, EntitiesOK(ents), ents.free # <<>>
  PROVE  /\ Len(ents.free) \in Nat \ {0}
         /\ NextSlot(ents) = ents.free[Len(ents.free)]
         /\ NextSlot(ents) \in Used(ents) /\ ~ents.alive[NextSlot(ents)]
         /\ \A i \in 1..(Len(ents.free) - 1) : ents.free[i] # NextSlot(ents)
<1>. DEFINE k == Len(ents.free)
<1>1. k \in Nat \ {0} /\ DOMAIN ents.free = 1..k
  BY DEF EntitiesOf
<1>2. NextSlot(ents) = ents.free[k]
  BY DEF NextSlot
<1>3. k \in DOMAIN ents.free
  BY <1>1
<1>4. ents.free[k] \in {s \in Used(ents) : ~ents.alive[s]}
  BY <1>3 DEF EntitiesOK
<1>5. \A i \in 1..(k - 1) : i \in DOMAIN ents.free /\ i # k
  BY <1>1
<1>. QED
  BY <1>1, <1>2, <1>3, <1>4, <1>5 DEF EntitiesOK

(* A spawn mints a handle nothing answered to, revives no other handle,    *)
(* and keeps the books: each dead slot waits once in the free list, and    *)
(* the count of the living counts them (Entities::spawn).                  *)
THEOREM SpawnMintsFresh ==
  ASSUME NEW ents \in EntitiesOf, EntitiesOK(ents)
  PROVE  /\ Spawned(ents) \in EntitiesOf
         /\ EntitiesOK(Spawned(ents))
         /\ ~IsAlive(ents, SpawnedHandle(ents))
         /\ \A e \in Handles :
              IsAlive(Spawned(ents), e) <=> (IsAlive(ents, e) \/ e = SpawnedHandle(ents))
<1>. DEFINE m == Len(ents.alive)
            k == Len(ents.free)
            slot == NextSlot(ents)
            new == Spawned(ents)
            h == SpawnedHandle(ents)
<1>1. /\ m \in Nat /\ k \in Nat
      /\ Used(ents) = 1..m /\ DOMAIN ents.generation = 1..m /\ Len(ents.generation) = m
      /\ Len(ents.alive) = m /\ Len(ents.free) = k /\ DOMAIN ents.free = 1..k
      /\ ents.generation \in Seq(Nat) /\ ents.alive \in Seq(BOOLEAN) /\ ents.free \in Seq(Nat)
      /\ ents.live \in Nat
  BY DEF EntitiesOf, EntitiesOK, Used
<1>2. \A e : e \in Handles => e = [slot |-> e.slot, generation |-> e.generation]
  BY DEF Handles
<1>3. CASE ents.free = <<>>
  <2>1. slot = m + 1 /\ h = [slot |-> m + 1, generation |-> 0]
    BY <1>3 DEF NextSlot, SpawnedHandle, Handle
  <2>2. new = [generation |-> Append(ents.generation, 0), alive |-> Append(ents.alive, TRUE),
               free |-> <<>>, live |-> ents.live + 1]
    BY <1>3 DEF Spawned
  <2>. HIDE DEF m, k, slot, new, h
  <2>3. /\ new.generation \in Seq(Nat) /\ Len(new.generation) = m + 1
        /\ new.generation[m + 1] = 0
        /\ \A s \in 1..m : new.generation[s] = ents.generation[s]
    BY <2>2, <1>1, AppendIs
  <2>4. /\ new.alive \in Seq(BOOLEAN) /\ Len(new.alive) = m + 1
        /\ new.alive[m + 1] = TRUE
        /\ \A s \in 1..m : new.alive[s] = ents.alive[s]
    <3>. DEFINE longer == Append(ents.alive, TRUE)
    <3>1. new.alive = longer
      BY <2>2
    <3>2. /\ longer \in Seq(BOOLEAN) /\ Len(longer) = Len(ents.alive) + 1
          /\ longer[Len(ents.alive) + 1] = TRUE
          /\ \A s \in 1..Len(ents.alive) : longer[s] = ents.alive[s]
      <4>1. ents.alive \in Seq(BOOLEAN) /\ TRUE \in BOOLEAN
        BY <1>1
      <4>. QED
        BY <4>1, AppendIs, ZenonT(40)
    <3>3. Len(ents.alive) = m
      BY <1>1
    <3>. HIDE DEF longer
    <3>. QED
      BY <3>1, <3>2, <3>3, Zenon
  <2>5. new \in EntitiesOf
    BY <2>2, <2>3, <2>4, <1>1 DEF EntitiesOf
  <2>6. Used(new) = 1..(m + 1)
    BY <2>4, <1>1 DEF Used
  <2>7. \A s \in 1..m : ents.alive[s]
    BY <1>3, <1>1 DEF EntitiesOK
  <2>8. LiveSlots(new) = LiveSlots(ents) \cup {m + 1} /\ m + 1 \notin LiveSlots(ents)
    BY <2>4, <2>6, <1>1 DEF LiveSlots
  <2>9. new.live = Cardinality(LiveSlots(new))
    <3>1. ents.live = Cardinality(LiveSlots(ents))
      BY DEF EntitiesOK, LiveSlots
    <3>. QED
      BY <3>1, <2>8, <2>2, LiveFinite, FS_AddElement
  <2>10. EntitiesOK(new)
    <3>1. {s \in Used(new) : ~new.alive[s]} = {}
      <4>1. \A s \in 1..(m + 1) : s = m + 1 \/ s \in 1..m
        BY <1>1
      <4>2. \A s \in 1..(m + 1) : new.alive[s]
        BY <4>1, <2>4, <2>7, Zenon
      <4>. QED
        BY <4>2, <2>6, Zenon
    <3>2. DOMAIN new.free = {} /\ DOMAIN new.generation = Used(new)
      BY <2>2, <2>3, <2>6, <1>1
    <3>. QED
      BY <3>1, <3>2, <2>9 DEF EntitiesOK, LiveSlots
  <2>11. ~IsAlive(ents, h)
    BY <2>1, <1>1 DEF IsAlive
  <2>12. ASSUME NEW e \in Handles
         PROVE  IsAlive(new, e) <=> (IsAlive(ents, e) \/ e = h)
    <3>1. CASE e.slot = m + 1
      BY <3>1, <1>1, <1>2, <2>1, <2>3, <2>4, <2>6 DEF IsAlive
    <3>2. CASE e.slot # m + 1
      <4>1. e # h /\ (e.slot \in 1..(m + 1) <=> e.slot \in 1..m)
        BY <3>2, <2>1, <1>1
      <4>. QED
        BY <4>1, <1>1, <2>3, <2>4, <2>6 DEF IsAlive
    <3>. QED
      BY <3>1, <3>2
  <2>. QED
    BY <2>5, <2>10, <2>11, <2>12 DEF new, h
<1>4. CASE ents.free # <<>>
  <2>1. /\ k >= 1 /\ slot = ents.free[k] /\ slot \in 1..m /\ ~ents.alive[slot]
        /\ \A i \in 1..(k - 1) : ents.free[i] # slot
    BY <1>4, LastFree, <1>1, SMTT(40)
  <2>2. h = [slot |-> slot, generation |-> ents.generation[slot]]
    BY <1>4 DEF SpawnedHandle, Handle
  <2>3. new = [generation |-> ents.generation, alive |-> [ents.alive EXCEPT ![slot] = TRUE],
               free |-> SubSeq(ents.free, 1, k - 1), live |-> ents.live + 1]
    BY <1>4 DEF Spawned, EntitiesOf
  <2>. HIDE DEF m, k, slot, new, h
  <2>4. /\ new.alive \in Seq(BOOLEAN) /\ Len(new.alive) = m
        /\ new.alive[slot] = TRUE
        /\ \A s \in 1..m : s # slot => new.alive[s] = ents.alive[s]
    <3>1. new.alive = [ents.alive EXCEPT ![slot] = TRUE]
      BY <2>3
    <3>. QED
      BY <3>1, <2>1, <1>1, SMTT(40)
  <2>5. /\ new.free \in Seq(Nat) /\ Len(new.free) = k - 1
        /\ \A i \in 1..(k - 1) : new.free[i] = ents.free[i]
    <3>. DEFINE shorter == SubSeq(ents.free, 1, Len(ents.free) - 1)
    <3>1. new.free = shorter /\ Len(ents.free) = k
      BY <2>3, <1>1
    <3>2. /\ shorter \in Seq(Nat) /\ Len(shorter) = Len(ents.free) - 1
          /\ \A i \in 1..(Len(ents.free) - 1) : shorter[i] = ents.free[i]
      BY <2>1, <1>1, FrontIs
    <3>. HIDE DEF shorter
    <3>. QED
      BY <3>1, <3>2, Zenon
  <2>6. new \in EntitiesOf
    BY <2>3, <2>4, <2>5, <1>1, SMTT(40) DEF EntitiesOf
  <2>7. Used(new) = 1..m
    BY <2>4, <1>1 DEF Used
  <2>8. LiveSlots(new) = LiveSlots(ents) \cup {slot} /\ slot \notin LiveSlots(ents)
    BY <2>1, <2>4, <2>7, <1>1 DEF LiveSlots
  <2>9. new.live = Cardinality(LiveSlots(new))
    <3>1. ents.live = Cardinality(LiveSlots(ents))
      BY DEF EntitiesOK, LiveSlots
    <3>. QED
      BY <3>1, <2>8, <2>3, LiveFinite, FS_AddElement
  <2>10. EntitiesOK(new)
    <3>1. ASSUME NEW i \in 1..(k - 1)
          PROVE  new.free[i] \in 1..m /\ ~new.alive[new.free[i]]
      <4>1. i \in DOMAIN ents.free /\ ents.free[i] # slot /\ new.free[i] = ents.free[i]
        BY <2>1, <2>5, <1>1
      <4>2. ents.free[i] \in {s \in Used(ents) : ~ents.alive[s]}
        BY <4>1 DEF EntitiesOK
      <4>. QED
        BY <4>1, <4>2, <2>4, <1>1
    <3>2. ASSUME NEW s \in 1..m, ~new.alive[s]
          PROVE  \E i \in 1..(k - 1) : new.free[i] = s
      <4>1. s # slot /\ ~ents.alive[s]
        BY <2>4, <3>2
      <4>2. PICK i \in DOMAIN ents.free : ents.free[i] = s
        <5>1. s \in {ents.free[i] : i \in DOMAIN ents.free}
          BY <4>1, <1>1 DEF EntitiesOK
        <5>. QED
          BY <5>1, Zenon
      <4>3. i \in 1..(k - 1)
        <5>1. i \in 1..k /\ i # k
          BY <4>1, <4>2, <2>1, <1>1
        <5>. QED
          BY <5>1, <1>1
      <4>. QED
        BY <4>2, <4>3, <2>5
    <3>3. DOMAIN new.free = 1..(k - 1) /\ DOMAIN new.generation = Used(new)
      BY <2>1, <2>3, <2>5, <2>7, <1>1
    <3>4. {new.free[i] : i \in DOMAIN new.free} = {s \in Used(new) : ~new.alive[s]}
      BY <3>1, <3>2, <3>3, <2>7
    <3>5. \A i, j \in DOMAIN new.free : new.free[i] = new.free[j] => i = j
      <4>1. \A i \in 1..(k - 1) : i \in DOMAIN ents.free
        BY <1>1, <2>1
      <4>. QED
        BY <4>1, <3>3, <2>5 DEF EntitiesOK
    <3>. QED
      BY <3>3, <3>4, <3>5, <2>9 DEF EntitiesOK, LiveSlots
  <2>11. ~IsAlive(ents, h)
    BY <2>1, <2>2 DEF IsAlive
  <2>12. ASSUME NEW e \in Handles
         PROVE  IsAlive(new, e) <=> (IsAlive(ents, e) \/ e = h)
    <3>1. CASE e.slot = slot
      BY <3>1, <1>1, <1>2, <2>1, <2>2, <2>3, <2>4, <2>7 DEF IsAlive
    <3>2. CASE e.slot # slot
      BY <3>2, <1>1, <2>2, <2>3, <2>4, <2>7 DEF IsAlive
    <3>. QED
      BY <3>1, <3>2
  <2>. QED
    BY <2>6, <2>10, <2>11, <2>12 DEF new, h
<1>. QED
  BY <1>3, <1>4

(* A despawn of a live handle takes that handle and no other from the      *)
(* living, puts its slot in the free list once, and keeps the count        *)
(* (Entities::despawn).                                                    *)
THEOREM DespawnTakesOne ==
  ASSUME NEW ents \in EntitiesOf, EntitiesOK(ents), NEW dead \in Handles, IsAlive(ents, dead)
  PROVE  /\ Despawned(ents, dead) \in EntitiesOf
         /\ EntitiesOK(Despawned(ents, dead))
         /\ \A e \in Handles :
              IsAlive(Despawned(ents, dead), e) <=> (IsAlive(ents, e) /\ e # dead)
<1>. DEFINE m == Len(ents.alive)
            k == Len(ents.free)
            slot == dead.slot
            new == Despawned(ents, dead)
<1>1. /\ m \in Nat /\ k \in Nat
      /\ Used(ents) = 1..m /\ DOMAIN ents.generation = 1..m /\ Len(ents.generation) = m
      /\ Len(ents.alive) = m /\ Len(ents.free) = k /\ DOMAIN ents.free = 1..k
      /\ ents.generation \in Seq(Nat) /\ ents.alive \in Seq(BOOLEAN) /\ ents.free \in Seq(Nat)
      /\ ents.live \in Nat
  BY DEF EntitiesOf, EntitiesOK, Used
<1>2. \A e : e \in Handles => e = [slot |-> e.slot, generation |-> e.generation]
  BY DEF Handles
<1>3. slot \in 1..m /\ slot \in Nat /\ ents.alive[slot] /\ ents.generation[slot] = dead.generation
  BY <1>1 DEF IsAlive, Handles
<1>4. new = [generation |-> [ents.generation EXCEPT ![slot] = @ + 1],
             alive |-> [ents.alive EXCEPT ![slot] = FALSE],
             free |-> Append(ents.free, slot), live |-> ents.live - 1]
  BY DEF Despawned
<1>5. LiveSlots(ents) \ {slot} = {s \in 1..m : ents.alive[s] /\ s # slot} /\ slot \in LiveSlots(ents)
  BY <1>1, <1>3, Zenon DEF LiveSlots
<1>. HIDE DEF m, k, slot, new
<1>6. /\ new.generation \in Seq(Nat) /\ Len(new.generation) = m
      /\ new.generation[slot] = dead.generation + 1
      /\ \A s \in 1..m : s # slot => new.generation[s] = ents.generation[s]
  <2>1. new.generation = [ents.generation EXCEPT ![slot] = @ + 1]
    BY <1>4
  <2>. QED
    BY <2>1, <1>1, <1>3, SMTT(40)
<1>7. /\ new.alive \in Seq(BOOLEAN) /\ Len(new.alive) = m
      /\ ~new.alive[slot]
      /\ \A s \in 1..m : s # slot => new.alive[s] = ents.alive[s]
  <2>1. new.alive = [ents.alive EXCEPT ![slot] = FALSE]
    BY <1>4
  <2>. QED
    BY <2>1, <1>1, <1>3, SMTT(40)
<1>8. /\ new.free \in Seq(Nat) /\ Len(new.free) = k + 1 /\ new.free[k + 1] = slot
      /\ \A i \in 1..k : new.free[i] = ents.free[i]
  <2>. DEFINE longer == Append(ents.free, slot)
  <2>1. new.free = longer
    BY <1>4
  <2>2. /\ longer \in Seq(Nat) /\ Len(longer) = Len(ents.free) + 1
        /\ longer[Len(ents.free) + 1] = slot
        /\ \A i \in 1..Len(ents.free) : longer[i] = ents.free[i]
    <3>1. ents.free \in Seq(Nat) /\ slot \in Nat
      BY <1>1, <1>3
    <3>. QED
      BY <3>1, AppendIs
  <2>3. Len(ents.free) = k
    BY <1>1
  <2>. HIDE DEF longer
  <2>. QED
    BY <2>1, <2>2, <2>3, Zenon
<1>9. ents.live = Cardinality(LiveSlots(ents)) /\ Cardinality(LiveSlots(ents)) \in Nat
      /\ Cardinality(LiveSlots(ents) \ {slot}) = ents.live - 1
      /\ ents.live - 1 \in Nat
  <2>1. ents.live = Cardinality(LiveSlots(ents))
    BY DEF EntitiesOK, LiveSlots
  <2>2. IsFiniteSet(LiveSlots(ents) \ {slot}) /\ IsFiniteSet(LiveSlots(ents))
    BY LiveFinite, FS_Subset
  <2>3. Cardinality(LiveSlots(ents) \ {slot}) \in Nat
    BY <2>2, FS_CardinalityType
  <2>4. Cardinality(LiveSlots(ents) \ {slot}) = Cardinality(LiveSlots(ents)) - 1
    BY <2>2, <1>5, FS_RemoveElement
  <2>. QED
    BY <2>1, <2>3, <2>4, <1>1
<1>10. new \in EntitiesOf
  BY <1>1, <1>4, <1>6, <1>7, <1>8, <1>9 DEF EntitiesOf
<1>11. Used(new) = 1..m /\ DOMAIN new.generation = 1..m /\ DOMAIN new.free = 1..(k + 1)
  BY <1>1, <1>6, <1>7, <1>8 DEF Used
<1>12. LiveSlots(new) = LiveSlots(ents) \ {slot}
  <2>1. LiveSlots(new) = {s \in 1..m : new.alive[s]}
    BY <1>11 DEF LiveSlots
  <2>. QED
    BY <2>1, <1>5, <1>7, Zenon
<1>13. ASSUME NEW i \in 1..k
       PROVE  ents.free[i] \in 1..m /\ ~ents.alive[ents.free[i]] /\ ents.free[i] # slot
  <2>1. ents.free[i] \in {s \in Used(ents) : ~ents.alive[s]}
    BY <1>1 DEF EntitiesOK
  <2>. QED
    BY <2>1, <1>1, <1>3
<1>14. {new.free[i] : i \in DOMAIN new.free} = {s \in Used(new) : ~new.alive[s]}
  <2>1. ASSUME NEW i \in 1..(k + 1)
        PROVE  new.free[i] \in 1..m /\ ~new.alive[new.free[i]]
    <3>1. CASE i = k + 1
      BY <3>1, <1>3, <1>7, <1>8
    <3>2. CASE i \in 1..k
      BY <3>2, <1>7, <1>8, <1>13
    <3>. QED
      BY <3>1, <3>2, <1>1
  <2>2. ASSUME NEW s \in 1..m, ~new.alive[s]
        PROVE  \E i \in 1..(k + 1) : new.free[i] = s
    <3>1. CASE s = slot
      BY <3>1, <1>1, <1>8
    <3>2. CASE s # slot
      <4>1. ~ents.alive[s]
        BY <3>2, <2>2, <1>7
      <4>2. s \in {ents.free[i] : i \in DOMAIN ents.free}
        BY <4>1, <1>1 DEF EntitiesOK
      <4>3. PICK i \in 1..k : ents.free[i] = s
        BY <4>2, <1>1, Zenon
      <4>4. new.free[i] = s
        BY <4>3, <1>8, Zenon
      <4>5. i \in 1..(k + 1)
        BY <1>1
      <4>. QED
        BY <4>4, <4>5
    <3>. QED
      BY <3>1, <3>2
  <2>3. {new.free[i] : i \in 1..(k + 1)} = {s \in 1..m : ~new.alive[s]}
    BY <2>1, <2>2, ZenonT(40)
  <2>. QED
    BY <2>3, <1>11, ZenonT(40)
<1>15. ASSUME NEW i \in 1..(k + 1), NEW j \in 1..(k + 1), new.free[i] = new.free[j]
       PROVE  i = j
  <2>1. (i = k + 1 \/ i \in 1..k) /\ (j = k + 1 \/ j \in 1..k)
    BY <1>1
  <2>2. CASE i \in 1..k /\ j \in 1..k
    BY <2>2, <1>15, <1>8, <1>1 DEF EntitiesOK
  <2>3. CASE i = k + 1 /\ j \in 1..k
    BY <2>3, <1>15, <1>8, <1>13
  <2>4. CASE i \in 1..k /\ j = k + 1
    BY <2>4, <1>15, <1>8, <1>13
  <2>. QED
    BY <2>1, <2>2, <2>3, <2>4
<1>16. EntitiesOK(new)
  <2>1. new.live = Cardinality(LiveSlots(new))
    BY <1>9, <1>12, <1>4
  <2>. QED
    BY <2>1, <1>11, <1>14, <1>15 DEF EntitiesOK, LiveSlots
<1>17. ASSUME NEW e \in Handles
       PROVE  IsAlive(new, e) <=> (IsAlive(ents, e) /\ e # dead)
  <2>1. CASE e.slot = slot
    <3>1. ~IsAlive(new, e)
      BY <2>1, <1>7 DEF IsAlive
    <3>2. IsAlive(ents, e) => e = dead
      <4>1. IsAlive(ents, e) => e.generation = dead.generation
        BY <2>1, <1>3 DEF IsAlive
      <4>. QED
        BY <4>1, <2>1, <1>2 DEF slot
    <3>. QED
      BY <3>1, <3>2
  <2>2. CASE e.slot # slot
    <3>1. e # dead
      BY <2>2 DEF slot
    <3>. QED
      BY <3>1, <2>2, <1>1, <1>6, <1>7, <1>11 DEF IsAlive
  <2>. QED
    BY <2>1, <2>2
<1>. QED
  BY <1>10, <1>16, <1>17 DEF new

(* A handle whose slot has moved past its generation.                      *)
Stale(ents, e) == e.slot \in Used(ents) /\ e.generation < ents.generation[e.slot]

(* The use-after-free the generation is there for: a despawned handle is   *)
(* stale, a stale handle names nothing, and no spawn and no despawn ever   *)
(* makes it name something again, whoever takes its slot (entity.rs). The  *)
(* generation is a natural number here: the code's wraps after 2^32        *)
(* despawns of one slot, where its own comment gives the promise up.       *)
THEOREM StaleStaysStale ==
  ASSUME NEW ents \in EntitiesOf, EntitiesOK(ents), NEW e \in Handles
  PROVE  /\ IsAlive(ents, e) => Stale(Despawned(ents, e), e)
         /\ Stale(ents, e) =>
              /\ ~IsAlive(ents, e)
              /\ Stale(Spawned(ents), e)
              /\ \A other \in Handles : Stale(Despawned(ents, other), e)
<1>. DEFINE m == Len(ents.alive)
<1>1. /\ m \in Nat /\ Used(ents) = 1..m /\ DOMAIN ents.generation = 1..m
      /\ Len(ents.generation) = m /\ Len(ents.alive) = m
      /\ ents.generation \in Seq(Nat) /\ ents.alive \in Seq(BOOLEAN)
      /\ e.slot \in Nat /\ e.generation \in Nat
  BY DEF EntitiesOf, EntitiesOK, Used, Handles
<1>. HIDE DEF m
<1>2. ASSUME NEW other \in Handles, IsAlive(ents, other)
      PROVE  /\ Used(Despawned(ents, other)) = 1..m
             /\ Despawned(ents, other).generation =
                  [ents.generation EXCEPT ![other.slot] = @ + 1]
             /\ other.slot \in 1..m
  BY <1>1, <1>2 DEF Despawned, Used, IsAlive
<1>3. IsAlive(ents, e) => Stale(Despawned(ents, e), e)
  <2>1. SUFFICES ASSUME IsAlive(ents, e)
                 PROVE  Stale(Despawned(ents, e), e)
    OBVIOUS
  <2>2. e.slot \in 1..m /\ ents.generation[e.slot] = e.generation
    BY <2>1, <1>1 DEF IsAlive
  <2>3. Despawned(ents, e).generation[e.slot] = e.generation + 1
    <3>1. Despawned(ents, e).generation = [ents.generation EXCEPT ![e.slot] = @ + 1]
      BY <2>1, <1>2
    <3>. QED
      BY <3>1, <2>2, <1>1
  <2>4. Used(Despawned(ents, e)) = 1..m
    BY <2>1, <1>2
  <2>. QED
    BY <2>2, <2>3, <2>4, <1>1 DEF Stale
<1>4. Stale(ents, e) => ~IsAlive(ents, e)
  BY <1>1 DEF Stale, IsAlive
<1>5. ASSUME Stale(ents, e)
      PROVE  Stale(Spawned(ents), e)
  <2>1. e.slot \in 1..m /\ e.generation < ents.generation[e.slot]
    BY <1>5, <1>1 DEF Stale
  <2>2. CASE ents.free = <<>>
    <3>1. /\ Spawned(ents).generation = Append(ents.generation, 0)
          /\ Spawned(ents).alive = Append(ents.alive, TRUE)
      BY <2>2 DEF Spawned
    <3>2. Used(Spawned(ents)) = 1..(m + 1)
      BY <3>1, <1>1 DEF Used
    <3>3. Spawned(ents).generation[e.slot] = ents.generation[e.slot]
      BY <3>1, <2>1, <1>1
    <3>. QED
      BY <3>2, <3>3, <2>1, <1>1 DEF Stale
  <2>3. CASE ents.free # <<>>
    <3>1. Spawned(ents).generation = ents.generation
          /\ Spawned(ents).alive = [ents.alive EXCEPT ![NextSlot(ents)] = TRUE]
      BY <2>3 DEF Spawned, EntitiesOf
    <3>2. Used(Spawned(ents)) = 1..m
      BY <3>1, <1>1 DEF Used
    <3>. QED
      BY <3>1, <3>2, <2>1 DEF Stale
  <2>. QED
    BY <2>2, <2>3
<1>6. ASSUME Stale(ents, e), NEW other \in Handles
      PROVE  Stale(Despawned(ents, other), e)
  <2>1. e.slot \in 1..m /\ e.generation < ents.generation[e.slot]
    BY <1>6, <1>1 DEF Stale
  <2>2. CASE IsAlive(ents, other)
    <3>1. /\ Despawned(ents, other).generation =
               [ents.generation EXCEPT ![other.slot] = @ + 1]
          /\ Used(Despawned(ents, other)) = 1..m
      BY <2>2, <1>2
    <3>2. ents.generation[e.slot] \in Nat
      BY <2>1, <1>1
    <3>3. Despawned(ents, other).generation[e.slot] >= ents.generation[e.slot]
          /\ Despawned(ents, other).generation[e.slot] \in Nat
      BY <3>1, <3>2, <2>1, <1>1
    <3>4. e.generation < Despawned(ents, other).generation[e.slot]
      BY <3>2, <3>3, <2>1, <1>1
    <3>. QED
      BY <3>1, <3>4, <2>1 DEF Stale
  <2>3. CASE ~IsAlive(ents, other)
    BY <2>3, <1>6 DEF Despawned
  <2>. QED
    BY <2>2, <2>3
<1>. QED
  BY <1>3, <1>4, <1>5, <1>6

----------------------------------------------------------------------------
(* Keys. NoStuckKey is not inductive: what keeps it is that an open menu   *)
(* has let every binding go (the releases it swallows concern none), and   *)
(* so has a window without the focus (it hears of no release).             *)

InputOf(map) ==
  map \in [down : SUBSET Keys, held : BOOLEAN, just_pressed : BOOLEAN, just_released : BOOLEAN]

MenuOf(m) == m \in [open : BOOLEAN, pointer : Places, pressed : Places, outputs : Seq(Places)]

HeldRight(map) == map.held = (map.down \cap Bound # {})

InputType == InputOf(input)
MenuType == MenuOf(menu) /\ focused \in BOOLEAN
HeldIsDown == HeldRight(input)

LetGo ==
  /\ menu.open => input.down \cap Bound = {}
  /\ ~focused => input.down = {}

DownIsPhysical == focused => input.down \cap Bound \subseteq physical

Inv == InputType /\ MenuType /\ HeldIsDown /\ LetGo /\ DownIsPhysical

----------------------------------------------------------------------------
(* What set does to the bindings that are down and to the hold.            *)
LEMMA SetIs ==
  ASSUME NEW map, InputOf(map), HeldRight(map),
         NEW key \in Keys, NEW pressed \in BOOLEAN
  PROVE  /\ InputOf(Set(map, key, pressed))
         /\ Set(map, key, pressed).down =
              IF pressed THEN map.down \cup {key} ELSE map.down \ {key}
         /\ HeldRight(Set(map, key, pressed))
<1>. USE DEF HeldRight
<1>. DEFINE down == IF pressed THEN map.down \cup {key} ELSE map.down \ {key}
            held == down \cap Bound # {}
            new == Set(map, key, pressed)
<1>1. down \in SUBSET Keys /\ held \in BOOLEAN
  BY DEF InputOf
<1>2. AnyDown([map EXCEPT !.down = down]) = held
  BY DEF AnyDown, InputOf
<1>3. CASE down = map.down \/ key \notin Bound
  <2>1. new = [map EXCEPT !.down = down]
    BY <1>3 DEF Set
  <2>2. (down \cap Bound # {}) = (map.down \cap Bound # {})
    BY <1>3
  <2>. HIDE DEF down, new
  <2>. QED
    BY <2>1, <2>2, <1>1 DEF InputOf, new, down
<1>4. CASE ~(down = map.down \/ key \notin Bound)
  <2>1. new = [down          |-> down,
               held          |-> held,
               just_pressed  |-> map.just_pressed \/ (held /\ ~map.held),
               just_released |-> map.just_released \/ (~held /\ map.held)]
    BY <1>4, <1>2 DEF Set
  <2>. HIDE DEF down, held, new
  <2>2. InputOf(new) /\ new.down = down /\ new.held = held
    BY <2>1, <1>1 DEF InputOf
  <2>. QED
    BY <2>2 DEF new, held, down
<1>. QED
  BY <1>3, <1>4

(* What release_all does. *)
LEMMA ReleaseAllIs ==
  ASSUME NEW map, InputOf(map)
  PROVE  InputOf(ReleaseAll(map)) /\ ReleaseAll(map).down = {} /\ ReleaseAll(map).held = FALSE
BY DEF InputOf, ReleaseAll

(* The menu's operations keep its type. *)
LEMMA HandledIs ==
  ASSUME NEW m, MenuOf(m), NEW key, NEW pressed \in BOOLEAN
  PROVE  /\ MenuOf(Handled(m, key, pressed))
         /\ Handled(m, key, pressed).open =
              IF key = Escape /\ pressed THEN ~m.open ELSE m.open
<1>. USE DEF MenuOf
<1>1. Outside \in Places
  BY DEF Places
<1>2. ASSUME NEW n, MenuOf(n)
      PROVE  MenuOf(UiReleased(n)) /\ UiReleased(n).open = n.open
  <2>. DEFINE outs == IF /\ n.pressed # Outside
                         /\ n.pointer = n.pressed
                         /\ Len(n.outputs) < QueueLimit
                      THEN Append(n.outputs, n.pressed)
                      ELSE n.outputs
  <2>1. n.outputs \in Seq(Places) /\ n.pressed \in Places
    BY <1>2
  <2>2. outs \in Seq(Places)
    BY <2>1
  <2>3. UiReleased(n) = [n EXCEPT !.pressed = Outside, !.outputs = outs]
    BY Zenon DEF UiReleased
  <2>. HIDE DEF outs
  <2>. QED
    BY <2>2, <2>3, <1>1, <1>2
<1>3. MenuOf(Toggled(m)) /\ Toggled(m).open = ~m.open
  <2>. DEFINE n == UiMoved([m EXCEPT !.open = ~@], Outside)
  <2>1. MenuOf(n) /\ n.open = ~m.open
    BY <1>1 DEF UiMoved
  <2>. HIDE DEF n
  <2>2. MenuOf(UiReleased(n)) /\ UiReleased(n).open = n.open
    BY <2>1, <1>2
  <2>. QED
    BY <2>1, <2>2 DEF Toggled, n
<1>4. MenuOf(UiPressed(m)) /\ UiPressed(m).open = m.open
  BY DEF UiPressed
<1>5. MenuOf(UiReleased(m)) /\ UiReleased(m).open = m.open
  BY <1>2
<1>. HIDE DEF MenuOf
<1>6. CASE key = Escape /\ pressed
  <2>1. Handled(m, key, pressed) = Toggled(m)
    BY <1>6, GlideAssumption DEF Handled
  <2>. QED
    BY <2>1, <1>3, <1>6
<1>7. CASE ~(key = Escape /\ pressed)
  <2>1. Handled(m, key, pressed) \in {UiPressed(m), UiReleased(m), m}
    BY <1>7 DEF Handled
  <2>. QED
    BY <2>1, <1>4, <1>5, <1>7
<1>. QED
  BY <1>6, <1>7

LEMMA DrainedIs ==
  ASSUME NEW m, MenuOf(m)
  PROVE  MenuOf(Drained(m)) /\ (Drained(m).open => m.open)
<1>. DEFINE stays == m.open /\ \A i \in DOMAIN m.outputs : m.outputs[i] \notin {Resume, Restart}
<1>1. Drained(m) = [m EXCEPT !.open = stays, !.outputs = <<>>]
  BY DEF MenuOf, Drained
<1>2. stays \in BOOLEAN /\ (stays => m.open)
  OBVIOUS
<1>. HIDE DEF stays
<1>3. MenuOf([m EXCEPT !.open = stays, !.outputs = <<>>])
      /\ [m EXCEPT !.open = stays, !.outputs = <<>>].open = stays
  <2>1. <<>> \in Seq(Places)
    OBVIOUS
  <2>. QED
    BY <1>2, <2>1 DEF MenuOf
<1>. QED
  BY <1>1, <1>2, <1>3

----------------------------------------------------------------------------
LEMMA InitInv == Init => Inv
<1>. SUFFICES ASSUME Init PROVE Inv
  OBVIOUS
<1>1. InputType /\ HeldIsDown
  BY DEF Init, NoInput, InputType, HeldIsDown, InputOf, HeldRight
<1>2. MenuType
  BY DEF Init, NewMenu, MenuType, MenuOf, Places
<1>3. LetGo /\ DownIsPhysical
  BY DEF Init, NoInput, LetGo, DownIsPhysical
<1>. QED
  BY <1>1, <1>2, <1>3 DEF Inv

(* A key event with the focus here. While the menu is open the map hears   *)
(* of none, and holds none; the press that opens it empties the map first. *)
LEMMA KeyEvent ==
  ASSUME Inv, NEW key \in Keys, NEW pressed \in BOOLEAN, focused, focused' = focused,
         physical' = (IF pressed THEN physical \cup {key} ELSE physical \ {key}),
         Deliver(key, pressed)
  PROVE  Inv'
<1>1. InputOf(input) /\ HeldRight(input) /\ MenuOf(menu)
  BY DEF HeldRight, Inv, InputType, HeldIsDown, MenuType, InputOf, MenuOf
<1>2. /\ MenuOf(menu')
      /\ menu'.open = IF key = Escape /\ pressed THEN ~menu.open ELSE menu.open
  BY <1>1, HandledIs DEF Deliver
<1>3. input' = Routed(key, pressed)
  BY DEF Deliver
<1>4. InputOf(input') /\ HeldRight(input')
      /\ (menu'.open => input'.down \cap Bound = {})
      /\ input'.down \cap Bound \subseteq physical'
  <2>1. CASE menu.open
    <3>1. input' = input /\ input.down \cap Bound = {}
      BY <2>1, <1>3 DEF Routed, Inv, LetGo
    <3>. QED
      BY <3>1, <1>1
  <2>2. CASE ~menu.open /\ key = Escape /\ pressed
    <3>1. Handled(menu, key, pressed).open
      BY <1>2, <2>2 DEF Deliver
    <3>2. input' = Set(ReleaseAll(input), key, pressed)
      BY <3>1, <2>2, <1>3 DEF Routed
    <3>3. /\ InputOf(ReleaseAll(input))
          /\ ReleaseAll(input).down = {}
          /\ HeldRight(ReleaseAll(input))
      BY <1>1, ReleaseAllIs DEF HeldRight
    <3>4. InputOf(input') /\ input'.down = {key} /\ HeldRight(input')
      <4>. DEFINE map == ReleaseAll(input)
      <4>1. InputOf(map) /\ HeldRight(map)
        BY <3>3
      <4>. HIDE DEF map
      <4>2. /\ InputOf(Set(map, key, pressed))
            /\ Set(map, key, pressed).down =
                 IF pressed THEN map.down \cup {key} ELSE map.down \ {key}
            /\ HeldRight(Set(map, key, pressed))
        BY <4>1, SetIs, Zenon
      <4>3. input' = Set(map, key, pressed) /\ map.down = {}
        BY <3>2, <3>3 DEF map
      <4>. QED
        BY <4>2, <4>3, <2>2
    <3>5. {key} \cap Bound = {}
      BY <2>2, GlideAssumption
    <3>. QED
      BY <3>4, <3>5
  <2>3. CASE ~menu.open /\ ~(key = Escape /\ pressed)
    <3>1. ~Handled(menu, key, pressed).open /\ ~menu'.open
      BY <1>2, <2>3 DEF Deliver
    <3>2. input' = Set(input, key, pressed)
      BY <3>1, <2>3, <1>3 DEF Routed
    <3>3. /\ InputOf(input') /\ HeldRight(input')
          /\ input'.down = IF pressed THEN input.down \cup {key} ELSE input.down \ {key}
      <4>1. /\ InputOf(Set(input, key, pressed))
            /\ Set(input, key, pressed).down =
                 IF pressed THEN input.down \cup {key} ELSE input.down \ {key}
            /\ HeldRight(Set(input, key, pressed))
        BY <1>1, SetIs, Zenon
      <4>. QED
        BY <4>1, <3>2, Zenon
    <3>4. input.down \cap Bound \subseteq physical
      BY DEF Inv, DownIsPhysical
    <3>5. input'.down \cap Bound \subseteq physical'
      BY <3>3, <3>4
    <3>. QED
      BY <3>1, <3>3, <3>5
  <2>. QED
    BY <2>1, <2>2, <2>3
<1>. QED
  BY <1>2, <1>4
  DEF Inv, InputType, MenuType, HeldIsDown, HeldRight, LetGo, DownIsPhysical, InputOf, MenuOf

LEMMA StepInv == Inv /\ [Next]_vars => Inv'
<1>. SUFFICES ASSUME Inv, [Next]_vars PROVE Inv'
  OBVIOUS
<1>. USE DEF Inv
<1>1. InputOf(input) /\ MenuOf(menu)
  BY DEF InputType, MenuType, InputOf, MenuOf
<1>2. ASSUME NEW key \in Keys, Press(key) PROVE Inv'
  BY <1>2, KeyEvent DEF Press
<1>3. ASSUME NEW key \in Keys, Let(key) PROVE Inv'
  BY <1>3, KeyEvent DEF Let
<1>4. ASSUME NEW key \in Keys, LetUnseen(key) PROVE Inv'
  BY <1>4 DEF LetUnseen, program, InputType, MenuType, HeldIsDown, LetGo, DownIsPhysical
<1>5. ASSUME NEW place \in Places, Move(place) PROVE Inv'
  <2>1. menu' = UiMoved(menu, place) /\ UNCHANGED <<physical, focused, input>>
    BY <1>5 DEF Move
  <2>2. MenuOf(menu') /\ menu'.open = menu.open
    BY <2>1, <1>1 DEF MenuOf, UiMoved
  <2>. QED
    BY <2>1, <2>2 DEF MenuOf, InputType, MenuType, HeldIsDown, LetGo, DownIsPhysical
<1>6. ASSUME LoseFocus PROVE Inv'
  <2>1. ~focused' /\ focused' \in BOOLEAN /\ input' = ReleaseAll(input) /\ menu' = menu
    BY <1>6 DEF LoseFocus
  <2>2. InputOf(input') /\ input'.down = {} /\ input'.held = FALSE
    BY <2>1, <1>1, ReleaseAllIs
  <2>. QED
    BY <2>1, <2>2 DEF InputType, MenuType, HeldIsDown, HeldRight, LetGo, DownIsPhysical
<1>7. ASSUME GainFocus PROVE Inv'
  <2>1. ~focused /\ focused' = TRUE /\ input' = input /\ menu' = menu
    BY <1>7 DEF GainFocus, program
  <2>2. input.down = {}
    BY <2>1 DEF LetGo
  <2>. QED
    BY <2>1, <2>2 DEF InputType, MenuType, HeldIsDown, LetGo, DownIsPhysical
<1>8. ASSUME Update PROVE Inv'
  <2>1. input' = Retired(input) /\ menu' = Drained(menu) /\ UNCHANGED <<physical, focused>>
    BY <1>8 DEF Update
  <2>2. InputOf(input') /\ input'.down = input.down /\ input'.held = input.held
    BY <2>1, <1>1 DEF InputOf, Retired
  <2>3. MenuOf(menu') /\ (menu'.open => menu.open)
    BY <2>1, <1>1, DrainedIs
  <2>. QED
    BY <2>1, <2>2, <2>3
    DEF InputType, MenuType, HeldIsDown, HeldRight, LetGo, DownIsPhysical
<1>9. CASE UNCHANGED vars
  BY <1>9 DEF vars, outside, program, InputType, MenuType, HeldIsDown, LetGo, DownIsPhysical
<1>. QED
  BY <1>2, <1>3, <1>4, <1>5, <1>6, <1>7, <1>8, <1>9 DEF Next

(* With the focus here, the action is held exactly while one of its        *)
(* bindings is down at the keyboard: through focus lost and regained, keys *)
(* let go unseen and releases an open menu swallows (input/lib.rs          *)
(* release_all, glide/src/windowed.rs handle).                             *)
THEOREM NoKeySticks == Spec => []NoStuckKey
<1>1. Inv => NoStuckKey
  BY DEF Inv, HeldIsDown, HeldRight, DownIsPhysical, NoStuckKey
<1>. QED
  BY InitInv, StepInv, <1>1, PTL DEF Spec

----------------------------------------------------------------------------
(* Orders and walks *)

(* Induction on the numbers, in terms of a set.                            *)
LEMMA Induction ==
  ASSUME NEW S, 0 \in S, \A n \in Nat : n \in S => n + 1 \in S
  PROVE  Nat \subseteq S
<1> DEFINE T == Nat \ S
           R == OpToRel(<, Nat)
<1>1. IsWellFoundedOn(R, Nat)
  BY NatLessThanWellFounded
<1>2. ASSUME T # {} PROVE FALSE
  <2>1. T \subseteq Nat
    OBVIOUS
  <2> HIDE DEF R, T
  <2>2. PICK x \in T : \A y \in T : <<y, x>> \notin R
    BY <1>1, <1>2, <2>1, WFMin
  <2>3. x \in Nat /\ x \notin S /\ x # 0
    BY DEF T
  <2>4. x - 1 \in Nat /\ x - 1 + 1 = x
    BY <2>3
  <2>5. x - 1 \notin S
    BY <2>3, <2>4
  <2>6. <<x - 1, x>> \in R
    BY <2>3, <2>4 DEF R, OpToRel
  <2> QED  BY <2>2, <2>4, <2>5, <2>6 DEF T
<1> QED  BY <1>2

(* A set of numbers that is not empty has a least one.                     *)
LEMMA LeastOf ==
  ASSUME NEW S \in SUBSET Nat, S # {}
  PROVE  \E x \in S : \A y \in S : x <= y
<1> DEFINE R == OpToRel(<, Nat)
<1>1. IsWellFoundedOn(R, Nat)
  BY NatLessThanWellFounded
<1> HIDE DEF R
<1>2. PICK x \in S : \A y \in S : <<y, x>> \notin R
  BY <1>1, WFMin
<1>3. ASSUME NEW y \in S PROVE x <= y
  <2>1. x \in Nat /\ y \in Nat
    OBVIOUS
  <2>2. ~(y < x)
    BY <1>2, <2>1 DEF R, OpToRel
  <2> QED  BY <2>1, <2>2
<1> QED  BY <1>3

(* A sequence that lists a set once, in ascending order.                   *)
Lists(seq, n, S) ==
  /\ seq \in [1..n -> S]
  /\ \A s \in S : \E i \in DOMAIN seq : seq[i] = s
  /\ \A i, j \in DOMAIN seq : i < j => seq[i] < seq[j]

Listable(n) ==
  \A S \in SUBSET Nat : (IsFiniteSet(S) /\ Cardinality(S) = n) => \E seq : Lists(seq, n, S)

(* The least first, then the list of the rest.                             *)
LEMMA ListGrows ==
  ASSUME NEW n \in Nat, Listable(n)
  PROVE  Listable(n + 1)
<1> SUFFICES ASSUME NEW S \in SUBSET Nat, IsFiniteSet(S), Cardinality(S) = n + 1
             PROVE  \E seq : Lists(seq, n + 1, S)
  BY DEF Listable
<1>1. S # {}
  BY FS_EmptySet
<1>2. PICK x \in S : \A y \in S : x <= y
  BY <1>1, LeastOf
<1> DEFINE T == S \ {x}
<1>3. T \in SUBSET Nat /\ IsFiniteSet(T) /\ Cardinality(T) = n
  <2>1. T \in SUBSET Nat /\ IsFiniteSet(T)
    BY FS_RemoveElement
  <2>2. Cardinality(T) = Cardinality(S) - 1
    BY <1>2, FS_RemoveElement
  <2> QED  BY <2>1, <2>2
<1>4. PICK seq : Lists(seq, n, T)
  BY <1>3 DEF Listable
<1>5. /\ seq \in [1..n -> T] /\ DOMAIN seq = 1..n
      /\ \A s \in T : \E i \in 1..n : seq[i] = s
      /\ \A i, j \in 1..n : i < j => seq[i] < seq[j]
  BY <1>4 DEF Lists
<1> DEFINE new == [i \in 1..(n + 1) |-> IF i = 1 THEN x ELSE seq[i - 1]]
<1>6. ASSUME NEW i \in 1..(n + 1), i # 1
      PROVE  i - 1 \in 1..n /\ new[i] = seq[i - 1] /\ new[i] \in T
  <2>1. i - 1 \in 1..n
    BY <1>6
  <2> QED  BY <1>5, <1>6, <2>1
<1>7. new \in [1..(n + 1) -> S] /\ DOMAIN new = 1..(n + 1) /\ 1 \in 1..(n + 1) /\ new[1] = x
  <2>1. 1 \in 1..(n + 1)
    OBVIOUS
  <2>2. \A i \in 1..(n + 1) : (IF i = 1 THEN x ELSE seq[i - 1]) \in S
    BY <1>2, <1>6
  <2> QED  BY <2>1, <2>2
<1> HIDE DEF new
<1>8. ASSUME NEW s \in S PROVE \E i \in 1..(n + 1) : new[i] = s
  <2>1. CASE s = x
    BY <1>7, <2>1
  <2>2. CASE s # x
    <3>1. PICK i \in 1..n : seq[i] = s
      BY <1>5, <2>2
    <3>2. i + 1 \in 1..(n + 1) /\ i + 1 # 1 /\ i + 1 - 1 = i
      OBVIOUS
    <3>3. new[i + 1] = seq[i]
      BY <1>6, <3>2
    <3> QED  BY <3>1, <3>2, <3>3
  <2> QED  BY <2>1, <2>2
<1>9. ASSUME NEW i \in 1..(n + 1), NEW j \in 1..(n + 1), i < j PROVE new[i] < new[j]
  <2>1. j # 1 /\ new[j] \in T /\ new[j] = seq[j - 1] /\ j - 1 \in 1..n
    BY <1>6, <1>9
  <2>2. CASE i = 1
    <3>1. x <= new[j] /\ new[j] # x /\ x \in Nat /\ new[j] \in Nat
      BY <1>2, <2>1
    <3> QED  BY <1>7, <2>2, <3>1
  <2>3. CASE i # 1
    <3>1. new[i] = seq[i - 1] /\ i - 1 \in 1..n /\ i - 1 < j - 1
      BY <1>6, <1>9, <2>3
    <3> QED  BY <1>5, <2>1, <3>1
  <2> QED  BY <2>2, <2>3
<1> QED  BY <1>7, <1>8, <1>9 DEF Lists

(* What the order of a store's iter is.                                    *)
LEMMA AscendingIs ==
  ASSUME NEW S \in SUBSET Nat, IsFiniteSet(S)
  PROVE  Lists(Ascending(S), Cardinality(S), S) /\ Cardinality(S) \in Nat
<1> DEFINE N == {n \in Nat : Listable(n)}
           n == Cardinality(S)
<1>1. n \in Nat
  BY FS_CardinalityType
<1>2. 0 \in N
  <2>1. ASSUME NEW T \in SUBSET Nat, IsFiniteSet(T), Cardinality(T) = 0
        PROVE  \E seq : Lists(seq, 0, T)
    <3>1. T = {}
      BY <2>1, FS_EmptySet
    <3>2. Lists([i \in 1..0 |-> 0], 0, T)
      BY <3>1 DEF Lists
    <3> QED  BY <3>2
  <2> QED  BY <2>1 DEF Listable
<1>3. \A m \in Nat : m \in N => m + 1 \in N
  BY ListGrows
<1> HIDE DEF N
<1>4. Nat \subseteq N
  BY <1>2, <1>3, Induction
<1>5. \E seq : Lists(seq, n, S)
  BY <1>1, <1>4 DEF N, Listable
<1>6. \E seq \in [1..n -> S] :
        /\ \A s \in S : \E i \in DOMAIN seq : seq[i] = s
        /\ \A i, j \in DOMAIN seq : i < j => seq[i] < seq[j]
  BY <1>5 DEF Lists
<1>7. Lists(Ascending(S), n, S)
  BY <1>6 DEF Ascending, Lists
<1> QED  BY <1>1, <1>7

Sweeps(g, n, w, slots) ==
  g = [m \in 0..n |-> IF m = 0 THEN w ELSE Swept(g[m - 1], slots[m])]

LEMMA SweepExists ==
  ASSUME NEW w, NEW slots
  PROVE  \A n \in Nat : \E g : Sweeps(g, n, w, slots)
<1> DEFINE S == {n \in Nat : \E g : Sweeps(g, n, w, slots)}
<1>1. 0 \in S
  <2>1. Sweeps([m \in 0..0 |-> w], 0, w, slots)
    BY DEF Sweeps
  <2> QED  BY <2>1
<1>2. ASSUME NEW n \in Nat, n \in S
      PROVE  n + 1 \in S
  <2>1. PICK g : Sweeps(g, n, w, slots)
    BY <1>2
  <2> DEFINE h == [m \in 0..(n + 1) |-> IF m = n + 1 THEN Swept(g[n], slots[n + 1]) ELSE g[m]]
             k == [m \in 0..(n + 1) |-> IF m = 0 THEN w ELSE Swept(h[m - 1], slots[m])]
  <2>2. ASSUME NEW m \in 0..(n + 1)
        PROVE  h[m] = k[m]
    <3>1. CASE m = n + 1
      <4>1. m # 0 /\ m - 1 = n /\ n \in 0..(n + 1) /\ n # n + 1
        BY <3>1
      <4> QED  BY <3>1, <4>1
    <3>2. CASE m # n + 1
      <4>1. m \in 0..n
        BY <3>2
      <4>2. g[m] = IF m = 0 THEN w ELSE Swept(g[m - 1], slots[m])
        BY <2>1, <4>1 DEF Sweeps
      <4>3. m # 0 => m - 1 \in 0..(n + 1) /\ m - 1 # n + 1
        BY <4>1
      <4> QED  BY <3>2, <4>2, <4>3
    <3> QED  BY <3>1, <3>2
  <2>3. h = k
    BY <2>2
  <2> HIDE DEF h
  <2>4. Sweeps(h, n + 1, w, slots)
    BY <2>3 DEF Sweeps
  <2> QED  BY <2>4
<1> HIDE DEF S
<1>3. Nat \subseteq S
  BY <1>1, <1>2, Induction
<1> QED  BY <1>3 DEF S

(* The worlds the sweep goes through, pipe by pipe.                        *)
LEMMA SweepIs ==
  ASSUME NEW w, NEW slots, Len(slots) \in Nat
  PROVE  \E g : /\ g[0] = w
                /\ \A n \in 0..(Len(slots) - 1) : g[n + 1] = Swept(g[n], slots[n + 1])
                /\ Sweep(w, slots) = g[Len(slots)]
<1> DEFINE g == CHOOSE h : Sweeps(h, Len(slots), w, slots)
<1>1. Sweep(w, slots) = g[Len(slots)]
  BY Zenon DEF Sweep, Sweeps
<1>2. Sweeps(g, Len(slots), w, slots)
  <2>1. \E h : Sweeps(h, Len(slots), w, slots)
    BY SweepExists
  <2> QED  BY <2>1, Zenon
<1> HIDE DEF g
<1>3. g[0] = w
  BY <1>2 DEF Sweeps
<1>4. ASSUME NEW n \in 0..(Len(slots) - 1)
      PROVE  g[n + 1] = Swept(g[n], slots[n + 1])
  <2>1. n + 1 \in 0..Len(slots) /\ n + 1 # 0 /\ n + 1 - 1 = n
    OBVIOUS
  <2> QED  BY <1>2, <2>1 DEF Sweeps
<1> QED  BY <1>1, <1>3, <1>4

----------------------------------------------------------------------------
(* The world: a few pipes, each where the ticks since its spawn put it *)

World == [ent : EntitiesOf, pipe : StoreOf(EntitySlots, Handles),
          body : StoreOf(EntitySlots, Int), alive : BOOLEAN, tick : Nat, bird : Nat]

(* The way a pipe has gone, and how long a way is.                         *)
Reach == PipeSpawnX + PipeWidth
Age(w, s) == PipeSpawnX - Value(w.body, s)

(* A pipe was spawned at a multiple of the interval and is not out yet.    *)
Spaced(w) ==
  \A s \in Occupied(w.body) :
    Age(w, s) \in 1..Reach /\ \E k \in Nat : Age(w, s) + PipeInterval * k = w.bird

Apart(w) == \A s, t \in Occupied(w.body) : Value(w.body, s) = Value(w.body, t) => s = t

(* The allocator's table has never been longer than the screen allows.     *)
WorldInv(w) ==
  /\ w \in World /\ WorldOK(w)
  /\ w.alive => w.bird = w.tick
  /\ Spaced(w) /\ Apart(w)
  /\ Len(w.ent.alive) <= MaxPipes

(* What a pipe's two components are.                                       *)
LEMMA PipeIs ==
  ASSUME NEW w \in World, WorldOK(w), NEW s \in Occupied(w.body)
  PROVE  /\ s \in EntitySlots /\ s \in Nat /\ s \in Occupied(w.pipe)
         /\ Holds(w.pipe, s) /\ Holds(w.body, s)
         /\ Value(w.body, s) \in Int
         /\ Value(w.pipe, s) \in Handles /\ Value(w.pipe, s).slot = s
         /\ IsAlive(w.ent, Value(w.pipe, s))
<1>1. w.pipe \in StoreOf(EntitySlots, Handles) /\ w.body \in StoreOf(EntitySlots, Int)
  BY DEF World
<1>2. StoreOK(w.pipe) /\ StoreOK(w.body) /\ Occupied(w.pipe) = Occupied(w.body)
  BY DEF WorldOK
<1>3. s \in Occupied(w.pipe) /\ s \in EntitySlots /\ s \in Nat
  BY <1>1, <1>2, WorldAssumption DEF Occupied, StoreOf
<1>4. Holds(w.pipe, s) /\ Holds(w.body, s)
  BY <1>2 DEF Occupied, Holds
<1>5. Value(w.body, s) \in Int /\ Value(w.pipe, s) \in Handles
  BY <1>1, <1>2, <1>3, <1>4, PositionOf
<1> QED  BY <1>3, <1>4, <1>5 DEF WorldOK

(* Which slots are alive is what the stores say.                           *)
LEMMA LivePipes ==
  ASSUME NEW w \in World, WorldOK(w)
  PROVE  Occupied(w.body) = LiveSlots(w.ent)
BY DEF WorldOK, LiveSlots

(* Who is alive in which slot, before and after a handle ends.             *)
LEMMA DespawnFrees ==
  ASSUME NEW ents \in EntitiesOf, EntitiesOK(ents), NEW dead \in Handles, IsAlive(ents, dead)
  PROVE  /\ Len(Despawned(ents, dead).alive) = Len(ents.alive)
         /\ LiveSlots(Despawned(ents, dead)) = LiveSlots(ents) \ {dead.slot}
<1>1. /\ ents.alive \in Seq(BOOLEAN) /\ Used(ents) = 1..Len(ents.alive)
      /\ DOMAIN ents.alive = 1..Len(ents.alive)
  BY DEF EntitiesOf, Used
<1>2. Despawned(ents, dead).alive = [ents.alive EXCEPT ![dead.slot] = FALSE]
  BY DEF Despawned
<1>3. dead.slot \in DOMAIN ents.alive
  BY DEF IsAlive, Used
<1> DEFINE new == [ents.alive EXCEPT ![dead.slot] = FALSE]
<1>4. new \in Seq(BOOLEAN) /\ Len(new) = Len(ents.alive) /\ DOMAIN new = DOMAIN ents.alive
  BY <1>1, <1>3
<1>5. \A s \in DOMAIN ents.alive : new[s] <=> (ents.alive[s] /\ s # dead.slot)
  BY <1>1, <1>3
<1> HIDE DEF new
<1> QED  BY <1>2, <1>4, <1>5 DEF new, LiveSlots, Used

(* One pipe swept: it is gone, and the others are what they were.          *)
LEMMA SweptIs ==
  ASSUME NEW w \in World, WorldOK(w), NEW s \in Occupied(w.body)
  PROVE  LET new == Swept(w, s)
         IN  /\ new \in World /\ WorldOK(new)
             /\ new.alive = w.alive /\ new.tick = w.tick /\ new.bird = w.bird
             /\ Len(new.ent.alive) = Len(w.ent.alive)
             /\ Occupied(new.body) = Occupied(w.body) \ {s}
             /\ \A t \in Occupied(new.body) : Value(new.body, t) = Value(w.body, t)
<1> DEFINE dead == Value(w.pipe, s)
           ent == Despawned(w.ent, dead)
           pipe == Removed(w.pipe, s)
           body == Removed(w.body, s)
           new == [w EXCEPT !.ent = ent, !.pipe = pipe, !.body = body]
<1>1. /\ s \in EntitySlots /\ s \in Nat /\ s \in Occupied(w.pipe) /\ Holds(w.pipe, s)
      /\ dead \in Handles /\ dead.slot = s /\ IsAlive(w.ent, dead)
  BY PipeIs
<1>2. Swept(w, s) = new
  BY <1>1 DEF Swept, World
<1>3. /\ w.pipe \in StoreOf(EntitySlots, Handles) /\ w.body \in StoreOf(EntitySlots, Int)
      /\ w.ent \in EntitiesOf
  BY DEF World
<1>4. /\ StoreOK(w.pipe) /\ StoreOK(w.body) /\ Occupied(w.pipe) = Occupied(w.body)
      /\ EntitiesOK(w.ent)
  BY DEF WorldOK
<1>5. /\ pipe \in StoreOf(EntitySlots, Handles) /\ StoreOK(pipe)
      /\ Occupied(pipe) = Occupied(w.pipe) \ {s}
      /\ \A t \in Occupied(w.pipe) \ {s} : Value(pipe, t) = Value(w.pipe, t)
  BY <1>1, <1>3, <1>4, RemoveIs
<1>6. /\ body \in StoreOf(EntitySlots, Int) /\ StoreOK(body)
      /\ Occupied(body) = Occupied(w.body) \ {s}
      /\ \A t \in Occupied(w.body) \ {s} : Value(body, t) = Value(w.body, t)
  BY <1>1, <1>3, <1>4, RemoveIs
<1>7. /\ ent \in EntitiesOf /\ EntitiesOK(ent)
      /\ \A e \in Handles : IsAlive(ent, e) <=> (IsAlive(w.ent, e) /\ e # dead)
  BY <1>1, <1>3, <1>4, DespawnTakesOne
<1>8. Len(ent.alive) = Len(w.ent.alive) /\ LiveSlots(ent) = LiveSlots(w.ent) \ {s}
  BY <1>1, <1>3, <1>4, DespawnFrees
<1> HIDE DEF dead, ent, pipe, body
<1>9. new \in World /\ new.ent = ent /\ new.pipe = pipe /\ new.body = body
      /\ new.alive = w.alive /\ new.tick = w.tick /\ new.bird = w.bird
  BY <1>5, <1>6, <1>7 DEF World
<1>10. WorldOK(new)
  <2>1. Occupied(pipe) = LiveSlots(ent)
    BY <1>4, <1>5, <1>8, LivePipes
  <2>2. ASSUME NEW t \in Occupied(pipe)
        PROVE  Value(pipe, t).slot = t /\ IsAlive(ent, Value(pipe, t))
    <3>1. t \in Occupied(w.body) /\ t # s /\ Value(pipe, t) = Value(w.pipe, t)
      BY <1>4, <1>5
    <3>2. Value(w.pipe, t) \in Handles /\ Value(w.pipe, t).slot = t
          /\ IsAlive(w.ent, Value(w.pipe, t))
      BY <3>1, PipeIs
    <3>3. Value(w.pipe, t) # dead
      BY <1>1, <3>1, <3>2
    <3> QED  BY <1>7, <3>1, <3>2, <3>3
  <2> HIDE DEF new
  <2> QED  BY <1>4, <1>5, <1>6, <1>7, <1>9, <2>1, <2>2 DEF WorldOK, LiveSlots
<1> HIDE DEF new
<1> QED  BY <1>2, <1>6, <1>8, <1>9, <1>10

(* The slots a sweep has taken when n of its pipes are gone.               *)
TakenBy(seq, n) == {seq[i] : i \in 1..n}

(* A world after some of its pipes left, the others as they were.          *)
Without(new, w, gone) ==
  /\ new \in World /\ WorldOK(new)
  /\ new.alive = w.alive /\ new.tick = w.tick /\ new.bird = w.bird
  /\ Len(new.ent.alive) = Len(w.ent.alive)
  /\ Occupied(new.body) = Occupied(w.body) \ gone
  /\ \A t \in Occupied(new.body) : Value(new.body, t) = Value(w.body, t)

LEMMA WithoutOne ==
  ASSUME NEW w \in World, NEW gone, NEW v, Without(v, w, gone), NEW s \in Occupied(w.body) \ gone
  PROVE  Without(Swept(v, s), w, gone \cup {s})
<1>1. v \in World /\ WorldOK(v) /\ s \in Occupied(v.body)
  BY DEF Without
<1> DEFINE new == Swept(v, s)
<1>2. /\ new \in World /\ WorldOK(new)
      /\ new.alive = v.alive /\ new.tick = v.tick /\ new.bird = v.bird
      /\ Len(new.ent.alive) = Len(v.ent.alive)
      /\ Occupied(new.body) = Occupied(v.body) \ {s}
      /\ \A t \in Occupied(new.body) : Value(new.body, t) = Value(v.body, t)
  BY <1>1, SweptIs
<1> HIDE DEF new
<1>3. Occupied(new.body) = Occupied(w.body) \ (gone \cup {s})
  BY <1>2 DEF Without
<1>4. \A t \in Occupied(new.body) : Value(new.body, t) = Value(w.body, t)
  BY <1>2 DEF Without
<1>5. /\ new.alive = w.alive /\ new.tick = w.tick /\ new.bird = w.bird
      /\ Len(new.ent.alive) = Len(w.ent.alive)
  BY <1>2 DEF Without
<1>6. Without(new, w, gone \cup {s})
  BY <1>2, <1>3, <1>4, <1>5 DEF Without
<1> QED  BY <1>6 DEF new

(* A sweep takes the pipes it is given, in whatever order they are listed. *)
LEMMA SweepTakes ==
  ASSUME NEW w \in World, WorldOK(w), NEW out \in SUBSET Occupied(w.body)
  PROVE  Without(Sweep(w, Ascending(out)), w, out)
<1> DEFINE seq == Ascending(out)
           m == Cardinality(out)
<1>1. out \in SUBSET Nat /\ IsFiniteSet(out)
  <2>1. \A s \in Occupied(w.body) : s \in Nat
    BY PipeIs
  <2>2. IsFiniteSet(Occupied(w.body))
    <3>1. w.ent \in EntitiesOf
      BY DEF World
    <3> QED  BY <3>1, LiveFinite, LivePipes
  <2> QED  BY <2>1, <2>2, FS_Subset
<1>2. Lists(seq, m, out) /\ m \in Nat
  BY <1>1, AscendingIs
<1>3. /\ seq \in [1..m -> out] /\ DOMAIN seq = 1..m /\ Len(seq) = m
      /\ \A s \in out : \E i \in 1..m : seq[i] = s
      /\ \A i, j \in 1..m : i < j => seq[i] < seq[j]
  BY <1>2 DEF Lists
<1> HIDE DEF seq, m
<1>0. Len(seq) \in Nat
  BY <1>2, <1>3
<1>4. PICK g : /\ g[0] = w
               /\ \A n \in 0..(Len(seq) - 1) : g[n + 1] = Swept(g[n], seq[n + 1])
               /\ Sweep(w, seq) = g[Len(seq)]
  BY <1>0, SweepIs
<1> DEFINE S == {n \in Nat : n <= m => Without(g[n], w, TakenBy(seq, n))}
<1>5. 0 \in S
  <2>1. TakenBy(seq, 0) = {}
    BY DEF TakenBy
  <2> QED  BY <1>4, <2>1 DEF Without
<1>6. ASSUME NEW n \in Nat, n \in S PROVE n + 1 \in S
  <2>1. SUFFICES ASSUME n + 1 <= m PROVE Without(g[n + 1], w, TakenBy(seq, n + 1))
    OBVIOUS
  <2>2. Without(g[n], w, TakenBy(seq, n)) /\ n + 1 \in 1..m /\ n \in 0..(m - 1)
    BY <1>2, <1>6, <2>1
  <2>3. seq[n + 1] \in out
    BY <1>3, <2>2
  <2>4. seq[n + 1] \notin TakenBy(seq, n)
    <3>1. ASSUME NEW i \in 1..n PROVE seq[i] # seq[n + 1]
      <4>1. i \in 1..m /\ i < n + 1
        BY <1>2, <2>1
      <4>2. seq[i] < seq[n + 1] /\ seq[i] \in Nat /\ seq[n + 1] \in Nat
        BY <1>1, <1>3, <2>2, <4>1
      <4> QED  BY <4>2
    <3> QED  BY <3>1 DEF TakenBy
  <2>5. TakenBy(seq, n + 1) = TakenBy(seq, n) \cup {seq[n + 1]}
    <3>1. 1..(n + 1) = 1..n \cup {n + 1}
      OBVIOUS
    <3> QED  BY <3>1 DEF TakenBy
  <2>6. Without(Swept(g[n], seq[n + 1]), w, TakenBy(seq, n) \cup {seq[n + 1]})
    BY <2>2, <2>3, <2>4, WithoutOne
  <2> QED  BY <1>3, <1>4, <2>2, <2>5, <2>6
<1> HIDE DEF S
<1>7. m \in S
  BY <1>2, <1>5, <1>6, Induction
<1>8. TakenBy(seq, m) = out
  BY <1>3 DEF TakenBy
<1>9. Without(g[m], w, out)
  BY <1>2, <1>7, <1>8 DEF S
<1> QED  BY <1>3, <1>4, <1>9 DEF seq

(* Every pipe one unit to the left.                                        *)
LEMMA MovedIs ==
  ASSUME NEW st \in StoreOf(EntitySlots, Int), StoreOK(st)
  PROVE  LET new == [st EXCEPT !.values = [i \in DOMAIN st.values |-> st.values[i] - 1]]
         IN  /\ new \in StoreOf(EntitySlots, Int) /\ StoreOK(new)
             /\ Occupied(new) = Occupied(st)
             /\ \A s \in Occupied(st) : Value(new, s) = Value(st, s) - 1
<1> DEFINE values == [i \in DOMAIN st.values |-> st.values[i] - 1]
           new == [st EXCEPT !.values = values]
<1>1. /\ st.sparse \in [EntitySlots -> Nat] /\ st.dense \in Seq(EntitySlots)
      /\ st.values \in Seq(Int) /\ DOMAIN st.values = 1..Len(st.values) /\ Len(st.values) \in Nat
  BY DEF StoreOf
<1>2. values \in Seq(Int) /\ Len(values) = Len(st.values)
      /\ \A i \in DOMAIN st.values : values[i] = st.values[i] - 1
  BY <1>1
<1> HIDE DEF values
<1>3. /\ new.sparse = st.sparse /\ new.dense = st.dense /\ new.values = values
      /\ new \in StoreOf(EntitySlots, Int)
  BY <1>1, <1>2 DEF StoreOf
<1> HIDE DEF new
<1>4. Occupied(new) = Occupied(st)
  BY <1>3 DEF Occupied
<1>5. StoreOK(new)
  BY <1>2, <1>3, <1>4 DEF StoreOK
<1>6. ASSUME NEW s \in Occupied(st) PROVE Value(new, s) = Value(st, s) - 1
  <2>1. st.sparse[s] \in DOMAIN st.dense
    BY DEF StoreOK
  <2>2. st.sparse[s] \in DOMAIN st.values
    BY <1>1, <2>1 DEF StoreOK
  <2> QED  BY <1>2, <1>3, <2>2 DEF Value
<1> QED  BY <1>3, <1>4, <1>5, <1>6 DEF new, values

(* What advance_pipes does: all move, and those that left are swept.       *)
Leaving(w) == {s \in Occupied(w.body) : Value(w.body, s) - 1 + PipeWidth < 0}

LEMMA AdvanceIs ==
  ASSUME NEW w \in World, WorldOK(w)
  PROVE  LET new == AdvancePipes(w)
         IN  /\ new \in World /\ WorldOK(new)
             /\ new.alive = w.alive /\ new.tick = w.tick /\ new.bird = w.bird
             /\ Len(new.ent.alive) = Len(w.ent.alive)
             /\ Occupied(new.body) = Occupied(w.body) \ Leaving(w)
             /\ \A s \in Occupied(new.body) : Value(new.body, s) = Value(w.body, s) - 1
<1> DEFINE body == [w.body EXCEPT !.values = [i \in DOMAIN w.body.values |-> w.body.values[i] - 1]]
           moved == [w EXCEPT !.body = body]
           out == {s \in Occupied(moved.body) : Value(moved.body, s) + PipeWidth < 0}
<1>1. w.body \in StoreOf(EntitySlots, Int) /\ StoreOK(w.body)
  BY DEF World, WorldOK
<1>2. /\ body \in StoreOf(EntitySlots, Int) /\ StoreOK(body)
      /\ Occupied(body) = Occupied(w.body)
      /\ \A s \in Occupied(w.body) : Value(body, s) = Value(w.body, s) - 1
  BY <1>1, MovedIs
<1>3. AdvancePipes(w) = Sweep(moved, Ascending(out))
  BY DEF AdvancePipes, Updated, World
<1> HIDE DEF body
<1>4. /\ moved \in World /\ moved.body = body /\ moved.pipe = w.pipe /\ moved.ent = w.ent
      /\ moved.alive = w.alive /\ moved.tick = w.tick /\ moved.bird = w.bird
  BY <1>2 DEF World
<1>5. WorldOK(moved)
  <2> HIDE DEF moved
  <2> QED  BY <1>2, <1>4 DEF WorldOK
<1>6. out \in SUBSET Occupied(moved.body) /\ out = Leaving(w)
  BY <1>2, <1>4 DEF Leaving
<1> HIDE DEF moved, out
<1>7. Without(Sweep(moved, Ascending(out)), moved, out)
  BY <1>4, <1>5, <1>6, SweepTakes
<1>8. Without(AdvancePipes(w), moved, Leaving(w))
  BY <1>3, <1>6, <1>7
<1> DEFINE new == AdvancePipes(w)
<1> HIDE DEF new
<1>9. /\ new \in World /\ WorldOK(new)
      /\ new.alive = w.alive /\ new.tick = w.tick /\ new.bird = w.bird
      /\ Len(new.ent.alive) = Len(w.ent.alive)
      /\ Occupied(new.body) = Occupied(w.body) \ Leaving(w)
      /\ \A s \in Occupied(new.body) : Value(new.body, s) = Value(body, s)
  BY <1>2, <1>4, <1>8 DEF Without, new
<1>10. \A s \in Occupied(new.body) : Value(new.body, s) = Value(w.body, s) - 1
  BY <1>2, <1>9
<1> QED  BY <1>9, <1>10 DEF new

(* What a spawn does to the table: a slot that was dead, or the next one.  *)
LEMMA SpawnTakes ==
  ASSUME NEW ents \in EntitiesOf, EntitiesOK(ents)
  PROVE  LET s == NextSlot(ents)
             new == Spawned(ents)
         IN  /\ s \in 1..Len(new.alive) /\ s \notin LiveSlots(ents)
             /\ LiveSlots(new) = LiveSlots(ents) \cup {s}
             /\ Len(new.alive) = IF ents.free = <<>> THEN Len(ents.alive) + 1 ELSE Len(ents.alive)
             /\ SpawnedHandle(ents) \in Handles /\ SpawnedHandle(ents).slot = s
             /\ ents.free = <<>> => Cardinality(LiveSlots(ents)) = Len(ents.alive)
<1> DEFINE s == NextSlot(ents)
           new == Spawned(ents)
           m == Len(ents.alive)
<1>1. /\ ents.alive \in Seq(BOOLEAN) /\ ents.free \in Seq(Nat) /\ ents.generation \in Seq(Nat)
      /\ m \in Nat /\ Used(ents) = 1..m /\ DOMAIN ents.alive = 1..m
      /\ DOMAIN ents.generation = 1..m
  BY DEF EntitiesOf, EntitiesOK, Used
<1>2. CASE ents.free = <<>>
  <2>1. s = m + 1 /\ new.alive = Append(ents.alive, TRUE)
    BY <1>2 DEF NextSlot, Spawned
  <2>2. /\ Append(ents.alive, TRUE) \in Seq(BOOLEAN) /\ Len(Append(ents.alive, TRUE)) = m + 1
        /\ Append(ents.alive, TRUE)[m + 1] = TRUE
        /\ \A i \in 1..m : Append(ents.alive, TRUE)[i] = ents.alive[i]
    <3>1. ents.alive \in Seq(BOOLEAN) /\ TRUE \in BOOLEAN
      BY <1>1
    <3>. QED
      BY <3>1, AppendIs, ZenonT(40)
  <2>3. Used(new) = 1..(m + 1) /\ Len(new.alive) = m + 1 /\ s \in 1..(m + 1)
    BY <1>1, <2>1, <2>2 DEF Used
  <2>4. ASSUME NEW i \in 1..(m + 1)
        PROVE  new.alive[i] <=> ((i \in 1..m /\ ents.alive[i]) \/ i = s)
    <3>1. CASE i = m + 1
      BY <1>1, <2>1, <2>2, <3>1
    <3>2. CASE i # m + 1
      <4>1. i \in 1..m
        BY <1>1, <3>2
      <4> QED  BY <2>1, <2>2, <3>2, <4>1
    <3> QED  BY <3>1, <3>2
  <2>5. LiveSlots(new) = LiveSlots(ents) \cup {s}
    <3> HIDE DEF new, s
    <3>1. 1..m \subseteq 1..(m + 1)
      BY <1>1
    <3> QED  BY <1>1, <2>3, <2>4, <3>1 DEF LiveSlots
  <2>6. s \notin LiveSlots(ents)
    BY <1>1, <2>1 DEF LiveSlots
  <2>7. LiveSlots(ents) = 1..m
    <3>1. \A i \in DOMAIN ents.free : FALSE
      BY <1>2
    <3>2. {t \in Used(ents) : ~ents.alive[t]} = {}
      BY <3>1 DEF EntitiesOK
    <3> QED  BY <1>1, <3>2 DEF LiveSlots
  <2>8. Cardinality(LiveSlots(ents)) = m
    BY <1>1, <2>7, FS_Interval
  <2>9. SpawnedHandle(ents) \in Handles /\ SpawnedHandle(ents).slot = s
    <3>1. SpawnedHandle(ents) = [slot |-> s, generation |-> 0]
      BY <1>2 DEF SpawnedHandle, Handle
    <3> QED  BY <1>1, <2>1, <3>1 DEF Handles
  <2> QED  BY <1>2, <2>3, <2>5, <2>6, <2>8, <2>9
<1>3. CASE ents.free # <<>>
  <2>1. s \in 1..m /\ ~ents.alive[s]
    BY <1>1, <1>3, LastFree
  <2>2. new.alive = [ents.alive EXCEPT ![s] = TRUE]
    BY <1>3 DEF Spawned, EntitiesOf
  <2> DEFINE alive == [ents.alive EXCEPT ![s] = TRUE]
  <2>3. alive \in Seq(BOOLEAN) /\ Len(alive) = m /\ DOMAIN alive = 1..m
        /\ \A i \in 1..m : alive[i] <=> (ents.alive[i] \/ i = s)
    BY <1>1, <2>1
  <2> HIDE DEF alive, s, new
  <2>4. LiveSlots(new) = LiveSlots(ents) \cup {s}
    BY <1>1, <2>1, <2>2, <2>3 DEF LiveSlots, Used, alive
  <2>5. s \notin LiveSlots(ents)
    BY <2>1 DEF LiveSlots
  <2>6. SpawnedHandle(ents) \in Handles /\ SpawnedHandle(ents).slot = s
    <3>1. SpawnedHandle(ents) = [slot |-> s, generation |-> ents.generation[s]]
      BY <1>3 DEF SpawnedHandle, Handle, s
    <3>2. ents.generation[s] \in Nat /\ s \in Nat
      BY <1>1, <2>1
    <3> QED  BY <3>1, <3>2 DEF Handles
  <2>7. Len(new.alive) = m
    BY <2>2, <2>3 DEF alive
  <2> QED  BY <1>3, <2>1, <2>4, <2>5, <2>6, <2>7 DEF s, new
<1> QED  BY <1>2, <1>3

(* A pipe enters in a slot of its own.                                     *)
LEMMA SpawnKeeps ==
  ASSUME NEW w \in World, WorldOK(w), w.tick % PipeInterval = 0,
         Len(Spawned(w.ent).alive) <= MaxPipes
  PROVE  LET s == NextSlot(w.ent)
             new == SpawnPipes(w)
         IN  /\ new \in World /\ WorldOK(new)
             /\ new.alive = w.alive /\ new.tick = w.tick /\ new.bird = w.bird
             /\ new.ent = Spawned(w.ent)
             /\ s \notin Occupied(w.body) /\ Occupied(new.body) = Occupied(w.body) \cup {s}
             /\ \A t \in Occupied(new.body) :
                  Value(new.body, t) = IF t = s THEN PipeSpawnX ELSE Value(w.body, t)
<1> DEFINE s == NextSlot(w.ent)
           e == SpawnedHandle(w.ent)
           ent == Spawned(w.ent)
           pipe == Inserted(w.pipe, s, e)
           body == Inserted(w.body, s, PipeSpawnX)
           new == [w EXCEPT !.ent = ent, !.pipe = pipe, !.body = body]
<1>1. /\ w.pipe \in StoreOf(EntitySlots, Handles) /\ w.body \in StoreOf(EntitySlots, Int)
      /\ w.ent \in EntitiesOf
  BY DEF World
<1>2. /\ StoreOK(w.pipe) /\ StoreOK(w.body) /\ Occupied(w.pipe) = Occupied(w.body)
      /\ EntitiesOK(w.ent)
  BY DEF WorldOK
<1>3. /\ s \in 1..Len(ent.alive) /\ s \notin LiveSlots(w.ent)
      /\ LiveSlots(ent) = LiveSlots(w.ent) \cup {s}
      /\ e \in Handles /\ e.slot = s
  BY <1>1, <1>2, SpawnTakes
<1>4. ent \in EntitiesOf /\ EntitiesOK(ent)
      /\ \A h \in Handles : IsAlive(ent, h) <=> (IsAlive(w.ent, h) \/ h = e)
  BY <1>1, <1>2, SpawnMintsFresh
<1>5. s \in EntitySlots
  <2>1. Len(ent.alive) \in Nat
    BY <1>4 DEF EntitiesOf
  <2>2. MaxPipes \in Int
    BY WorldAssumption DEF MaxPipes
  <2>3. s \in 1..MaxPipes
    BY <1>3, <2>1, <2>2
  <2> QED  BY <2>3, WorldAssumption
<1>6. SpawnPipes(w) = new
  <2>1. SpawnPipes(w) = [w EXCEPT !.ent  = Spawned(@),
                                  !.pipe = Inserted(@, e.slot, e),
                                  !.body = Inserted(@, e.slot, PipeSpawnX)]
    BY DEF SpawnPipes
  <2> QED  BY <1>3, <2>1 DEF World
<1>7. /\ pipe \in StoreOf(EntitySlots, Handles) /\ StoreOK(pipe)
      /\ Occupied(pipe) = Occupied(w.pipe) \cup {s}
      /\ \A t \in Occupied(w.pipe) \cup {s} :
           Value(pipe, t) = IF t = s THEN e ELSE Value(w.pipe, t)
  BY <1>1, <1>2, <1>3, <1>5, InsertIs
<1>8. /\ body \in StoreOf(EntitySlots, Int) /\ StoreOK(body)
      /\ Occupied(body) = Occupied(w.body) \cup {s}
      /\ \A t \in Occupied(w.body) \cup {s} :
           Value(body, t) = IF t = s THEN PipeSpawnX ELSE Value(w.body, t)
  <2>1. PipeSpawnX \in Int
    BY WorldAssumption
  <2> QED  BY <1>1, <1>2, <1>5, <2>1, InsertIs
<1>9. Occupied(w.body) = LiveSlots(w.ent)
  BY LivePipes
<1> HIDE DEF ent, pipe, body, s, e
<1>10. new \in World /\ new.ent = ent /\ new.pipe = pipe /\ new.body = body
       /\ new.alive = w.alive /\ new.tick = w.tick /\ new.bird = w.bird
  BY <1>4, <1>7, <1>8 DEF World
<1>11. WorldOK(new)
  <2>1. Occupied(pipe) = LiveSlots(ent)
    BY <1>2, <1>3, <1>7, <1>9
  <2>2. ASSUME NEW t \in Occupied(pipe)
        PROVE  Value(pipe, t).slot = t /\ IsAlive(ent, Value(pipe, t))
    <3>1. CASE t = s
      <4>1. Value(pipe, t) = e
        BY <1>7, <3>1
      <4> QED  BY <1>3, <1>4, <3>1, <4>1
    <3>2. CASE t # s
      <4>1. t \in Occupied(w.body) /\ Value(pipe, t) = Value(w.pipe, t)
        BY <1>2, <1>7, <3>2
      <4>2. Value(w.pipe, t) \in Handles /\ Value(w.pipe, t).slot = t
            /\ IsAlive(w.ent, Value(w.pipe, t))
        BY <4>1, PipeIs
      <4> QED  BY <1>4, <4>1, <4>2
    <3> QED  BY <3>1, <3>2
  <2> HIDE DEF new
  <2> QED  BY <1>2, <1>4, <1>7, <1>8, <1>10, <2>1, <2>2 DEF WorldOK, LiveSlots
<1> HIDE DEF new
<1>12. \A t \in Occupied(new.body) :
         Value(new.body, t) = IF t = s THEN PipeSpawnX ELSE Value(w.body, t)
  BY <1>8, <1>10
<1> QED  BY <1>3, <1>6, <1>8, <1>9, <1>10, <1>11, <1>12 DEF s, ent

(* How many intervals a number of ticks is.                                *)
LEMMA Division ==
  ASSUME NEW a \in Nat
  PROVE  /\ a = PipeInterval * (a \div PipeInterval) + (a % PipeInterval)
         /\ a \div PipeInterval \in Nat
         /\ a % PipeInterval \in Nat /\ a % PipeInterval < PipeInterval
BY WorldAssumption

(* The pipes on the screen have come a whole number of intervals, each its *)
(* own, when another is due: there is room for it.                         *)
LEMMA RoomForOne ==
  ASSUME NEW w, WorldInv(w), w.alive, w.tick % PipeInterval = 0
  PROVE  Len(Spawned(w.ent).alive) <= MaxPipes
<1> DEFINE D == Reach \div PipeInterval
           O == Occupied(w.body)
           n == Len(w.ent.alive)
<1>1. /\ w \in World /\ WorldOK(w) /\ w.bird = w.tick /\ Spaced(w) /\ Apart(w) /\ n <= MaxPipes
      /\ w.ent \in EntitiesOf /\ EntitiesOK(w.ent) /\ n \in Nat /\ w.tick \in Nat
  BY DEF WorldInv, World, WorldOK, EntitiesOf
<1>2. /\ Len(Spawned(w.ent).alive) = IF w.ent.free = <<>> THEN n + 1 ELSE n
      /\ w.ent.free = <<>> => Cardinality(LiveSlots(w.ent)) = n
  BY <1>1, SpawnTakes
<1>3. CASE w.ent.free # <<>>
  BY <1>1, <1>2, <1>3
<1>4. CASE w.ent.free = <<>>
  <2>1. PipeInterval \in Nat /\ PipeInterval >= 1 /\ PipeSpawnX \in Nat /\ Reach \in Nat
        /\ PipeInterval \in Nat \ {0}
    BY WorldAssumption DEF Reach
  <2>2. /\ D \in Nat /\ Reach = PipeInterval * D + (Reach % PipeInterval)
        /\ Reach % PipeInterval < PipeInterval /\ Reach % PipeInterval \in Nat
    <3>1. Reach \in Nat
      BY <2>1
    <3> QED  BY <3>1, Division, Zenon
  <2>3. MaxPipes = D + 1
    BY DEF MaxPipes, Reach
  <2>4. PICK q \in Nat : w.tick = PipeInterval * q
    <3>1. w.tick = PipeInterval * (w.tick \div PipeInterval) + (w.tick % PipeInterval)
          /\ w.tick \div PipeInterval \in Nat
      BY <1>1, Division, Zenon
    <3>2. w.tick = PipeInterval * (w.tick \div PipeInterval)
      <4>1. PipeInterval * (w.tick \div PipeInterval) \in Nat
        BY <2>1, <3>1
      <4> QED  BY <3>1, <4>1
    <3> QED  BY <3>1, <3>2
  <2> HIDE DEF D, O, n
  <2>5. ASSUME NEW s \in O PROVE \E j \in 1..D : Age(w, s) = PipeInterval * j
    <3>1. PICK k \in Nat : Age(w, s) + PipeInterval * k = w.bird
      BY <1>1 DEF Spaced, O
    <3>2. Age(w, s) \in 1..Reach
      BY <1>1 DEF Spaced, O
    <3>3. /\ PipeInterval * q \in Nat /\ PipeInterval * k \in Nat
          /\ Age(w, s) = PipeInterval * q - PipeInterval * k
      BY <1>1, <2>1, <2>4, <3>1, <3>2
    <3>4. Age(w, s) = PipeInterval * (q - k) /\ q - k \in Int
      BY <2>1, <3>3
    <3>5. q - k >= 1
      <4>1. ASSUME q - k <= 0 PROVE FALSE
        <5>1. q <= k
          BY <4>1
        <5>2. PipeInterval * q <= PipeInterval * k
          BY <2>1, <5>1
        <5> QED  BY <3>2, <3>3, <5>2
      <4> QED  BY <4>1, <3>4
    <3>6. q - k <= D
      <4>1. ASSUME q - k >= D + 1 PROVE FALSE
        <5>1. PipeInterval * (q - k) >= PipeInterval * (D + 1)
          BY <2>1, <2>2, <3>4, <4>1
        <5>2. PipeInterval * (D + 1) = PipeInterval * D + PipeInterval
          BY <2>1, <2>2
        <5>3. PipeInterval * D \in Nat /\ PipeInterval * (q - k) \in Int
          BY <2>1, <2>2, <3>4
        <5>4. Age(w, s) <= Reach
          BY <3>2, <2>1
        <5> QED  BY <2>1, <2>2, <3>4, <5>1, <5>2, <5>3, <5>4
      <4> QED  BY <2>2, <3>4, <4>1
    <3> QED  BY <2>2, <3>4, <3>5, <3>6
  <2> DEFINE f == [s \in O |-> CHOOSE j \in 1..D : Age(w, s) = PipeInterval * j]
  <2>6. ASSUME NEW s \in O PROVE f[s] \in 1..D /\ Age(w, s) = PipeInterval * f[s]
    BY <2>5
  <2> HIDE DEF f
  <2>7. f \in [O -> 1..D]
    <3>1. f = [s \in O |-> f[s]]
      BY DEF f
    <3> QED  BY <2>6, <3>1
  <2>8. ASSUME NEW s \in O, NEW t \in O, f[s] = f[t] PROVE s = t
    <3>1. Age(w, s) = Age(w, t)
      BY <2>6, <2>8
    <3>2. Value(w.body, s) \in Int /\ Value(w.body, t) \in Int
      BY <1>1, PipeIs DEF O
    <3>3. Value(w.body, s) = Value(w.body, t)
      BY <2>1, <3>1, <3>2 DEF Age
    <3> QED  BY <1>1, <3>3 DEF Apart, O
  <2>9. Cardinality(1..D) = D /\ IsFiniteSet(1..D)
    BY <2>2, FS_Interval
  <2>10. O = LiveSlots(w.ent) /\ IsFiniteSet(O)
    BY <1>1, LivePipes, LiveFinite DEF O
  <2>11. Cardinality(O) \in Nat
    BY <2>10, FS_CardinalityType
  <2>12. Cardinality(O) <= D
    <3>1. ASSUME D < Cardinality(O) PROVE FALSE
      <4>1. \E s, t \in O : s # t /\ f[s] = f[t]
        BY <2>7, <2>9, <2>10, <3>1, FS_PigeonHole
      <4> QED  BY <2>8, <4>1
    <3> QED  BY <2>2, <2>11, <3>1
  <2> QED  BY <1>1, <1>2, <1>4, <2>2, <2>3, <2>10, <2>12 DEF n
<1> QED  BY <1>3, <1>4

(* What one step does to the pipes: those that were there and stay have    *)
(* moved as far as the bird has flown.                                     *)
THEOREM WorldSteps ==
  ASSUME NEW w, WorldInv(w), NEW dies \in BOOLEAN
  PROVE  LET new == WorldStep(w, dies)
         IN  /\ WorldInv(new)
             /\ IF w.alive THEN new.bird = w.bird + 1 ELSE new.bird = w.bird /\ ~new.alive
             /\ \A s \in Occupied(w.body) \cap Occupied(new.body) :
                  Value(w.body, s) - Value(new.body, s) = new.bird - w.bird
<1> DEFINE up == [w EXCEPT !.bird = w.bird + 1]
           born == SpawnPipes(up)
           flown == AdvancePipes(born)
           lives == ~dies
           new == [flown EXCEPT !.alive = lives, !.tick = flown.tick + 1]
<1>1. /\ w \in World /\ WorldOK(w) /\ w.tick \in Nat /\ w.bird \in Nat /\ w.alive \in BOOLEAN
      /\ w.alive => w.bird = w.tick
      /\ Spaced(w) /\ Apart(w) /\ Len(w.ent.alive) <= MaxPipes
  BY DEF WorldInv, World
<1>2. CASE ~w.alive
  <2> DEFINE still == [w EXCEPT !.tick = w.tick + 1]
  <2>1. WorldStep(w, dies) = still
    BY <1>2 DEF WorldStep
  <2>2. /\ still \in World /\ still.ent = w.ent /\ still.pipe = w.pipe /\ still.body = w.body
        /\ still.bird = w.bird /\ still.alive = w.alive
    BY <1>1 DEF World
  <2> HIDE DEF still
  <2>3. WorldOK(still)
    BY <1>1, <2>2 DEF WorldOK
  <2>5. Spaced(still) /\ Apart(still)
    BY <1>1, <2>2 DEF Spaced, Apart, Age
  <2>6. WorldInv(still)
    BY <1>1, <1>2, <2>2, <2>3, <2>5 DEF WorldInv
  <2>4. \A s \in Occupied(w.body) : Value(w.body, s) \in Int
    BY <1>1, PipeIs
  <2> QED  BY <1>1, <1>2, <2>1, <2>2, <2>4, <2>6
<1>3. CASE w.alive
  <2>1. WorldStep(w, dies) = new
    BY <1>3 DEF WorldStep
  <2>2. /\ up \in World /\ up.ent = w.ent /\ up.pipe = w.pipe /\ up.body = w.body
        /\ up.bird = w.bird + 1 /\ up.alive = w.alive /\ up.tick = w.tick
    BY <1>1 DEF World
  <2> HIDE DEF up
  <2>3. WorldOK(up)
    BY <1>1, <2>2 DEF WorldOK
  <2>4. /\ born \in World /\ WorldOK(born)
        /\ born.alive = w.alive /\ born.tick = w.tick /\ born.bird = w.bird + 1
        /\ Len(born.ent.alive) <= MaxPipes
        /\ \A t \in Occupied(born.body) \ Occupied(w.body) :
             Value(born.body, t) = PipeSpawnX /\ w.tick % PipeInterval = 0
        /\ \A t, u \in Occupied(born.body) \ Occupied(w.body) : t = u
        /\ Occupied(w.body) \subseteq Occupied(born.body)
        /\ \A t \in Occupied(w.body) : Value(born.body, t) = Value(w.body, t)
    <3>1. CASE w.tick % PipeInterval # 0
      <4>1. born = up
        BY <2>2, <3>1 DEF SpawnPipes
      <4> QED  BY <1>1, <2>2, <2>3, <4>1
    <3>2. CASE w.tick % PipeInterval = 0
      <4>1. Len(Spawned(w.ent).alive) <= MaxPipes
        BY <1>3, <3>2, RoomForOne
      <4> DEFINE s == NextSlot(up.ent)
      <4>2. /\ born \in World /\ WorldOK(born)
            /\ born.alive = up.alive /\ born.tick = up.tick /\ born.bird = up.bird
            /\ born.ent = Spawned(up.ent)
            /\ s \notin Occupied(up.body) /\ Occupied(born.body) = Occupied(up.body) \cup {s}
            /\ \A t \in Occupied(born.body) :
                 Value(born.body, t) = IF t = s THEN PipeSpawnX ELSE Value(up.body, t)
        BY <2>2, <2>3, <3>2, <4>1, SpawnKeeps
      <4> HIDE DEF s, born
      <4> QED  BY <2>2, <3>2, <4>1, <4>2
    <3> QED  BY <3>1, <3>2
  <2> HIDE DEF born
  <2>5. /\ flown \in World /\ WorldOK(flown)
        /\ flown.alive = born.alive /\ flown.tick = born.tick /\ flown.bird = born.bird
        /\ Len(flown.ent.alive) = Len(born.ent.alive)
        /\ Occupied(flown.body) = Occupied(born.body) \ Leaving(born)
        /\ \A s \in Occupied(flown.body) : Value(flown.body, s) = Value(born.body, s) - 1
    BY <2>4, AdvanceIs
  <2> HIDE DEF flown
  <2>6. /\ new \in World /\ new.ent = flown.ent /\ new.pipe = flown.pipe /\ new.body = flown.body
        /\ new.bird = w.bird + 1 /\ new.tick = w.tick + 1
    <3> DEFINE n == flown.tick + 1
    <3>1. lives \in BOOLEAN /\ n \in Nat /\ n = w.tick + 1
      BY <1>1, <2>2, <2>4, <2>5
    <3> HIDE DEF lives, n
    <3>2. [flown EXCEPT !.alive = lives, !.tick = n] \in World
      BY <2>5, <3>1 DEF World
    <3>3. flown.bird = w.bird + 1
      BY <2>2, <2>4, <2>5
    <3>4. flown = [ent |-> flown.ent, pipe |-> flown.pipe, body |-> flown.body,
                   alive |-> flown.alive, tick |-> flown.tick, bird |-> flown.bird]
      BY <2>5 DEF World
    <3> QED  BY <3>1, <3>2, <3>3, <3>4 DEF n
  <2> HIDE DEF new
  <2>7. WorldOK(new)
    BY <2>5, <2>6 DEF WorldOK
  <2>8. \A s \in Occupied(w.body) : Value(w.body, s) \in Int
    BY <1>1, PipeIs
  <2>9. \A s \in Occupied(new.body) :
          /\ s \in Occupied(born.body) /\ Value(new.body, s) = Value(born.body, s) - 1
          /\ ~(Value(born.body, s) - 1 + PipeWidth < 0)
    BY <2>5, <2>6 DEF Leaving
  <2>10. Spaced(new)
    <3> SUFFICES ASSUME NEW s \in Occupied(new.body)
                 PROVE  /\ Age(new, s) \in 1..Reach
                        /\ \E k \in Nat : Age(new, s) + PipeInterval * k = new.bird
      BY DEF Spaced
    <3>1. PipeSpawnX \in Nat /\ PipeWidth \in Nat /\ PipeInterval \in Nat \ {0}
      BY WorldAssumption
    <3>2. CASE s \in Occupied(w.body)
      <4>1. Value(new.body, s) = Value(w.body, s) - 1 /\ Value(w.body, s) \in Int
        BY <2>4, <2>8, <2>9, <3>2
      <4>2. Age(w, s) \in 1..Reach
        BY <1>1, <3>2 DEF Spaced
      <4>3. PICK k \in Nat : Age(w, s) + PipeInterval * k = w.bird
        BY <1>1, <3>2 DEF Spaced
      <4>4. Age(new, s) = Age(w, s) + 1 /\ Age(w, s) \in Nat
        BY <3>1, <4>1, <4>2 DEF Age, Reach
      <4>5. Value(new.body, s) + PipeWidth >= 0
        BY <2>4, <2>9, <3>1, <3>2, <4>1
      <4>6. Age(new, s) <= Reach
        BY <3>1, <4>1, <4>5 DEF Age, Reach
      <4>7. PipeInterval * k \in Nat
        BY <3>1
      <4>8. Age(new, s) + PipeInterval * k = new.bird
        <5>1. new.bird = w.bird + 1
          BY <2>6
        <5> DEFINE age == Age(new, s)
        <5> HIDE DEF age
        <5>2. age + PipeInterval * k = w.bird + 1
          <6>1. age = Age(w, s) + 1
            BY <4>4 DEF age
          <6> QED  BY <4>3, <4>4, <4>7, <6>1
        <5> QED  BY <5>1, <5>2 DEF age
      <4>9. Age(new, s) \in 1..Reach
        <5>1. Reach \in Nat
          BY <3>1 DEF Reach
        <5> DEFINE age == Age(new, s)
        <5>2. age \in Nat /\ age >= 1
          BY <4>4
        <5> HIDE DEF age
        <5>3. age <= Reach => age \in 1..Reach
          BY <5>1, <5>2
        <5> QED  BY <4>6, <5>3 DEF age
      <4> QED  BY <4>8, <4>9
    <3>3. CASE s \notin Occupied(w.body)
      <4>1. Value(new.body, s) = PipeSpawnX - 1 /\ w.tick % PipeInterval = 0
        BY <2>4, <2>9, <3>3
      <4>2. Age(new, s) = 1
        BY <3>1, <4>1 DEF Age
      <4>3. PipeSpawnX - 1 + PipeWidth >= 0
        BY <2>4, <2>9, <3>1, <3>3
      <4>4. w.tick = PipeInterval * (w.tick \div PipeInterval) + (w.tick % PipeInterval)
            /\ w.tick \div PipeInterval \in Nat
        BY <1>1, <3>1, Division
      <4>5. PipeInterval * (w.tick \div PipeInterval) \in Nat
        BY <3>1, <4>4
      <4>6. Age(new, s) + PipeInterval * (w.tick \div PipeInterval) = new.bird
        BY <1>1, <1>3, <2>6, <4>1, <4>2, <4>4, <4>5
      <4> QED  BY <3>1, <4>2, <4>3, <4>4, <4>6 DEF Reach
    <3> QED  BY <3>2, <3>3
  <2>11. Apart(new)
    <3> SUFFICES ASSUME NEW s \in Occupied(new.body), NEW t \in Occupied(new.body),
                        Value(new.body, s) = Value(new.body, t)
                 PROVE  s = t
      BY DEF Apart
    <3>1. ASSUME NEW r \in Occupied(w.body)
          PROVE  Value(w.body, r) # PipeSpawnX
      <4>1. Age(w, r) \in 1..Reach /\ Value(w.body, r) \in Int /\ PipeSpawnX \in Nat
        BY <1>1, <2>8, WorldAssumption DEF Spaced
      <4> QED  BY <4>1 DEF Age
    <3>2. ASSUME NEW r \in Occupied(born.body) PROVE Value(born.body, r) \in Int
      BY <2>4, PipeIs
    <3>3. Value(born.body, s) = Value(born.body, t)
      BY <2>9, <3>2
    <3> QED  BY <1>1, <2>4, <2>9, <3>1, <3>3 DEF Apart
  <2>12. \A s \in Occupied(w.body) \cap Occupied(new.body) :
           Value(w.body, s) - Value(new.body, s) = new.bird - w.bird
    BY <1>1, <2>4, <2>6, <2>8, <2>9
  <2>13. new.alive => new.bird = new.tick
    BY <1>1, <1>3, <2>6
  <2>14. Len(new.ent.alive) <= MaxPipes
    BY <2>4, <2>5, <2>6
  <2>15. WorldInv(new)
    BY <2>6, <2>7, <2>10, <2>11, <2>13, <2>14 DEF WorldInv
  <2> QED  BY <1>3, <2>1, <2>6, <2>12, <2>15
<1> QED  BY <1>2, <1>3

----------------------------------------------------------------------------
(* Snapshots: the folds as sequences of steps. *)

Fills(g, n, buffer, puts) ==
  g = [m \in 0..n |-> IF m = 0 THEN buffer ELSE Put(g[m - 1], puts[m])]

LEMMA FillExists ==
  ASSUME NEW buffer, NEW puts
  PROVE  \A n \in Nat : \E g : Fills(g, n, buffer, puts)
<1> DEFINE S == {n \in Nat : \E g : Fills(g, n, buffer, puts)}
<1>1. 0 \in S
  <2>1. Fills([m \in 0..0 |-> buffer], 0, buffer, puts)
    BY DEF Fills
  <2> QED  BY <2>1
<1>2. ASSUME NEW n \in Nat, n \in S
      PROVE  n + 1 \in S
  <2>1. PICK g : Fills(g, n, buffer, puts)
    BY <1>2
  <2> DEFINE h == [m \in 0..(n + 1) |-> IF m = n + 1 THEN Put(g[n], puts[n + 1]) ELSE g[m]]
             k == [m \in 0..(n + 1) |-> IF m = 0 THEN buffer ELSE Put(h[m - 1], puts[m])]
  <2>2. ASSUME NEW m \in 0..(n + 1)
        PROVE  h[m] = k[m]
    <3>1. CASE m = n + 1
      <4>1. m # 0 /\ m - 1 = n /\ n \in 0..(n + 1) /\ n # n + 1
        BY <3>1
      <4> QED  BY <3>1, <4>1
    <3>2. CASE m # n + 1
      <4>1. m \in 0..n
        BY <3>2
      <4>2. g[m] = IF m = 0 THEN buffer ELSE Put(g[m - 1], puts[m])
        BY <2>1, <4>1 DEF Fills
      <4>3. m # 0 => m - 1 \in 0..(n + 1) /\ m - 1 # n + 1
        BY <4>1
      <4> QED  BY <3>2, <4>2, <4>3
    <3> QED  BY <3>1, <3>2
  <2>3. h = k
    BY <2>2
  <2> HIDE DEF h
  <2>4. Fills(h, n + 1, buffer, puts)
    BY <2>3 DEF Fills
  <2> QED  BY <2>4
<1> HIDE DEF S
<1>3. Nat \subseteq S
  BY <1>1, <1>2, Induction
<1> QED  BY <1>3 DEF S

(* The buffers a capture goes through, put by put.                         *)
LEMMA FillIs ==
  ASSUME NEW buffer, NEW puts, Len(puts) \in Nat
  PROVE  \E g : /\ g[0] = buffer
                /\ \A n \in 0..(Len(puts) - 1) : g[n + 1] = Put(g[n], puts[n + 1])
                /\ Filled(buffer, puts) = g[Len(puts)]
<1> DEFINE g == CHOOSE h : Fills(h, Len(puts), buffer, puts)
<1>1. Filled(buffer, puts) = g[Len(puts)]
  BY Zenon DEF Filled, Fills
<1>2. Fills(g, Len(puts), buffer, puts)
  <2>1. \E h : Fills(h, Len(puts), buffer, puts)
    BY FillExists
  <2> QED  BY <2>1, Zenon
<1> HIDE DEF g
<1>3. g[0] = buffer
  BY <1>2 DEF Fills
<1>4. ASSUME NEW n \in 0..(Len(puts) - 1)
      PROVE  g[n + 1] = Put(g[n], puts[n + 1])
  <2>1. n + 1 \in 0..Len(puts) /\ n + 1 # 0 /\ n + 1 - 1 = n
    OBVIOUS
  <2> QED  BY <1>2, <2>1 DEF Fills
<1> QED  BY <1>1, <1>3, <1>4

(* The departed slots so far, after the n-th of the older capture. *)
GoneAfter(pair, list, n) ==
  IF Gone(pair, pair.previous.order[n]) THEN Append(list, pair.previous.order[n]) ELSE list

Leaves(g, n, pair) ==
  g = [m \in 0..n |-> IF m = 0 THEN <<>> ELSE GoneAfter(pair, g[m - 1], m)]

LEMMA DepartExists ==
  ASSUME NEW pair
  PROVE  \A n \in Nat : \E g : Leaves(g, n, pair)
<1> DEFINE S == {n \in Nat : \E g : Leaves(g, n, pair)}
<1>1. 0 \in S
  <2>1. Leaves([m \in 0..0 |-> <<>>], 0, pair)
    BY DEF Leaves
  <2> QED  BY <2>1
<1>2. ASSUME NEW n \in Nat, n \in S
      PROVE  n + 1 \in S
  <2>1. PICK g : Leaves(g, n, pair)
    BY <1>2
  <2> DEFINE h == [m \in 0..(n + 1) |-> IF m = n + 1 THEN GoneAfter(pair, g[n], n + 1) ELSE g[m]]
             k == [m \in 0..(n + 1) |-> IF m = 0 THEN <<>> ELSE GoneAfter(pair, h[m - 1], m)]
  <2>2. ASSUME NEW m \in 0..(n + 1)
        PROVE  h[m] = k[m]
    <3>1. CASE m = n + 1
      <4>1. m # 0 /\ m - 1 = n /\ n \in 0..(n + 1) /\ n # n + 1
        BY <3>1
      <4> QED  BY <3>1, <4>1
    <3>2. CASE m # n + 1
      <4>1. m \in 0..n
        BY <3>2
      <4>2. g[m] = IF m = 0 THEN <<>> ELSE GoneAfter(pair, g[m - 1], m)
        BY <2>1, <4>1 DEF Leaves
      <4>3. m # 0 => m - 1 \in 0..(n + 1) /\ m - 1 # n + 1
        BY <4>1
      <4> QED  BY <3>2, <4>2, <4>3
    <3> QED  BY <3>1, <3>2
  <2>3. h = k
    BY <2>2
  <2> HIDE DEF h
  <2>4. Leaves(h, n + 1, pair)
    BY <2>3 DEF Leaves
  <2> QED  BY <2>4
<1> HIDE DEF S
<1>3. Nat \subseteq S
  BY <1>1, <1>2, Induction
<1> QED  BY <1>3 DEF S

(* The departed slots, one by one.                                         *)
LEMMA DepartIs ==
  ASSUME NEW pair, Len(pair.previous.order) \in Nat
  PROVE  \E g : /\ g[0] = <<>>
                /\ \A n \in 0..(Len(pair.previous.order) - 1) : g[n + 1] = GoneAfter(pair, g[n], n + 1)
                /\ Departed(pair) = g[Len(pair.previous.order)]
<1> DEFINE g == CHOOSE h : Leaves(h, Len(pair.previous.order), pair)
<1>1. Departed(pair) = g[Len(pair.previous.order)]
  BY Zenon DEF Departed, Leaves, GoneAfter
<1>2. Leaves(g, Len(pair.previous.order), pair)
  <2>1. \E h : Leaves(h, Len(pair.previous.order), pair)
    BY DepartExists
  <2> QED  BY <2>1, Zenon
<1> HIDE DEF g
<1>3. g[0] = <<>>
  BY <1>2 DEF Leaves
<1>4. ASSUME NEW n \in 0..(Len(pair.previous.order) - 1)
      PROVE  g[n + 1] = GoneAfter(pair, g[n], n + 1)
  <2>1. n + 1 \in 0..Len(pair.previous.order) /\ n + 1 # 0 /\ n + 1 - 1 = n
    OBVIOUS
  <2> QED  BY <1>2, <2>1 DEF Leaves
<1> QED  BY <1>1, <1>3, <1>4

----------------------------------------------------------------------------
(* Snapshots: one capture. *)

Entries == [present : BOOLEAN, generation : Nat, value : Int]

Puts == [slot : SnapshotSlots, generation : Nat, value : Int]

Buffer == [entries : [SnapshotSlots -> Entries], order : Seq(SnapshotSlots), refused : {FALSE}]

(* A capture that refused nothing: what it marks present is what it wrote, *)
(* each slot once.                                                         *)
BufferOK(b) ==
  /\ b \in Buffer
  /\ \A s \in SnapshotSlots : b.entries[s].present <=> \E i \in DOMAIN b.order : b.order[i] = s
  /\ \A i, j \in DOMAIN b.order : b.order[i] = b.order[j] => i = j

Written(put) == [present |-> TRUE, generation |-> put.generation, value |-> put.value]

(* The capture holds the first n puts and no other. *)
ShowsFirst(b, puts, n) ==
  /\ BufferOK(b) /\ Len(b.order) = n
  /\ \A i \in 1..n : b.order[i] = puts[i].slot /\ b.entries[puts[i].slot] = Written(puts[i])

Shows(b, puts) == ShowsFirst(b, puts, Len(puts))

OneEach(puts) == \A i, j \in 1..Len(puts) : puts[i].slot = puts[j].slot => i = j

(* A put of an unwritten slot of the budget is not refused. *)
LEMMA PutIs ==
  ASSUME NEW b, BufferOK(b), NEW put \in Puts, ~b.entries[put.slot].present
  PROVE  /\ BufferOK(Put(b, put))
         /\ Put(b, put).order = Append(b.order, put.slot)
         /\ Put(b, put).entries = [b.entries EXCEPT ![put.slot] = Written(put)]
<1> DEFINE s == put.slot
           new == [b EXCEPT !.entries[s] = Written(put), !.order = Append(b.order, s)]
           n == Len(b.order)
<1>1. /\ b \in Buffer /\ b.order \in Seq(SnapshotSlots) /\ n \in Nat /\ DOMAIN b.order = 1..n
      /\ b.entries \in [SnapshotSlots -> Entries] /\ s \in SnapshotSlots
      /\ Written(put) \in Entries /\ Written(put).present
  <2>1. b \in Buffer
    BY DEF BufferOK
  <2>2. /\ b.order \in Seq(SnapshotSlots) /\ b.entries \in [SnapshotSlots -> Entries]
    BY <2>1 DEF Buffer
  <2>3. s \in SnapshotSlots /\ put.generation \in Nat /\ put.value \in Int
    BY DEF Puts
  <2>4. Written(put) \in Entries /\ Written(put).present
    BY <2>3 DEF Written, Entries
  <2> QED  BY <2>1, <2>2, <2>3, <2>4
<1>2. Put(b, put) = new
  BY <1>1 DEF Put, Written
<1>3. /\ new.entries = [b.entries EXCEPT ![s] = Written(put)]
      /\ new.order = Append(b.order, s) /\ new.refused = b.refused
  BY <1>1 DEF Buffer
<1>4. new \in Buffer
  BY <1>1, AppendIs DEF Buffer
<1>5. /\ DOMAIN new.order = 1..(n + 1) /\ new.order[n + 1] = s
      /\ \A i \in 1..n : new.order[i] = b.order[i]
  BY <1>1, <1>3, AppendIs
<1> HIDE DEF new, s
<1>6. \A i \in 1..n : b.order[i] # s
  BY <1>1 DEF BufferOK, s
<1>7. ASSUME NEW t \in SnapshotSlots
      PROVE  new.entries[t].present <=> \E i \in DOMAIN new.order : new.order[i] = t
  <2>1. CASE t = s
    BY <1>1, <1>3, <1>5, <2>1
  <2>2. CASE t # s
    <3>1. new.entries[t].present <=> \E i \in 1..n : b.order[i] = t
      BY <1>1, <1>3, <2>2 DEF BufferOK
    <3>2. (\E i \in 1..n : b.order[i] = t) <=> \E i \in 1..(n + 1) : new.order[i] = t
      BY <1>1, <1>5, <2>2
    <3> QED  BY <1>5, <3>1, <3>2
  <2> QED  BY <2>1, <2>2
<1>8. ASSUME NEW i \in DOMAIN new.order, NEW j \in DOMAIN new.order,
             new.order[i] = new.order[j]
      PROVE  i = j
  <2>1. i \in 1..n \/ i = n + 1
    BY <1>1, <1>5
  <2>2. j \in 1..n \/ j = n + 1
    BY <1>1, <1>5
  <2> QED  BY <1>1, <1>5, <1>6, <1>8, <2>1, <2>2 DEF BufferOK
<1>9. BufferOK(new)
  BY <1>4, <1>7, <1>8 DEF BufferOK
<1> QED  BY <1>2, <1>3, <1>9 DEF s

(* A capture of distinct slots holds exactly what was put. *)
LEMMA FilledIs ==
  ASSUME NEW b, BufferOK(b), b.order = <<>>, NEW puts \in Seq(Puts), OneEach(puts)
  PROVE  Shows(Filled(b, puts), puts)
<1> DEFINE n == Len(puts)
<1>1. n \in Nat /\ \A i \in 1..n : puts[i] \in Puts
  OBVIOUS
<1>2. PICK g : /\ g[0] = b
               /\ \A k \in 0..(n - 1) : g[k + 1] = Put(g[k], puts[k + 1])
               /\ Filled(b, puts) = g[n]
  BY <1>1, FillIs
<1> DEFINE S == {k \in Nat : k <= n => ShowsFirst(g[k], puts, k)}
<1>3. 0 \in S
  <2>1. ShowsFirst(b, puts, 0)
    BY DEF ShowsFirst
  <2> QED  BY <1>2, <2>1
<1>4. ASSUME NEW k \in Nat, k \in S
      PROVE  k + 1 \in S
  <2> SUFFICES ASSUME k + 1 <= n PROVE ShowsFirst(g[k + 1], puts, k + 1)
    OBVIOUS
  <2> DEFINE c == g[k]
             put == puts[k + 1]
             new == Put(c, put)
  <2>1. ShowsFirst(c, puts, k) /\ k \in 0..(n - 1) /\ k + 1 \in 1..n
    BY <1>1, <1>4
  <2>2. g[k + 1] = new /\ put \in Puts /\ put.slot \in SnapshotSlots
    BY <1>1, <1>2, <2>1 DEF Puts
  <2>3. /\ BufferOK(c) /\ c.order \in Seq(SnapshotSlots) /\ DOMAIN c.order = 1..k /\ Len(c.order) = k
        /\ c.entries \in [SnapshotSlots -> Entries]
        /\ \A i \in 1..k : c.order[i] = puts[i].slot /\ c.entries[puts[i].slot] = Written(puts[i])
    <3>1. BufferOK(c) /\ Len(c.order) = k /\ c \in Buffer
      BY <2>1 DEF ShowsFirst, BufferOK
    <3>2. c.order \in Seq(SnapshotSlots) /\ c.entries \in [SnapshotSlots -> Entries]
      BY <3>1 DEF Buffer
    <3>3. \A i \in 1..k : c.order[i] = puts[i].slot /\ c.entries[puts[i].slot] = Written(puts[i])
      BY <2>1 DEF ShowsFirst
    <3> QED  BY <3>1, <3>2, <3>3
  <2>4. \A i \in 1..k : puts[i].slot # put.slot /\ puts[i].slot \in SnapshotSlots
    <3> SUFFICES ASSUME NEW i \in 1..k
                 PROVE  puts[i].slot # put.slot /\ puts[i].slot \in SnapshotSlots
      OBVIOUS
    <3>1. i \in 1..n /\ k + 1 \in 1..n /\ i # k + 1
      BY <1>1, <2>1
    <3>2. puts[i].slot # put.slot
      BY <3>1 DEF OneEach
    <3>3. puts[i] \in Puts
      BY <1>1, <3>1
    <3> QED  BY <3>2, <3>3 DEF Puts
  <2> HIDE DEF c, put
  <2>5. ~c.entries[put.slot].present
    BY <2>2, <2>3, <2>4 DEF BufferOK
  <2>6. /\ BufferOK(new) /\ new.order = Append(c.order, put.slot)
        /\ new.entries = [c.entries EXCEPT ![put.slot] = Written(put)]
    BY <2>2, <2>3, <2>5, PutIs
  <2> HIDE DEF new
  <2>7. /\ Len(new.order) = k + 1 /\ new.order[k + 1] = put.slot
        /\ \A i \in 1..k : new.order[i] = c.order[i]
    BY <2>2, <2>3, <2>6, AppendIs
  <2>8. ASSUME NEW i \in 1..(k + 1)
        PROVE  new.order[i] = puts[i].slot /\ new.entries[puts[i].slot] = Written(puts[i])
    <3>1. CASE i = k + 1
      BY <2>2, <2>3, <2>6, <2>7, <3>1 DEF put
    <3>2. CASE i # k + 1
      <4>1. i \in 1..k
        BY <3>2
      <4> QED  BY <2>3, <2>4, <2>6, <2>7, <4>1
    <3> QED  BY <3>1, <3>2
  <2> QED  BY <2>2, <2>6, <2>7, <2>8 DEF ShowsFirst
<1> HIDE DEF S
<1>5. n \in S
  BY <1>1, <1>3, <1>4, Induction
<1> QED  BY <1>1, <1>2, <1>5 DEF S, Shows

(* The older buffer, opened again, is an empty capture. *)
LEMMA OpenedIs ==
  ASSUME NEW pair, BufferOK(pair.previous)
  PROVE  LET new == Opened(pair)
         IN  /\ new = [previous |-> pair.current, current |-> new.current]
             /\ BufferOK(new.current) /\ new.current.order = <<>>
<1> DEFINE b == pair.previous
           written == {b.order[i] : i \in DOMAIN b.order}
           reset == [s \in DOMAIN b.entries |->
                       IF s \in written THEN [b.entries[s] EXCEPT !.present = FALSE]
                       ELSE b.entries[s]]
           empty == [b EXCEPT !.entries = reset, !.order = <<>>]
<1>1. Opened(pair) = [previous |-> pair.current, current |-> empty]
  BY DEF Opened
<1>2. b \in Buffer /\ b.entries \in [SnapshotSlots -> Entries]
  BY DEF BufferOK, Buffer
<1> HIDE DEF b
<1>3. ASSUME NEW s \in SnapshotSlots
      PROVE  reset[s] \in Entries /\ ~reset[s].present
  <2>1. b.entries[s].present <=> s \in written
    BY <1>2 DEF BufferOK, b
  <2>2. b.entries[s] \in Entries /\ s \in DOMAIN b.entries
    BY <1>2
  <2> HIDE DEF written
  <2> QED  BY <2>1, <2>2 DEF Entries
<1>4. reset \in [SnapshotSlots -> Entries]
  <2>1. reset = [s \in SnapshotSlots |-> reset[s]]
    BY <1>2
  <2> HIDE DEF reset
  <2> QED  BY <1>3, <2>1
<1> HIDE DEF reset
<1>5. empty \in Buffer /\ empty.entries = reset /\ empty.order = <<>>
  <2>1. <<>> \in Seq(SnapshotSlots)
    OBVIOUS
  <2> QED  BY <1>2, <1>4, <2>1 DEF Buffer
<1> HIDE DEF empty
<1>6. BufferOK(empty)
  BY <1>3, <1>5 DEF BufferOK
<1> QED  BY <1>1, <1>5, <1>6

(* After a capture the newer buffer holds what was put, the older one what *)
(* the newer held before.                                                  *)
LEMMA CapturedIs ==
  ASSUME NEW pair, BufferOK(pair.previous), NEW puts \in Seq(Puts), OneEach(puts)
  PROVE  LET new == Captured(pair, puts)
         IN  /\ new = [previous |-> pair.current, current |-> new.current]
             /\ Shows(new.current, puts)
<1> DEFINE opened == Opened(pair)
<1>1. /\ opened = [previous |-> pair.current, current |-> opened.current]
      /\ BufferOK(opened.current) /\ opened.current.order = <<>>
  BY OpenedIs
<1>2. Captured(pair, puts) = [opened EXCEPT !.current = Filled(opened.current, puts)]
  BY DEF Captured
<1> HIDE DEF opened
<1>3. Shows(Filled(opened.current, puts), puts)
  BY <1>1, FilledIs
<1> QED  BY <1>1, <1>2, <1>3

(* The slots that departed, each once. *)
LEMMA DepartedIs ==
  ASSUME NEW pair, BufferOK(pair.previous)
  PROVE  LET out == Departed(pair)
         IN  /\ out \in Seq(SnapshotSlots)
             /\ \A i \in DOMAIN out : Gone(pair, out[i])
             /\ \A i, j \in DOMAIN out : out[i] = out[j] => i = j
<1> DEFINE o == pair.previous.order
           n == Len(o)
<1>1. o \in Seq(SnapshotSlots) /\ n \in Nat /\ DOMAIN o = 1..n
  <2>1. pair.previous \in Buffer
    BY DEF BufferOK
  <2>2. o \in Seq(SnapshotSlots)
    BY <2>1 DEF Buffer
  <2> QED  BY <2>2
<1>2. PICK g : /\ g[0] = <<>>
               /\ \A k \in 0..(n - 1) : g[k + 1] = GoneAfter(pair, g[k], k + 1)
               /\ Departed(pair) = g[n]
  BY <1>1, DepartIs
<1> DEFINE Of(list, k) ==
             /\ list \in Seq(SnapshotSlots)
             /\ \A i \in DOMAIN list : Gone(pair, list[i]) /\ \E h \in 1..k : list[i] = o[h]
             /\ \A i, j \in DOMAIN list : list[i] = list[j] => i = j
           S == {k \in Nat : k <= n => Of(g[k], k)}
<1>3. 0 \in S
  <2>1. <<>> \in Seq(SnapshotSlots) /\ DOMAIN <<>> = {}
    OBVIOUS
  <2>2. Of(<<>>, 0)
    BY <2>1
  <2> QED  BY <1>2, <2>2
<1>4. ASSUME NEW k \in Nat, k \in S
      PROVE  k + 1 \in S
  <2> SUFFICES ASSUME k + 1 <= n PROVE Of(g[k + 1], k + 1)
    OBVIOUS
  <2> DEFINE list == g[k]
             s == o[k + 1]
             m == Len(list)
             longer == Append(list, s)
  <2>1. Of(list, k) /\ k \in 0..(n - 1) /\ k + 1 \in 1..n /\ s \in SnapshotSlots
    BY <1>1, <1>4
  <2>2. g[k + 1] = IF Gone(pair, s) THEN longer ELSE list
    BY <1>2, <2>1 DEF GoneAfter
  <2>3. CASE ~Gone(pair, s)
    <3>1. 1..k \subseteq 1..(k + 1)
      OBVIOUS
    <3>2. g[k + 1] = list
      BY <2>2, <2>3
    <3> HIDE DEF list, s, o
    <3> QED  BY <2>1, <3>1, <3>2
  <2>4. CASE Gone(pair, s)
    <3>1. \A h \in 1..k : o[h] # s
      <4> SUFFICES ASSUME NEW h \in 1..k, o[h] = s PROVE FALSE
        OBVIOUS
      <4>1. h \in 1..n /\ k + 1 \in 1..n /\ h # k + 1
        BY <1>1, <2>1
      <4> QED  BY <1>1, <4>1 DEF BufferOK
    <3>2. m \in Nat /\ list \in Seq(SnapshotSlots) /\ DOMAIN list = 1..m
      BY <2>1
    <3> HIDE DEF list, s, o
    <3>3. /\ longer \in Seq(SnapshotSlots) /\ DOMAIN longer = 1..(m + 1) /\ longer[m + 1] = s
          /\ \A i \in 1..m : longer[i] = list[i]
      BY <2>1, <3>2, AppendIs
    <3> HIDE DEF longer
    <3>4. \A i \in 1..m : list[i] # s
      BY <2>1, <3>1, <3>2
    <3>5. \A i \in 1..(m + 1) : Gone(pair, longer[i]) /\ \E h \in 1..(k + 1) : longer[i] = o[h]
      <4> SUFFICES ASSUME NEW i \in 1..(m + 1)
                   PROVE  Gone(pair, longer[i]) /\ \E h \in 1..(k + 1) : longer[i] = o[h]
        OBVIOUS
      <4>1. CASE i = m + 1
        <5>1. k + 1 \in 1..(k + 1) /\ longer[i] = o[k + 1]
          BY <3>3, <4>1 DEF s
        <5> QED  BY <2>4, <3>3, <4>1, <5>1
      <4>2. CASE i # m + 1
        <5>1. i \in 1..m
          BY <3>2, <4>2
        <5>2. \A h \in 1..k : h \in 1..(k + 1)
          OBVIOUS
        <5> QED  BY <2>1, <3>2, <3>3, <5>1, <5>2
      <4> QED  BY <4>1, <4>2
    <3>6. ASSUME NEW i \in 1..(m + 1), NEW j \in 1..(m + 1), longer[i] = longer[j]
          PROVE  i = j
      <4>1. i \in 1..m \/ i = m + 1
        BY <3>2
      <4>2. j \in 1..m \/ j = m + 1
        BY <3>2
      <4> QED  BY <2>1, <3>2, <3>3, <3>4, <3>6, <4>1, <4>2
    <3>7. g[k + 1] = longer
      BY <2>2, <2>4
    <3> QED  BY <3>3, <3>5, <3>6, <3>7
  <2> QED  BY <2>3, <2>4
<1> HIDE DEF S
<1>5. n \in S
  BY <1>1, <1>3, <1>4, Induction
<1> QED  BY <1>1, <1>2, <1>5 DEF S

----------------------------------------------------------------------------
(* The picture *)

(* What a world hands to a capture: each pipe once, in its entity's slot,  *)
(* which the budget always covers.                                         *)
LEMMA PipesAre ==
  ASSUME NEW w, WorldInv(w)
  PROVE  LET puts == PipesOf(w)
         IN  /\ puts \in Seq(Puts) /\ OneEach(puts)
             /\ \A i \in 1..Len(puts) : /\ puts[i].slot \in Occupied(w.body)
                                        /\ puts[i].value = Value(w.body, puts[i].slot)
<1> DEFINE O == Occupied(w.body)
           n == Cardinality(O)
           slots == Ascending(O)
           one(i) == [slot       |-> slots[i],
                      generation |-> IF Holds(w.pipe, slots[i])
                                     THEN Value(w.pipe, slots[i]).generation ELSE 0,
                      value      |-> Value(w.body, slots[i])]
<1>1. w \in World /\ WorldOK(w) /\ Len(w.ent.alive) <= MaxPipes
  BY DEF WorldInv
<1>2. w.ent \in EntitiesOf /\ EntitiesOK(w.ent)
  BY <1>1 DEF World, WorldOK
<1>3. O = LiveSlots(w.ent) /\ IsFiniteSet(O)
  BY <1>1, <1>2, LivePipes, LiveFinite
<1>4. O \subseteq 1..MaxPipes /\ O \subseteq SnapshotSlots /\ O \subseteq Nat
  <2>1. Len(w.ent.alive) \in Nat /\ Used(w.ent) = 1..Len(w.ent.alive)
    BY <1>2 DEF EntitiesOf, Used
  <2>2. MaxPipes \in Nat
    <3>1. Reach \in Nat /\ PipeInterval \in Nat \ {0} /\ MaxPipes = (Reach \div PipeInterval) + 1
      BY WorldAssumption DEF Reach, MaxPipes
    <3>2. Reach \div PipeInterval \in Nat
      BY <3>1, Division, Zenon
    <3> QED  BY <3>1, <3>2
  <2>3. O \subseteq 1..MaxPipes
    BY <1>1, <1>3, <2>1, <2>2 DEF LiveSlots
  <2> QED  BY <2>2, <2>3, GlideAssumption
<1>5. Lists(slots, n, O) /\ n \in Nat
  BY <1>3, <1>4, AscendingIs
<1>6. slots \in [1..n -> O] /\ \A i, j \in 1..n : i < j => slots[i] < slots[j]
  BY <1>5 DEF Lists
<1>7. PipesOf(w) = [i \in 1..n |-> one(i)]
  <2>1. DOMAIN slots = 1..n
    BY <1>6
  <2> QED  BY <2>1 DEF PipesOf
<1> HIDE DEF slots, n
<1>8. ASSUME NEW i \in 1..n
      PROVE  one(i) \in Puts /\ slots[i] \in O
  <2>1. slots[i] \in O /\ slots[i] \in SnapshotSlots
    BY <1>4, <1>6
  <2>2. Value(w.body, slots[i]) \in Int /\ Value(w.pipe, slots[i]) \in Handles
    BY <1>1, <2>1, PipeIs
  <2>3. Value(w.pipe, slots[i]).generation \in Nat
    BY <2>2 DEF Handles
  <2> QED  BY <2>1, <2>2, <2>3 DEF Puts
<1>9. PipesOf(w) \in [1..n -> Puts]
  BY <1>7, <1>8
<1>10. PipesOf(w) \in Seq(Puts) /\ Len(PipesOf(w)) = n
  BY <1>5, <1>9
<1>11. ASSUME NEW i \in 1..n, NEW j \in 1..n, slots[i] = slots[j]
       PROVE  i = j
  <2>1. slots[i] \in Nat /\ slots[j] \in Nat
    BY <1>4, <1>6
  <2>2. ~(i < j) /\ ~(j < i)
    BY <1>6, <1>11, <2>1
  <2> QED  BY <1>5, <2>2
<1>12. \A i \in 1..n : /\ PipesOf(w)[i].slot = slots[i]
                        /\ PipesOf(w)[i].value = Value(w.body, slots[i])
  BY <1>7
<1>13. OneEach(PipesOf(w))
  BY <1>10, <1>11, <1>12 DEF OneEach
<1> QED  BY <1>8, <1>10, <1>12, <1>13

(* Both captures are sound; until a step is taken both are empty; then the *)
(* newer one shows the world, and a slot that both show is one pipe, as    *)
(* far apart in the two as the bird is.                                    *)
PictureInv(p, w) ==
  /\ p = [pipes |-> [previous |-> p.pipes.previous, current |-> p.pipes.current],
          bird |-> w.bird, before |-> p.before]
  /\ BufferOK(p.pipes.previous) /\ BufferOK(p.pipes.current)
  /\ IF p.before = NoTick
     THEN p.pipes.previous.order = <<>> /\ p.pipes.current.order = <<>>
     ELSE /\ p.before \in Nat
          /\ w.bird - p.before = 1 \/ (w.bird - p.before = 0 /\ ~w.alive)
          /\ Shows(p.pipes.current, PipesOf(w))
          /\ \A s \in SnapshotSlots :
               (Old(p.pipes, s).present /\ Now(p.pipes, s).present) =>
                 Old(p.pipes, s).value - Now(p.pipes, s).value = w.bird - p.before

(* What a capture that shows a world holds in a slot. *)
LEMMA ShowsBody ==
  ASSUME NEW w, WorldInv(w), NEW b, Shows(b, PipesOf(w)),
         NEW s \in SnapshotSlots, b.entries[s].present
  PROVE  s \in Occupied(w.body) /\ b.entries[s].value = Value(w.body, s)
<1> DEFINE puts == PipesOf(w)
<1>1. PICK i \in DOMAIN b.order : b.order[i] = s
  BY DEF Shows, ShowsFirst, BufferOK
<1>2. DOMAIN b.order = 1..Len(puts)
  BY DEF Shows, ShowsFirst, BufferOK, Buffer
<1>3. puts[i].slot = s /\ b.entries[s] = Written(puts[i])
  BY <1>1, <1>2 DEF Shows, ShowsFirst
<1>4. puts[i].slot \in Occupied(w.body) /\ puts[i].value = Value(w.body, puts[i].slot)
  BY <1>1, <1>2, PipesAre
<1> HIDE DEF puts
<1> QED  BY <1>3, <1>4 DEF Written

(* A capture per step keeps the picture. *)
LEMMA PictureStep ==
  ASSUME NEW w, WorldInv(w), NEW p, PictureInv(p, w), NEW dies \in BOOLEAN
  PROVE  PictureInv(Captures(p, WorldStep(w, dies)), WorldStep(w, dies))
<1> DEFINE new == WorldStep(w, dies)
           puts == PipesOf(new)
           q == Captures(p, new)
<1>1. /\ WorldInv(new)
      /\ IF w.alive THEN new.bird = w.bird + 1 ELSE new.bird = w.bird /\ ~new.alive
      /\ \A s \in Occupied(w.body) \cap Occupied(new.body) :
           Value(w.body, s) - Value(new.body, s) = new.bird - w.bird
  BY WorldSteps
<1> HIDE DEF new
<1>2. w.bird \in Nat /\ new.bird \in Nat /\ w.alive \in BOOLEAN /\ new.alive \in BOOLEAN
  BY <1>1 DEF WorldInv, World
<1>3. BufferOK(p.pipes.previous) /\ BufferOK(p.pipes.current) /\ p.bird = w.bird
  BY DEF PictureInv
<1>4. puts \in Seq(Puts) /\ OneEach(puts)
  BY <1>1, PipesAre
<1> HIDE DEF puts
<1>5. q = [pipes |-> Captured(p.pipes, puts), bird |-> new.bird, before |-> w.bird]
  BY <1>3 DEF Captures, puts
<1> DEFINE pair == Captured(p.pipes, puts)
<1>6. /\ pair = [previous |-> p.pipes.current, current |-> pair.current]
      /\ Shows(pair.current, puts)
  BY <1>3, <1>4, CapturedIs
<1> HIDE DEF pair, q
<1>7. /\ q.pipes = pair /\ q.bird = new.bird /\ q.before = w.bird /\ w.bird # NoTick
      /\ pair.previous = p.pipes.current
  BY <1>2, <1>5, <1>6 DEF pair, NoTick
<1>8. new.bird - w.bird = 1 \/ (new.bird - w.bird = 0 /\ ~new.alive)
  BY <1>1, <1>2
<1>9. ASSUME NEW s \in SnapshotSlots, Old(pair, s).present, Now(pair, s).present
      PROVE  Old(pair, s).value - Now(pair, s).value = new.bird - w.bird
  <2>1. s \in Occupied(new.body) /\ Now(pair, s).value = Value(new.body, s)
    BY <1>1, <1>6, <1>9, ShowsBody DEF Now, puts
  <2>2. p.before # NoTick
    <3>1. ASSUME p.pipes.current.order = <<>> PROVE FALSE
      BY <1>3, <1>7, <1>9, <3>1 DEF BufferOK, Old
    <3> QED  BY <3>1 DEF PictureInv
  <2>3. Shows(p.pipes.current, PipesOf(w))
    BY <2>2 DEF PictureInv
  <2>4. s \in Occupied(w.body) /\ Old(pair, s).value = Value(w.body, s)
    BY <1>7, <1>9, <2>3, ShowsBody DEF Old
  <2> QED  BY <1>1, <2>1, <2>4
<1>10. BufferOK(pair.current)
  BY <1>6 DEF Shows, ShowsFirst
<1>11. q = [pipes |-> [previous |-> q.pipes.previous, current |-> q.pipes.current],
            bird |-> new.bird, before |-> q.before]
  BY <1>5, <1>6, <1>7 DEF pair
<1>12. PictureInv(q, new)
  BY <1>2, <1>3, <1>6, <1>7, <1>8, <1>9, <1>10, <1>11 DEF PictureInv, puts
<1> QED  BY <1>12 DEF q, new

(* The n-th step of a plan in which the bird dies in step fatal. *)
StepAt(s, n, fatal) == Stepped(s, n = fatal)

Runs(g, n, s, fatal) ==
  g = [m \in 0..n |-> IF m = 0 THEN s ELSE StepAt(g[m - 1], m, fatal)]

LEMMA RunExists ==
  ASSUME NEW s, NEW fatal, NEW steps
  PROVE  \A n \in Nat : \E g : Runs(g, n, s, fatal)
<1> DEFINE S == {n \in Nat : \E g : Runs(g, n, s, fatal)}
<1>1. 0 \in S
  <2>1. Runs([m \in 0..0 |-> s], 0, s, fatal)
    BY DEF Runs
  <2> QED  BY <2>1
<1>2. ASSUME NEW n \in Nat, n \in S
      PROVE  n + 1 \in S
  <2>1. PICK g : Runs(g, n, s, fatal)
    BY <1>2
  <2> DEFINE h == [m \in 0..(n + 1) |-> IF m = n + 1 THEN StepAt(g[n], n + 1, fatal) ELSE g[m]]
             k == [m \in 0..(n + 1) |-> IF m = 0 THEN s ELSE StepAt(h[m - 1], m, fatal)]
  <2>2. ASSUME NEW m \in 0..(n + 1)
        PROVE  h[m] = k[m]
    <3>1. CASE m = n + 1
      <4>1. m # 0 /\ m - 1 = n /\ n \in 0..(n + 1) /\ n # n + 1
        BY <3>1
      <4> QED  BY <3>1, <4>1
    <3>2. CASE m # n + 1
      <4>1. m \in 0..n
        BY <3>2
      <4>2. g[m] = IF m = 0 THEN s ELSE StepAt(g[m - 1], m, fatal)
        BY <2>1, <4>1 DEF Runs
      <4>3. m # 0 => m - 1 \in 0..(n + 1) /\ m - 1 # n + 1
        BY <4>1
      <4> QED  BY <3>2, <4>2, <4>3
    <3> QED  BY <3>1, <3>2
  <2>3. h = k
    BY <2>2
  <2> HIDE DEF h
  <2>4. Runs(h, n + 1, s, fatal)
    BY <2>3 DEF Runs
  <2> QED  BY <2>4
<1> HIDE DEF S
<1>3. Nat \subseteq S
  BY <1>1, <1>2, Induction
<1> QED  BY <1>3 DEF S

(* The steps of a frame's plan, one by one.                                *)
LEMMA RunIs ==
  ASSUME NEW s, NEW fatal, NEW steps, steps \in Nat
  PROVE  \E g : /\ g[0] = s
                /\ \A n \in 0..(steps - 1) : g[n + 1] = StepAt(g[n], n + 1, fatal)
                /\ Run(s, steps, fatal) = g[steps]
<1> DEFINE g == CHOOSE h : Runs(h, steps, s, fatal)
<1>1. Run(s, steps, fatal) = g[steps]
  BY Zenon DEF Run, Runs, StepAt
<1>2. Runs(g, steps, s, fatal)
  <2>1. \E h : Runs(h, steps, s, fatal)
    BY RunExists
  <2> QED  BY <2>1, Zenon
<1> HIDE DEF g
<1>3. g[0] = s
  BY <1>2 DEF Runs
<1>4. ASSUME NEW n \in 0..(steps - 1)
      PROVE  g[n + 1] = StepAt(g[n], n + 1, fatal)
  <2>1. n + 1 \in 0..steps /\ n + 1 # 0 /\ n + 1 - 1 = n
    OBVIOUS
  <2> QED  BY <1>2, <2>1 DEF Runs
<1> QED  BY <1>1, <1>3, <1>4

(* What the steps of a frame are taken over. A tap is never fresh here,    *)
(* and one that is owed has a flap banked for it.                          *)
Riding(s) ==
  /\ s = [world |-> s.world, picture |-> s.picture, flaps |-> s.flaps, tap |-> s.tap]
  /\ WorldInv(s.world) /\ PictureInv(s.picture, s.world)
  /\ s.flaps \in 0..FlapMax
  /\ s.tap # "fresh" /\ (s.tap = "owed" => s.flaps > 0)

LEMMA SteppedIs ==
  ASSUME NEW s, Riding(s), NEW dies \in BOOLEAN
  PROVE  LET new == Stepped(s, dies)
         IN  /\ Riding(new)
             /\ new.picture.before = s.world.bird
             /\ s.world.bird \in Nat /\ new.world.bird \in s.world.bird..(s.world.bird + 1)
<1> DEFINE w == s.world
           v == WorldStep(w, dies)
           flaps == IF s.flaps > 0 THEN s.flaps - 1 ELSE 0
           tap1 == IF s.flaps > 0 THEN "none" ELSE s.tap
           p == Captures(s.picture, v)
           new == Stepped(s, dies)
<1>1. WorldInv(w) /\ PictureInv(s.picture, w) /\ s.flaps \in 0..FlapMax /\ FlapMax \in Nat
  BY GlideAssumption DEF Riding
<1>2. WorldInv(v) /\ IF w.alive THEN v.bird = w.bird + 1 ELSE v.bird = w.bird /\ ~v.alive
  BY <1>1, WorldSteps
<1>3. PictureInv(p, v)
  BY <1>1, PictureStep
<1>4. w.bird \in Nat /\ v.bird \in w.bird..(w.bird + 1)
  <2>1. w.bird \in Nat
    BY <1>1 DEF WorldInv, World
  <2> QED  BY <1>2, <2>1
<1>5. flaps \in 0..FlapMax
  BY <1>1
<1>6. tap1 # "fresh" /\ (tap1 = "owed" => flaps > 0)
  BY DEF Riding
<1>7. new = [world |-> v, picture |-> p, flaps |-> flaps, tap |-> tap1]
  BY DEF Stepped
<1>8. p.before = w.bird
  <2>1. s.picture.bird = w.bird
    BY <1>1 DEF PictureInv
  <2> QED  BY <2>1 DEF Captures
<1> HIDE DEF v, flaps, tap1, p, new
<1>9. Riding(new)
  BY <1>2, <1>3, <1>5, <1>6, <1>7 DEF Riding
<1> QED  BY <1>4, <1>7, <1>8, <1>9 DEF new

(* However many steps a frame runs: after at least one, the older end of   *)
(* the picture is a position the bird had in this frame.                   *)
LEMMA RunKeeps ==
  ASSUME NEW s, Riding(s), NEW steps \in Nat, NEW fatal \in Nat
  PROVE  LET end == Run(s, steps, fatal)
         IN  /\ Riding(end)
             /\ steps = 0 => end = s
             /\ steps > 0 => end.picture.before \in s.world.bird..(s.world.bird + steps - 1)
<1> DEFINE b == s.world.bird
<1>1. b \in Nat
  BY DEF Riding, WorldInv, World
<1>2. PICK g : /\ g[0] = s
               /\ \A n \in 0..(steps - 1) : g[n + 1] = StepAt(g[n], n + 1, fatal)
               /\ Run(s, steps, fatal) = g[steps]
  BY RunIs
<1> DEFINE Good(n) == /\ Riding(g[n]) /\ g[n].world.bird \in b..(b + n)
                      /\ n > 0 => g[n].picture.before \in b..(b + n - 1)
           S == {n \in Nat : n <= steps => Good(n)}
<1>3. 0 \in S
  BY <1>1, <1>2
<1>4. ASSUME NEW n \in Nat, n \in S
      PROVE  n + 1 \in S
  <2> SUFFICES ASSUME n + 1 <= steps PROVE Good(n + 1)
    OBVIOUS
  <2> DEFINE dies == (n + 1 = fatal)
             c == g[n]
             new == Stepped(c, dies)
  <2>1. Good(n) /\ n \in 0..(steps - 1) /\ dies \in BOOLEAN
    BY <1>4
  <2>2. g[n + 1] = new
    BY <1>2, <2>1, Zenon DEF StepAt
  <2> HIDE DEF dies
  <2>3. /\ Riding(new) /\ new.picture.before = c.world.bird
        /\ c.world.bird \in Nat /\ new.world.bird \in c.world.bird..(c.world.bird + 1)
    BY <2>1, SteppedIs
  <2> HIDE DEF c, new
  <2>4. c.world.bird \in b..(b + n)
    BY <2>1 DEF c
  <2>5. /\ new.world.bird \in b..(b + (n + 1))
        /\ new.picture.before \in b..(b + (n + 1) - 1)
    BY <1>1, <2>3, <2>4
  <2> QED  BY <2>2, <2>3, <2>5
<1> HIDE DEF S
<1>5. steps \in S
  BY <1>3, <1>4, Induction
<1>6. Good(steps)
  BY <1>5 DEF S
<1> QED  BY <1>2, <1>6

----------------------------------------------------------------------------
(* The loop *)

(* What holds of the loop's own state between two events. While the game   *)
(* runs, the factor of the picture is what is in the bank.                 *)
LoopInv ==
  /\ WorldInv(world) /\ PictureInv(picture, world)
  /\ pending_flaps \in 0..FlapMax
  /\ alpha \in 0..(Dt - 1) /\ bank \in 0..(Dt - 1)
  /\ ~paused => alpha = bank
  /\ TapIsKept

(* A world before its first tick, and its picture. *)
LEMMA NewWorldIs == WorldInv(NewWorld) /\ PictureInv(NewPicture(NewWorld), NewWorld)
<1> DEFINE w == NewWorld
           p == NewPicture(w)
           empty == EmptyBuffer(SnapshotSlots)
<1>1. MaxPipes \in Nat
  <2>1. Reach \in Nat /\ PipeInterval \in Nat \ {0} /\ MaxPipes = (Reach \div PipeInterval) + 1
    BY WorldAssumption DEF Reach, MaxPipes
  <2>2. Reach \div PipeInterval \in Nat
    BY <2>1, Division, Zenon
  <2> QED  BY <2>1, <2>2
<1>2. /\ w.ent = NoEntities /\ w.pipe = NewStore(EntitySlots) /\ w.body = NewStore(EntitySlots)
      /\ w.alive = TRUE /\ w.tick = 0 /\ w.bird = 0
  BY DEF NewWorld
<1>3. NoEntities \in EntitiesOf /\ Len(NoEntities.alive) = 0 /\ Used(NoEntities) = {}
  BY DEF NoEntities, EntitiesOf, Used
<1>4. /\ NewStore(EntitySlots) \in StoreOf(EntitySlots, Handles)
      /\ NewStore(EntitySlots) \in StoreOf(EntitySlots, Int)
      /\ Occupied(NewStore(EntitySlots)) = {} /\ StoreOK(NewStore(EntitySlots))
  BY DEF NewStore, StoreOf, Occupied, StoreOK, Absent
<1>5. w \in World
  BY <1>3, <1>4 DEF NewWorld, World
<1>6. EntitiesOK(NoEntities)
  <2>1. Cardinality({}) = 0
    BY FS_EmptySet
  <2>2. /\ {s \in Used(NoEntities) : NoEntities.alive[s]} = {}
        /\ {s \in Used(NoEntities) : ~NoEntities.alive[s]} = {}
    BY <1>3
  <2>3. /\ NoEntities.free = <<>> /\ NoEntities.live = 0
        /\ DOMAIN NoEntities.generation = {} /\ DOMAIN NoEntities.free = {}
    BY DEF NoEntities
  <2> QED  BY <1>3, <2>1, <2>2, <2>3 DEF EntitiesOK
<1>7. WorldOK(w)
  BY <1>2, <1>3, <1>4, <1>6 DEF WorldOK
<1>8. WorldInv(w)
  BY <1>1, <1>2, <1>3, <1>4, <1>5, <1>7 DEF WorldInv, Spaced, Apart
<1>9. BufferOK(empty) /\ empty.order = <<>>
  <2>1. empty \in Buffer /\ empty.order = <<>>
        /\ \A s \in SnapshotSlots : ~empty.entries[s].present
    BY DEF EmptyBuffer, Buffer, Entries
  <2> QED  BY <2>1 DEF BufferOK
<1> HIDE DEF empty
<1>10. p = [pipes |-> [previous |-> empty, current |-> empty], bird |-> 0, before |-> NoTick]
  BY <1>2 DEF NewPicture, NewPair, empty
<1> HIDE DEF p
<1>11. PictureInv(p, w)
  BY <1>2, <1>9, <1>10 DEF PictureInv
<1> QED  BY <1>8, <1>11 DEF p

LEMMA InitLoop == Init => LoopInv
<1> SUFFICES ASSUME Init PROVE LoopInv
  OBVIOUS
<1>1. WorldInv(world) /\ PictureInv(picture, world)
  BY NewWorldIs DEF Init
<1>2. pending_flaps = 0 /\ bank = 0 /\ alpha = 0 /\ tap = "none"
  BY DEF Init, Anchored
<1>3. Dt \in Nat \ {0} /\ FlapMax \in Nat
  BY FrameLoopAssumption, GlideAssumption
<1> QED  BY <1>1, <1>2, <1>3 DEF LoopInv, TapIsKept

(* The division the schedule makes of the banked time. *)
LEMMA FrameIs ==
  ASSUME NEW before \in 0..(Dt - 1), NEW gap \in Nat
  PROVE  LET plan == BeginFrame(before, gap)
         IN  /\ plan.steps \in 0..Budget /\ plan.remainder \in 0..(Dt - 1)
             /\ plan.steps = 0 => plan.remainder = before + gap
<1> DEFINE total == before + gap
           due == total \div Dt
           plan == BeginFrame(before, gap)
<1>1. Dt \in Nat \ {0} /\ Budget \in Nat \ {0} /\ before \in Nat /\ total \in Nat
  BY FrameLoopAssumption
<1> HIDE DEF total
<1>2. due \in Nat /\ total % Dt \in 0..(Dt - 1) /\ total = Dt * due + (total % Dt)
  BY <1>1
<1> HIDE DEF due
<1>3. plan.steps = (IF due < Budget THEN due ELSE Budget) /\ plan.remainder = total % Dt
  BY DEF BeginFrame, total, due
<1>4. plan.steps = 0 => due = 0
  BY <1>1, <1>2, <1>3
<1>5. due = 0 => total % Dt = total
  BY <1>1, <1>2
<1> HIDE DEF plan
<1> QED  BY <1>1, <1>2, <1>3, <1>4, <1>5 DEF total, plan

(* What the steps of an update are taken over. *)
LEMMA BegunIs ==
  ASSUME Inv, LoopInv
  PROVE  Riding(Begun) /\ (~AsksRestart(menu) => Begun.world = world /\ Begun.picture = picture)
<1>1. /\ WorldInv(world) /\ PictureInv(picture, world) /\ pending_flaps \in 0..FlapMax
      /\ TapIsKept
  BY DEF LoopInv
<1>2. FlapMax \in Nat \ {0}
  BY GlideAssumption
<1>3. CASE AsksRestart(menu)
  <2>1. Begun = [world |-> NewWorld, picture |-> NewPicture(NewWorld), flaps |-> 0, tap |-> "none"]
    BY <1>3 DEF Begun, PictureOf
  <2> QED  BY <1>2, <1>3, <2>1, NewWorldIs DEF Riding
<1>4. CASE ~AsksRestart(menu)
  <2> DEFINE flaps == Banked(pending_flaps)
             tap1 == IF tap # "fresh" THEN tap ELSE IF menu.open THEN "none" ELSE "owed"
  <2>1. Begun = [world |-> world, picture |-> picture, flaps |-> flaps, tap |-> tap1]
    BY <1>4 DEF Begun, PictureOf
  <2>2. flaps \in 0..FlapMax /\ flaps >= pending_flaps
    BY <1>1, <1>2 DEF Banked
  <2>3. ~menu.open /\ input.just_pressed => flaps > 0
    BY <1>1, <1>2 DEF Banked
  <2>4. tap1 # "fresh" /\ (tap1 = "owed" => flaps > 0)
    BY <1>1, <1>2, <2>2, <2>3 DEF TapIsKept
  <2> HIDE DEF flaps, tap1
  <2> QED  BY <1>1, <1>4, <2>1, <2>2, <2>4 DEF Riding
<1> QED  BY <1>3, <1>4

(* What a key event leaves of a press edge, and that a tap makes one. *)
LEMMA EdgeStays ==
  ASSUME Inv, NEW key \in Keys, NEW pressed \in BOOLEAN
  PROVE  /\ input.just_pressed => Routed(key, pressed).just_pressed
         /\ (focused /\ pressed /\ key \in Bound /\ ~menu.open /\ physical \cap Bound = {})
              => Routed(key, pressed).just_pressed
<1>1. InputOf(input) /\ HeldRight(input)
  BY DEF Inv, InputType, HeldIsDown, InputOf, HeldRight
<1> DEFINE released == ReleaseAll(input)
           new(map) == Set(map, key, pressed)
<1>2. InputOf(released) /\ released.just_pressed = input.just_pressed
  BY <1>1 DEF InputOf, ReleaseAll
<1>3. ASSUME NEW map, InputOf(map), map.just_pressed
      PROVE  new(map).just_pressed
  <2>1. CASE (IF pressed THEN map.down \cup {key} ELSE map.down \ {key}) = map.down \/ key \notin Bound
    BY <1>3, <2>1 DEF Set, InputOf
  <2>2. CASE ~((IF pressed THEN map.down \cup {key} ELSE map.down \ {key}) = map.down \/ key \notin Bound)
    BY <1>3, <2>2 DEF Set, InputOf
  <2> QED  BY <2>1, <2>2
<1>4. input.just_pressed => Routed(key, pressed).just_pressed
  <2> HIDE DEF released
  <2> QED  BY <1>1, <1>2, <1>3 DEF Routed, released
<1>5. ASSUME focused, pressed, key \in Bound, ~menu.open, physical \cap Bound = {}
      PROVE  Routed(key, pressed).just_pressed
  <2>1. key # Escape
    BY <1>5, GlideAssumption
  <2>2. Handled(menu, key, pressed).open = FALSE
    <3>1. MenuOf(menu)
      BY DEF Inv, MenuType, MenuOf
    <3> QED  BY <1>5, <2>1, <3>1, HandledIs DEF MenuOf
  <2>3. Routed(key, pressed) = new(input)
    BY <1>5, <2>2 DEF Routed
  <2>4. input.down \cap Bound = {} /\ input.held = FALSE
    BY <1>1, <1>5 DEF Inv, DownIsPhysical, HeldRight
  <2>5. key \notin input.down /\ input.down \cup {key} # input.down
    BY <1>5, <2>4
  <2>6. AnyDown([input EXCEPT !.down = input.down \cup {key}])
    BY <1>1, <1>5 DEF AnyDown, InputOf
  <2>7. new(input).just_pressed
    BY <1>1, <1>5, <2>4, <2>5, <2>6 DEF Set, InputOf
  <2> QED  BY <2>3, <2>7
<1> QED  BY <1>4, <1>5

(* The steps that only events make leave the world and its picture.        *)
loop == <<pending_flaps, bank, alpha, paused, world, picture>>

LEMMA EventsOnly ==
  ASSUME Inv, LoopInv, UNCHANGED loop, TapIsKept'
  PROVE  LoopInv'
BY DEF LoopInv, loop

(* An update: the run of the plan, or nothing while the menu stays open.   *)
LEMMA UpdateIs ==
  ASSUME Inv, LoopInv, Update
  PROVE  /\ WorldInv(world') /\ PictureInv(picture', world')
         /\ pending_flaps' \in 0..FlapMax
         /\ tap' # "fresh" /\ (tap' = "owed" => pending_flaps' > 0)
         /\ alpha' \in 0..(Dt - 1) /\ bank' \in 0..(Dt - 1) /\ paused' \in BOOLEAN
         /\ ~paused' => alpha' = bank'
         /\ AsksRestart(menu) \/
              IF paused' THEN picture' = picture /\ alpha' = alpha
              ELSE \/ picture' = picture /\ \E gap \in Nat : alpha' = bank + gap
                   \/ \E steps \in 1..Budget :
                        picture'.before \in world.bird..(world.bird + steps - 1)
<1>1. bank \in 0..(Dt - 1) /\ alpha \in 0..(Dt - 1) /\ Dt \in Nat \ {0} /\ Budget \in Nat \ {0}
  BY FrameLoopAssumption DEF LoopInv
<1>2. /\ Riding(Begun)
      /\ ~AsksRestart(menu) => Begun.world = world /\ Begun.picture = picture
  BY BegunIs
<1>3. MenuOf(menu) /\ MenuOf(Drained(menu)) /\ Drained(menu).open \in BOOLEAN
  <2>1. MenuOf(menu)
    BY DEF Inv, MenuType, MenuOf
  <2> QED  BY <2>1, DrainedIs DEF MenuOf
<1> DEFINE open == Drained(menu).open
<1>4. PICK gap \in Gaps, fatal \in 0..Budget :
        LET plan == BeginFrame(bank, gap)
            run == IF open THEN Begun ELSE Run(Begun, plan.steps, fatal)
        IN  /\ bank' = plan.remainder /\ paused' = open
            /\ world' = run.world /\ picture' = run.picture
            /\ pending_flaps' = run.flaps /\ tap' = run.tap
            /\ alpha' = Factor(open, plan.remainder)
  BY DEF Update
<1> DEFINE plan == BeginFrame(bank, gap)
           ran == Run(Begun, plan.steps, fatal)
           run == IF open THEN Begun ELSE ran
<1>5. /\ bank' = plan.remainder /\ paused' = open
      /\ world' = run.world /\ picture' = run.picture
      /\ pending_flaps' = run.flaps /\ tap' = run.tap
      /\ alpha' = Factor(open, plan.remainder)
  BY <1>4
<1>6. gap \in Nat /\ fatal \in Nat
  BY <1>1, GlideAssumption
<1>7. /\ plan.steps \in 0..Budget /\ plan.remainder \in 0..(Dt - 1)
      /\ plan.steps = 0 => plan.remainder = bank + gap
  BY <1>1, <1>6, FrameIs
<1> HIDE DEF plan
<1>8. plan.steps \in Nat
  BY <1>1, <1>7
<1>9. /\ Riding(ran) /\ (plan.steps = 0 => ran = Begun)
      /\ plan.steps > 0 =>
           ran.picture.before \in Begun.world.bird..(Begun.world.bird + plan.steps - 1)
  BY <1>2, <1>6, <1>8, RunKeeps
<1> HIDE DEF open, ran
<1>10. Riding(run)
  BY <1>2, <1>9
<1>11. alpha' = IF ~open THEN plan.remainder ELSE IF AsksRestart(menu) THEN 0 ELSE alpha
  BY <1>5 DEF Factor
<1>12. alpha' \in 0..(Dt - 1) /\ bank' \in 0..(Dt - 1) /\ (~paused' => alpha' = bank')
  BY <1>1, <1>5, <1>7, <1>11
<1>13. paused' \in BOOLEAN
  BY <1>3, <1>5 DEF open
<1>14. ASSUME ~AsksRestart(menu)
       PROVE  IF paused' THEN picture' = picture /\ alpha' = alpha
              ELSE \/ picture' = picture /\ \E g \in Nat : alpha' = bank + g
                   \/ \E steps \in 1..Budget :
                        picture'.before \in world.bird..(world.bird + steps - 1)
  <2>1. CASE open
    BY <1>2, <1>5, <1>11, <1>14, <2>1
  <2>2. CASE ~open /\ plan.steps = 0
    BY <1>2, <1>5, <1>6, <1>7, <1>9, <1>11, <1>14, <2>2
  <2>3. CASE ~open /\ plan.steps # 0
    <3>1. plan.steps \in 1..Budget /\ plan.steps > 0
      BY <1>1, <1>7, <2>3
    <3>2. picture'.before \in world.bird..(world.bird + plan.steps - 1)
      BY <1>2, <1>5, <1>9, <1>14, <2>3, <3>1
    <3> QED  BY <1>5, <2>3, <3>1, <3>2
  <2> QED  BY <2>1, <2>2, <2>3
<1> HIDE DEF run
<1>15. /\ WorldInv(world') /\ PictureInv(picture', world') /\ pending_flaps' \in 0..FlapMax
       /\ tap' # "fresh" /\ (tap' = "owed" => pending_flaps' > 0)
  BY <1>5, <1>10 DEF Riding
<1> QED  BY <1>12, <1>13, <1>14, <1>15

LEMMA StepLoop == Inv /\ LoopInv /\ [Next]_vars => LoopInv'
<1> SUFFICES ASSUME Inv, LoopInv, [Next]_vars PROVE LoopInv'
  OBVIOUS
<1>1. TapIsKept
  BY DEF LoopInv
<1>2. ASSUME NEW key \in Keys, Press(key) PROVE LoopInv'
  <2>1. /\ focused /\ input' = Routed(key, TRUE) /\ UNCHANGED loop
        /\ tap' = IF tap = "none" /\ key \in Bound /\ ~menu.open /\ physical \cap Bound = {}
                  THEN "fresh" ELSE tap
    BY <1>2 DEF Press, Deliver, loop
  <2>2. TapIsKept'
    BY <1>1, <2>1, EdgeStays DEF TapIsKept, loop
  <2> QED  BY <2>1, <2>2, EventsOnly
<1>3. ASSUME NEW key \in Keys, Let(key) PROVE LoopInv'
  <2>1. input' = Routed(key, FALSE) /\ UNCHANGED loop /\ tap' = tap
    BY <1>3 DEF Let, Deliver, loop
  <2>2. TapIsKept'
    BY <1>1, <2>1, EdgeStays DEF TapIsKept, loop
  <2> QED  BY <2>1, <2>2, EventsOnly
<1>4. ASSUME UNCHANGED loop, tap' = tap, input.just_pressed => input'.just_pressed
      PROVE  LoopInv'
  <2>1. TapIsKept'
    BY <1>1, <1>4 DEF TapIsKept, loop
  <2> QED  BY <1>4, <2>1, EventsOnly
<1>5. ASSUME NEW key \in Keys, LetUnseen(key) PROVE LoopInv'
  BY <1>4, <1>5 DEF LetUnseen, program, loop
<1>6. ASSUME NEW place \in Places, Move(place) PROVE LoopInv'
  BY <1>4, <1>6 DEF Move, loop
<1>7. ASSUME LoseFocus PROVE LoopInv'
  <2>1. InputOf(input) /\ input' = ReleaseAll(input) /\ UNCHANGED loop /\ tap' = tap
    BY <1>7 DEF LoseFocus, Inv, InputType, InputOf, loop
  <2>2. input'.just_pressed = input.just_pressed
    BY <2>1 DEF InputOf, ReleaseAll
  <2> QED  BY <1>4, <2>1, <2>2
<1>8. ASSUME GainFocus PROVE LoopInv'
  BY <1>4, <1>8 DEF GainFocus, program, loop
<1>9. ASSUME Update PROVE LoopInv'
  BY <1>9, UpdateIs DEF LoopInv, TapIsKept
<1>10. CASE UNCHANGED vars
  BY <1>4, <1>10 DEF vars, program, loop
<1> QED  BY <1>2, <1>3, <1>5, <1>6, <1>7, <1>8, <1>9, <1>10 DEF Next

LEMMA LoopAlways == Spec => [](Inv /\ LoopInv)
BY InitInv, InitLoop, StepInv, StepLoop, PTL DEF Spec

----------------------------------------------------------------------------
(* What the loop promises *)

(* The allocator, both stores and the captures tell one story at every     *)
(* moment of every play: no slot is leaked or refused (samples/glide/world *)
(* advance_pipes and spawn_pipes, crates/ecs, crates/snapshot put).        *)
THEOREM StoresAlwaysAgree == Spec => []StoresAgree
<1>1. LoopInv => StoresAgree
  <2>1. ASSUME LoopInv
        PROVE  ~picture.pipes.current.refused /\ ~picture.pipes.previous.refused
    BY <2>1 DEF LoopInv, PictureInv, BufferOK, Buffer
  <2> QED  BY <2>1 DEF LoopInv, WorldInv, StoresAgree
<1> QED  BY LoopAlways, <1>1, PTL

(* A tap made while the game runs is never lost before a step flaps for    *)
(* it, a restart or a pause drops it (glide/src/windowed.rs update_at's    *)
(* pending_flaps, input's press edge through release_all).                 *)
THEOREM TapsAreKept == Spec => []TapIsKept
<1>1. LoopInv => TapIsKept
  BY DEF LoopInv
<1> QED  BY LoopAlways, <1>1, PTL

(* The ends of the intervals that one frame draws. *)
LEMMA DrawnIs ==
  ASSUME NEW p, NEW w, WorldInv(w), PictureInv(p, w)
  PROVE  LET drawn == Pairs(p.pipes)
             new == Present(p.pipes)
             puts == PipesOf(w)
         IN  /\ \A i, j \in DOMAIN drawn :
                  i # j => <<drawn[i].slot, drawn[i].generation>>
                             # <<drawn[j].slot, drawn[j].generation>>
             /\ \A i \in DOMAIN drawn :
                  drawn[i].fate = Living => drawn[i].from - drawn[i].to = p.bird - p.before
             /\ p.before # NoTick =>
                  [i \in DOMAIN new |-> [slot |-> new[i].slot, generation |-> new[i].generation,
                                         value |-> new[i].to]] = puts
<1> DEFINE pair == p.pipes
           gone == Departed(pair)
           order == pair.current.order
           m == Len(gone)
           n == Len(order)
           ghosts == Ghosts(pair)
           new == Present(pair)
           drawn == Pairs(pair)
<1>1. /\ BufferOK(pair.previous) /\ BufferOK(pair.current) /\ p.bird = w.bird
  BY DEF PictureInv
<1>2. /\ order \in Seq(SnapshotSlots) /\ n \in Nat /\ DOMAIN order = 1..n
      /\ \A i, j \in 1..n : order[i] = order[j] => i = j
  <2>1. pair.current \in Buffer /\ \A i, j \in DOMAIN order : order[i] = order[j] => i = j
    BY <1>1 DEF BufferOK
  <2>2. order \in Seq(SnapshotSlots)
    BY <2>1 DEF Buffer
  <2> QED  BY <2>1, <2>2
<1>3. /\ gone \in Seq(SnapshotSlots) /\ m \in Nat /\ DOMAIN gone = 1..m
      /\ \A i \in 1..m : Gone(pair, gone[i])
      /\ \A i, j \in 1..m : gone[i] = gone[j] => i = j
  <2>1. /\ gone \in Seq(SnapshotSlots)
        /\ \A i \in DOMAIN gone : Gone(pair, gone[i])
        /\ \A i, j \in DOMAIN gone : gone[i] = gone[j] => i = j
    BY <1>1, DepartedIs
  <2> HIDE DEF gone
  <2> QED  BY <2>1
<1>4. /\ Len(ghosts) = m /\ DOMAIN ghosts = 1..m
      /\ \A i \in 1..m : /\ ghosts[i].slot = gone[i] /\ ghosts[i].fate = Dying
                         /\ ghosts[i].generation = Old(pair, gone[i]).generation
  <2> HIDE DEF gone
  <2>1. ghosts = [i \in 1..m |->
                    [slot |-> gone[i], generation |-> Old(pair, gone[i]).generation,
                     fate |-> Dying, from |-> Old(pair, gone[i]).value,
                     to |-> Old(pair, gone[i]).value]]
    BY <1>3 DEF Ghosts, gone
  <2> QED  BY <1>3, <2>1
<1>5. /\ Len(new) = n /\ DOMAIN new = 1..n
      /\ \A i \in 1..n :
           /\ new[i].slot = order[i]
           /\ new[i].generation = Now(pair, order[i]).generation
           /\ new[i].fate = IF Stays(pair, order[i]) THEN Living ELSE Newborn
           /\ new[i].from = IF Stays(pair, order[i]) THEN Old(pair, order[i]).value
                            ELSE Now(pair, order[i]).value
           /\ new[i].to = Now(pair, order[i]).value
  <2> HIDE DEF order
  <2>1. new = [i \in 1..n |->
                 [slot |-> order[i], generation |-> Now(pair, order[i]).generation,
                  fate |-> IF Stays(pair, order[i]) THEN Living ELSE Newborn,
                  from |-> IF Stays(pair, order[i]) THEN Old(pair, order[i]).value
                           ELSE Now(pair, order[i]).value,
                  to   |-> Now(pair, order[i]).value]]
    BY <1>2 DEF Present, order
  <2> QED  BY <1>2, <2>1
<1> HIDE DEF ghosts, new, gone, order
<1>6. /\ DOMAIN drawn = 1..(m + n)
      /\ \A i \in 1..(m + n) : drawn[i] = IF i <= m THEN ghosts[i] ELSE new[i - m]
  <2> DEFINE ends == {ghosts[i] : i \in 1..m} \cup {new[i] : i \in 1..n}
  <2>1. ghosts = [i \in 1..m |-> ghosts[i]] /\ new = [i \in 1..n |-> new[i]]
    BY <1>4, <1>5 DEF Ghosts, Present, ghosts, new
  <2>2. ghosts \in [1..m -> ends] /\ new \in [1..n -> ends]
    BY <2>1
  <2> HIDE DEF ends, m, n
  <2>3. ghosts \in Seq(ends) /\ new \in Seq(ends)
    BY <1>2, <1>3, <2>2
  <2>4. drawn = ghosts \o new
    BY DEF drawn, Pairs, ghosts, new
  <2>5. /\ ghosts \o new \in Seq(ends)
        /\ Len(ghosts \o new) = Len(ghosts) + Len(new)
        /\ \A i \in 1..(Len(ghosts) + Len(new)) :
             (ghosts \o new)[i] = IF i <= Len(ghosts) THEN ghosts[i] ELSE new[i - Len(ghosts)]
    BY <2>3, ConcatProperties, Zenon
  <2>6. Len(ghosts) = m /\ Len(new) = n
    BY <1>4, <1>5
  <2> HIDE DEF drawn
  <2>7. DOMAIN drawn = 1..(m + n)
    BY <2>4, <2>5, <2>6
  <2> QED  BY <2>4, <2>5, <2>6, <2>7
<1> HIDE DEF drawn, m, n
<1>7. \A i \in 1..n : order[i] \in SnapshotSlots /\ Now(pair, order[i]).present
  BY <1>1, <1>2 DEF BufferOK, Now, order
<1>8. ASSUME NEW i \in 1..m, NEW j \in 1..n,
             <<ghosts[i].slot, ghosts[i].generation>> = <<new[j].slot, new[j].generation>>
      PROVE  FALSE
  <2>1. gone[i] = order[j] /\ Old(pair, gone[i]).generation = Now(pair, order[j]).generation
    BY <1>4, <1>5, <1>8
  <2> QED  BY <1>3, <1>7, <2>1 DEF Gone
<1>9. ASSUME NEW i \in DOMAIN drawn, NEW j \in DOMAIN drawn, i # j,
             <<drawn[i].slot, drawn[i].generation>> = <<drawn[j].slot, drawn[j].generation>>
      PROVE  FALSE
  <2>1. CASE i <= m /\ j <= m
    <3>1. i \in 1..m /\ j \in 1..m /\ drawn[i] = ghosts[i] /\ drawn[j] = ghosts[j]
      BY <1>2, <1>3, <1>6, <2>1
    <3> QED  BY <1>3, <1>4, <1>9, <3>1
  <2>2. CASE i <= m /\ ~(j <= m)
    <3>1. i \in 1..m /\ j - m \in 1..n /\ drawn[i] = ghosts[i] /\ drawn[j] = new[j - m]
      BY <1>2, <1>3, <1>6, <2>2
    <3> QED  BY <1>8, <1>9, <3>1
  <2>3. CASE ~(i <= m) /\ j <= m
    <3>1. j \in 1..m /\ i - m \in 1..n /\ drawn[j] = ghosts[j] /\ drawn[i] = new[i - m]
      BY <1>2, <1>3, <1>6, <2>3
    <3> QED  BY <1>8, <1>9, <3>1
  <2>4. CASE ~(i <= m) /\ ~(j <= m)
    <3>1. i - m \in 1..n /\ j - m \in 1..n /\ drawn[j] = new[j - m] /\ drawn[i] = new[i - m]
          /\ i - m # j - m
      BY <1>2, <1>3, <1>6, <1>9, <2>4
    <3> QED  BY <1>2, <1>5, <1>9, <3>1
  <2> QED  BY <2>1, <2>2, <2>3, <2>4
<1>10. ASSUME NEW i \in DOMAIN drawn, drawn[i].fate = Living
       PROVE  drawn[i].from - drawn[i].to = p.bird - p.before
  <2>1. ~(i <= m)
    <3>1. i <= m => i \in 1..m
      BY <1>2, <1>3, <1>6
    <3> QED  BY <1>4, <1>6, <1>10, <3>1 DEF Living, Dying
  <2> DEFINE s == order[i - m]
  <2>2. i - m \in 1..n /\ drawn[i] = new[i - m]
    BY <1>2, <1>3, <1>6, <2>1
  <2>3. Stays(pair, s)
    BY <1>5, <1>10, <2>2 DEF Living, Newborn
  <2>4. drawn[i].from = Old(pair, s).value /\ drawn[i].to = Now(pair, s).value
    BY <1>5, <2>2, <2>3
  <2>5. s \in SnapshotSlots /\ Now(pair, s).present /\ Old(pair, s).present
    BY <1>7, <2>2, <2>3 DEF Stays
  <2>6. p.before # NoTick
    BY <1>2, <2>2 DEF PictureInv, order, n
  <2> QED  BY <1>1, <2>4, <2>5, <2>6 DEF PictureInv
<1>11. ASSUME p.before # NoTick
       PROVE  [i \in DOMAIN new |-> [slot |-> new[i].slot, generation |-> new[i].generation,
                                     value |-> new[i].to]] = PipesOf(w)
  <2> DEFINE puts == PipesOf(w)
             shown == [i \in DOMAIN new |-> [slot |-> new[i].slot,
                                             generation |-> new[i].generation,
                                             value |-> new[i].to]]
  <2>1. Shows(pair.current, puts)
    BY <1>11 DEF PictureInv
  <2>2. puts \in Seq(Puts)
    BY PipesAre
  <2> HIDE DEF puts
  <2>3. Len(puts) = n /\ puts \in [1..n -> Puts]
    BY <2>1, <2>2 DEF Shows, ShowsFirst, n, order
  <2>4. ASSUME NEW i \in 1..n
        PROVE  shown[i] = puts[i]
    <3>1. order[i] = puts[i].slot /\ Now(pair, order[i]) = Written(puts[i])
      BY <2>1, <2>3 DEF Shows, ShowsFirst, order, Now
    <3>2. /\ new[i].slot = puts[i].slot /\ new[i].generation = puts[i].generation
          /\ new[i].to = puts[i].value
      BY <1>5, <3>1 DEF Written
    <3>3. puts[i] \in Puts
      BY <2>3
    <3>4. shown[i] = [slot |-> puts[i].slot, generation |-> puts[i].generation,
                      value |-> puts[i].value]
      BY <1>5, <3>2
    <3> QED  BY <3>3, <3>4 DEF Puts
  <2>5. shown \in [1..n -> Puts]
    BY <1>5, <2>3, <2>4
  <2> HIDE DEF shown
  <2>6. shown = puts
    BY <2>3, <2>4, <2>5
  <2> QED  BY <2>6 DEF shown, puts
<1> QED  BY <1>9, <1>10, <1>11 DEF drawn, new

(* Everything that is drawn spans the same single tick, and no pipe is     *)
(* drawn twice, whatever was spawned, swept and restarted                  *)
(* (crates/snapshot for_each_pair, glide/src/windowed.rs update_at).       *)
THEOREM OneTickIsDrawn == Spec => []BlendsOneTick
<1>1. LoopInv => BlendsOneTick
  <2> SUFFICES ASSUME LoopInv PROVE BlendsOneTick
    OBVIOUS
  <2>1. WorldInv(world) /\ PictureInv(picture, world)
    BY DEF LoopInv
  <2>2. /\ picture.bird = world.bird
        /\ picture.before # NoTick =>
             picture.bird - picture.before = 1
             \/ (picture.bird - picture.before = 0 /\ ~world.alive)
    BY <2>1 DEF PictureInv
  <2> QED  BY <2>1, <2>2, DrawnIs DEF BlendsOneTick
<1> QED  BY LoopAlways, <1>1, PTL

(* Where the bird is drawn: on the last tick of its travel. *)
LEMMA ShownIs ==
  ASSUME LoopInv
  PROVE  /\ world.bird \in Nat /\ Shown \in Int
         /\ Shown <= world.bird * Dt /\ Shown >= (world.bird - 1) * Dt
         /\ \E d \in {0, 1} : /\ Shown = IF picture.before = NoTick THEN picture.bird * Dt
                                         ELSE picture.before * Dt + d * alpha
                              /\ picture.bird = world.bird
                              /\ picture.before # NoTick =>
                                   picture.before \in Nat /\ world.bird - picture.before = d
<1>1. /\ WorldInv(world) /\ PictureInv(picture, world) /\ alpha \in 0..(Dt - 1)
      /\ Dt \in Nat \ {0} /\ world.bird \in Nat
  BY FrameLoopAssumption DEF LoopInv, WorldInv, World
<1>2. picture.bird = world.bird
  BY <1>1 DEF PictureInv
<1> DEFINE b == world.bird
           a == picture.before
<1>3. CASE a = NoTick
  <2>1. Shown = b * Dt
    BY <1>2, <1>3 DEF Shown
  <2>2. b * Dt \in Int /\ (b - 1) * Dt = b * Dt - Dt
    BY <1>1
  <2> QED  BY <1>1, <1>2, <1>3, <2>1, <2>2
<1>4. CASE a # NoTick
  <2>1. a \in Nat /\ (b - a = 1 \/ b - a = 0)
    BY <1>1, <1>4 DEF PictureInv
  <2>2. PICK d \in {0, 1} : b - a = d
    BY <2>1
  <2>3. Shown = a * Dt + d * alpha
    BY <1>2, <1>4, <2>2 DEF Shown
  <2>4. d * alpha \in 0..(Dt - 1) /\ (d = 0 => d * alpha = 0)
    BY <1>1, <2>2
  <2>5. /\ a * Dt \in Int /\ b * Dt \in Int /\ (b - 1) * Dt = b * Dt - Dt
        /\ b * Dt = a * Dt + d * Dt
    <3>1. d = 0 => b = a
      BY <1>1, <2>1, <2>2
    <3>2. d = 1 => b = a + 1
      BY <1>1, <2>1, <2>2
    <3>3. (a + 1) * Dt = a * Dt + Dt
      BY <1>1, <2>1
    <3>4. a * Dt \in Int /\ b * Dt \in Int /\ (b - 1) * Dt = b * Dt - Dt
      BY <1>1, <2>1
    <3>5. d = 0 => d * Dt = 0
      BY <1>1
    <3>6. d = 1 => d * Dt = Dt
      BY <1>1
    <3> QED  BY <1>1, <2>2, <3>1, <3>2, <3>3, <3>4, <3>5, <3>6
  <2>6. d * Dt = IF d = 0 THEN 0 ELSE Dt
    BY <1>1, <2>2
  <2>7. Shown \in Int /\ Shown <= b * Dt /\ Shown >= (b - 1) * Dt
    BY <1>1, <2>2, <2>3, <2>4, <2>5, <2>6
  <2> QED  BY <1>1, <1>2, <1>4, <2>1, <2>2, <2>3, <2>7
<1> QED  BY <1>3, <1>4

(* An update moves what is drawn forwards, and by fewer ticks than it may  *)
(* run steps and one more.                                                 *)
LEMMA UpdateMovesOn ==
  ASSUME Inv, LoopInv, LoopInv', Update, ~AsksRestart(menu)
  PROVE  MovesOn
<1>1. /\ Dt \in Nat \ {0} /\ Budget \in Nat \ {0} /\ paused' \in BOOLEAN
      /\ alpha \in 0..(Dt - 1) /\ alpha' \in 0..(Dt - 1) /\ (~paused => alpha = bank)
  BY FrameLoopAssumption, UpdateIs DEF LoopInv
<1> DEFINE b == world.bird
           x == b * Dt
           least == IF paused /\ ~paused' THEN 1 - Dt ELSE 0
           most == (Budget + 1) * Dt - 1
<1> DEFINE late == alpha'
<1>2. Dt \in Nat /\ Dt >= 1 /\ alpha \in Nat /\ alpha < Dt /\ late \in Nat /\ late < Dt
  BY <1>1
<1>3. /\ b \in Nat /\ Shown \in Int /\ Shown <= x /\ Shown >= x - Dt /\ x \in Int
  <2>1. b \in Nat /\ Shown \in Int /\ Shown <= b * Dt /\ Shown >= (b - 1) * Dt
    BY ShownIs
  <2>2. (b - 1) * Dt = b * Dt - Dt /\ b * Dt \in Int
    BY <1>1, <2>1
  <2> QED  BY <2>1, <2>2
<1>4. most \in Nat /\ most >= Dt - 1 /\ most = Budget * Dt + Dt - 1 /\ Budget * Dt \in Nat
      /\ Budget * Dt >= Dt
  <2>1. (Budget + 1) * Dt = Budget * Dt + Dt /\ Budget * Dt \in Nat
    BY <1>1
  <2>2. Budget * Dt >= Dt
    BY <1>1
  <2> QED  BY <1>1, <2>1, <2>2
<1>5. least \in Int /\ least <= 0 /\ (paused /\ ~paused' => least = 1 - Dt)
  BY <1>1
<1> HIDE DEF least, most
<1>6. IF paused' THEN picture' = picture /\ alpha' = alpha
      ELSE \/ picture' = picture /\ \E gap \in Nat : alpha' = bank + gap
           \/ \E steps \in 1..Budget : picture'.before \in b..(b + steps - 1)
  BY UpdateIs
<1>7. ASSUME picture' = picture
      PROVE  Shown' - Shown = 0 \/ Shown' - Shown = alpha' - alpha
  <2>1. CASE picture.before = NoTick
    BY <1>3, <1>7, <2>1 DEF Shown
  <2>2. CASE picture.before # NoTick
    <3>1. PICK d \in {0, 1} : /\ picture.before \in Nat /\ picture.bird - picture.before = d
      BY <2>2, ShownIs
    <3>2. picture.before * Dt \in Int
      BY <1>1, <3>1
    <3>3. /\ Shown = picture.before * Dt + d * alpha
          /\ Shown' = picture.before * Dt + d * alpha'
      BY <1>7, <2>2, <3>1 DEF Shown
    <3>4. CASE d = 0
      <4> HIDE DEF late
      <4>1. d * alpha = 0 /\ d * late = 0
        BY <1>2, <3>4
      <4> QED  BY <3>2, <3>3, <4>1 DEF late
    <3>5. CASE d = 1
      <4> HIDE DEF late
      <4>1. d * alpha = alpha /\ d * late = late
        BY <1>2, <3>5
      <4>2. Shown' = picture.before * Dt + late /\ Shown = picture.before * Dt + alpha
        BY <3>3, <4>1 DEF late
      <4>3. Shown' - Shown = late - alpha
        BY <1>2, <3>2, <4>2
      <4> QED  BY <4>3 DEF late
    <3> QED  BY <3>1, <3>4, <3>5
  <2> QED  BY <2>1, <2>2
<1>8. CASE paused' /\ picture' = picture /\ alpha' = alpha
  <2>1. Shown' - Shown = 0
    BY <1>1, <1>7, <1>8
  <2> QED  BY <1>4, <1>5, <2>1 DEF MovesOn, least, most
<1>9. CASE ~paused' /\ picture' = picture /\ \E gap \in Nat : alpha' = bank + gap
  <2>1. alpha' - alpha \in (1 - Dt)..(Dt - 1)
    <3> HIDE DEF late
    <3>1. late - alpha \in (1 - Dt)..(Dt - 1)
      BY <1>2
    <3> QED  BY <3>1 DEF late
  <2>2. ~paused => alpha' - alpha >= 0
    BY <1>1, <1>9
  <2>3. paused => least = 1 - Dt
    BY <1>5, <1>9
  <2>4. least <= 0 /\ (Shown' - Shown) \in least..most
    BY <1>1, <1>4, <1>5, <1>7, <1>9, <2>1, <2>2, <2>3
  <2> QED  BY <2>4 DEF MovesOn, least, most
<1>10. CASE ~paused' /\ \E steps \in 1..Budget : picture'.before \in b..(b + steps - 1)
  <2>1. PICK steps \in 1..Budget : picture'.before \in b..(b + steps - 1)
    BY <1>10
  <2> DEFINE a == picture'.before
  <2>2. a \in Nat /\ a # NoTick /\ a >= b /\ a <= b + Budget - 1
    BY <1>1, <1>3, <2>1 DEF NoTick
  <2>3. PICK d \in {0, 1} : picture'.bird - a = d
    <3>1. WorldInv(world') /\ PictureInv(picture', world')
      BY DEF LoopInv
    <3>2. a \in Nat /\ (world'.bird - a = 1 \/ world'.bird - a = 0)
          /\ picture'.bird = world'.bird
      BY <2>2, <3>1 DEF PictureInv
    <3> QED  BY <3>2
  <2>4. Shown' = a * Dt + d * alpha'
    BY <2>2, <2>3 DEF Shown
  <2>5. d * alpha' \in 0..(Dt - 1)
    <3> HIDE DEF late
    <3>1. d = 0 => d * late = 0
      BY <1>2
    <3>2. d = 1 => d * late = late
      BY <1>2
    <3>3. d * late \in 0..(Dt - 1)
      BY <1>2, <2>3, <3>1, <3>2
    <3> QED  BY <3>3 DEF late
  <2>6. a * Dt \in Int /\ a * Dt >= x /\ a * Dt <= x + Budget * Dt - Dt
    <3>1. a * Dt >= b * Dt
      BY <1>1, <1>3, <2>2
    <3>2. a * Dt <= (b + Budget - 1) * Dt
      BY <1>1, <1>3, <2>2
    <3>3. (b + Budget - 1) * Dt = b * Dt + Budget * Dt - Dt
      BY <1>1, <1>3
    <3> QED  BY <1>1, <2>2, <3>1, <3>2, <3>3
  <2> HIDE DEF a, x
  <2>7. (Shown' - Shown) \in 0..most
    <3> DEFINE part == d * alpha'
               base == a * Dt
    <3>1. part \in 0..(Dt - 1) /\ Shown' = base + part
      BY <2>4, <2>5, Zenon
    <3> HIDE DEF part, base
    <3>2. base \in Int /\ base >= x /\ base <= x + Budget * Dt - Dt
      BY <2>6 DEF base
    <3> QED  BY <1>2, <1>3, <1>4, <3>1, <3>2
  <2>8. (Shown' - Shown) \in least..most
    BY <1>4, <1>5, <2>7
  <2> QED  BY <2>8 DEF MovesOn, least, most
<1> QED  BY <1>1, <1>6, <1>8, <1>9, <1>10

(* Between two restarts what is drawn never goes back and never jumps by   *)
(* more than the steps one frame may run, however late frames are; only    *)
(* the frame that ends a pause may step back, by less than a tick          *)
(* (glide/src/windowed.rs update_at's blend factor, frame begin_frame_at). *)
THEOREM PictureAlwaysMovesOn == Spec => PictureMovesOn
<1>1. ASSUME Inv, LoopInv, LoopInv', [Next]_vars
      PROVE  [AsksRestart(menu) \/ MovesOn]_vars
  <2>1. CASE Update
    BY <1>1, <2>1, UpdateMovesOn
  <2>2. ASSUME UNCHANGED <<picture, alpha>>
        PROVE  MovesOn
    <3>1. Dt \in Nat \ {0} /\ Budget \in Nat \ {0} /\ Shown \in Int
      BY <1>1, ShownIs, FrameLoopAssumption
    <3>2. Shown' = Shown
      BY <2>2 DEF Shown
    <3>3. (Budget + 1) * Dt - 1 \in Nat
      BY <3>1
    <3>4. Shown' - Shown = 0
      BY <3>1, <3>2
    <3> QED  BY <3>1, <3>3, <3>4 DEF MovesOn
  <2>3. ASSUME NEW key \in Keys, Press(key) \/ Let(key) \/ LetUnseen(key)
        PROVE  UNCHANGED <<picture, alpha>>
    BY <2>3 DEF Press, Let, LetUnseen, Deliver, program
  <2>4. ASSUME (\E place \in Places : Move(place)) \/ LoseFocus \/ GainFocus
        PROVE  UNCHANGED <<picture, alpha>>
    BY <2>4 DEF Move, LoseFocus, GainFocus, program
  <2> QED  BY <1>1, <2>1, <2>2, <2>3, <2>4 DEF Next
<1> QED  BY LoopAlways, <1>1, PTL DEF Spec, PictureMovesOn

=============================================================================
