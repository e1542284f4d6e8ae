-------------------------- MODULE Session_proofs --------------------------
(***************************************************************************)
(* Proofs about Session, for any roster, delay, redundancy, ring, history, *)
(* digest period and number of ticks, over a network that may lose,        *)
(* duplicate, delay and reorder every datagram.                            *)
(***************************************************************************)
EXTENDS Session, SequenceTheorems, TLAPS

USE PeerAssumption, ParamsAssumption, SubsetAssumption

(* The steps of Session, for citation *)
LEMMA Actions ==
  ASSUME Next
  PROVE  \/ \E p \in Peer : Submit(p)
         \/ \E p \in Peer : Advance(p)
         \/ \E p \in Peer : Commit(p)
         \/ \E p \in Peer : Leave(p)
         \/ \E p \in Peer : Pump(p)
         \/ \E m \in net : AbsorbHello(m) /\ UNCHANGED net
         \/ \E m \in net : AbsorbInputs(m) /\ UNCHANGED net
         \/ \E m \in net : AbsorbDigest(m) /\ UNCHANGED net
         \/ \E m \in net : AbsorbBye(m) /\ UNCHANGED net
BY DEF Next, Local, Deliver, Absorb

-----------------------------------------------------------------------------
(* The parts of the type, by the steps that move them together             *)

LifeType ==
  /\ phase \in [Peer -> {"Joining", "Playing", "Over"}]
  /\ outcome \in [Peer -> Outcome \cup {None}]

RingType ==
  /\ frames \in [Peer -> [Peer -> [Slots -> Tick \cup {None}]]]
  /\ present \in [Peer -> [Slots -> SUBSET Peer]]
  /\ slot_tick \in [Peer -> [Slots -> Tick \cup {None}]]

CountType ==
  /\ pending \in [Peer -> 0..MaxTick]
  /\ local_next \in [Peer -> 0..MaxTick]
  /\ uncommitted \in [Peer -> Tick \cup {None}]
  /\ folded \in [Peer -> Seq(InputSet)]

DigestType ==
  /\ mine \in [Peer -> [DigestSlots -> Fingerprint \cup {None}]]
  /\ theirs \in [Peer -> [Peer -> [DigestSlots -> Fingerprint \cup {None}]]]
  /\ owed_digest \in [Peer -> Fingerprint \cup {None}]
  /\ fork \in [Peer -> Tick \cup {None}]

HelloType ==
  /\ hello_seen \in [Peer -> SUBSET Peer]
  /\ playing_seen \in [Peer -> SUBSET Peer]
  /\ emit \in [Peer -> {"Hello", "Inputs", "Bye"}]
  /\ agreement \in [Peer -> Peer \cup {None}]

NetType == net \subseteq Datagram

LEMMA TypeParts ==
  TypeOK <=> LifeType /\ RingType /\ CountType /\ DigestType /\ HelloType /\ NetType
BY DEF TypeOK, LifeType, RingType, CountType, DigestType, HelloType, NetType

(* A slot holds, for whoever is present in it, the frame of its tick.      *)
RingHolds ==
  \A p, q \in Peer : \A s \in Slots :
    q \in present[p][s] =>
      slot_tick[p][s] \in Tick /\ frames[p][q][s] = slot_tick[p][s]

(* A run in the network carries each tick's own frame.                     *)
RunsHold ==
  \A m \in net : m.kind = "Inputs" => \A t \in Carried(m.run) : m.run[t] = t

(* The step in hand is the one pending, and what was folded ends there.    *)
Stepping ==
  \A p \in Peer :
    /\ uncommitted[p] # None => uncommitted[p] = pending[p]
    /\ Len(folded[p]) = pending[p] + (IF uncommitted[p] = None THEN 0 ELSE 1)

LEMMA SlotType == \A t \in Nat : Slot(t) \in Slots /\ DigestSlot(t) \in DigestSlots
BY DEF Slot, Slots, DigestSlot, DigestSlots

(* What a peer holds for a tick is that tick's own frame.                  *)
LEMMA HeldIsOwn ==
  ASSUME RingType, RingHolds, NEW p \in Peer, NEW t \in Nat, NEW q \in HeldBy(p, t)
  PROVE  /\ t \in Tick /\ q \in Peer
         /\ frames[p][q][Slot(t)] = t
         /\ slot_tick[p][Slot(t)] = t /\ q \in present[p][Slot(t)]
<1>1. Slot(t) \in Slots
  BY SlotType
<1>2. slot_tick[p][Slot(t)] = t /\ q \in present[p][Slot(t)]
  BY DEF HeldBy
<1>3. q \in Peer
  BY <1>1, <1>2 DEF RingType
<1>. QED
  BY <1>1, <1>2, <1>3 DEF RingHolds

(* Writing frames of their own ticks keeps the ring.                       *)
LEMMA WriteKeeps ==
  ASSUME RingType, RingHolds, NEW p \in Peer, NEW q \in Peer,
         NEW ticks \in SUBSET Tick, NEW content \in [ticks -> Tick],
         \A t \in ticks : content[t] = t,
         WriteFrames(p, q, content)
  PROVE  RingType' /\ RingHolds'
<1>. DEFINE hit == {Slot(t) : t \in ticks}
            At(s) == CHOOSE t \in ticks : Slot(t) = s
<1>1. DOMAIN content = ticks
  OBVIOUS
<1>2. /\ frames' = [frames EXCEPT ![p][q] =
           [s \in Slots |-> IF s \in hit THEN content[At(s)] ELSE @[s]]]
      /\ slot_tick' = [slot_tick EXCEPT ![p] =
           [s \in Slots |-> IF s \in hit THEN At(s) ELSE @[s]]]
      /\ present' = [present EXCEPT ![p] =
           [s \in Slots |-> IF s \in hit THEN Claimed(p, At(s)) \cup {q} ELSE @[s]]]
  BY <1>1 DEF WriteFrames
<1>3. \A s \in hit : At(s) \in ticks /\ At(s) \in Tick /\ Slot(At(s)) = s
  OBVIOUS
<1>4. \A s \in hit : content[At(s)] = At(s)
  BY <1>3
<1>5. \A s \in hit : Claimed(p, At(s)) \subseteq present[p][s]
                 /\ (Claimed(p, At(s)) # {} => slot_tick[p][s] = At(s))
  BY <1>3 DEF Claimed
<1>. HIDE DEF hit, At
<1>6. frames' \in [Peer -> [Peer -> [Slots -> Tick \cup {None}]]]
  BY <1>2, <1>3, <1>4 DEF RingType
<1>7. slot_tick' \in [Peer -> [Slots -> Tick \cup {None}]]
  BY <1>2, <1>3 DEF RingType
<1>8. present' \in [Peer -> [Slots -> SUBSET Peer]]
  <2>1. \A s \in Slots : s \in hit => Claimed(p, At(s)) \cup {q} \in SUBSET Peer
    BY <1>5 DEF RingType
  <2>. QED
    BY <2>1, <1>2 DEF RingType
<1>9. RingHolds'
  <2>. SUFFICES ASSUME NEW a \in Peer, NEW b \in Peer, NEW s \in Slots,
                       b \in present'[a][s]
                PROVE  slot_tick'[a][s] \in Tick /\ frames'[a][b][s] = slot_tick'[a][s]
    BY DEF RingHolds
  <2>1. CASE a # p
    <3>1. /\ present'[a][s] = present[a][s] /\ slot_tick'[a][s] = slot_tick[a][s]
          /\ frames'[a][b][s] = frames[a][b][s]
      BY <2>1, <1>2 DEF RingType
    <3>. QED
      BY <3>1 DEF RingHolds
  <2>2. CASE a = p /\ s \notin hit
    <3>1. /\ present'[a][s] = present[a][s] /\ slot_tick'[a][s] = slot_tick[a][s]
      BY <2>2, <1>2 DEF RingType
    <3>2. frames'[a][b][s] = frames[a][b][s]
      BY <2>2, <1>2 DEF RingType
    <3>. QED
      BY <3>1, <3>2 DEF RingHolds
  <2>3. CASE a = p /\ s \in hit /\ b = q
    <3>1. slot_tick'[a][s] = At(s) /\ frames'[a][b][s] = content[At(s)]
      BY <2>3, <1>2 DEF RingType
    <3>. QED
      BY <3>1, <2>3, <1>3, <1>4
  <2>4. CASE a = p /\ s \in hit /\ b # q
    <3>1. slot_tick'[a][s] = At(s)
      BY <2>4, <1>2 DEF RingType
    <3>2. frames'[a][b][s] = frames[a][b][s]
      BY <2>4, <1>2 DEF RingType
    <3>3. present'[a][s] = Claimed(p, At(s)) \cup {q}
      BY <2>4, <1>2 DEF RingType
    <3>4. b \in Claimed(p, At(s))
      BY <3>3, <2>4
    <3>5. b \in present[p][s] /\ slot_tick[p][s] = At(s)
      BY <3>4, <2>4, <1>5
    <3>. QED
      BY <3>1, <3>2, <3>5, <2>4, <1>3 DEF RingHolds
  <2>. QED
    BY <2>1, <2>2, <2>3, <2>4
<1>. QED
  BY <1>6, <1>7, <1>8, <1>9 DEF RingType
-----------------------------------------------------------------------------
(* Every step keeps every part of the type and of the ring.                 *)

(* A function of functions of functions, changed at one place.             *)
LEMMA UpdateType ==
  ASSUME NEW A, NEW B, NEW C, NEW V, NEW f \in [A -> [B -> [C -> V]]],
         NEW a \in A, NEW b \in B, NEW c \in C, NEW v \in V
  PROVE  [f EXCEPT ![a][b][c] = v] \in [A -> [B -> [C -> V]]]
<1>1. [f[a][b] EXCEPT ![c] = v] \in [C -> V]
  OBVIOUS
<1>2. [f[a] EXCEPT ![b] = [f[a][b] EXCEPT ![c] = v]] \in [B -> [C -> V]]
  BY <1>1
<1>3. [f EXCEPT ![a] = [f[a] EXCEPT ![b] = [f[a][b] EXCEPT ![c] = v]]]
        \in [A -> [B -> [C -> V]]]
  BY <1>2
<1>. QED
  BY <1>3, Zenon

(* What a fingerprint or a step can end a session with. *)
LEMMA EndedType ==
  ASSUME LifeType, NEW p \in Peer, NEW result \in Outcome, Ended(p, result)
  PROVE  LifeType'
BY DEF LifeType, Ended

LEMMA JudgeType ==
  ASSUME LifeType, NEW p \in Peer, NEW t \in Nat, NEW own, NEW heard,
         Judge(p, t, own, heard)
  PROVE  LifeType'
<1>1. [kind |-> "Desynced", tick |-> t] \in Outcome
  BY DEF Outcome
<1>2. CASE Ended(p, [kind |-> "Desynced", tick |-> t])
  BY <1>1, <1>2, EndedType
<1>3. CASE UNCHANGED <<phase, outcome>>
  BY <1>3 DEF LifeType
<1>. QED
  BY <1>2, <1>3 DEF Judge

(* A session is in a phase it has, and ends with an outcome it can have.   *)
LEMMA LifeStep ==
  ASSUME LifeType, CountType, NetType, [Next]_vars
  PROVE  LifeType'
<1>1. CASE \E p \in Peer : Submit(p)
  BY <1>1 DEF LifeType, Submit, Started
<1>2. CASE \E p \in Peer : Advance(p)
  BY <1>2 DEF LifeType, Advance
<1>3. CASE \E p \in Peer : Commit(p)
  <2>1. PICK p \in Peer : Commit(p)
    BY <1>3
  <2>2. uncommitted[p] \in Nat
    BY <2>1 DEF Commit, CountType, Tick
  <2>3. CASE UNCHANGED <<phase, outcome>>
    BY <2>3 DEF LifeType
  <2>4. CASE Judge(p, uncommitted[p], mine'[p], theirs[p])
    BY <2>2, <2>4, JudgeType
  <2>. QED
    BY <2>1, <2>3, <2>4 DEF Commit
<1>4. CASE \E p \in Peer : Leave(p)
  <2>1. PICK p \in Peer : Leave(p)
    BY <1>4
  <2>. DEFINE last == IF pending[p] = 0 THEN 0 ELSE pending[p] - 1
  <2>2. [kind |-> "LeftLocally", tick |-> last] \in Outcome
    BY DEF Outcome, CountType
  <2>. QED
    BY <2>1, <2>2, EndedType DEF Leave
<1>5. CASE \E p \in Peer : Pump(p)
  BY <1>5 DEF LifeType, Pump
<1>6. CASE \E m \in net : AbsorbHello(m) /\ UNCHANGED net
  <2>1. PICK m \in net : AbsorbHello(m)
    BY <1>6
  <2>2. m.dst \in Peer
    BY <2>1 DEF NetType, Datagram
  <2>. QED
    BY <2>1, <2>2 DEF LifeType, AbsorbHello, Started
<1>7. CASE \E m \in net : AbsorbInputs(m) /\ UNCHANGED net
  BY <1>7 DEF LifeType, AbsorbInputs
<1>8. CASE \E m \in net : AbsorbDigest(m) /\ UNCHANGED net
  <2>1. PICK m \in net : AbsorbDigest(m)
    BY <1>8
  <2>2. m.dst \in Peer /\ m.print.tick \in Nat
    BY <2>1 DEF AbsorbDigest, NetType, Datagram, Fingerprint, Tick
  <2>3. CASE UNCHANGED <<phase, outcome>>
    BY <2>3 DEF LifeType
  <2>4. CASE Judge(m.dst, m.print.tick, mine[m.dst], theirs'[m.dst])
    BY <2>2, <2>4, JudgeType
  <2>. QED
    BY <2>1, <2>3, <2>4 DEF AbsorbDigest
<1>9. CASE \E m \in net : AbsorbBye(m) /\ UNCHANGED net
  <2>1. PICK m \in net : AbsorbBye(m)
    BY <1>9
  <2>2. m.dst \in Peer /\ m.src \in Peer /\ m.tick \in Nat
    BY <2>1 DEF AbsorbBye, NetType, Datagram
  <2>3. [kind |-> "PeerLeft", peer |-> m.src, tick |-> m.tick] \in Outcome
    BY <2>2 DEF Outcome
  <2>. QED
    BY <2>1, <2>2, <2>3, EndedType DEF AbsorbBye
<1>10. CASE UNCHANGED vars
  BY <1>10 DEF vars, LifeType, ring, digests, seen
<1>. QED
  BY <1>1, <1>2, <1>3, <1>4, <1>5, <1>6, <1>7, <1>8, <1>9, <1>10, Actions

(* The ring holds, for each tick, that tick's frames.                      *)
LEMMA RingStep ==
  ASSUME RingType, RingHolds, RunsHold, CountType, NetType, [Next]_vars
  PROVE  RingType' /\ RingHolds'
<1>1. CASE \E p \in Peer : Submit(p)
  <2>1. PICK p \in Peer : Submit(p)
    BY <1>1
  <2>2. local_next[p] \in Tick
    BY <2>1 DEF Submit, CountType, Tick
  <2>. QED
    BY <2>1, <2>2, WriteKeeps DEF Submit
<1>2. CASE \E p \in Peer : Advance(p)
  BY <1>2 DEF RingType, RingHolds, Advance, ring
<1>3. CASE \E p \in Peer : Commit(p)
  BY <1>3 DEF RingType, RingHolds, Commit, ring
<1>4. CASE \E p \in Peer : Leave(p)
  BY <1>4 DEF RingType, RingHolds, Leave, ring
<1>5. CASE \E p \in Peer : Pump(p)
  BY <1>5 DEF RingType, RingHolds, Pump, ring
<1>6. CASE \E m \in net : AbsorbHello(m) /\ UNCHANGED net
  BY <1>6 DEF RingType, RingHolds, AbsorbHello, ring
<1>7. CASE \E m \in net : AbsorbInputs(m) /\ UNCHANGED net
  <2>1. PICK m \in net : AbsorbInputs(m)
    BY <1>7
  <2>. DEFINE fresh == {t \in Carried(m.run) :
                         InWindow(m.dst, t) /\ m.src \notin HeldBy(m.dst, t)}
  <2>2. m.dst \in Peer /\ m.src \in Peer
    BY <2>1 DEF NetType, Datagram
  <2>3. \A t \in fresh : t \in Tick /\ m.run[t] = t
    BY <2>1 DEF RunsHold, AbsorbInputs, Carried
  <2>4. WriteFrames(m.dst, m.src, [t \in fresh |-> m.run[t]])
    BY <2>1 DEF AbsorbInputs
  <2>. DEFINE content == [t \in fresh |-> m.run[t]]
  <2>5. fresh \in SUBSET Tick /\ content \in [fresh -> Tick]
        /\ \A t \in fresh : content[t] = t
    BY <2>3
  <2>6. WriteFrames(m.dst, m.src, content)
    BY <2>4
  <2>. HIDE DEF fresh, content
  <2>. QED
    BY <2>2, <2>5, <2>6, WriteKeeps
<1>8. CASE \E m \in net : AbsorbDigest(m) /\ UNCHANGED net
  BY <1>8 DEF RingType, RingHolds, AbsorbDigest, ring
<1>9. CASE \E m \in net : AbsorbBye(m) /\ UNCHANGED net
  BY <1>9 DEF RingType, RingHolds, AbsorbBye, ring
<1>10. CASE UNCHANGED vars
  BY <1>10 DEF vars, RingType, RingHolds, ring, digests, seen
<1>. QED
  BY <1>1, <1>2, <1>3, <1>4, <1>5, <1>6, <1>7, <1>8, <1>9, <1>10, Actions

(* Counters stay within the ticks; what is folded is input sets.           *)
LEMMA CountStep ==
  ASSUME RingType, RingHolds, CountType, Stepping, [Next]_vars
  PROVE  CountType'
<1>1. CASE \E p \in Peer : Submit(p)
  <2>1. PICK p \in Peer : Submit(p)
    BY <1>1
  <2>2. /\ local_next' = [local_next EXCEPT ![p] = @ + 1] /\ local_next[p] < MaxTick
        /\ UNCHANGED <<pending, uncommitted, folded>>
    BY <2>1 DEF Submit
  <2>. QED
    BY <2>2 DEF CountType
<1>2. CASE \E p \in Peer : Advance(p)
  <2>1. PICK p \in Peer : Advance(p)
    BY <1>2
  <2>2. \A q \in Peer : frames[p][q][Slot(pending[p])] \in Tick
    BY <2>1, HeldIsOwn DEF Advance, CountType
  <2>3. pending[p] \in Tick
    BY <2>1, HeldIsOwn DEF Advance, CountType
  <2>4. [q \in Peer |-> frames[p][q][Slot(pending[p])]] \in InputSet
    BY <2>2 DEF InputSet
  <2>. QED
    BY <2>1, <2>3, <2>4 DEF CountType, Advance
<1>3. CASE \E p \in Peer : Commit(p)
  <2>1. PICK p \in Peer : Commit(p)
    BY <1>3
  <2>2. pending[p] \in Tick
    BY <2>1 DEF Commit, Stepping, CountType
  <2>3. pending[p] + 1 \in 0..MaxTick
    BY <2>2 DEF Tick
  <2>. QED
    BY <2>1, <2>3 DEF CountType, Commit
<1>4. CASE \E p \in Peer : Leave(p)
  BY <1>4 DEF CountType, Leave
<1>5. CASE \E p \in Peer : Pump(p)
  BY <1>5 DEF CountType, Pump
<1>6. CASE \E m \in net : AbsorbHello(m) /\ UNCHANGED net
  BY <1>6 DEF CountType, AbsorbHello
<1>7. CASE \E m \in net : AbsorbInputs(m) /\ UNCHANGED net
  BY <1>7 DEF CountType, AbsorbInputs
<1>8. CASE \E m \in net : AbsorbDigest(m) /\ UNCHANGED net
  BY <1>8 DEF CountType, AbsorbDigest
<1>9. CASE \E m \in net : AbsorbBye(m) /\ UNCHANGED net
  BY <1>9 DEF CountType, AbsorbBye
<1>10. CASE UNCHANGED vars
  BY <1>10 DEF vars, CountType, ring, digests, seen
<1>. QED
  BY <1>1, <1>2, <1>3, <1>4, <1>5, <1>6, <1>7, <1>8, <1>9, <1>10, Actions

(* The step in hand is the one pending.                                    *)
LEMMA SteppingStep ==
  ASSUME RingType, RingHolds, CountType, Stepping, [Next]_vars
  PROVE  Stepping'
<1>1. CASE \E p \in Peer : Submit(p)
  BY <1>1 DEF Stepping, CountType, Submit
<1>2. CASE \E p \in Peer : Advance(p)
  <2>1. PICK p \in Peer : Advance(p)
    BY <1>2
  <2>. DEFINE set == [q \in Peer |-> frames[p][q][Slot(pending[p])]]
  <2>2. uncommitted[p] = None /\ Len(folded[p]) = pending[p]
    BY <2>1 DEF Advance, Stepping, CountType
  <2>3. pending[p] \in Tick
    BY <2>1, HeldIsOwn DEF Advance, CountType
  <2>4. uncommitted' = [uncommitted EXCEPT ![p] = pending[p]] /\ pending' = pending
        /\ folded' = [folded EXCEPT ![p] = Append(@, set)]
    BY <2>1 DEF Advance
  <2>5. folded[p] \in Seq(InputSet) /\ set \in InputSet
    BY <2>1, HeldIsOwn DEF Advance, CountType, InputSet
  <2>. HIDE DEF set
  <2>6. Len(folded'[p]) = pending[p] + 1
    BY <2>2, <2>4, <2>5 DEF CountType
  <2>7. pending[p] # None
    BY <2>3, NoneAssumption DEF Tick
  <2>. QED
    BY <2>2, <2>4, <2>6, <2>7 DEF Stepping, CountType
<1>3. CASE \E p \in Peer : Commit(p)
  <2>1. PICK p \in Peer : Commit(p)
    BY <1>3
  <2>2. uncommitted[p] # None /\ uncommitted[p] = pending[p]
        /\ Len(folded[p]) = pending[p] + 1
    BY <2>1 DEF Commit, Stepping
  <2>3. uncommitted' = [uncommitted EXCEPT ![p] = None]
        /\ pending' = [pending EXCEPT ![p] = @ + 1] /\ folded' = folded
    BY <2>1 DEF Commit
  <2>. QED
    BY <2>2, <2>3 DEF Stepping, CountType
<1>4. CASE \E p \in Peer : Leave(p)
  BY <1>4 DEF Stepping, CountType, Leave
<1>5. CASE \E p \in Peer : Pump(p)
  BY <1>5 DEF Stepping, CountType, Pump
<1>6. CASE \E m \in net : AbsorbHello(m) /\ UNCHANGED net
  BY <1>6 DEF Stepping, CountType, AbsorbHello
<1>7. CASE \E m \in net : AbsorbInputs(m) /\ UNCHANGED net
  BY <1>7 DEF Stepping, CountType, AbsorbInputs
<1>8. CASE \E m \in net : AbsorbDigest(m) /\ UNCHANGED net
  BY <1>8 DEF Stepping, CountType, AbsorbDigest
<1>9. CASE \E m \in net : AbsorbBye(m) /\ UNCHANGED net
  BY <1>9 DEF Stepping, CountType, AbsorbBye
<1>10. CASE UNCHANGED vars
  BY <1>10 DEF vars, Stepping, CountType, ring, digests, seen
<1>. QED
  BY <1>1, <1>2, <1>3, <1>4, <1>5, <1>6, <1>7, <1>8, <1>9, <1>10, Actions

(* Fingerprints are of ticks and of worlds made of input sets.             *)
LEMMA DigestStep ==
  ASSUME DigestType, CountType, NetType, [Next]_vars
  PROVE  DigestType'
<1>1. CASE \E p \in Peer : Submit(p)
  BY <1>1 DEF DigestType, Submit, digests
<1>2. CASE \E p \in Peer : Advance(p)
  BY <1>2 DEF DigestType, Advance, digests
<1>3. CASE \E p \in Peer : Commit(p)
  <2>1. PICK p \in Peer : Commit(p)
    BY <1>3
  <2>. DEFINE own == [tick |-> uncommitted[p],
                      state |-> [inputs |-> folded[p],
                                 fork |-> IF fork'[p] = None THEN None ELSE p]]
  <2>2. uncommitted[p] \in Tick /\ uncommitted[p] \in Nat
    BY <2>1 DEF Commit, CountType, Tick
  <2>3. own \in Fingerprint
    BY <2>2 DEF Fingerprint, World, CountType
  <2>4. DigestSlot(uncommitted[p]) \in DigestSlots
    BY <2>2, SlotType
  <2>. HIDE DEF own
  <2>5. fork' \in [Peer -> Tick \cup {None}]
    BY <2>1, <2>2 DEF Commit, DigestType
  <2>6. \/ mine' = [mine EXCEPT ![p][DigestSlot(uncommitted[p])] = own]
           /\ owed_digest' = [owed_digest EXCEPT ![p] = own]
        \/ UNCHANGED <<mine, owed_digest>>
    BY <2>1 DEF Commit, own
  <2>7. UNCHANGED theirs
    BY <2>1 DEF Commit
  <2>8. mine' \in [Peer -> [DigestSlots -> Fingerprint \cup {None}]]
    <3>1. mine \in [Peer -> [DigestSlots -> Fingerprint \cup {None}]]
      BY DEF DigestType
    <3>. QED
      BY <2>3, <2>4, <2>6, <3>1
  <2>9. owed_digest' \in [Peer -> Fingerprint \cup {None}]
    BY <2>3, <2>6 DEF DigestType
  <2>. QED
    BY <2>5, <2>7, <2>8, <2>9 DEF DigestType
<1>4. CASE \E p \in Peer : Leave(p)
  BY <1>4 DEF DigestType, Leave, digests
<1>5. CASE \E p \in Peer : Pump(p)
  BY <1>5 DEF DigestType, Pump, digests
<1>6. CASE \E m \in net : AbsorbHello(m) /\ UNCHANGED net
  BY <1>6 DEF DigestType, AbsorbHello, digests
<1>7. CASE \E m \in net : AbsorbInputs(m) /\ UNCHANGED net
  BY <1>7 DEF DigestType, AbsorbInputs, digests
<1>8. CASE \E m \in net : AbsorbDigest(m) /\ UNCHANGED net
  <2>1. PICK m \in net : AbsorbDigest(m)
    BY <1>8
  <2>2. m.dst \in Peer /\ m.src \in Peer /\ m.print \in Fingerprint
    BY <2>1 DEF AbsorbDigest, NetType, Datagram
  <2>3. DigestSlot(m.print.tick) \in DigestSlots
    BY <2>2, SlotType DEF Fingerprint, Tick
  <2>4. \/ theirs' = [theirs EXCEPT ![m.dst][m.src][DigestSlot(m.print.tick)] = m.print]
        \/ UNCHANGED theirs
    BY <2>1 DEF AbsorbDigest
  <2>5. UNCHANGED <<mine, owed_digest, fork>>
    BY <2>1 DEF AbsorbDigest
  <2>6. theirs' \in [Peer -> [Peer -> [DigestSlots -> Fingerprint \cup {None}]]]
    <3>1. theirs \in [Peer -> [Peer -> [DigestSlots -> Fingerprint \cup {None}]]]
      BY DEF DigestType
    <3>. DEFINE s == DigestSlot(m.print.tick)
    <3>2. m.print \in Fingerprint \cup {None} /\ s \in DigestSlots
      BY <2>2, <2>3
    <3>. HIDE DEF s
    <3>3. [theirs EXCEPT ![m.dst][m.src][s] = m.print]
            \in [Peer -> [Peer -> [DigestSlots -> Fingerprint \cup {None}]]]
      BY <2>2, <3>1, <3>2, UpdateType
    <3>. QED
      BY <2>4, <3>1, <3>3 DEF s
  <2>. QED
    BY <2>5, <2>6 DEF DigestType
<1>9. CASE \E m \in net : AbsorbBye(m) /\ UNCHANGED net
  BY <1>9 DEF DigestType, AbsorbBye, digests
<1>10. CASE UNCHANGED vars
  BY <1>10 DEF vars, DigestType, ring, digests, seen
<1>. QED
  BY <1>1, <1>2, <1>3, <1>4, <1>5, <1>6, <1>7, <1>8, <1>9, <1>10, Actions

(* Who was heard is of the roster; what is emitted is of the pump.         *)
LEMMA HelloStep ==
  ASSUME HelloType, NetType, [Next]_vars
  PROVE  HelloType'
<1>1. CASE \E p \in Peer : Submit(p)
  BY <1>1 DEF HelloType, Submit, seen
<1>2. CASE \E p \in Peer : Advance(p)
  BY <1>2 DEF HelloType, Advance, seen
<1>3. CASE \E p \in Peer : Commit(p)
  BY <1>3 DEF HelloType, Commit, seen
<1>4. CASE \E p \in Peer : Leave(p)
  BY <1>4 DEF HelloType, Leave, seen
<1>5. CASE \E p \in Peer : Pump(p)
  BY <1>5 DEF HelloType, Pump, FirstEmit, seen
<1>6. CASE \E m \in net : AbsorbHello(m) /\ UNCHANGED net
  <2>1. PICK m \in net : AbsorbHello(m)
    BY <1>6
  <2>2. m.dst \in Peer /\ m.src \in Peer
    BY <2>1 DEF NetType, Datagram
  <2>. QED
    BY <2>1, <2>2 DEF HelloType, AbsorbHello, seen
<1>7. CASE \E m \in net : AbsorbInputs(m) /\ UNCHANGED net
  <2>1. PICK m \in net : AbsorbInputs(m)
    BY <1>7
  <2>2. m.dst \in Peer /\ m.src \in Peer
    BY <2>1 DEF NetType, Datagram
  <2>. QED
    BY <2>1, <2>2 DEF HelloType, AbsorbInputs, seen
<1>8. CASE \E m \in net : AbsorbDigest(m) /\ UNCHANGED net
  <2>1. PICK m \in net : AbsorbDigest(m)
    BY <1>8
  <2>2. m.dst \in Peer /\ m.src \in Peer
    BY <2>1 DEF NetType, Datagram
  <2>. QED
    BY <2>1, <2>2 DEF HelloType, AbsorbDigest, seen
<1>9. CASE \E m \in net : AbsorbBye(m) /\ UNCHANGED net
  BY <1>9 DEF HelloType, AbsorbBye, seen
<1>10. CASE UNCHANGED vars
  BY <1>10 DEF vars, HelloType, ring, digests, seen
<1>. QED
  BY <1>1, <1>2, <1>3, <1>4, <1>5, <1>6, <1>7, <1>8, <1>9, <1>10, Actions

(* The run a peer sends holds, for each tick it covers, that tick's frame. *)
LEMMA RunType ==
  ASSUME RingType, RingHolds, CountType, NEW p \in Peer
  PROVE  /\ Run(p) \in [Tick -> Tick \cup {None}]
         /\ \A t \in Carried(Run(p)) :
              /\ t \in Tick /\ Run(p)[t] = t
              /\ t < local_next[p] /\ p \in HeldBy(p, t)
<1>1. ASSUME NEW t \in Tick, InRun(p, t)
      PROVE  frames[p][p][Slot(t)] = t /\ t < local_next[p] /\ p \in HeldBy(p, t)
  <2>1. t \in Nat /\ local_next[p] \in Nat
    BY DEF Tick, CountType
  <2>2. t <= local_next[p] - 1
    BY <1>1 DEF InRun
  <2>3. t \in t..(local_next[p] - 1)
    BY <2>1, <2>2
  <2>4. p \in HeldBy(p, t)
    BY <1>1, <2>3 DEF InRun
  <2>. QED
    BY <2>1, <2>2, <2>4, HeldIsOwn
<1>2. \A t \in Tick : Run(p)[t] = IF InRun(p, t) THEN frames[p][p][Slot(t)] ELSE None
  BY DEF Run
<1>3. Run(p) \in [Tick -> Tick \cup {None}]
  BY <1>1 DEF Run
<1>. QED
  BY <1>1, <1>2, <1>3 DEF Carried

(* What a pump of p sends to q *)
LEMMA PumpSends ==
  ASSUME NEW p \in Peer, NEW q \in Peer, NEW m \in Outbound(p, q)
  PROVE  /\ m.src = p /\ m.dst = q /\ Emits(p, m.kind)
         /\ \/ m = [kind |-> "Hello", src |-> p, dst |-> q,
                    agreement |-> agreement[p]]
            \/ m = [kind |-> "Inputs", src |-> p, dst |-> q, run |-> Run(p)]
            \/ m = [kind |-> "Digest", src |-> p, dst |-> q,
                    print |-> owed_digest[p]]
            \/ m = [kind |-> "Bye", src |-> p, dst |-> q,
                    tick |-> IF pending[p] = 0 THEN 0 ELSE pending[p] - 1]
BY DEF Outbound

(* A datagram in the network after a pump was there or is the pump's.      *)
LEMMA PumpNet ==
  ASSUME NEW p \in Peer, Pump(p), NEW m \in net'
  PROVE  m \in net \/ \E q \in Remotes(p) : m \in Outbound(p, q)
BY DEF Pump

(* A datagram that goes out is one of the wire's.                          *)
LEMMA OutboundType ==
  ASSUME RingType, RingHolds, CountType, DigestType, HelloType,
         NEW p \in Peer, NEW q \in Peer, NEW m \in Outbound(p, q)
  PROVE  m \in Datagram
<1>1. CASE m = [kind |-> "Hello", src |-> p, dst |-> q, agreement |-> agreement[p]]
  BY <1>1 DEF Datagram, HelloType
<1>2. CASE m = [kind |-> "Inputs", src |-> p, dst |-> q, run |-> Run(p)]
  BY <1>2, RunType DEF Datagram
<1>3. CASE m = [kind |-> "Digest", src |-> p, dst |-> q, print |-> owed_digest[p]]
  <2>1. owed_digest[p] # None
    <3>1. m.kind = "Digest" /\ Emits(p, m.kind)
      BY <1>3, PumpSends
    <3>. QED
      BY <3>1 DEF Emits
  <2>2. owed_digest[p] \in Fingerprint
    BY <2>1 DEF DigestType
  <2>. QED
    BY <1>3, <2>2 DEF Datagram
<1>4. CASE m = [kind |-> "Bye", src |-> p, dst |-> q,
                tick |-> IF pending[p] = 0 THEN 0 ELSE pending[p] - 1]
  BY <1>4 DEF Datagram, CountType
<1>. QED
  BY <1>1, <1>2, <1>3, <1>4, PumpSends

(* Whatever is on the network is a datagram of the protocol.               *)
LEMMA NetStep ==
  ASSUME RingType, RingHolds, CountType, DigestType, HelloType, NetType,
     [Next]_vars
  PROVE  NetType'
<1>1. CASE \E p \in Peer : Submit(p)
  BY <1>1 DEF NetType, Submit
<1>2. CASE \E p \in Peer : Advance(p)
  BY <1>2 DEF NetType, Advance
<1>3. CASE \E p \in Peer : Commit(p)
  BY <1>3 DEF NetType, Commit
<1>4. CASE \E p \in Peer : Leave(p)
  BY <1>4 DEF NetType, Leave
<1>5. CASE \E p \in Peer : Pump(p)
  <2>1. PICK p \in Peer : Pump(p)
    BY <1>5
  <2>2. ASSUME NEW m \in net' PROVE m \in Datagram
    BY <2>1, <2>2, PumpNet, OutboundType DEF NetType, Remotes
  <2>. QED
    BY <2>2 DEF NetType
<1>6. CASE \E m \in net : AbsorbHello(m) /\ UNCHANGED net
  BY <1>6 DEF NetType
<1>7. CASE \E m \in net : AbsorbInputs(m) /\ UNCHANGED net
  BY <1>7 DEF NetType
<1>8. CASE \E m \in net : AbsorbDigest(m) /\ UNCHANGED net
  BY <1>8 DEF NetType
<1>9. CASE \E m \in net : AbsorbBye(m) /\ UNCHANGED net
  BY <1>9 DEF NetType
<1>10. CASE UNCHANGED vars
  BY <1>10 DEF vars, NetType, ring, digests, seen
<1>. QED
  BY <1>1, <1>2, <1>3, <1>4, <1>5, <1>6, <1>7, <1>8, <1>9, <1>10, Actions

(* A run on the network holds each tick's own frame.                       *)
LEMMA RunsStep ==
  ASSUME RingType, RingHolds, CountType, RunsHold, [Next]_vars
  PROVE  RunsHold'
<1>1. CASE \E p \in Peer : Submit(p)
  BY <1>1 DEF RunsHold, Submit
<1>2. CASE \E p \in Peer : Advance(p)
  BY <1>2 DEF RunsHold, Advance
<1>3. CASE \E p \in Peer : Commit(p)
  BY <1>3 DEF RunsHold, Commit
<1>4. CASE \E p \in Peer : Leave(p)
  BY <1>4 DEF RunsHold, Leave
<1>5. CASE \E p \in Peer : Pump(p)
  <2>1. PICK p \in Peer : Pump(p)
    BY <1>5
  <2>2. SUFFICES ASSUME NEW m \in net', m.kind = "Inputs", NEW t \in Carried(m.run)
                 PROVE  m.run[t] = t
    BY DEF RunsHold
  <2>3. CASE m \in net
    BY <2>2, <2>3 DEF RunsHold
  <2>4. ASSUME NEW q \in Remotes(p), m \in Outbound(p, q) PROVE m.run[t] = t
    <3>1. q \in Peer
      BY DEF Remotes
    <3>2. m.run = Run(p)
      BY <2>2, <2>4, <3>1, PumpSends
    <3>. QED
      BY <2>2, <3>2, RunType
  <2>. QED
    BY <2>1, <2>2, <2>3, <2>4, PumpNet
<1>6. CASE \E m \in net : AbsorbHello(m) /\ UNCHANGED net
  BY <1>6 DEF RunsHold
<1>7. CASE \E m \in net : AbsorbInputs(m) /\ UNCHANGED net
  BY <1>7 DEF RunsHold
<1>8. CASE \E m \in net : AbsorbDigest(m) /\ UNCHANGED net
  BY <1>8 DEF RunsHold
<1>9. CASE \E m \in net : AbsorbBye(m) /\ UNCHANGED net
  BY <1>9 DEF RunsHold
<1>10. CASE UNCHANGED vars
  BY <1>10 DEF vars, RunsHold, ring, digests, seen
<1>. QED
  BY <1>1, <1>2, <1>3, <1>4, <1>5, <1>6, <1>7, <1>8, <1>9, <1>10, Actions


-----------------------------------------------------------------------------
(* The core invariant: the type, and each tick's frame in its place        *)

CoreInv == TypeOK /\ RingHolds /\ RunsHold /\ Stepping

LEMMA CoreParts ==
  CoreInv <=> /\ LifeType /\ RingType /\ CountType /\ DigestType /\ HelloType
              /\ NetType /\ RingHolds /\ RunsHold /\ Stepping
BY TypeParts DEF CoreInv

LEMMA CoreInit == Init => CoreInv
<1>. SUFFICES ASSUME Init PROVE CoreInv
  OBVIOUS
<1>1. LifeType
  BY DEF Init, LifeType
<1>2. RingType
  BY DEF Init, RingType
<1>3. CountType
  <2>1. << >> \in Seq(InputSet)
    OBVIOUS
  <2>. QED
    BY <2>1 DEF Init, CountType, Tick
<1>4. DigestType
  BY DEF Init, DigestType
<1>5. HelloType
  BY DEF Init, HelloType
<1>6. NetType /\ RunsHold /\ RingHolds
  BY DEF Init, NetType, RunsHold, RingHolds
<1>7. Stepping
  BY DEF Init, Stepping
<1>. QED
  BY <1>1, <1>2, <1>3, <1>4, <1>5, <1>6, <1>7, CoreParts

LEMMA CoreStep == CoreInv /\ [Next]_vars => CoreInv'
<1>. SUFFICES ASSUME CoreInv, [Next]_vars PROVE CoreInv'
  OBVIOUS
<1>1. /\ LifeType /\ RingType /\ CountType /\ DigestType /\ HelloType
      /\ NetType /\ RingHolds /\ RunsHold /\ Stepping
  BY CoreParts
<1>2. LifeType' /\ RingType' /\ RingHolds'
  BY <1>1, LifeStep, RingStep
<1>3. CountType' /\ Stepping'
  BY <1>1, CountStep, SteppingStep
<1>4. DigestType' /\ HelloType'
  BY <1>1, DigestStep, HelloStep
<1>5. NetType' /\ RunsHold'
  BY <1>1, NetStep, RunsStep
<1>. QED
  BY <1>2, <1>3, <1>4, <1>5
     DEF CoreInv, TypeOK, LifeType, RingType, CountType, DigestType, HelloType, NetType

THEOREM CoreInvariant == Spec => []CoreInv
BY CoreInit, CoreStep, PTL DEF Spec

(* Type correctness: every session, and every datagram, keeps its shape.   *)
THEOREM TypeCorrect == Spec => []TypeOK
<1>1. CoreInv => TypeOK
  BY DEF CoreInv
<1>. QED
  BY <1>1, CoreInvariant, PTL

-----------------------------------------------------------------------------
(* The handshake: hearing a peer play proves that it heard this one.       *)

(* Nobody plays, or is past its hellos, before it has heard everyone.      *)
HeardAll ==
  \A p \in Peer : (phase[p] = "Playing" \/ emit[p] = "Inputs") => hello_seen[p] = Peer

(* Frames and fingerprints on the network come from peers that did.        *)
SentByPlayers ==
  \A m \in net : m.kind \in {"Inputs", "Digest"} => m.dst \in hello_seen[m.src]

(* Who is heard proposes the same parameters.                              *)
HeardAgree ==
  /\ \A p \in Peer : \A q \in hello_seen[p] : agreement[q] = agreement[p]
  /\ \A m \in net : m.kind = "Hello" => m.agreement = agreement[m.src]

HandshakeInv == HeardAll /\ SentByPlayers /\ HandshakeProof /\ HeardAgree

(* Hellos heard are never forgotten.                                       *)
LEMMA HeardGrows ==
  ASSUME HelloType, NetType, [Next]_vars
  PROVE  \A p \in Peer : hello_seen[p] \subseteq hello_seen'[p]
<1>1. CASE \E p \in Peer : Submit(p)
  BY <1>1 DEF Submit, seen
<1>2. CASE \E p \in Peer : Advance(p)
  BY <1>2 DEF Advance, seen
<1>3. CASE \E p \in Peer : Commit(p)
  BY <1>3 DEF Commit, seen
<1>4. CASE \E p \in Peer : Leave(p)
  BY <1>4 DEF Leave, seen
<1>5. CASE \E p \in Peer : Pump(p)
  BY <1>5 DEF Pump, seen
<1>6. CASE \E m \in net : AbsorbHello(m) /\ UNCHANGED net
  <2>1. PICK m \in net : AbsorbHello(m) /\ UNCHANGED net
    BY <1>6
  <2>2. m.dst \in Peer /\ m.src \in Peer
    BY <2>1 DEF NetType, Datagram
  <2>. QED
    BY <2>1, <2>2 DEF AbsorbHello, HelloType
<1>7. CASE \E m \in net : AbsorbInputs(m) /\ UNCHANGED net
  BY <1>7 DEF AbsorbInputs, seen
<1>8. CASE \E m \in net : AbsorbDigest(m) /\ UNCHANGED net
  BY <1>8 DEF AbsorbDigest, seen
<1>9. CASE \E m \in net : AbsorbBye(m) /\ UNCHANGED net
  BY <1>9 DEF AbsorbBye, seen
<1>10. CASE UNCHANGED vars
  BY <1>10 DEF vars, seen
<1>. QED
  BY <1>1, <1>2, <1>3, <1>4, <1>5, <1>6, <1>7, <1>8, <1>9, <1>10, Actions

(* Nobody plays before it has heard everyone.                              *)
LEMMA HeardAllStep ==
  ASSUME LifeType, HelloType, NetType, HeardAll, [Next]_vars
  PROVE  HeardAll'
<1>1. CASE \E p \in Peer : Submit(p)
  BY <1>1 DEF HeardAll, LifeType, HelloType, Submit, Started, seen
<1>2. CASE \E p \in Peer : Advance(p)
  BY <1>2 DEF HeardAll, Advance, seen
<1>3. CASE \E p \in Peer : Commit(p)
  <2>1. PICK p \in Peer : Commit(p)
    BY <1>3
  <2>2. phase'[p] \in {phase[p], "Over"} /\ \A a \in Peer \ {p} : phase'[a] = phase[a]
    BY <2>1 DEF Commit, Judge, Ended, LifeType
  <2>. QED
    BY <2>1, <2>2 DEF HeardAll, LifeType, HelloType, Commit, seen
<1>4. CASE \E p \in Peer : Leave(p)
  <2>1. PICK p \in Peer : Leave(p)
    BY <1>4
  <2>2. phase'[p] \in {phase[p], "Over"} /\ \A a \in Peer \ {p} : phase'[a] = phase[a]
    BY <2>1 DEF Leave, Judge, Ended, LifeType
  <2>. QED
    BY <2>1, <2>2 DEF HeardAll, LifeType, HelloType, Leave, seen
<1>5. CASE \E p \in Peer : Pump(p)
  BY <1>5 DEF HeardAll, LifeType, HelloType, Pump, FirstEmit, HelloOwed, seen
<1>6. CASE \E m \in net : AbsorbHello(m) /\ UNCHANGED net
  <2>1. PICK m \in net : AbsorbHello(m) /\ UNCHANGED net
    BY <1>6
  <2>2. m.dst \in Peer /\ m.src \in Peer
    BY <2>1 DEF NetType, Datagram
  <2>. QED
    BY <2>1, <2>2 DEF HeardAll, LifeType, HelloType, AbsorbHello, Started
<1>7. CASE \E m \in net : AbsorbInputs(m) /\ UNCHANGED net
  BY <1>7 DEF HeardAll, AbsorbInputs
<1>8. CASE \E m \in net : AbsorbDigest(m) /\ UNCHANGED net
  <2>1. PICK m \in net : AbsorbDigest(m) /\ UNCHANGED net
    BY <1>8
  <2>2. m.dst \in Peer /\ m.src \in Peer
    BY <2>1 DEF NetType, Datagram
  <2>3. phase'[m.dst] \in {phase[m.dst], "Over"} /\ \A a \in Peer \ {m.dst} : phase'[a] = phase[a]
    BY <2>1, <2>2 DEF AbsorbDigest, Judge, Ended, LifeType
  <2>. QED
    BY <2>1, <2>2, <2>3 DEF HeardAll, LifeType, HelloType, AbsorbDigest, seen
<1>9. CASE \E m \in net : AbsorbBye(m) /\ UNCHANGED net
  <2>1. PICK m \in net : AbsorbBye(m) /\ UNCHANGED net
    BY <1>9
  <2>2. m.dst \in Peer /\ m.src \in Peer
    BY <2>1 DEF NetType, Datagram
  <2>3. phase'[m.dst] \in {phase[m.dst], "Over"} /\ \A a \in Peer \ {m.dst} : phase'[a] = phase[a]
    BY <2>1, <2>2 DEF AbsorbBye, Judge, Ended, LifeType
  <2>. QED
    BY <2>1, <2>2, <2>3 DEF HeardAll, LifeType, HelloType, AbsorbBye, seen
<1>10. CASE UNCHANGED vars
  BY <1>10 DEF vars, HeardAll, ring, digests, seen
<1>. QED
  BY <1>1, <1>2, <1>3, <1>4, <1>5, <1>6, <1>7, <1>8, <1>9, <1>10, Actions

(* Frames and fingerprints are sent by peers that heard everyone.          *)
LEMMA SentStep ==
  ASSUME HelloType, NetType, HeardAll, SentByPlayers, [Next]_vars
  PROVE  SentByPlayers'
<1>1. CASE \E p \in Peer : Submit(p)
  <2>1. net' = net
    BY <1>1 DEF Submit
  <2>. QED
    BY <2>1, HeardGrows DEF SentByPlayers, NetType, Datagram
<1>2. CASE \E p \in Peer : Advance(p)
  <2>1. net' = net
    BY <1>2 DEF Advance
  <2>. QED
    BY <2>1, HeardGrows DEF SentByPlayers, NetType, Datagram
<1>3. CASE \E p \in Peer : Commit(p)
  <2>1. net' = net
    BY <1>3 DEF Commit
  <2>. QED
    BY <2>1, HeardGrows DEF SentByPlayers, NetType, Datagram
<1>4. CASE \E p \in Peer : Leave(p)
  <2>1. net' = net
    BY <1>4 DEF Leave
  <2>. QED
    BY <2>1, HeardGrows DEF SentByPlayers, NetType, Datagram
<1>5. CASE \E p \in Peer : Pump(p)
  <2>1. PICK p \in Peer : Pump(p)
    BY <1>5
  <2>2. SUFFICES ASSUME NEW m \in net', m.kind \in {"Inputs", "Digest"}
                 PROVE  m.dst \in hello_seen'[m.src]
    BY DEF SentByPlayers
  <2>3. UNCHANGED hello_seen
    BY <2>1 DEF Pump, seen
  <2>4. CASE m \in net
    BY <2>2, <2>3, <2>4 DEF SentByPlayers
  <2>5. ASSUME NEW q \in Remotes(p), m \in Outbound(p, q)
        PROVE  m.dst \in hello_seen[m.src]
    <3>1. q \in Peer
      BY DEF Remotes
    <3>2. m.src = p /\ m.dst = q /\ Emits(p, m.kind)
      BY <2>5, <3>1, PumpSends
    <3>3. phase[p] = "Playing" \/ emit[p] = "Inputs"
      BY <2>2, <3>2 DEF Emits
    <3>. QED
      BY <3>1, <3>2, <3>3 DEF HeardAll
  <2>. QED
    BY <2>1, <2>3, <2>4, <2>5, PumpNet
<1>6. CASE \E m \in net : AbsorbHello(m) /\ UNCHANGED net
  <2>1. net' = net
    BY <1>6 DEF AbsorbHello
  <2>. QED
    BY <2>1, HeardGrows DEF SentByPlayers, NetType, Datagram
<1>7. CASE \E m \in net : AbsorbInputs(m) /\ UNCHANGED net
  <2>1. net' = net
    BY <1>7 DEF AbsorbInputs
  <2>. QED
    BY <2>1, HeardGrows DEF SentByPlayers, NetType, Datagram
<1>8. CASE \E m \in net : AbsorbDigest(m) /\ UNCHANGED net
  <2>1. net' = net
    BY <1>8 DEF AbsorbDigest
  <2>. QED
    BY <2>1, HeardGrows DEF SentByPlayers, NetType, Datagram
<1>9. CASE \E m \in net : AbsorbBye(m) /\ UNCHANGED net
  <2>1. net' = net
    BY <1>9 DEF AbsorbBye
  <2>. QED
    BY <2>1, HeardGrows DEF SentByPlayers, NetType, Datagram
<1>10. CASE UNCHANGED vars
  BY <1>10 DEF vars, SentByPlayers, ring, digests, seen
<1>. QED
  BY <1>1, <1>2, <1>3, <1>4, <1>5, <1>6, <1>7, <1>8, <1>9, <1>10, Actions

(* Seeing a peer play proves that it heard this one.                       *)
LEMMA HandshakeStep ==
  ASSUME HelloType, NetType, SentByPlayers, HandshakeProof, [Next]_vars
  PROVE  HandshakeProof'
<1>1. CASE \E p \in Peer : Submit(p)
  <2>1. playing_seen' = playing_seen
    BY <1>1 DEF Submit, seen
  <2>. QED
    BY <2>1, HeardGrows DEF HandshakeProof, HelloType
<1>2. CASE \E p \in Peer : Advance(p)
  <2>1. playing_seen' = playing_seen
    BY <1>2 DEF Advance, seen
  <2>. QED
    BY <2>1, HeardGrows DEF HandshakeProof, HelloType
<1>3. CASE \E p \in Peer : Commit(p)
  <2>1. playing_seen' = playing_seen
    BY <1>3 DEF Commit, seen
  <2>. QED
    BY <2>1, HeardGrows DEF HandshakeProof, HelloType
<1>4. CASE \E p \in Peer : Leave(p)
  <2>1. playing_seen' = playing_seen
    BY <1>4 DEF Leave, seen
  <2>. QED
    BY <2>1, HeardGrows DEF HandshakeProof, HelloType
<1>5. CASE \E p \in Peer : Pump(p)
  <2>1. playing_seen' = playing_seen
    BY <1>5 DEF Pump, seen
  <2>. QED
    BY <2>1, HeardGrows DEF HandshakeProof, HelloType
<1>6. CASE \E m \in net : AbsorbHello(m) /\ UNCHANGED net
  <2>1. playing_seen' = playing_seen
    BY <1>6 DEF AbsorbHello, seen
  <2>. QED
    BY <2>1, HeardGrows DEF HandshakeProof, HelloType
<1>7. CASE \E m \in net : AbsorbInputs(m) /\ UNCHANGED net
  <2>1. PICK m \in net : AbsorbInputs(m) /\ UNCHANGED net
    BY <1>7
  <2>2. m.dst \in Peer /\ m.src \in Peer
    BY <2>1 DEF NetType, Datagram
  <2>3. m.dst \in hello_seen[m.src]
    BY <2>1 DEF SentByPlayers, AbsorbInputs
  <2>4. playing_seen' = [playing_seen EXCEPT ![m.dst] = @ \cup {m.src}]
        /\ hello_seen' = hello_seen
    BY <2>1 DEF AbsorbInputs
  <2>. QED
    BY <2>2, <2>3, <2>4 DEF HandshakeProof, HelloType
<1>8. CASE \E m \in net : AbsorbDigest(m) /\ UNCHANGED net
  <2>1. PICK m \in net : AbsorbDigest(m) /\ UNCHANGED net
    BY <1>8
  <2>2. m.dst \in Peer /\ m.src \in Peer
    BY <2>1 DEF NetType, Datagram
  <2>3. m.dst \in hello_seen[m.src]
    BY <2>1 DEF SentByPlayers, AbsorbDigest
  <2>4. playing_seen' = [playing_seen EXCEPT ![m.dst] = @ \cup {m.src}]
        /\ hello_seen' = hello_seen
    BY <2>1 DEF AbsorbDigest
  <2>. QED
    BY <2>2, <2>3, <2>4 DEF HandshakeProof, HelloType
<1>9. CASE \E m \in net : AbsorbBye(m) /\ UNCHANGED net
  <2>1. playing_seen' = playing_seen
    BY <1>9 DEF AbsorbBye, seen
  <2>. QED
    BY <2>1, HeardGrows DEF HandshakeProof, HelloType
<1>10. CASE UNCHANGED vars
  BY <1>10 DEF vars, HandshakeProof, ring, digests, seen
<1>. QED
  BY <1>1, <1>2, <1>3, <1>4, <1>5, <1>6, <1>7, <1>8, <1>9, <1>10, Actions

(* Who is heard proposes the same parameters.                              *)
LEMMA AgreeStep ==
  ASSUME HelloType, NetType, HeardAgree, [Next]_vars
  PROVE  HeardAgree'
<1>1. CASE \E p \in Peer : Submit(p)
  BY <1>1 DEF HeardAgree, Submit, seen
<1>2. CASE \E p \in Peer : Advance(p)
  BY <1>2 DEF HeardAgree, Advance, seen
<1>3. CASE \E p \in Peer : Commit(p)
  BY <1>3 DEF HeardAgree, Commit, seen
<1>4. CASE \E p \in Peer : Leave(p)
  BY <1>4 DEF HeardAgree, Leave, seen
<1>5. CASE \E p \in Peer : Pump(p)
  <2>1. PICK p \in Peer : Pump(p)
    BY <1>5
  <2>2. UNCHANGED <<hello_seen, agreement>>
    BY <2>1 DEF Pump, seen
  <2>3. ASSUME NEW m \in net', m.kind = "Hello" PROVE m.agreement = agreement[m.src]
    <3>1. CASE m \in net
      BY <2>3, <3>1 DEF HeardAgree
    <3>2. ASSUME NEW q \in Remotes(p), m \in Outbound(p, q)
          PROVE  m.agreement = agreement[m.src]
      BY <2>3, <3>2, PumpSends DEF Remotes
    <3>. QED
      BY <2>1, <3>1, <3>2, PumpNet
  <2>. QED
    BY <2>2, <2>3 DEF HeardAgree
<1>6. CASE \E m \in net : AbsorbHello(m) /\ UNCHANGED net
  <2>1. PICK m \in net : AbsorbHello(m) /\ UNCHANGED net
    BY <1>6
  <2>2. m.dst \in Peer /\ m.src \in Peer
    BY <2>1 DEF NetType, Datagram
  <2>3. agreement[m.src] = agreement[m.dst]
    BY <2>1 DEF HeardAgree, AbsorbHello, Agrees
  <2>4. hello_seen' = [hello_seen EXCEPT ![m.dst] = @ \cup {m.src}]
        /\ agreement' = agreement /\ net' = net
    BY <2>1 DEF AbsorbHello
  <2>. QED
    BY <2>2, <2>3, <2>4 DEF HeardAgree, HelloType
<1>7. CASE \E m \in net : AbsorbInputs(m) /\ UNCHANGED net
  BY <1>7 DEF HeardAgree, AbsorbInputs, seen
<1>8. CASE \E m \in net : AbsorbDigest(m) /\ UNCHANGED net
  BY <1>8 DEF HeardAgree, AbsorbDigest, seen
<1>9. CASE \E m \in net : AbsorbBye(m) /\ UNCHANGED net
  BY <1>9 DEF HeardAgree, AbsorbBye, seen
<1>10. CASE UNCHANGED vars
  BY <1>10 DEF vars, HeardAgree, ring, digests, seen
<1>. QED
  BY <1>1, <1>2, <1>3, <1>4, <1>5, <1>6, <1>7, <1>8, <1>9, <1>10, Actions


THEOREM HandshakeInvariant == Spec => []HandshakeInv
<1>1. Init => HandshakeInv
  BY DEF Init, HandshakeInv, HeardAll, SentByPlayers, HandshakeProof, HeardAgree
<1>2. CoreInv /\ HandshakeInv /\ [Next]_vars => HandshakeInv'
  BY CoreParts, HeardAllStep, SentStep, HandshakeStep, AgreeStep DEF HandshakeInv
<1>. QED
  BY <1>1, <1>2, CoreInvariant, PTL DEF Spec

(* The handshake's only acknowledgement: whoever is seen to play has heard *)
(* this peer's hello, whatever was lost or repeated (playing_seen).        *)
THEOREM HandshakeSound == Spec => []HandshakeProof
<1>1. HandshakeInv => HandshakeProof
  BY DEF HandshakeInv
<1>. QED
  BY <1>1, HandshakeInvariant, PTL

(* Nobody plays in a roster whose parameters do not all agree.             *)
THEOREM AgreementSound == Spec => []ParametersAgree
<1>1. HandshakeInv => ParametersAgree
  BY DEF HandshakeInv, HeardAll, HeardAgree, ParametersAgree
<1>. QED
  BY <1>1, HandshakeInvariant, PTL

-----------------------------------------------------------------------------
(* Lockstep: nobody runs a tick before everyone has submitted for it.      *)

(* Nobody submits beyond the delay.                                        *)
Delayed == \A p \in Peer : local_next[p] <= pending[p] + InputDelay + 1

(* What is held or on the network of a peer, it submitted.                 *)
Submitted ==
  /\ \A p, q \in Peer : \A s \in Slots :
       q \in present[p][s] => slot_tick[p][s] < local_next[q]
  /\ \A m \in net : m.kind = "Inputs" => \A t \in Carried(m.run) : t < local_next[m.src]

(* A tick that was run, or is in hand, was submitted by everyone.          *)
Reached ==
  \A p, q \in Peer :
    /\ pending[p] <= local_next[q]
    /\ uncommitted[p] # None => pending[p] < local_next[q]

SkewInv == Delayed /\ Submitted /\ Reached

(* Where a frame held after a write comes from                             *)
LEMMA WriteOrigin ==
  ASSUME RingType, NEW p \in Peer, NEW q \in Peer,
         NEW ticks \in SUBSET Tick, NEW content \in [ticks -> Tick],
         WriteFrames(p, q, content),
         NEW a \in Peer, NEW b \in Peer, NEW s \in Slots, b \in present'[a][s]
  PROVE  \/ b \in present[a][s] /\ slot_tick'[a][s] = slot_tick[a][s]
         \/ a = p /\ b = q /\ slot_tick'[a][s] \in ticks
<1>. DEFINE hit == {Slot(t) : t \in ticks}
            At(z) == CHOOSE t \in ticks : Slot(t) = z
<1>1. DOMAIN content = ticks
  OBVIOUS
<1>2. /\ slot_tick' = [slot_tick EXCEPT ![p] =
           [z \in Slots |-> IF z \in hit THEN At(z) ELSE @[z]]]
      /\ present' = [present EXCEPT ![p] =
           [z \in Slots |-> IF z \in hit THEN Claimed(p, At(z)) \cup {q} ELSE @[z]]]
  BY <1>1 DEF WriteFrames
<1>3. \A z \in hit : At(z) \in ticks /\ Slot(At(z)) = z
  OBVIOUS
<1>4. \A z \in hit : Claimed(p, At(z)) \subseteq present[p][z]
                 /\ (Claimed(p, At(z)) # {} => slot_tick[p][z] = At(z))
  BY <1>3 DEF Claimed
<1>. HIDE DEF hit, At
<1>5. CASE a # p \/ s \notin hit
  BY <1>2, <1>5 DEF RingType
<1>6. CASE a = p /\ s \in hit
  <2>1. slot_tick'[a][s] = At(s) /\ present'[a][s] = Claimed(p, At(s)) \cup {q}
    BY <1>2, <1>6 DEF RingType
  <2>. QED
    BY <2>1, <1>3, <1>4, <1>6
<1>. QED
  BY <1>5, <1>6

(* Nobody submits beyond the delay.                                        *)
LEMMA DelayedStep ==
  ASSUME CountType, Delayed, [Next]_vars
  PROVE  Delayed'
<1>1. CASE \E p \in Peer : Submit(p)
  <2>1. PICK p \in Peer : Submit(p)
    BY <1>1
  <2>2. /\ local_next' = [local_next EXCEPT ![p] = @ + 1] /\ pending' = pending
        /\ local_next[p] <= pending[p] + InputDelay
    BY <2>1 DEF Submit, WantsLocal
  <2>3. ASSUME NEW q \in Peer PROVE local_next'[q] <= pending'[q] + InputDelay + 1
    <3>1. local_next[p] \in Nat /\ pending[p] \in Nat
          /\ local_next \in [Peer -> 0..MaxTick]
      BY DEF CountType
    <3>2. CASE q = p
      <4>1. local_next'[q] = local_next[p] + 1 /\ pending'[q] = pending[p]
        BY <2>2, <3>1, <3>2
      <4>. QED
        BY <2>2, <3>1, <4>1
    <3>3. CASE q # p
      <4>1. local_next'[q] = local_next[q] /\ pending'[q] = pending[q]
        BY <2>2, <3>1, <3>3
      <4>. QED
        BY <4>1 DEF Delayed
    <3>. QED
      BY <3>2, <3>3
  <2>. QED
    BY <2>3 DEF Delayed
<1>2. CASE \E p \in Peer : Advance(p)
  <2>1. UNCHANGED <<pending, local_next>>
    BY <1>2 DEF Advance
  <2>. QED
    BY <2>1 DEF Delayed
<1>3. CASE \E p \in Peer : Commit(p)
  <2>1. PICK p \in Peer : Commit(p)
    BY <1>3
  <2>2. pending' = [pending EXCEPT ![p] = @ + 1] /\ local_next' = local_next
    BY <2>1 DEF Commit
  <2>. QED
    BY <2>2 DEF Delayed, CountType
<1>4. CASE \E p \in Peer : Leave(p)
  BY <1>4 DEF Delayed, Leave
<1>5. CASE \E p \in Peer : Pump(p)
  BY <1>5 DEF Delayed, Pump
<1>6. CASE \E m \in net : AbsorbHello(m) /\ UNCHANGED net
  BY <1>6 DEF Delayed, AbsorbHello
<1>7. CASE \E m \in net : AbsorbInputs(m) /\ UNCHANGED net
  BY <1>7 DEF Delayed, AbsorbInputs
<1>8. CASE \E m \in net : AbsorbDigest(m) /\ UNCHANGED net
  BY <1>8 DEF Delayed, AbsorbDigest
<1>9. CASE \E m \in net : AbsorbBye(m) /\ UNCHANGED net
  BY <1>9 DEF Delayed, AbsorbBye
<1>10. CASE UNCHANGED vars
  BY <1>10 DEF vars, Delayed, ring, digests, seen
<1>. QED
  BY <1>1, <1>2, <1>3, <1>4, <1>5, <1>6, <1>7, <1>8, <1>9, <1>10, Actions

(* What is held or on the network of a peer, it submitted.                 *)
LEMMA SubmittedStep ==
  ASSUME RingType, RingHolds, RunsHold, CountType, NetType, Submitted,
     [Next]_vars
  PROVE  Submitted'
<1>1. CASE \E p \in Peer : Submit(p)
  <2>1. PICK p \in Peer : Submit(p)
    BY <1>1
  <2>2. local_next' = [local_next EXCEPT ![p] = @ + 1] /\ net' = net
    BY <2>1 DEF Submit
  <2>3. \A q \in Peer : local_next[q] \in Nat /\ local_next'[q] \in Nat
                        /\ local_next[q] <= local_next'[q]
    BY <2>2 DEF CountType
  <2>4. ASSUME NEW a \in Peer, NEW b \in Peer, NEW s \in Slots, b \in present'[a][s]
        PROVE  slot_tick'[a][s] < local_next'[b]
    <3>. DEFINE ticks == {local_next[p]}
                content == [t \in ticks |-> t]
    <3>1. ticks \in SUBSET Tick
      BY <2>1 DEF Submit, CountType, Tick
    <3>2. WriteFrames(p, p, content) /\ content \in [ticks -> Tick]
      BY <2>1, <3>1 DEF Submit
    <3>. HIDE DEF content
    <3>3. \/ b \in present[a][s] /\ slot_tick'[a][s] = slot_tick[a][s]
          \/ a = p /\ b = p /\ slot_tick'[a][s] \in ticks
      BY <2>4, <3>1, <3>2, WriteOrigin
    <3>4. CASE b \in present[a][s] /\ slot_tick'[a][s] = slot_tick[a][s]
      BY <2>3, <3>4 DEF Submitted, RingHolds, Tick
    <3>5. CASE b = p /\ slot_tick'[a][s] \in ticks
      BY <2>2, <2>3, <3>5 DEF CountType
    <3>. QED
      BY <3>3, <3>4, <3>5
  <2>5. ASSUME NEW m \in net', m.kind = "Inputs", NEW t \in Carried(m.run)
        PROVE  t < local_next'[m.src]
    BY <2>2, <2>3, <2>5 DEF Submitted, NetType, Datagram, Carried, Tick
  <2>. QED
    BY <2>4, <2>5 DEF Submitted
<1>2. CASE \E p \in Peer : Advance(p)
  BY <1>2 DEF Submitted, Advance, ring
<1>3. CASE \E p \in Peer : Commit(p)
  BY <1>3 DEF Submitted, Commit, ring
<1>4. CASE \E p \in Peer : Leave(p)
  BY <1>4 DEF Submitted, Leave, ring
<1>5. CASE \E p \in Peer : Pump(p)
  <2>1. PICK p \in Peer : Pump(p)
    BY <1>5
  <2>2. UNCHANGED <<present, slot_tick, local_next>>
    BY <2>1 DEF Pump, ring
  <2>3. ASSUME NEW m \in net', m.kind = "Inputs", NEW t \in Carried(m.run)
        PROVE  t < local_next[m.src]
    <3>1. CASE m \in net
      BY <2>3, <3>1 DEF Submitted
    <3>2. ASSUME NEW q \in Remotes(p), m \in Outbound(p, q)
          PROVE  t < local_next[m.src]
      <4>1. m.src = p /\ m.run = Run(p)
        BY <2>3, <3>2, PumpSends DEF Remotes
      <4>. QED
        BY <2>3, <4>1, RunType
    <3>. QED
      BY <2>1, <3>1, <3>2, PumpNet
  <2>. QED
    BY <2>2, <2>3 DEF Submitted
<1>6. CASE \E m \in net : AbsorbHello(m) /\ UNCHANGED net
  BY <1>6 DEF Submitted, AbsorbHello, ring
<1>7. CASE \E m \in net : AbsorbInputs(m) /\ UNCHANGED net
  <2>1. PICK m \in net : AbsorbInputs(m) /\ UNCHANGED net
    BY <1>7
  <2>2. m.dst \in Peer /\ m.src \in Peer
    BY <2>1 DEF NetType, Datagram
  <2>. DEFINE fresh == {t \in Carried(m.run) :
                         InWindow(m.dst, t) /\ m.src \notin HeldBy(m.dst, t)}
              content == [t \in fresh |-> m.run[t]]
  <2>3. \A t \in fresh : t \in Tick /\ m.run[t] = t /\ t < local_next[m.src]
    BY <2>1 DEF RunsHold, Submitted, AbsorbInputs, Carried
  <2>4. WriteFrames(m.dst, m.src, content) /\ net' = net /\ local_next' = local_next
    BY <2>1 DEF AbsorbInputs
  <2>5. content \in [fresh -> Tick] /\ fresh \in SUBSET Tick
    BY <2>3
  <2>. HIDE DEF fresh, content
  <2>6. ASSUME NEW a \in Peer, NEW b \in Peer, NEW s \in Slots, b \in present'[a][s]
        PROVE  slot_tick'[a][s] < local_next[b]
    <3>1. \/ b \in present[a][s] /\ slot_tick'[a][s] = slot_tick[a][s]
          \/ a = m.dst /\ b = m.src /\ slot_tick'[a][s] \in fresh
      BY <2>2, <2>4, <2>5, <2>6, WriteOrigin
    <3>. QED
      BY <2>3, <3>1 DEF Submitted
  <2>. QED
    BY <2>4, <2>6 DEF Submitted
<1>8. CASE \E m \in net : AbsorbDigest(m) /\ UNCHANGED net
  BY <1>8 DEF Submitted, AbsorbDigest, ring
<1>9. CASE \E m \in net : AbsorbBye(m) /\ UNCHANGED net
  BY <1>9 DEF Submitted, AbsorbBye, ring
<1>10. CASE UNCHANGED vars
  BY <1>10 DEF vars, Submitted, ring, digests, seen
<1>. QED
  BY <1>1, <1>2, <1>3, <1>4, <1>5, <1>6, <1>7, <1>8, <1>9, <1>10, Actions

(* A tick that was run was submitted by everyone.                          *)
LEMMA ReachedStep ==
  ASSUME RingType, RingHolds, CountType, Submitted, Reached, [Next]_vars
  PROVE  Reached'
<1>1. CASE \E p \in Peer : Submit(p)
  BY <1>1 DEF Reached, CountType, Submit
<1>2. CASE \E p \in Peer : Advance(p)
  <2>1. PICK p \in Peer : Advance(p)
    BY <1>2
  <2>2. uncommitted' = [uncommitted EXCEPT ![p] = pending[p]]
        /\ UNCHANGED <<pending, local_next>>
    BY <2>1 DEF Advance
  <2>3. \A q \in Peer : pending[p] < local_next[q]
    <3>1. pending[p] \in Nat
      BY DEF CountType
    <3>2. ASSUME NEW q \in Peer PROVE pending[p] < local_next[q]
      <4>1. q \in HeldBy(p, pending[p])
        BY <2>1 DEF Advance
      <4>2. q \in present[p][Slot(pending[p])] /\ slot_tick[p][Slot(pending[p])] = pending[p]
        BY <3>1, <4>1, HeldIsOwn
      <4>. QED
        BY <3>1, <4>2, SlotType DEF Submitted
    <3>. QED
      BY <3>2
  <2>. QED
    BY <2>2, <2>3 DEF Reached, CountType
<1>3. CASE \E p \in Peer : Commit(p)
  <2>1. PICK p \in Peer : Commit(p)
    BY <1>3
  <2>2. /\ uncommitted[p] # None
        /\ uncommitted' = [uncommitted EXCEPT ![p] = None]
        /\ pending' = [pending EXCEPT ![p] = @ + 1] /\ local_next' = local_next
    BY <2>1 DEF Commit
  <2>. QED
    BY <2>2 DEF Reached, CountType
<1>4. CASE \E p \in Peer : Leave(p)
  BY <1>4 DEF Reached, Leave
<1>5. CASE \E p \in Peer : Pump(p)
  BY <1>5 DEF Reached, Pump
<1>6. CASE \E m \in net : AbsorbHello(m) /\ UNCHANGED net
  BY <1>6 DEF Reached, AbsorbHello
<1>7. CASE \E m \in net : AbsorbInputs(m) /\ UNCHANGED net
  BY <1>7 DEF Reached, AbsorbInputs
<1>8. CASE \E m \in net : AbsorbDigest(m) /\ UNCHANGED net
  BY <1>8 DEF Reached, AbsorbDigest
<1>9. CASE \E m \in net : AbsorbBye(m) /\ UNCHANGED net
  BY <1>9 DEF Reached, AbsorbBye
<1>10. CASE UNCHANGED vars
  BY <1>10 DEF vars, Reached, ring, digests, seen
<1>. QED
  BY <1>1, <1>2, <1>3, <1>4, <1>5, <1>6, <1>7, <1>8, <1>9, <1>10, Actions


(* What is folded only changes when a tick is run.                         *)
LEMMA FoldedKept ==
  ASSUME ConfirmedAgree, folded' = folded PROVE ConfirmedAgree'
<1>. SUFFICES ASSUME NEW p \in Peer, NEW i \in 1..Len(folded'[p])
              PROVE  folded'[p][i] = [q \in Peer |-> i - 1]
  BY DEF ConfirmedAgree
<1>1. folded'[p] = folded[p] /\ i \in 1..Len(folded[p])
  OBVIOUS
<1>. QED
  BY <1>1 DEF ConfirmedAgree

(* Every tick runs with what each peer submitted for that very tick.       *)
LEMMA AgreedInputsStep ==
  ASSUME RingType, RingHolds, CountType, Stepping, ConfirmedAgree,
     [Next]_vars
  PROVE  ConfirmedAgree'
<1>1. CASE \E p \in Peer : Submit(p)
  <2>1. folded' = folded
    BY <1>1 DEF Submit
  <2>. QED
    BY <2>1, FoldedKept
<1>2. CASE \E p \in Peer : Advance(p)
  <2>1. PICK p \in Peer : Advance(p)
    BY <1>2
  <2>. DEFINE set == [q \in Peer |-> frames[p][q][Slot(pending[p])]]
  <2>2. folded' = [folded EXCEPT ![p] = Append(@, set)]
    BY <2>1 DEF Advance
  <2>3. Len(folded[p]) = pending[p] /\ pending[p] \in Nat /\ folded[p] \in Seq(InputSet)
    BY <2>1 DEF Advance, Stepping, CountType
  <2>4. \A q \in Peer : frames[p][q][Slot(pending[p])] = pending[p]
    BY <2>1, <2>3, HeldIsOwn DEF Advance
  <2>5. set = [q \in Peer |-> pending[p]]
    BY <2>4
  <2>. HIDE DEF set
  <2>6. ASSUME NEW i \in 1..Len(folded'[p])
        PROVE  folded'[p][i] = [q \in Peer |-> i - 1]
    <3>1. folded'[p] = Append(folded[p], set)
      BY <2>2 DEF CountType
    <3>2. Len(folded'[p]) = pending[p] + 1
      BY <2>3, <3>1
    <3>3. CASE i = pending[p] + 1
      <4>1. folded'[p][i] = set
        BY <2>3, <3>1, <3>3
      <4>. QED
        BY <2>3, <2>5, <3>3, <4>1
    <3>4. CASE i # pending[p] + 1
      <4>1. i \in 1..Len(folded[p])
        BY <2>3, <3>2, <3>4
      <4>2. folded'[p][i] = folded[p][i]
        BY <2>3, <3>1, <4>1
      <4>. QED
        BY <4>1, <4>2 DEF ConfirmedAgree
    <3>. QED
      BY <3>3, <3>4
  <2>7. ASSUME NEW a \in Peer, a # p, NEW i \in 1..Len(folded'[a])
        PROVE  folded'[a][i] = [q \in Peer |-> i - 1]
    <3>1. folded'[a] = folded[a]
      BY <2>2, <2>7 DEF CountType
    <3>2. i \in 1..Len(folded[a])
      BY <3>1
    <3>3. folded[a][i] = [q \in Peer |-> i - 1]
      BY <3>2 DEF ConfirmedAgree
    <3>. QED
      BY <3>1, <3>3
  <2>8. ASSUME NEW a \in Peer, NEW i \in 1..Len(folded'[a])
        PROVE  folded'[a][i] = [q \in Peer |-> i - 1]
    BY <2>6, <2>7, <2>8
  <2>. QED
    BY <2>8 DEF ConfirmedAgree
<1>3. CASE \E p \in Peer : Commit(p)
  <2>1. folded' = folded
    BY <1>3 DEF Commit
  <2>. QED
    BY <2>1, FoldedKept
<1>4. CASE \E p \in Peer : Leave(p)
  <2>1. folded' = folded
    BY <1>4 DEF Leave
  <2>. QED
    BY <2>1, FoldedKept
<1>5. CASE \E p \in Peer : Pump(p)
  <2>1. folded' = folded
    BY <1>5 DEF Pump
  <2>. QED
    BY <2>1, FoldedKept
<1>6. CASE \E m \in net : AbsorbHello(m) /\ UNCHANGED net
  <2>1. folded' = folded
    BY <1>6 DEF AbsorbHello
  <2>. QED
    BY <2>1, FoldedKept
<1>7. CASE \E m \in net : AbsorbInputs(m) /\ UNCHANGED net
  <2>1. folded' = folded
    BY <1>7 DEF AbsorbInputs
  <2>. QED
    BY <2>1, FoldedKept
<1>8. CASE \E m \in net : AbsorbDigest(m) /\ UNCHANGED net
  <2>1. folded' = folded
    BY <1>8 DEF AbsorbDigest
  <2>. QED
    BY <2>1, FoldedKept
<1>9. CASE \E m \in net : AbsorbBye(m) /\ UNCHANGED net
  <2>1. folded' = folded
    BY <1>9 DEF AbsorbBye
  <2>. QED
    BY <2>1, FoldedKept
<1>10. CASE UNCHANGED vars
  BY <1>10, FoldedKept DEF vars
<1>. QED
  BY <1>1, <1>2, <1>3, <1>4, <1>5, <1>6, <1>7, <1>8, <1>9, <1>10, Actions


(* Every peer runs the same inputs in the same order, each tick with what  *)
(* every seat submitted for that very tick: nothing the network does, and  *)
(* no reuse of a slot of the ring, changes what is run.                    *)
THEOREM InputsAgreeEverywhere == Spec => []ConfirmedAgree
<1>1. Init => ConfirmedAgree
  BY DEF Init, ConfirmedAgree
<1>2. CoreInv /\ ConfirmedAgree /\ [Next]_vars => ConfirmedAgree'
  BY CoreParts, AgreedInputsStep
<1>. QED
  BY <1>1, <1>2, CoreInvariant, PTL DEF Spec

THEOREM SkewInvariant == Spec => []SkewInv
<1>1. Init => SkewInv
  BY DEF Init, SkewInv, Delayed, Submitted, Reached
<1>2. CoreInv /\ SkewInv /\ [Next]_vars => SkewInv'
  BY CoreParts, DelayedStep, SubmittedStep, ReachedStep DEF SkewInv
<1>. QED
  BY <1>1, <1>2, CoreInvariant, PTL DEF Spec

(* No peer confirms more than the delay and one tick beyond another.       *)
THEOREM SkewBounded == Spec => []LockstepSkew
<1>1. CoreInv /\ SkewInv => LockstepSkew
  <2>. SUFFICES ASSUME CoreInv, SkewInv, NEW p \in Peer, NEW q \in Peer
                PROVE  pending[p] <= pending[q] + InputDelay + 1
    BY DEF LockstepSkew
  <2>1. pending[p] \in Nat /\ pending[q] \in Nat /\ local_next[q] \in Nat
    BY CoreParts DEF CountType
  <2>2. pending[p] <= local_next[q] /\ local_next[q] <= pending[q] + InputDelay + 1
    BY DEF SkewInv, Delayed, Reached
  <2>. QED
    BY <2>1, <2>2
<1>. QED
  BY <1>1, CoreInvariant, SkewInvariant, PTL

-----------------------------------------------------------------------------
(***************************************************************************)
(* Proofs about the input ring of Session: a frame that is still to be run *)
(* is never displaced, and the frame a peer is stalled on is in the next   *)
(* run of its author as long as the delay leaves room for it.              *)
(***************************************************************************)

(* Ticks of one slot that are less than a window apart are the same tick.  *)
LEMMA Division ==
  ASSUME NEW a \in Nat, NEW w \in Nat \ {0}
  PROVE  a = w * (a \div w) + (a % w) /\ a \div w \in Int /\ a % w \in 0..(w - 1)
OBVIOUS

LEMMA MultipleBelow ==
  ASSUME NEW x \in Int, NEW y \in Int, NEW w \in Nat \ {0},
         w * x - w * y < w, w * x - w * y >= 0
  PROVE  x = y
<1>1. w * (x - y) < w /\ w * (x - y) >= 0
  OBVIOUS
<1>2. x - y < 1
  BY <1>1
<1>3. x - y > -1
  BY <1>1
<1>. QED
  BY <1>2, <1>3

LEMMA SlotOrdered ==
  ASSUME NEW a \in Nat, NEW b \in Nat, b <= a, a - b < Window, Slot(a) = Slot(b)
  PROVE  a = b
<1>. DEFINE x == a \div Window
            y == b \div Window
<1>1. a % Window = b % Window /\ Window \in Nat \ {0}
  BY DEF Slot
<1>2. /\ x \in Int /\ y \in Int /\ a % Window \in Int
      /\ a = Window * x + (a % Window) /\ b = Window * y + (b % Window)
  BY <1>1, Division
<1>. HIDE DEF x, y
<1>3. Window * x - Window * y = a - b
  BY <1>1, <1>2
<1>4. x = y
  BY <1>1, <1>2, <1>3, MultipleBelow
<1>. QED
  BY <1>1, <1>2, <1>4

LEMMA SlotInjective ==
  ASSUME NEW a \in Nat, NEW b \in Nat, a - b < Window, b - a < Window, Slot(a) = Slot(b)
  PROVE  a = b
<1>1. CASE b <= a
  BY <1>1, SlotOrdered
<1>2. CASE a <= b
  BY <1>2, SlotOrdered
<1>. QED
  BY <1>1, <1>2

(* A write leaves alone what is held for a tick that shares no slot with   *)
(* another tick written.                                                   *)
LEMMA WriteLeaves ==
  ASSUME RingType, NEW p \in Peer, NEW q \in Peer,
         NEW ticks \in SUBSET Tick, NEW content \in [ticks -> Tick],
         WriteFrames(p, q, content),
         NEW t \in Nat, \A u \in ticks : Slot(u) = Slot(t) => u = t,
         NEW b \in HeldBy(p, t)
  PROVE  /\ b \in HeldBy(p, t)'
         /\ (b # q \/ t \notin ticks) => frames'[p][b][Slot(t)] = frames[p][b][Slot(t)]
<1>. DEFINE hit == {Slot(u) : u \in ticks}
            At(z) == CHOOSE u \in ticks : Slot(u) = z
            s == Slot(t)
<1>1. DOMAIN content = ticks
  OBVIOUS
<1>2. /\ frames' = [frames EXCEPT ![p][q] =
           [z \in Slots |-> IF z \in hit THEN content[At(z)] ELSE @[z]]]
      /\ slot_tick' = [slot_tick EXCEPT ![p] =
           [z \in Slots |-> IF z \in hit THEN At(z) ELSE @[z]]]
      /\ present' = [present EXCEPT ![p] =
           [z \in Slots |-> IF z \in hit THEN Claimed(p, At(z)) \cup {q} ELSE @[z]]]
  BY <1>1 DEF WriteFrames
<1>3. s \in Slots
  BY SlotType
<1>4. slot_tick[p][s] = t /\ b \in present[p][s]
  BY DEF HeldBy
<1>5. b \in Peer
  BY <1>3, <1>4 DEF RingType
<1>6. s \in hit => t \in ticks /\ At(s) = t
  OBVIOUS
<1>7. Claimed(p, t) = present[p][s]
  BY <1>4 DEF Claimed
<1>8. t \in ticks => s \in hit
  OBVIOUS
<1>. HIDE DEF hit, At
<1>9. slot_tick'[p][s] = t
  BY <1>2, <1>3, <1>4, <1>6 DEF RingType
<1>10. b \in present'[p][s]
  BY <1>2, <1>3, <1>4, <1>6, <1>7 DEF RingType
<1>11. b \in HeldBy(p, t)'
  BY <1>9, <1>10 DEF HeldBy
<1>12. ASSUME b # q \/ t \notin ticks PROVE frames'[p][b][s] = frames[p][b][s]
  <2>1. CASE b # q
    BY <1>2, <1>3, <1>5, <2>1 DEF RingType
  <2>2. CASE s \notin hit
    BY <1>2, <1>3, <1>5, <2>2 DEF RingType
  <2>. QED
    BY <1>6, <1>12, <2>1, <2>2
<1>. QED
  BY <1>11, <1>12

(* A write makes its author present for what it writes.                    *)
LEMMA WriteArrives ==
  ASSUME RingType, NEW p \in Peer, NEW q \in Peer, NEW t \in Tick,
         WriteFrames(p, q, [u \in {t} |-> u])
  PROVE  q \in HeldBy(p, t)'
<1>. DEFINE hit == {Slot(u) : u \in {t}}
            At(z) == CHOOSE u \in {t} : Slot(u) = z
            s == Slot(t)
<1>1. DOMAIN [u \in {t} |-> u] = {t}
  OBVIOUS
<1>2. /\ slot_tick' = [slot_tick EXCEPT ![p] =
           [z \in Slots |-> IF z \in hit THEN At(z) ELSE @[z]]]
      /\ present' = [present EXCEPT ![p] =
           [z \in Slots |-> IF z \in hit THEN Claimed(p, At(z)) \cup {q} ELSE @[z]]]
  BY <1>1 DEF WriteFrames
<1>3. s \in hit /\ At(s) = t
  OBVIOUS
<1>4. s \in Slots
  BY SlotType DEF Tick
<1>. HIDE DEF hit, At
<1>5. slot_tick'[p][s] = t /\ q \in present'[p][s]
  BY <1>2, <1>3, <1>4 DEF RingType
<1>. QED
  BY <1>5 DEF HeldBy

-----------------------------------------------------------------------------
(* The ring holds nothing beyond the window, and a peer's own frames until *)
(* somebody has submitted for a whole window later.                        *)

HeldInWindow ==
  \A p, q \in Peer : \A s \in Slots :
    q \in present[p][s] => slot_tick[p][s] < pending[p] + Window

OwnHeld ==
  \A p \in Peer : \A t \in Tick :
    (t < local_next[p] /\ \A r \in Peer : local_next[r] <= t + Window)
      => p \in HeldBy(p, t)

(* What AbsorbInputs writes: submitted by its author, inside the window,   *)
(* and not held before.                                                    *)
LEMMA AbsorbWrites ==
  ASSUME RunsHold, NetType, CountType, Submitted, NEW m \in net, AbsorbInputs(m)
  PROVE  \E fresh \in SUBSET Tick : \E content \in [fresh -> Tick] :
           /\ m.dst \in Peer /\ m.src \in Peer
           /\ WriteFrames(m.dst, m.src, content)
           /\ \A t \in fresh :
                /\ content[t] = t /\ t < local_next[m.src]
                /\ pending[m.dst] <= t /\ t < pending[m.dst] + Window
                /\ m.src \notin HeldBy(m.dst, t)
<1>. DEFINE fresh == {t \in Carried(m.run) :
                       InWindow(m.dst, t) /\ m.src \notin HeldBy(m.dst, t)}
            content == [t \in fresh |-> m.run[t]]
<1>1. m.dst \in Peer /\ m.src \in Peer
  BY DEF NetType, Datagram
<1>2. \A t \in fresh : /\ t \in Tick /\ m.run[t] = t /\ t < local_next[m.src]
                       /\ InWindow(m.dst, t) /\ m.src \notin HeldBy(m.dst, t)
  BY DEF RunsHold, Submitted, AbsorbInputs, Carried
<1>3. WriteFrames(m.dst, m.src, content)
  BY DEF AbsorbInputs
<1>4. \A t \in fresh : pending[m.dst] <= t /\ t < pending[m.dst] + Window
  BY <1>1, <1>2 DEF InWindow, Tick, CountType
<1>5. fresh \in SUBSET Tick /\ content \in [fresh -> Tick]
      /\ \A t \in fresh : content[t] = t
  BY <1>2
<1>. HIDE DEF fresh, content
<1>. QED
  BY <1>1, <1>2, <1>3, <1>4, <1>5

(* What Submit writes                                                      *)
LEMMA SubmitWrites ==
  ASSUME CountType, NEW p \in Peer, Submit(p)
  PROVE  /\ local_next[p] \in Tick
         /\ local_next[p] < pending[p] + Window
         /\ local_next' = [local_next EXCEPT ![p] = @ + 1] /\ pending' = pending
         /\ WriteFrames(p, p, [u \in {local_next[p]} |-> u])
<1>1. /\ local_next[p] < MaxTick /\ local_next[p] - pending[p] < Window
      /\ local_next' = [local_next EXCEPT ![p] = @ + 1] /\ pending' = pending
      /\ WriteFrames(p, p, [u \in {local_next[p]} |-> u])
  BY DEF Submit, WantsLocal
<1>2. local_next[p] \in Nat /\ pending[p] \in Nat
  BY DEF CountType
<1>. QED
  BY <1>1, <1>2 DEF Tick

(* Nothing is held beyond the window.                                      *)
LEMMA HeldInWindowStep ==
  ASSUME RingType, RingHolds, RunsHold, CountType, NetType, Submitted,
     HeldInWindow, [Next]_vars
  PROVE  HeldInWindow'
<1>1. CASE \E p \in Peer : Submit(p)
  <2>1. PICK p \in Peer : Submit(p)
    BY <1>1
  <2>. DEFINE ticks == {local_next[p]}
              content == [u \in ticks |-> u]
  <2>2. /\ local_next[p] \in Tick /\ local_next[p] < pending[p] + Window
        /\ pending' = pending /\ WriteFrames(p, p, content)
    BY <2>1, SubmitWrites
  <2>3. content \in [ticks -> Tick] /\ ticks \in SUBSET Tick
    BY <2>2
  <2>. HIDE DEF content
  <2>4. ASSUME NEW a \in Peer, NEW b \in Peer, NEW s \in Slots, b \in present'[a][s]
        PROVE  slot_tick'[a][s] < pending[a] + Window
    <3>1. \/ b \in present[a][s] /\ slot_tick'[a][s] = slot_tick[a][s]
          \/ a = p /\ b = p /\ slot_tick'[a][s] \in ticks
      BY <2>2, <2>3, <2>4, WriteOrigin
    <3>. QED
      BY <2>2, <3>1 DEF HeldInWindow
  <2>. QED
    BY <2>2, <2>4 DEF HeldInWindow
<1>2. CASE \E p \in Peer : Advance(p)
  BY <1>2 DEF HeldInWindow, Advance, ring
<1>3. CASE \E p \in Peer : Commit(p)
  <2>1. PICK p \in Peer : Commit(p)
    BY <1>3
  <2>2. /\ pending' = [pending EXCEPT ![p] = @ + 1]
        /\ UNCHANGED <<present, slot_tick>>
    BY <2>1 DEF Commit, ring
  <2>3. \A a \in Peer : pending[a] \in Nat /\ pending'[a] \in Nat /\ pending[a] <= pending'[a]
    BY <2>2 DEF CountType
  <2>4. ASSUME NEW a \in Peer, NEW b \in Peer, NEW s \in Slots, b \in present[a][s]
        PROVE  slot_tick[a][s] < pending'[a] + Window
    <3>1. slot_tick[a][s] \in Nat /\ slot_tick[a][s] < pending[a] + Window
      BY <2>4 DEF RingHolds, HeldInWindow, Tick
    <3>. QED
      BY <2>3, <3>1
  <2>. QED
    BY <2>2, <2>4 DEF HeldInWindow
<1>4. CASE \E p \in Peer : Leave(p)
  BY <1>4 DEF HeldInWindow, Leave, ring
<1>5. CASE \E p \in Peer : Pump(p)
  BY <1>5 DEF HeldInWindow, Pump, ring
<1>6. CASE \E m \in net : AbsorbHello(m) /\ UNCHANGED net
  BY <1>6 DEF HeldInWindow, AbsorbHello, ring
<1>7. CASE \E m \in net : AbsorbInputs(m) /\ UNCHANGED net
  <2>1. PICK m \in net : AbsorbInputs(m)
    BY <1>7
  <2>2. PICK fresh \in SUBSET Tick : \E content \in [fresh -> Tick] :
          /\ m.dst \in Peer /\ m.src \in Peer
          /\ WriteFrames(m.dst, m.src, content)
          /\ \A t \in fresh : t < pending[m.dst] + Window
    BY <2>1, AbsorbWrites
  <2>3. pending' = pending
    BY <2>1 DEF AbsorbInputs
  <2>4. ASSUME NEW a \in Peer, NEW b \in Peer, NEW s \in Slots, b \in present'[a][s]
        PROVE  slot_tick'[a][s] < pending[a] + Window
    <3>1. \/ b \in present[a][s] /\ slot_tick'[a][s] = slot_tick[a][s]
          \/ a = m.dst /\ b = m.src /\ slot_tick'[a][s] \in fresh
      BY <2>2, <2>4, WriteOrigin
    <3>. QED
      BY <2>2, <3>1 DEF HeldInWindow
  <2>. QED
    BY <2>3, <2>4 DEF HeldInWindow
<1>8. CASE \E m \in net : AbsorbDigest(m) /\ UNCHANGED net
  BY <1>8 DEF HeldInWindow, AbsorbDigest, ring
<1>9. CASE \E m \in net : AbsorbBye(m) /\ UNCHANGED net
  BY <1>9 DEF HeldInWindow, AbsorbBye, ring
<1>10. CASE UNCHANGED vars
  BY <1>10 DEF vars, HeldInWindow, ring, digests, seen
<1>. QED
  BY <1>1, <1>2, <1>3, <1>4, <1>5, <1>6, <1>7, <1>8, <1>9, <1>10, Actions

(* A peer's own frames stay until a window later is submitted for.         *)
LEMMA OwnHeldStep ==
  ASSUME RingType, RingHolds, RunsHold, CountType, NetType, Submitted,
     Delayed, OwnHeld, [Next]_vars
  PROVE  OwnHeld'
<1>1. CASE \E p \in Peer : Submit(p)
  <2>1. PICK p \in Peer : Submit(p)
    BY <1>1
  <2>. DEFINE ticks == {local_next[p]}
              content == [u \in ticks |-> u]
  <2>2. /\ local_next[p] \in Tick
        /\ local_next' = [local_next EXCEPT ![p] = @ + 1]
        /\ WriteFrames(p, p, [u \in {local_next[p]} |-> u])
    BY <2>1, SubmitWrites
  <2>3. content \in [ticks -> Tick] /\ ticks \in SUBSET Tick /\ WriteFrames(p, p, content)
    BY <2>2
  <2>. HIDE DEF content
  <2>4. \A r \in Peer : local_next[r] \in Nat /\ local_next'[r] \in Nat
                        /\ local_next[r] <= local_next'[r]
    BY <2>2 DEF CountType
  <2>5. SUFFICES ASSUME NEW a \in Peer, NEW t \in Tick, t < local_next'[a],
                        \A r \in Peer : local_next'[r] <= t + Window
                 PROVE  a \in HeldBy(a, t)'
    BY DEF OwnHeld
  <2>6. t \in Nat /\ \A r \in Peer : local_next[r] <= t + Window
    BY <2>4, <2>5 DEF Tick
  <2>7. CASE a = p /\ t = local_next[p]
    BY <2>2, <2>7, WriteArrives
  <2>8. CASE t < local_next[a]
    <3>1. a \in HeldBy(a, t)
      BY <2>6, <2>8 DEF OwnHeld
    <3>2. CASE a = p
      <4>1. local_next[p] < t + Window /\ t < local_next[p] + Window
        <5>1. local_next'[p] = local_next[p] + 1
          BY <2>2 DEF CountType
        <5>. QED
          BY <2>4, <2>5, <2>6, <2>8, <3>2, <5>1
      <4>2. \A u \in ticks : Slot(u) = Slot(t) => u = t
        BY <2>4, <2>6, <4>1, SlotInjective
      <4>. QED
        BY <2>3, <2>6, <3>1, <3>2, <4>2, WriteLeaves
    <3>3. CASE a # p
      <4>1. slot_tick'[a] = slot_tick[a] /\ present'[a] = present[a]
        BY <2>3, <3>3 DEF WriteFrames, RingType
      <4>. QED
        BY <3>1, <4>1 DEF HeldBy
    <3>. QED
      BY <3>2, <3>3
  <2>. QED
    BY <2>2, <2>4, <2>5, <2>6, <2>7, <2>8 DEF CountType
<1>2. CASE \E p \in Peer : Advance(p)
  <2>1. UNCHANGED <<slot_tick, present, local_next>>
    BY <1>2 DEF Advance, ring
  <2>. QED
    BY <2>1 DEF OwnHeld, HeldBy
<1>3. CASE \E p \in Peer : Commit(p)
  <2>1. UNCHANGED <<slot_tick, present, local_next>>
    BY <1>3 DEF Commit, ring
  <2>. QED
    BY <2>1 DEF OwnHeld, HeldBy
<1>4. CASE \E p \in Peer : Leave(p)
  <2>1. UNCHANGED <<slot_tick, present, local_next>>
    BY <1>4 DEF Leave, ring
  <2>. QED
    BY <2>1 DEF OwnHeld, HeldBy
<1>5. CASE \E p \in Peer : Pump(p)
  <2>1. UNCHANGED <<slot_tick, present, local_next>>
    BY <1>5 DEF Pump, ring
  <2>. QED
    BY <2>1 DEF OwnHeld, HeldBy
<1>6. CASE \E m \in net : AbsorbHello(m) /\ UNCHANGED net
  <2>1. UNCHANGED <<slot_tick, present, local_next>>
    BY <1>6 DEF AbsorbHello, ring
  <2>. QED
    BY <2>1 DEF OwnHeld, HeldBy
<1>7. CASE \E m \in net : AbsorbInputs(m) /\ UNCHANGED net
  <2>1. PICK m \in net : AbsorbInputs(m)
    BY <1>7
  <2>2. PICK fresh \in SUBSET Tick :
          /\ m.dst \in Peer /\ m.src \in Peer
          /\ \E content \in [fresh -> Tick] : WriteFrames(m.dst, m.src, content)
          /\ \A t \in fresh :
               /\ t < local_next[m.src]
               /\ pending[m.dst] <= t /\ t < pending[m.dst] + Window
    BY <2>1, AbsorbWrites
  <2>2a. PICK content \in [fresh -> Tick] : WriteFrames(m.dst, m.src, content)
    BY <2>2
  <2>3. local_next' = local_next
    BY <2>1 DEF AbsorbInputs
  <2>4. SUFFICES ASSUME NEW a \in Peer, NEW t \in Tick, t < local_next[a],
                        \A r \in Peer : local_next[r] <= t + Window
                 PROVE  a \in HeldBy(a, t)'
    BY <2>3 DEF OwnHeld
  <2>5. t \in Nat /\ a \in HeldBy(a, t)
    BY <2>4 DEF OwnHeld, Tick
  <2>6. CASE a = m.dst
    <3>1. ASSUME NEW u \in fresh PROVE Slot(u) = Slot(t) => u = t
      <4>1. u \in Nat /\ u < t + Window
        BY <2>2, <2>4, <2>5, SMTT(40) DEF Tick, CountType
      <4>2. t < u + Window
        <5>1. pending[a] <= u
          BY <2>2, <2>6
        <5>2. local_next[a] <= pending[a] + InputDelay + 1
          BY DEF Delayed
        <5>3. local_next[a] \in Nat /\ pending[a] \in Nat
          BY DEF CountType
        <5>. QED
          BY <2>4, <2>5, <4>1, <5>1, <5>2, <5>3
      <4>. QED
        BY <2>5, <4>1, <4>2, SlotInjective
    <3>. QED
      BY <2>2, <2>2a, <2>5, <2>6, <3>1, WriteLeaves
  <2>7. CASE a # m.dst
    <3>1. slot_tick'[a] = slot_tick[a] /\ present'[a] = present[a]
      BY <2>2, <2>2a, <2>7 DEF WriteFrames, RingType
    <3>. QED
      BY <2>5, <3>1 DEF HeldBy
  <2>. QED
    BY <2>6, <2>7
<1>8. CASE \E m \in net : AbsorbDigest(m) /\ UNCHANGED net
  <2>1. UNCHANGED <<slot_tick, present, local_next>>
    BY <1>8 DEF AbsorbDigest, ring
  <2>. QED
    BY <2>1 DEF OwnHeld, HeldBy
<1>9. CASE \E m \in net : AbsorbBye(m) /\ UNCHANGED net
  <2>1. UNCHANGED <<slot_tick, present, local_next>>
    BY <1>9 DEF AbsorbBye, ring
  <2>. QED
    BY <2>1 DEF OwnHeld, HeldBy
<1>10. CASE UNCHANGED vars
  <2>1. UNCHANGED <<slot_tick, present, local_next>>
    BY <1>10 DEF vars, ring
  <2>. QED
    BY <2>1 DEF OwnHeld, HeldBy
<1>. QED
  BY <1>1, <1>2, <1>3, <1>4, <1>5, <1>6, <1>7, <1>8, <1>9, <1>10, Actions

(* A frame that is still to be run is kept by every step.                  *)
LEMMA KeepsStep ==
  ASSUME RingType, RingHolds, RunsHold, CountType, NetType, Submitted,
     Reached, HeldInWindow, [Next]_vars
  PROVE  KeepsFrames
<1>1. CASE \E p \in Peer : Submit(p)
  <2>1. PICK p \in Peer : Submit(p)
    BY <1>1
  <2>. DEFINE ticks == {local_next[p]}
              content == [u \in ticks |-> u]
  <2>2. /\ local_next[p] \in Tick /\ local_next[p] < pending[p] + Window
        /\ pending' = pending /\ WriteFrames(p, p, content)
    BY <2>1, SubmitWrites
  <2>3. content \in [ticks -> Tick] /\ ticks \in SUBSET Tick
    BY <2>2
  <2>. HIDE DEF content
  <2>4. SUFFICES ASSUME NEW a \in Peer, NEW b \in Peer, NEW t \in Tick,
                        b \in HeldBy(a, t), pending[a] <= t
                 PROVE  /\ b \in HeldBy(a, t)'
                        /\ frames'[a][b][Slot(t)] = frames[a][b][Slot(t)]
    BY <2>2 DEF KeepsFrames
  <2>5. /\ t \in Nat /\ Slot(t) \in Slots /\ b \in present[a][Slot(t)]
        /\ slot_tick[a][Slot(t)] = t
    BY <2>4, HeldIsOwn, SlotType DEF Tick
  <2>6. t < local_next[b] /\ t < pending[a] + Window
    BY <2>5 DEF Submitted, HeldInWindow
  <2>7. CASE a = p
    <3>1. local_next[p] - t < Window /\ (b = p => t < local_next[p])
      BY <2>2, <2>4, <2>5, <2>6, <2>7, SMTT(40) DEF CountType
    <3>2. \A u \in ticks : Slot(u) = Slot(t) => u = t
      <4>1. pending[p] <= local_next[p]
        BY DEF Reached
      <4>2. t - local_next[p] < Window /\ local_next[p] \in Nat
        BY <2>5, <2>6, <2>7, <4>1 DEF CountType
      <4>. QED
        BY <2>5, <3>1, <4>2, SlotInjective
    <3>3. b # p \/ t \notin ticks
      BY <2>5, <3>1 DEF CountType
    <3>. QED
      BY <2>2, <2>3, <2>4, <2>5, <2>7, <3>2, <3>3, WriteLeaves
  <2>8. CASE a # p
    <3>1. /\ slot_tick'[a] = slot_tick[a] /\ present'[a] = present[a]
          /\ frames'[a] = frames[a]
      BY <2>2, <2>8 DEF WriteFrames, RingType
    <3>. QED
      BY <2>4, <3>1 DEF HeldBy
  <2>. QED
    BY <2>7, <2>8
<1>2. CASE \E p \in Peer : Advance(p)
  <2>1. UNCHANGED ring
    BY <1>2 DEF Advance
  <2>. QED
    BY <2>1 DEF KeepsFrames, HeldBy, ring
<1>3. CASE \E p \in Peer : Commit(p)
  <2>1. UNCHANGED ring
    BY <1>3 DEF Commit
  <2>. QED
    BY <2>1 DEF KeepsFrames, HeldBy, ring
<1>4. CASE \E p \in Peer : Leave(p)
  <2>1. UNCHANGED ring
    BY <1>4 DEF Leave
  <2>. QED
    BY <2>1 DEF KeepsFrames, HeldBy, ring
<1>5. CASE \E p \in Peer : Pump(p)
  <2>1. UNCHANGED ring
    BY <1>5 DEF Pump
  <2>. QED
    BY <2>1 DEF KeepsFrames, HeldBy, ring
<1>6. CASE \E m \in net : AbsorbHello(m) /\ UNCHANGED net
  <2>1. UNCHANGED ring
    BY <1>6 DEF AbsorbHello
  <2>. QED
    BY <2>1 DEF KeepsFrames, HeldBy, ring
<1>7. CASE \E m \in net : AbsorbInputs(m) /\ UNCHANGED net
  <2>1. PICK m \in net : AbsorbInputs(m)
    BY <1>7
  <2>2. PICK fresh \in SUBSET Tick :
          /\ m.dst \in Peer /\ m.src \in Peer
          /\ \E content \in [fresh -> Tick] : WriteFrames(m.dst, m.src, content)
          /\ \A t \in fresh :
               /\ pending[m.dst] <= t /\ t < pending[m.dst] + Window
               /\ m.src \notin HeldBy(m.dst, t)
    BY <2>1, AbsorbWrites
  <2>2a. PICK content \in [fresh -> Tick] : WriteFrames(m.dst, m.src, content)
    BY <2>2
  <2>3. pending' = pending
    BY <2>1 DEF AbsorbInputs
  <2>4. SUFFICES ASSUME NEW a \in Peer, NEW b \in Peer, NEW t \in Tick,
                        b \in HeldBy(a, t), pending[a] <= t
                 PROVE  /\ b \in HeldBy(a, t)'
                        /\ frames'[a][b][Slot(t)] = frames[a][b][Slot(t)]
    BY <2>3 DEF KeepsFrames
  <2>5. /\ t \in Nat /\ Slot(t) \in Slots /\ b \in present[a][Slot(t)]
        /\ slot_tick[a][Slot(t)] = t
    BY <2>4, HeldIsOwn, SlotType DEF Tick
  <2>6. t < pending[a] + Window
    BY <2>5 DEF HeldInWindow
  <2>7. CASE a = m.dst
    <3>1. ASSUME NEW u \in fresh PROVE Slot(u) = Slot(t) => u = t
      <4>1. u \in Nat /\ u - t < Window /\ t - u < Window
        <5>1. pending[a] <= u /\ u < pending[a] + Window
          BY <2>2, <2>7
        <5>2. u \in Nat /\ pending[a] \in Nat
          BY DEF Tick, CountType
        <5>. QED
          BY <2>4, <2>5, <2>6, <5>1, <5>2
      <4>. QED
        BY <2>5, <4>1, SlotInjective
    <3>2. b # m.src \/ t \notin fresh
      BY <2>2, <2>4, <2>7
    <3>. QED
      BY <2>2, <2>2a, <2>4, <2>5, <2>7, <3>1, <3>2, WriteLeaves
  <2>8. CASE a # m.dst
    <3>1. /\ slot_tick'[a] = slot_tick[a] /\ present'[a] = present[a]
          /\ frames'[a] = frames[a]
      BY <2>2, <2>2a, <2>8 DEF WriteFrames, RingType
    <3>. QED
      BY <2>4, <3>1 DEF HeldBy
  <2>. QED
    BY <2>7, <2>8
<1>8. CASE \E m \in net : AbsorbDigest(m) /\ UNCHANGED net
  <2>1. UNCHANGED ring
    BY <1>8 DEF AbsorbDigest
  <2>. QED
    BY <2>1 DEF KeepsFrames, HeldBy, ring
<1>9. CASE \E m \in net : AbsorbBye(m) /\ UNCHANGED net
  <2>1. UNCHANGED ring
    BY <1>9 DEF AbsorbBye
  <2>. QED
    BY <2>1 DEF KeepsFrames, HeldBy, ring
<1>10. CASE UNCHANGED vars
  <2>1. UNCHANGED ring
    BY <1>10 DEF vars
  <2>. QED
    BY <2>1 DEF KeepsFrames, HeldBy, ring
<1>. QED
  BY <1>1, <1>2, <1>3, <1>4, <1>5, <1>6, <1>7, <1>8, <1>9, <1>10, Actions


RingInv == HeldInWindow /\ OwnHeld

THEOREM RingInvariant == Spec => []RingInv
<1>1. Init => RingInv
  BY DEF Init, RingInv, HeldInWindow, OwnHeld, Tick
<1>2. CoreInv /\ SkewInv /\ RingInv /\ [Next]_vars => RingInv'
  BY CoreParts, HeldInWindowStep, OwnHeldStep DEF SkewInv, RingInv
<1>. QED
  BY <1>1, <1>2, CoreInvariant, SkewInvariant, PTL DEF Spec

(* A frame accepted for a tick not yet run stays until it is run, whatever *)
(* arrives meanwhile (absorb_inputs, submit).                              *)
THEOREM NothingForgotten == Spec => NeverForgets
<1>1. CoreInv /\ SkewInv /\ RingInv /\ [Next]_vars => [KeepsFrames]_vars
  BY CoreParts, KeepsStep DEF SkewInv, RingInv
<1>. QED
  BY <1>1, CoreInvariant, SkewInvariant, RingInvariant, PTL DEF Spec, NeverForgets

(* When the run is at least twice the delay and two ticks long, the frame  *)
(* a peer is stalled on is always in the next run of its author: the       *)
(* session recovers from any loss (render_inputs).  The crate's run of 8   *)
(* serves delays up to 3.                                                  *)
THEOREM RunsReachBack ==
  ASSUME 2 * InputDelay + 2 <= Redundancy, Redundancy <= Window
  PROVE  Spec => []RunCoversNeed
<1>1. CoreInv /\ SkewInv /\ RingInv => RunCoversNeed
  <2>. SUFFICES ASSUME CoreInv, SkewInv, RingInv, NEW p \in Peer, NEW q \in Peer,
                       pending[q] < local_next[p]
                PROVE  pending[q] \in Carried(Run(p))
    BY DEF RunCoversNeed
  <2>. DEFINE t == pending[q]
  <2>1. RingType /\ RingHolds /\ CountType /\ Delayed /\ Reached /\ OwnHeld
    BY CoreParts DEF SkewInv, RingInv
  <2>2. \A r \in Peer : local_next[r] \in Nat /\ pending[r] \in Nat
                        /\ local_next[r] <= MaxTick
    BY <2>1 DEF CountType
  <2>3. \A r \in Peer : local_next[r] <= t + 2 * InputDelay + 2
    BY <2>1, <2>2 DEF Delayed, Reached
  <2>4. t \in Tick /\ t \in Nat
    BY <2>2 DEF Tick
  <2>5. ASSUME NEW u \in t..(local_next[p] - 1) PROVE p \in HeldBy(p, u)
    <3>1. u \in Tick /\ u < local_next[p]
      BY <2>2, <2>4 DEF Tick
    <3>2. \A r \in Peer : local_next[r] <= u + Window
      BY <2>2, <2>3, <2>4
    <3>. QED
      BY <2>1, <3>1, <3>2 DEF OwnHeld
  <2>6. InRun(p, t)
    <3>1. t <= local_next[p] - 1 /\ (local_next[p] - 1) - t < Redundancy
      BY <2>2, <2>3
    <3>. QED
      BY <2>5, <3>1 DEF InRun
  <2>7. p \in HeldBy(p, t)
    BY <2>2, <2>4, <2>5
  <2>8. Run(p)[t] = t
    BY <2>1, <2>4, <2>6, <2>7, HeldIsOwn DEF Run
  <2>. QED
    BY <2>4, <2>8, NoneAssumption DEF Carried
<1>. QED
  BY <1>1, CoreInvariant, SkewInvariant, RingInvariant, PTL


-----------------------------------------------------------------------------
(***************************************************************************)
(* Proof that Session implements Lockstep: what the peers of a roster do   *)
(* together, over any network, is abstract lockstep play.                  *)
(***************************************************************************)

(* The refinement mapping of Promise, by name                              *)
Script(n) == [k \in 1..n |-> k - 1]
Scripts == [p \in Peer |-> Script(local_next[p])]
Stopped == {p \in Peer : IsDesync(outcome[p])}

(* A session that is not over has no outcome.                              *)
OverEnds == \A p \in Peer : phase[p] # "Over" => outcome[p] = None

LEMMA ScriptIsSeq ==
  ASSUME NEW n \in Nat
  PROVE  Script(n) \in Seq(Nat) /\ Len(Script(n)) = n /\ \A k \in 1..n : Script(n)[k] = k - 1
<1>1. Script(n) \in [1..n -> Nat]
  BY DEF Script
<1>2. Script(n) \in Seq(Nat)
  BY <1>1, SeqDef
<1>3. Len(Script(n)) = n
  <2>1. DOMAIN Script(n) = 1..n
    BY DEF Script
  <2>2. Len(Script(n)) \in Nat /\ DOMAIN Script(n) = 1..Len(Script(n))
    BY <1>2, LenProperties
  <2>. QED
    BY <2>1, <2>2
<1>. QED
  BY <1>2, <1>3 DEF Script

(* One more tick submitted is one more entry of the script.                *)
LEMMA ScriptGrows ==
  ASSUME NEW n \in Nat PROVE Script(n + 1) = Append(Script(n), n)
<1>1. Script(n) \in Seq(Nat) /\ Len(Script(n)) = n
  BY ScriptIsSeq
<1>2. Script(n + 1) \in Seq(Nat) /\ Len(Script(n + 1)) = n + 1
  BY ScriptIsSeq
<1>3. Append(Script(n), n) \in Seq(Nat) /\ Len(Append(Script(n), n)) = n + 1
  BY <1>1
<1>4. \A k \in 1..(n + 1) : Script(n + 1)[k] = Append(Script(n), n)[k]
  <2>. SUFFICES ASSUME NEW k \in 1..(n + 1)
                PROVE  Script(n + 1)[k] = Append(Script(n), n)[k]
    OBVIOUS
  <2>1. Script(n + 1)[k] = k - 1
    BY ScriptIsSeq
  <2>2. CASE k = n + 1
    BY <1>1, <2>1, <2>2
  <2>3. CASE k \in 1..n
    <3>1. Append(Script(n), n)[k] = Script(n)[k]
      BY <1>1, <2>3
    <3>. QED
      BY <2>1, <2>3, <3>1, ScriptIsSeq
  <2>4. k = n + 1 \/ k \in 1..n
    OBVIOUS
  <2>. QED
    BY <2>2, <2>3, <2>4, Zenon
<1>. QED
  BY <1>2, <1>3, <1>4, SeqEqual

(* The same, for a whole roster of which one peer submits.                 *)
LEMMA ScriptsGrow ==
  ASSUME CountType, NEW p \in Peer, local_next' = [local_next EXCEPT ![p] = @ + 1]
  PROVE  Scripts' = [Scripts EXCEPT ![p] = Append(@, local_next[p])]
<1>1. local_next[p] \in Nat
  BY DEF CountType
<1>2. Script(local_next[p] + 1) = Append(Script(local_next[p]), local_next[p])
  BY <1>1, ScriptGrows
<1>3. local_next'[p] = local_next[p] + 1 /\ \A q \in Peer \ {p} : local_next'[q] = local_next[q]
  BY DEF CountType
<1>4. \A q \in Peer : Script(local_next'[q]) = IF q = p THEN Append(Script(local_next[p]), local_next[p])
                                     ELSE Script(local_next[q])
  <2>. SUFFICES ASSUME NEW q \in Peer
                PROVE  Script(local_next'[q]) =
                         IF q = p THEN Append(Script(local_next[p]), local_next[p])
                         ELSE Script(local_next[q])
    OBVIOUS
  <2>1. CASE q = p
    BY <1>2, <1>3, <2>1, Zenon
  <2>2. CASE q # p
    <3>1. local_next'[q] = local_next[q]
      BY <1>3, <2>2
    <3>2. Script(local_next'[q]) = Script(local_next[q])
      BY <3>1
    <3>. QED
      BY <2>2, <3>2
  <2>. QED
    BY <2>1, <2>2
<1>. QED
  BY <1>4 DEF Scripts

(* A session that is not over has no outcome.                              *)
LEMMA OverStep ==
  ASSUME LifeType, NetType, OverEnds, [Next]_vars
  PROVE  OverEnds'
<1>1. CASE \E p \in Peer : Submit(p)
  BY <1>1 DEF OverEnds, LifeType, Submit, Started, WantsLocal
<1>2. CASE \E p \in Peer : Advance(p)
  BY <1>2 DEF OverEnds, Advance
<1>3. CASE \E p \in Peer : Commit(p)
  BY <1>3 DEF OverEnds, LifeType, Commit, Judge, Ended
<1>4. CASE \E p \in Peer : Leave(p)
  BY <1>4 DEF OverEnds, LifeType, Leave, Ended
<1>5. CASE \E p \in Peer : Pump(p)
  BY <1>5 DEF OverEnds, Pump
<1>6. CASE \E m \in net : AbsorbHello(m) /\ UNCHANGED net
  <2>1. PICK m \in net : AbsorbHello(m) /\ UNCHANGED net
    BY <1>6
  <2>2. m.dst \in Peer /\ m.src \in Peer
    BY <2>1 DEF NetType, Datagram
  <2>. QED
    BY <2>1, <2>2 DEF OverEnds, LifeType, AbsorbHello, Started
<1>7. CASE \E m \in net : AbsorbInputs(m) /\ UNCHANGED net
  BY <1>7 DEF OverEnds, AbsorbInputs
<1>8. CASE \E m \in net : AbsorbDigest(m) /\ UNCHANGED net
  <2>1. PICK m \in net : AbsorbDigest(m) /\ UNCHANGED net
    BY <1>8
  <2>2. m.dst \in Peer /\ m.src \in Peer
    BY <2>1 DEF NetType, Datagram
  <2>. QED
    BY <2>1, <2>2 DEF OverEnds, LifeType, AbsorbDigest, Judge, Ended
<1>9. CASE \E m \in net : AbsorbBye(m) /\ UNCHANGED net
  <2>1. PICK m \in net : AbsorbBye(m) /\ UNCHANGED net
    BY <1>9
  <2>2. m.dst \in Peer /\ m.src \in Peer
    BY <2>1 DEF NetType, Datagram
  <2>. QED
    BY <2>1, <2>2 DEF OverEnds, LifeType, AbsorbBye, Ended
<1>10. CASE UNCHANGED vars
  BY <1>10 DEF vars, OverEnds, ring, digests, seen
<1>. QED
  BY <1>1, <1>2, <1>3, <1>4, <1>5, <1>6, <1>7, <1>8, <1>9, <1>10, Actions


(* A peer that compares fingerprints reports a desync or reports nothing.  *)
LEMMA JudgeStops ==
  ASSUME LifeType, NEW p \in Peer, NEW t, NEW own, NEW heard, Judge(p, t, own, heard)
  PROVE  Stopped' = Stopped \/ Stopped' = Stopped \cup {p}
<1>1. CASE UNCHANGED <<phase, outcome>>
  BY <1>1 DEF Stopped
<1>2. CASE Ended(p, [kind |-> "Desynced", tick |-> t])
  <2>1. \A q \in Peer \ {p} : outcome'[q] = outcome[q]
    BY <1>2 DEF Ended, LifeType
  <2>2. outcome[p] # None => outcome'[p] = outcome[p]
    BY <1>2 DEF Ended, LifeType
  <2>3. IsDesync(outcome[p]) => IsDesync(outcome'[p])
    BY <2>2 DEF IsDesync
  <2>. QED
    BY <2>1, <2>3 DEF Stopped
<1>. QED
  BY <1>1, <1>2 DEF Judge

(* A departure is no desync.                                               *)
LEMMA DepartureStopsNone ==
  ASSUME LifeType, NEW p \in Peer, NEW result \in Outcome, result.kind # "Desynced",
         outcome[p] = None, Ended(p, result)
  PROVE  Stopped' = Stopped
<1>1. outcome' = [outcome EXCEPT ![p] = result]
  BY DEF Ended, LifeType
<1>2. ~IsDesync(outcome[p]) /\ ~IsDesync(outcome'[p])
  BY <1>1 DEF IsDesync, LifeType
<1>. QED
  BY <1>1, <1>2 DEF Stopped, LifeType

-----------------------------------------------------------------------------
(* Each step is a step of lockstep play, or none.                          *)

PromiseStep ==
  \/ \E p \in Peer : \E i \in Tick :
       /\ Scripts' = [Scripts EXCEPT ![p] = Append(@, i)]
       /\ folded' = folded /\ Stopped' = Stopped
  \/ \E p \in Peer :
       /\ p \notin Stopped
       /\ \A q \in Peer : Len(folded[p]) + 1 <= Len(Scripts[q])
       /\ folded' = [folded EXCEPT ![p] =
                       Append(@, [q \in Peer |-> Scripts[q][Len(folded[p]) + 1]])]
       /\ Scripts' = Scripts /\ Stopped' = Stopped
  \/ \E p \in Peer :
       Stopped' = Stopped \cup {p} /\ Scripts' = Scripts /\ folded' = folded
  \/ Scripts' = Scripts /\ folded' = folded /\ Stopped' = Stopped

LEMMA PromiseMapped ==
  /\ Promise!Init <=> Scripts = [p \in Peer |-> << >>] /\ folded = [p \in Peer |-> << >>]
                      /\ Stopped = {}
  /\ [Promise!Next]_(Promise!vars) <=> PromiseStep
BY DEF Promise!Init, Promise!Next, Promise!Submit, Promise!Run, Promise!Stop,
       Promise!vars, PromiseStep, Scripts, Script, Stopped

(* Every step of a session is a step of lockstep play or a stutter.        *)
LEMMA PromiseSteps ==
  ASSUME LifeType, RingType, RingHolds, CountType, Stepping, NetType,
     Submitted, OverEnds, [Next]_vars
  PROVE  PromiseStep
<1>1. CASE \E p \in Peer : Submit(p)
  <2>1. PICK p \in Peer : Submit(p)
    BY <1>1
  <2>2. local_next' = [local_next EXCEPT ![p] = @ + 1]
        /\ folded' = folded /\ outcome' = outcome
    BY <2>1 DEF Submit
  <2>3. Scripts' = [Scripts EXCEPT ![p] = Append(@, local_next[p])]
    BY <2>2, ScriptsGrow
  <2>4. Stopped' = Stopped
    BY <2>2 DEF Stopped
  <2>5. local_next[p] \in Tick
    <3>1. local_next[p] < MaxTick
      BY <2>1 DEF Submit
    <3>. QED
      BY <3>1 DEF CountType, Tick
  <2>. QED
    BY <2>2, <2>3, <2>4, <2>5 DEF PromiseStep
<1>2. CASE \E p \in Peer : Advance(p)
  <2>1. PICK p \in Peer : Advance(p)
    BY <1>2
  <2>2. UNCHANGED <<local_next, outcome>> /\ MayStep(p) /\ HeldBy(p, pending[p]) = Peer
    BY <2>1 DEF Advance
  <2>3. Scripts' = Scripts /\ Stopped' = Stopped
    BY <2>2 DEF Scripts, Stopped
  <2>4. p \notin Stopped
    BY <2>2 DEF MayStep, OverEnds, IsDesync, Stopped
  <2>5. Len(folded[p]) = pending[p] /\ pending[p] \in Nat
    BY <2>1 DEF Advance, Stepping, CountType
  <2>6. ASSUME NEW q \in Peer
        PROVE  /\ frames[p][q][Slot(pending[p])] = pending[p]
               /\ pending[p] + 1 <= Len(Scripts[q])
               /\ Scripts[q][pending[p] + 1] = pending[p]
    <3>1. q \in HeldBy(p, pending[p])
      BY <2>2
    <3>2. /\ frames[p][q][Slot(pending[p])] = pending[p]
          /\ slot_tick[p][Slot(pending[p])] = pending[p]
          /\ q \in present[p][Slot(pending[p])] /\ Slot(pending[p]) \in Slots
      BY <2>5, <3>1, HeldIsOwn, SlotType
    <3>3. pending[p] < local_next[q] /\ local_next[q] \in Nat
      BY <3>2 DEF Submitted, CountType
    <3>4. Scripts[q] = Script(local_next[q])
      BY DEF Scripts
    <3>5. pending[p] + 1 \in 1..local_next[q]
      BY <2>5, <3>3
    <3>6. Len(Script(local_next[q])) = local_next[q]
          /\ Script(local_next[q])[pending[p] + 1] = (pending[p] + 1) - 1
      BY <3>3, <3>5, ScriptIsSeq
    <3>. QED
      BY <2>5, <3>2, <3>4, <3>5, <3>6
  <2>7. [q \in Peer |-> frames[p][q][Slot(pending[p])]]
          = [q \in Peer |-> Scripts[q][Len(folded[p]) + 1]]
    BY <2>5, <2>6
  <2>8. folded' = [folded EXCEPT ![p] =
                    Append(@, [q \in Peer |-> frames[p][q][Slot(pending[p])]])]
    BY <2>1 DEF Advance
  <2>9. folded' = [folded EXCEPT ![p] =
                    Append(@, [q \in Peer |-> Scripts[q][Len(folded[p]) + 1]])]
    BY <2>7, <2>8
  <2>10. \A q \in Peer : Len(folded[p]) + 1 <= Len(Scripts[q])
    BY <2>5, <2>6
  <2>. QED
    BY <2>3, <2>4, <2>9, <2>10 DEF PromiseStep
<1>3. CASE \E p \in Peer : Commit(p)
  <2>1. PICK p \in Peer : Commit(p)
    BY <1>3
  <2>2. Scripts' = Scripts /\ folded' = folded
    BY <2>1 DEF Commit, Scripts
  <2>3. CASE UNCHANGED <<phase, outcome>>
    BY <2>2, <2>3 DEF PromiseStep, Stopped
  <2>4. CASE Judge(p, uncommitted[p], mine'[p], theirs[p])
    BY <2>2, <2>4, JudgeStops DEF PromiseStep
  <2>. QED
    BY <2>1, <2>3, <2>4 DEF Commit
<1>4. CASE \E p \in Peer : Leave(p)
  <2>1. PICK p \in Peer : Leave(p)
    BY <1>4
  <2>. DEFINE last == IF pending[p] = 0 THEN 0 ELSE pending[p] - 1
              result == [kind |-> "LeftLocally", tick |-> last]
  <2>2. result \in Outcome /\ result.kind # "Desynced"
    BY DEF Outcome, CountType
  <2>3. outcome[p] = None /\ Ended(p, result)
    BY <2>1 DEF Leave
  <2>. HIDE DEF result
  <2>4. Stopped' = Stopped
    BY <2>2, <2>3, DepartureStopsNone
  <2>. QED
    BY <2>1, <2>4 DEF PromiseStep, Leave, Scripts
<1>5. CASE \E p \in Peer : Pump(p)
  BY <1>5 DEF PromiseStep, Scripts, Stopped, Pump
<1>6. CASE \E m \in net : AbsorbHello(m) /\ UNCHANGED net
  BY <1>6 DEF PromiseStep, Scripts, Stopped, AbsorbHello
<1>7. CASE \E m \in net : AbsorbInputs(m) /\ UNCHANGED net
  BY <1>7 DEF PromiseStep, Scripts, Stopped, AbsorbInputs
<1>8. CASE \E m \in net : AbsorbDigest(m) /\ UNCHANGED net
  <2>1. PICK m \in net : AbsorbDigest(m) /\ UNCHANGED net
    BY <1>8
  <2>2. m.dst \in Peer /\ m.src \in Peer
    BY <2>1 DEF NetType, Datagram
  <2>3. Scripts' = Scripts /\ folded' = folded
    BY <2>1 DEF AbsorbDigest, Scripts
  <2>4. CASE UNCHANGED <<phase, outcome>>
    BY <2>3, <2>4 DEF PromiseStep, Stopped
  <2>5. CASE Judge(m.dst, m.print.tick, mine[m.dst], theirs'[m.dst])
    BY <2>2, <2>3, <2>5, JudgeStops DEF PromiseStep
  <2>. QED
    BY <2>1, <2>4, <2>5 DEF AbsorbDigest
<1>9. CASE \E m \in net : AbsorbBye(m) /\ UNCHANGED net
  <2>1. PICK m \in net : AbsorbBye(m) /\ UNCHANGED net
    BY <1>9
  <2>2. m.dst \in Peer /\ m.src \in Peer
    BY <2>1 DEF NetType, Datagram
  <2>. DEFINE result == [kind |-> "PeerLeft", peer |-> m.src, tick |-> m.tick]
  <2>3. outcome[m.dst] = None /\ Ended(m.dst, result) /\ m.tick \in Nat
    BY <2>1 DEF AbsorbBye, NetType, Datagram
  <2>4. result \in Outcome /\ result.kind # "Desynced"
    BY <2>2, <2>3 DEF Outcome
  <2>. HIDE DEF result
  <2>5. Stopped' = Stopped
    BY <2>2, <2>3, <2>4, DepartureStopsNone
  <2>. QED
    BY <2>1, <2>5 DEF PromiseStep, AbsorbBye, Scripts
<1>10. CASE UNCHANGED vars
  BY <1>10 DEF vars, PromiseStep, Scripts, Stopped, ring, digests, seen
<1>. QED
  BY <1>1, <1>2, <1>3, <1>4, <1>5, <1>6, <1>7, <1>8, <1>9, <1>10, Actions


THEOREM OverInvariant == Spec => []OverEnds
<1>1. Init => OverEnds
  BY DEF Init, OverEnds
<1>2. CoreInv /\ OverEnds /\ [Next]_vars => OverEnds'
  BY CoreParts, OverStep
<1>. QED
  BY <1>1, <1>2, CoreInvariant, PTL DEF Spec

(* What the peers run together is lockstep play: each runs a tick only     *)
(* once all have submitted for it, on what they submitted, in order, and   *)
(* runs none after it has reported a desync.                               *)
THEOREM SessionImplementsLockstep == Spec => ImplementsLockstep
<1>1. Init => Promise!Init
  <2>. SUFFICES ASSUME Init PROVE Promise!Init
    OBVIOUS
  <2>1. Scripts = [p \in Peer |-> << >>]
    <3>1. Script(0) = << >>
      BY DEF Script
    <3>. QED
      BY <3>1 DEF Init, Scripts
  <2>2. Stopped = {}
    BY DEF Init, Stopped, IsDesync
  <2>. QED
    BY <2>1, <2>2, PromiseMapped DEF Init
<1>2. CoreInv /\ SkewInv /\ OverEnds /\ [Next]_vars => [Promise!Next]_(Promise!vars)
  BY CoreParts, PromiseSteps, PromiseMapped DEF SkewInv
<1>3. Promise!Spec <=> Promise!Init /\ [][Promise!Next]_(Promise!vars)
  BY DEF Promise!Spec
<1>. QED
  BY <1>1, <1>2, CoreInvariant, SkewInvariant, OverInvariant, PTL
     DEF Spec, ImplementsLockstep, Promise!Spec


-----------------------------------------------------------------------------
(***************************************************************************)
(* Proof that a Session reports a desync only when there is one: no delay, *)
(* loss, repeat or reordering of fingerprints, and no reuse of a slot of   *)
(* the digest ring, makes a session end that should not.                   *)
(***************************************************************************)

USE NoneAssumption

(* A print that q may have published when the forks are fk and the pending *)
(* ticks pn: the inputs of every tick up to its own, already run, and q's  *)
(* departure if and only if q departed by then.                            *)
PrintFrom(print, q, fk, pn) ==
  /\ print \in Fingerprint /\ print.tick < pn[q]
  /\ Len(print.state.inputs) = print.tick + 1
  /\ \A i \in 1..(print.tick + 1) : print.state.inputs[i] = [r \in Peer |-> i - 1]
  /\ print.state.fork \in {None, q}
  /\ print.state.fork # None <=> fk[q] # None /\ fk[q] <= print.tick

(* Every print, held or under way, is one its peer may have published.     *)
MineHold == \A p \in Peer : \A s \in DigestSlots :
              mine[p][s] # None => PrintFrom(mine[p][s], p, fork, pending)
TheirsHold == \A p, q \in Peer : \A s \in DigestSlots :
                theirs[p][q][s] # None => PrintFrom(theirs[p][q][s], q, fork, pending)
OwedHold == \A p \in Peer : owed_digest[p] # None => PrintFrom(owed_digest[p], p, fork, pending)
SentHold == \A m \in net : m.kind = "Digest" => PrintFrom(m.print, m.src, fork, pending)

(* A departure was at a tick already run.                                  *)
ForkPast == \A p \in Peer : fork[p] # None => fork[p] < pending[p]

(* Behind a report of a desync there is a departure.                       *)
DepartureBehind ==
  \A p \in Peer : IsDesync(outcome[p]) =>
    \E q \in Peer : fork[q] # None /\ fork[q] <= outcome[p].tick

ReportInv == MineHold /\ TheirsHold /\ OwedHold /\ SentHold /\ ForkPast /\ DepartureBehind

(* A function of functions of functions, read after a change at one place. *)
LEMMA UpdateAt ==
  ASSUME NEW A, NEW B, NEW C, NEW V, NEW f \in [A -> [B -> [C -> V]]],
         NEW a, NEW b, NEW c, NEW v, NEW x \in A, NEW y \in B, NEW z \in C
  PROVE  \/ [f EXCEPT ![a][b][c] = v][x][y][z] = f[x][y][z]
         \/ y = b /\ [f EXCEPT ![a][b][c] = v][x][y][z] = v
OBVIOUS

(* A departure is final.                                                   *)
LEMMA ForkStays ==
  ASSUME DigestType, [Next]_vars
  PROVE  \A q \in Peer : fork[q] # None => fork'[q] = fork[q]
<1>1. CASE \E p \in Peer : Submit(p)
  BY <1>1 DEF Submit
<1>2. CASE \E p \in Peer : Advance(p)
  BY <1>2 DEF Advance
<1>3. CASE \E p \in Peer : Commit(p)
  <2>1. PICK p \in Peer : Commit(p)
    BY <1>3
  <2>2. \/ fork' = fork
        \/ fork[p] = None /\ fork' = [fork EXCEPT ![p] = uncommitted[p]]
    BY <2>1 DEF Commit
  <2>. QED
    BY <2>2 DEF DigestType
<1>4. CASE \E p \in Peer : Leave(p)
  BY <1>4 DEF Leave
<1>5. CASE \E p \in Peer : Pump(p)
  BY <1>5 DEF Pump
<1>6. CASE \E m \in net : AbsorbHello(m) /\ UNCHANGED net
  BY <1>6 DEF AbsorbHello
<1>7. CASE \E m \in net : AbsorbInputs(m) /\ UNCHANGED net
  BY <1>7 DEF AbsorbInputs
<1>8. CASE \E m \in net : AbsorbDigest(m) /\ UNCHANGED net
  BY <1>8 DEF AbsorbDigest
<1>9. CASE \E m \in net : AbsorbBye(m) /\ UNCHANGED net
  BY <1>9 DEF AbsorbBye
<1>10. CASE UNCHANGED vars
  BY <1>10 DEF vars, seen
<1>. QED
  BY <1>1, <1>2, <1>3, <1>4, <1>5, <1>6, <1>7, <1>8, <1>9, <1>10, Actions


(* No tick is run twice.                                                   *)
LEMMA PendingGrows ==
  ASSUME CountType, [Next]_vars
  PROVE  \A q \in Peer : pending'[q] \in Nat /\ pending'[q] >= pending[q]
<1>1. CASE \E p \in Peer : Commit(p)
  <2>1. PICK p \in Peer : pending' = [pending EXCEPT ![p] = @ + 1]
    BY <1>1 DEF Commit
  <2>2. \A q \in Peer : pending[q] \in Nat
    BY DEF CountType
  <2>. QED
    BY <2>1, <2>2 DEF CountType
<1>2. CASE ~\E p \in Peer : Commit(p)
  <2>1. pending' = pending
    <3>1. CASE \E p \in Peer : Submit(p)
      BY <3>1 DEF Submit
    <3>2. CASE \E p \in Peer : Advance(p)
      BY <3>2 DEF Advance
    <3>3. CASE \E p \in Peer : Leave(p)
      BY <3>3 DEF Leave
    <3>4. CASE \E p \in Peer : Pump(p)
      BY <3>4 DEF Pump
    <3>5. CASE \E m \in net : AbsorbHello(m) /\ UNCHANGED net
      BY <3>5 DEF AbsorbHello
    <3>6. CASE \E m \in net : AbsorbInputs(m) /\ UNCHANGED net
      BY <3>6 DEF AbsorbInputs
    <3>7. CASE \E m \in net : AbsorbDigest(m) /\ UNCHANGED net
      BY <3>7 DEF AbsorbDigest
    <3>8. CASE \E m \in net : AbsorbBye(m) /\ UNCHANGED net
      BY <3>8 DEF AbsorbBye
    <3>9. CASE UNCHANGED vars
      BY <3>9 DEF vars
    <3>. QED
      BY <1>2, <3>1, <3>2, <3>3, <3>4, <3>5, <3>6, <3>7, <3>8, <3>9, Actions
  <2>. QED
    BY <2>1 DEF CountType
<1>. QED
  BY <1>1, <1>2

(* Nobody departs at a tick it has run.                                    *)
LEMMA ForksNow ==
  ASSUME DigestType, CountType, Stepping, [Next]_vars, NEW q \in Peer, fork[q] = None
  PROVE  fork'[q] = None \/ fork'[q] = pending[q]
<1>1. CASE \E p \in Peer : Commit(p)
  <2>1. PICK p \in Peer : Commit(p)
    BY <1>1
  <2>2. \/ fork' = fork
        \/ fork' = [fork EXCEPT ![p] = uncommitted[p]] /\ uncommitted[p] = pending[p]
    BY <2>1 DEF Commit, Stepping, CountType
  <2>. QED
    BY <2>2 DEF DigestType
<1>2. CASE ~\E p \in Peer : Commit(p)
  <2>1. fork' = fork
    <3>1. CASE \E p \in Peer : Submit(p)
      BY <3>1 DEF Submit
    <3>2. CASE \E p \in Peer : Advance(p)
      BY <3>2 DEF Advance
    <3>3. CASE \E p \in Peer : Leave(p)
      BY <3>3 DEF Leave
    <3>4. CASE \E p \in Peer : Pump(p)
      BY <3>4 DEF Pump
    <3>5. CASE \E m \in net : AbsorbHello(m) /\ UNCHANGED net
      BY <3>5 DEF AbsorbHello
    <3>6. CASE \E m \in net : AbsorbInputs(m) /\ UNCHANGED net
      BY <3>6 DEF AbsorbInputs
    <3>7. CASE \E m \in net : AbsorbDigest(m) /\ UNCHANGED net
      BY <3>7 DEF AbsorbDigest
    <3>8. CASE \E m \in net : AbsorbBye(m) /\ UNCHANGED net
      BY <3>8 DEF AbsorbBye
    <3>9. CASE UNCHANGED vars
      BY <3>9 DEF vars
    <3>. QED
      BY <1>2, <3>1, <3>2, <3>3, <3>4, <3>5, <3>6, <3>7, <3>8, <3>9, Actions
  <2>. QED
    BY <2>1
<1>. QED
  BY <1>1, <1>2

(* Prints outlive the departures that follow them.                         *)
LEMMA PrintStays ==
  ASSUME DigestType, CountType, Stepping, [Next]_vars, NEW q \in Peer, NEW print,
         PrintFrom(print, q, fork, pending)
  PROVE  PrintFrom(print, q, fork', pending')
<1>1. print \in Fingerprint /\ print.tick \in Nat /\ print.tick < pending[q]
  BY DEF PrintFrom, Fingerprint, Tick
<1>2. pending[q] \in Nat /\ pending'[q] \in Int /\ pending'[q] >= pending[q]
  BY PendingGrows DEF CountType
<1>3. print.tick < pending'[q]
  BY <1>1, <1>2
<1>4. (fork'[q] # None /\ fork'[q] <= print.tick) <=> (fork[q] # None /\ fork[q] <= print.tick)
  <2>1. CASE fork[q] # None
    BY <2>1, ForkStays
  <2>2. CASE fork[q] = None
    BY <2>2, ForksNow, <1>1, <1>2
  <2>. QED
    BY <2>1, <2>2
<1>. QED
  BY <1>1, <1>3, <1>4 DEF PrintFrom

(* Two prints of one tick that differ show a departure.                    *)
LEMMA DissentIsReal ==
  ASSUME NEW p \in Peer, NEW q \in Peer, NEW fk, NEW pn, NEW own, NEW print, NEW t \in Nat,
         own # None => PrintFrom(own, p, fk, pn), print # None => PrintFrom(print, q, fk, pn),
         Dissents(own, print, t)
  PROVE  \E r \in Peer : fk[r] # None /\ fk[r] <= t
<1>1. /\ own.tick = t /\ print.tick = t /\ print.state # own.state
      /\ PrintFrom(own, p, fk, pn) /\ PrintFrom(print, q, fk, pn)
  BY DEF Dissents
<1>2. own.state \in World /\ print.state \in World
  BY <1>1 DEF PrintFrom, Fingerprint
<1>3. own.state.inputs \in Seq(InputSet) /\ print.state.inputs \in Seq(InputSet)
  BY <1>2 DEF World
<1>4. Len(own.state.inputs) = t + 1 /\ Len(print.state.inputs) = t + 1
  BY <1>1 DEF PrintFrom
<1>5. \A i \in 1..(t + 1) : own.state.inputs[i] = print.state.inputs[i]
  BY <1>1 DEF PrintFrom
<1>6. own.state.inputs = print.state.inputs
  BY <1>3, <1>4, <1>5, SeqEqual
<1>7. own.state.fork # print.state.fork
  BY <1>1, <1>2, <1>6 DEF World
<1>8. own.state.fork # None \/ print.state.fork # None
  BY <1>7
<1>. QED
  BY <1>1, <1>8 DEF PrintFrom

(* Comparing prints reports no desync without a departure.                 *)
LEMMA JudgeIsReal ==
  ASSUME LifeType, NEW p \in Peer, NEW t \in Nat, NEW own, NEW heard, NEW fk, NEW pn,
         own[DigestSlot(t)] # None => PrintFrom(own[DigestSlot(t)], p, fk, pn),
         \A q \in Peer : heard[q][DigestSlot(t)] # None
                           => PrintFrom(heard[q][DigestSlot(t)], q, fk, pn),
         Judge(p, t, own, heard),
         NEW a \in Peer, IsDesync(outcome'[a])
  PROVE  \/ outcome'[a] = outcome[a]
         \/ outcome'[a].tick = t /\ \E r \in Peer : fk[r] # None /\ fk[r] <= t
<1>. DEFINE report == [kind |-> "Desynced", tick |-> t]
<1>1. CASE UNCHANGED <<phase, outcome>>
  BY <1>1
<1>2. CASE (\E q \in Remotes(p) : Dissents(own[DigestSlot(t)], heard[q][DigestSlot(t)], t))
           /\ Ended(p, report)
  <2>1. PICK q \in Peer : Dissents(own[DigestSlot(t)], heard[q][DigestSlot(t)], t)
    BY <1>2 DEF Remotes
  <2>2. \E r \in Peer : fk[r] # None /\ fk[r] <= t
    BY <2>1, DissentIsReal
  <2>3. outcome' = [outcome EXCEPT ![p] = IF @ = None THEN report ELSE @]
    BY <1>2 DEF Ended
  <2>4. outcome'[a] = outcome[a] \/ outcome'[a] = report
    BY <2>3 DEF LifeType
  <2>. QED
    BY <2>2, <2>4
<1>. QED
  BY <1>1, <1>2 DEF Judge

(* The print that commit makes is one its peer may publish.                *)
LEMMA CommitPrints ==
  ASSUME CountType, Stepping, ConfirmedAgree, DigestType, ForkPast,
         NEW p \in Peer, Commit(p)
  PROVE  LET own == [tick |-> uncommitted[p],
                     state |-> [inputs |-> folded[p],
                                fork |-> IF fork'[p] = None THEN None ELSE p]]
         IN  PrintFrom(own, p, fork', pending')
<1>. DEFINE own == [tick |-> uncommitted[p],
                    state |-> [inputs |-> folded[p],
                               fork |-> IF fork'[p] = None THEN None ELSE p]]
<1>1. /\ uncommitted[p] \in Tick /\ uncommitted[p] = pending[p]
      /\ Len(folded[p]) = uncommitted[p] + 1 /\ folded[p] \in Seq(InputSet)
  BY DEF Commit, Stepping, CountType
<1>2. own \in Fingerprint
  BY <1>1 DEF Fingerprint, World
<1>3. \A i \in 1..(uncommitted[p] + 1) : folded[p][i] = [r \in Peer |-> i - 1]
  BY <1>1 DEF ConfirmedAgree
<1>4. /\ fork'[p] # None => fork'[p] <= uncommitted[p]
      /\ pending'[p] = uncommitted[p] + 1
  <2>1. fork' = fork \/ fork' = [fork EXCEPT ![p] = uncommitted[p]]
    BY DEF Commit
  <2>2. pending' = [pending EXCEPT ![p] = @ + 1]
    BY DEF Commit
  <2>. QED
    BY <1>1, <2>1, <2>2 DEF ForkPast, DigestType, CountType, Tick
<1>5. /\ own.tick = uncommitted[p] /\ own.state.inputs = folded[p]
      /\ own.state.fork = IF fork'[p] = None THEN None ELSE p
  OBVIOUS
<1>. HIDE DEF own
<1>6. /\ own.state.fork \in {None, p}
      /\ own.state.fork # None <=> fork'[p] # None /\ fork'[p] <= own.tick
  BY <1>4, <1>5
<1>7. own.tick < pending'[p]
  BY <1>1, <1>4, <1>5 DEF Tick
<1>8. PrintFrom(own, p, fork', pending')
  BY <1>1, <1>2, <1>3, <1>5, <1>6, <1>7 DEF PrintFrom
<1>. QED
  BY <1>8 DEF own

(* What a peer remembers of itself is what it may publish.                 *)
LEMMA MineStep ==
  ASSUME DigestType, CountType, Stepping, ConfirmedAgree, ForkPast,
     MineHold, [Next]_vars
  PROVE  MineHold'
<1>1. CASE \E p \in Peer : Submit(p)
  <2>1. mine' = mine
    BY <1>1 DEF Submit, digests
  <2>. QED
    BY <2>1, PrintStays DEF MineHold
<1>2. CASE \E p \in Peer : Advance(p)
  <2>1. mine' = mine
    BY <1>2 DEF Advance, digests
  <2>. QED
    BY <2>1, PrintStays DEF MineHold
<1>3. CASE \E p \in Peer : Commit(p)
  <2>1. PICK p \in Peer : Commit(p)
    BY <1>3
  <2>. DEFINE own == [tick |-> uncommitted[p],
                      state |-> [inputs |-> folded[p],
                                 fork |-> IF fork'[p] = None THEN None ELSE p]]
  <2>2. PrintFrom(own, p, fork', pending')
    BY <2>1, CommitPrints
  <2>3. \/ mine' = [mine EXCEPT ![p][DigestSlot(uncommitted[p])] = own]
        \/ mine' = mine
    BY <2>1 DEF Commit
  <2>. HIDE DEF own
  <2>4. ASSUME NEW a \in Peer, NEW s \in DigestSlots, mine'[a][s] # None
        PROVE  PrintFrom(mine'[a][s], a, fork', pending')
    <3>1. mine'[a][s] = mine[a][s] \/ (a = p /\ mine'[a][s] = own)
      BY <2>3 DEF DigestType
    <3>2. CASE mine'[a][s] = mine[a][s]
      BY <2>4, <3>2, PrintStays DEF MineHold
    <3>3. CASE a = p /\ mine'[a][s] = own
      BY <2>2, <3>3
    <3>. QED
      BY <3>1, <3>2, <3>3
  <2>. QED
    BY <2>4 DEF MineHold
<1>4. CASE \E p \in Peer : Leave(p)
  <2>1. mine' = mine
    BY <1>4 DEF Leave, digests
  <2>. QED
    BY <2>1, PrintStays DEF MineHold
<1>5. CASE \E p \in Peer : Pump(p)
  <2>1. mine' = mine
    BY <1>5 DEF Pump, digests
  <2>. QED
    BY <2>1, PrintStays DEF MineHold
<1>6. CASE \E m \in net : AbsorbHello(m) /\ UNCHANGED net
  <2>1. mine' = mine
    BY <1>6 DEF AbsorbHello, digests
  <2>. QED
    BY <2>1, PrintStays DEF MineHold
<1>7. CASE \E m \in net : AbsorbInputs(m) /\ UNCHANGED net
  <2>1. mine' = mine
    BY <1>7 DEF AbsorbInputs, digests
  <2>. QED
    BY <2>1, PrintStays DEF MineHold
<1>8. CASE \E m \in net : AbsorbDigest(m) /\ UNCHANGED net
  <2>1. mine' = mine
    BY <1>8 DEF AbsorbDigest, digests
  <2>. QED
    BY <2>1, PrintStays DEF MineHold
<1>9. CASE \E m \in net : AbsorbBye(m) /\ UNCHANGED net
  <2>1. mine' = mine
    BY <1>9 DEF AbsorbBye, digests
  <2>. QED
    BY <2>1, PrintStays DEF MineHold
<1>10. CASE UNCHANGED vars
  BY <1>10, PrintStays DEF vars, MineHold, digests
<1>. QED
  BY <1>1, <1>2, <1>3, <1>4, <1>5, <1>6, <1>7, <1>8, <1>9, <1>10, Actions

(* What a peer remembers of another is what that one may publish.          *)
LEMMA TheirsStep ==
  ASSUME DigestType, CountType, Stepping, NetType, SentHold, TheirsHold, [Next]_vars
  PROVE  TheirsHold'
<1>1. CASE \E p \in Peer : Submit(p)
  <2>1. theirs' = theirs
    BY <1>1 DEF Submit, digests
  <2>. QED
    BY <2>1, PrintStays DEF TheirsHold
<1>2. CASE \E p \in Peer : Advance(p)
  <2>1. theirs' = theirs
    BY <1>2 DEF Advance, digests
  <2>. QED
    BY <2>1, PrintStays DEF TheirsHold
<1>3. CASE \E p \in Peer : Commit(p)
  <2>1. theirs' = theirs
    BY <1>3 DEF Commit, digests
  <2>. QED
    BY <2>1, PrintStays DEF TheirsHold
<1>4. CASE \E p \in Peer : Leave(p)
  <2>1. theirs' = theirs
    BY <1>4 DEF Leave, digests
  <2>. QED
    BY <2>1, PrintStays DEF TheirsHold
<1>5. CASE \E p \in Peer : Pump(p)
  <2>1. theirs' = theirs
    BY <1>5 DEF Pump, digests
  <2>. QED
    BY <2>1, PrintStays DEF TheirsHold
<1>6. CASE \E m \in net : AbsorbHello(m) /\ UNCHANGED net
  <2>1. theirs' = theirs
    BY <1>6 DEF AbsorbHello, digests
  <2>. QED
    BY <2>1, PrintStays DEF TheirsHold
<1>7. CASE \E m \in net : AbsorbInputs(m) /\ UNCHANGED net
  <2>1. theirs' = theirs
    BY <1>7 DEF AbsorbInputs, digests
  <2>. QED
    BY <2>1, PrintStays DEF TheirsHold
<1>8. CASE \E m \in net : AbsorbDigest(m) /\ UNCHANGED net
  <2>1. PICK m \in net : AbsorbDigest(m) /\ UNCHANGED net
    BY <1>8
  <2>2. m.dst \in Peer /\ m.src \in Peer
    BY <2>1 DEF NetType, Datagram
  <2>. DEFINE slot == DigestSlot(m.print.tick)
  <2>3. PrintFrom(m.print, m.src, fork', pending')
    BY <2>1, <2>2, PrintStays DEF SentHold, AbsorbDigest
  <2>4. theirs' = [theirs EXCEPT ![m.dst][m.src][slot] = m.print] \/ theirs' = theirs
    BY <2>1 DEF AbsorbDigest
  <2>. HIDE DEF slot
  <2>5. ASSUME NEW a \in Peer, NEW b \in Peer, NEW s \in DigestSlots,
               theirs'[a][b][s] # None
        PROVE  PrintFrom(theirs'[a][b][s], b, fork', pending')
    <3>1. theirs'[a][b][s] = theirs[a][b][s]
          \/ (b = m.src /\ theirs'[a][b][s] = m.print)
      <4>1. theirs \in [Peer -> [Peer -> [DigestSlots -> Fingerprint \cup {None}]]]
        BY DEF DigestType
      <4>2. CASE theirs' = [theirs EXCEPT ![m.dst][m.src][slot] = m.print]
        BY <4>1, <4>2, UpdateAt
      <4>. QED
        BY <2>4, <4>2
    <3>2. CASE theirs'[a][b][s] = theirs[a][b][s]
      BY <2>5, <3>2, PrintStays DEF TheirsHold
    <3>3. CASE b = m.src /\ theirs'[a][b][s] = m.print
      BY <2>3, <3>3
    <3>. QED
      BY <3>1, <3>2, <3>3
  <2>. QED
    BY <2>5 DEF TheirsHold
<1>9. CASE \E m \in net : AbsorbBye(m) /\ UNCHANGED net
  <2>1. theirs' = theirs
    BY <1>9 DEF AbsorbBye, digests
  <2>. QED
    BY <2>1, PrintStays DEF TheirsHold
<1>10. CASE UNCHANGED vars
  BY <1>10, PrintStays DEF vars, TheirsHold, digests
<1>. QED
  BY <1>1, <1>2, <1>3, <1>4, <1>5, <1>6, <1>7, <1>8, <1>9, <1>10, Actions

(* What a peer is about to publish is what it may publish.                 *)
LEMMA OwedStep ==
  ASSUME DigestType, CountType, Stepping, ConfirmedAgree, ForkPast,
     OwedHold, [Next]_vars
  PROVE  OwedHold'
<1>1. CASE \E p \in Peer : Submit(p)
  <2>1. owed_digest' = owed_digest
    BY <1>1 DEF Submit, digests
  <2>. QED
    BY <2>1, PrintStays DEF OwedHold
<1>2. CASE \E p \in Peer : Advance(p)
  <2>1. owed_digest' = owed_digest
    BY <1>2 DEF Advance, digests
  <2>. QED
    BY <2>1, PrintStays DEF OwedHold
<1>3. CASE \E p \in Peer : Commit(p)
  <2>1. PICK p \in Peer : Commit(p)
    BY <1>3
  <2>. DEFINE own == [tick |-> uncommitted[p],
                      state |-> [inputs |-> folded[p],
                                 fork |-> IF fork'[p] = None THEN None ELSE p]]
  <2>2. PrintFrom(own, p, fork', pending')
    BY <2>1, CommitPrints
  <2>3. owed_digest' = [owed_digest EXCEPT ![p] = own] \/ owed_digest' = owed_digest
    BY <2>1 DEF Commit
  <2>. HIDE DEF own
  <2>4. ASSUME NEW a \in Peer, owed_digest'[a] # None
        PROVE  PrintFrom(owed_digest'[a], a, fork', pending')
    <3>1. owed_digest'[a] = owed_digest[a] \/ (a = p /\ owed_digest'[a] = own)
      BY <2>3 DEF DigestType
    <3>2. CASE owed_digest'[a] = owed_digest[a]
      BY <2>4, <3>2, PrintStays DEF OwedHold
    <3>3. CASE a = p /\ owed_digest'[a] = own
      BY <2>2, <3>3
    <3>. QED
      BY <3>1, <3>2, <3>3
  <2>. QED
    BY <2>4 DEF OwedHold
<1>4. CASE \E p \in Peer : Leave(p)
  <2>1. owed_digest' = owed_digest
    BY <1>4 DEF Leave, digests
  <2>. QED
    BY <2>1, PrintStays DEF OwedHold
<1>5. CASE \E p \in Peer : Pump(p)
  <2>1. owed_digest' = owed_digest
    BY <1>5 DEF Pump, digests
  <2>. QED
    BY <2>1, PrintStays DEF OwedHold
<1>6. CASE \E m \in net : AbsorbHello(m) /\ UNCHANGED net
  <2>1. owed_digest' = owed_digest
    BY <1>6 DEF AbsorbHello, digests
  <2>. QED
    BY <2>1, PrintStays DEF OwedHold
<1>7. CASE \E m \in net : AbsorbInputs(m) /\ UNCHANGED net
  <2>1. owed_digest' = owed_digest
    BY <1>7 DEF AbsorbInputs, digests
  <2>. QED
    BY <2>1, PrintStays DEF OwedHold
<1>8. CASE \E m \in net : AbsorbDigest(m) /\ UNCHANGED net
  <2>1. owed_digest' = owed_digest
    BY <1>8 DEF AbsorbDigest, digests
  <2>. QED
    BY <2>1, PrintStays DEF OwedHold
<1>9. CASE \E m \in net : AbsorbBye(m) /\ UNCHANGED net
  <2>1. owed_digest' = owed_digest
    BY <1>9 DEF AbsorbBye, digests
  <2>. QED
    BY <2>1, PrintStays DEF OwedHold
<1>10. CASE UNCHANGED vars
  BY <1>10, PrintStays DEF vars, OwedHold, digests
<1>. QED
  BY <1>1, <1>2, <1>3, <1>4, <1>5, <1>6, <1>7, <1>8, <1>9, <1>10, Actions

(* A print on the network is what its sender may publish.                  *)
LEMMA SentHoldStep ==
  ASSUME DigestType, CountType, Stepping, NetType, OwedHold, SentHold, [Next]_vars
  PROVE  SentHold'
<1>1. CASE \E p \in Peer : Submit(p)
  <2>1. net' = net
    BY <1>1 DEF Submit
  <2>. QED
    BY <2>1, PrintStays DEF SentHold, NetType, Datagram
<1>2. CASE \E p \in Peer : Advance(p)
  <2>1. net' = net
    BY <1>2 DEF Advance
  <2>. QED
    BY <2>1, PrintStays DEF SentHold, NetType, Datagram
<1>3. CASE \E p \in Peer : Commit(p)
  <2>1. net' = net
    BY <1>3 DEF Commit
  <2>. QED
    BY <2>1, PrintStays DEF SentHold, NetType, Datagram
<1>4. CASE \E p \in Peer : Leave(p)
  <2>1. net' = net
    BY <1>4 DEF Leave
  <2>. QED
    BY <2>1, PrintStays DEF SentHold, NetType, Datagram
<1>5. CASE \E p \in Peer : Pump(p)
  <2>1. PICK p \in Peer : Pump(p)
    BY <1>5
  <2>2. SUFFICES ASSUME NEW m \in net', m.kind = "Digest"
                 PROVE  PrintFrom(m.print, m.src, fork', pending')
    BY DEF SentHold
  <2>3. CASE m \in net
    BY <2>2, <2>3, PrintStays DEF SentHold, NetType, Datagram
  <2>4. ASSUME NEW q \in Remotes(p), m \in Outbound(p, q)
        PROVE  PrintFrom(m.print, m.src, fork', pending')
    <3>1. m.src = p /\ m.print = owed_digest[p] /\ Emits(p, "Digest")
      BY <2>2, <2>4, PumpSends DEF Remotes
    <3>2. owed_digest[p] # None
      BY <3>1 DEF Emits
    <3>. QED
      BY <3>1, <3>2, PrintStays DEF OwedHold
  <2>. QED
    BY <2>1, <2>3, <2>4, PumpNet
<1>6. CASE \E m \in net : AbsorbHello(m) /\ UNCHANGED net
  <2>1. net' = net
    BY <1>6 DEF AbsorbHello
  <2>. QED
    BY <2>1, PrintStays DEF SentHold, NetType, Datagram
<1>7. CASE \E m \in net : AbsorbInputs(m) /\ UNCHANGED net
  <2>1. net' = net
    BY <1>7 DEF AbsorbInputs
  <2>. QED
    BY <2>1, PrintStays DEF SentHold, NetType, Datagram
<1>8. CASE \E m \in net : AbsorbDigest(m) /\ UNCHANGED net
  <2>1. net' = net
    BY <1>8 DEF AbsorbDigest
  <2>. QED
    BY <2>1, PrintStays DEF SentHold, NetType, Datagram
<1>9. CASE \E m \in net : AbsorbBye(m) /\ UNCHANGED net
  <2>1. net' = net
    BY <1>9 DEF AbsorbBye
  <2>. QED
    BY <2>1, PrintStays DEF SentHold, NetType, Datagram
<1>10. CASE UNCHANGED vars
  BY <1>10, PrintStays DEF vars, SentHold, NetType, Datagram
<1>. QED
  BY <1>1, <1>2, <1>3, <1>4, <1>5, <1>6, <1>7, <1>8, <1>9, <1>10, Actions

(* A departure was at a tick already run.                                  *)
LEMMA ForkPastStep ==
  ASSUME DigestType, CountType, Stepping, ForkPast, [Next]_vars
  PROVE  ForkPast'
<1>1. CASE \E p \in Peer : Submit(p)
  BY <1>1 DEF ForkPast, Submit
<1>2. CASE \E p \in Peer : Advance(p)
  BY <1>2 DEF ForkPast, Advance
<1>3. CASE \E p \in Peer : Commit(p)
  <2>1. PICK p \in Peer : Commit(p)
    BY <1>3
  <2>2. /\ uncommitted[p] = pending[p] /\ pending[p] \in Nat
        /\ pending' = [pending EXCEPT ![p] = @ + 1]
        /\ (fork' = fork \/ fork' = [fork EXCEPT ![p] = uncommitted[p]])
    BY <2>1 DEF Commit, Stepping, CountType
  <2>. QED
    BY <2>2 DEF ForkPast, CountType, DigestType, Tick
<1>4. CASE \E p \in Peer : Leave(p)
  BY <1>4 DEF ForkPast, Leave
<1>5. CASE \E p \in Peer : Pump(p)
  BY <1>5 DEF ForkPast, Pump
<1>6. CASE \E m \in net : AbsorbHello(m) /\ UNCHANGED net
  BY <1>6 DEF ForkPast, AbsorbHello
<1>7. CASE \E m \in net : AbsorbInputs(m) /\ UNCHANGED net
  BY <1>7 DEF ForkPast, AbsorbInputs
<1>8. CASE \E m \in net : AbsorbDigest(m) /\ UNCHANGED net
  BY <1>8 DEF ForkPast, AbsorbDigest
<1>9. CASE \E m \in net : AbsorbBye(m) /\ UNCHANGED net
  BY <1>9 DEF ForkPast, AbsorbBye
<1>10. CASE UNCHANGED vars
  BY <1>10 DEF vars, ForkPast, ring, digests, seen
<1>. QED
  BY <1>1, <1>2, <1>3, <1>4, <1>5, <1>6, <1>7, <1>8, <1>9, <1>10, Actions


(* A report stays true, and a new one that is true may be added.           *)
LEMMA RealGrows ==
  ASSUME DigestType, DepartureBehind, [Next]_vars,
         \A a \in Peer : IsDesync(outcome'[a]) =>
           \/ outcome'[a] = outcome[a]
           \/ \E r \in Peer : fork'[r] # None /\ fork'[r] <= outcome'[a].tick
  PROVE  DepartureBehind'
<1>. SUFFICES ASSUME NEW a \in Peer, IsDesync(outcome'[a])
              PROVE  \E r \in Peer : fork'[r] # None /\ fork'[r] <= outcome'[a].tick
  BY DEF DepartureBehind, IsDesync
<1>1. CASE outcome'[a] = outcome[a]
  <2>1. PICK r \in Peer : fork[r] # None /\ fork[r] <= outcome[a].tick
    BY <1>1 DEF DepartureBehind
  <2>. QED
    BY <1>1, <2>1, ForkStays
<1>. QED
  BY <1>1

LEMMA RealStays ==
  ASSUME DigestType, DepartureBehind, [Next]_vars, outcome' = outcome
  PROVE  DepartureBehind'
BY RealGrows

(* A report of a desync is of a departure that happened.                   *)
LEMMA RealStep ==
  ASSUME LifeType, DigestType, CountType, Stepping, NetType, MineHold, MineHold',
     TheirsHold, TheirsHold', DepartureBehind, [Next]_vars
  PROVE  DepartureBehind'
<1>1. CASE \E p \in Peer : Submit(p)
  <2>1. outcome' = outcome
    BY <1>1 DEF Submit
  <2>. QED
    BY <2>1, RealStays
<1>2. CASE \E p \in Peer : Advance(p)
  <2>1. outcome' = outcome
    BY <1>2 DEF Advance
  <2>. QED
    BY <2>1, RealStays
<1>3. CASE \E p \in Peer : Commit(p)
  <2>1. PICK p \in Peer : Commit(p)
    BY <1>3
  <2>2. uncommitted[p] \in Nat /\ DigestSlot(uncommitted[p]) \in DigestSlots
    BY <2>1, SlotType DEF Commit, CountType, Tick
  <2>3. CASE UNCHANGED <<phase, outcome>>
    BY <2>3, RealStays
  <2>4. CASE Judge(p, uncommitted[p], mine'[p], theirs[p])
    <3>. DEFINE s == DigestSlot(uncommitted[p])
                own == mine'[p]
                heard == theirs[p]
    <3>1. own[s] # None => PrintFrom(own[s], p, fork', pending')
      BY <2>2 DEF MineHold
    <3>2. \A q \in Peer : heard[q][s] # None => PrintFrom(heard[q][s], q, fork', pending')
      BY <2>2, PrintStays DEF TheirsHold
    <3>3. Judge(p, uncommitted[p], own, heard)
      BY <2>4
    <3>. HIDE DEF own, heard
    <3>4. ASSUME NEW a \in Peer, IsDesync(outcome'[a])
          PROVE  \/ outcome'[a] = outcome[a]
                 \/ \E r \in Peer : fork'[r] # None /\ fork'[r] <= outcome'[a].tick
      <4>. DEFINE fk == fork'
                  pn == pending'
      <4>1. /\ own[s] # None => PrintFrom(own[s], p, fk, pn)
            /\ \A q \in Peer : heard[q][s] # None => PrintFrom(heard[q][s], q, fk, pn)
        BY <3>1, <3>2
      <4>. HIDE DEF fk, pn
      <4>2. \/ outcome'[a] = outcome[a]
            \/ outcome'[a].tick = uncommitted[p] /\ \E r \in Peer : fk[r] # None /\ fk[r] <= uncommitted[p]
        BY <2>2, <3>3, <3>4, <4>1, JudgeIsReal
      <4>. QED
        BY <4>2 DEF fk
    <3>. QED
      BY <3>4, RealGrows
  <2>. QED
    BY <2>1, <2>3, <2>4 DEF Commit
<1>4. CASE \E p \in Peer : Leave(p)
  <2>1. PICK p \in Peer : Leave(p)
    BY <1>4
  <2>. DEFINE last == IF pending[p] = 0 THEN 0 ELSE pending[p] - 1
              result == [kind |-> "LeftLocally", tick |-> last]
  <2>2. outcome' = [outcome EXCEPT ![p] = IF @ = None THEN result ELSE @]
    BY <2>1 DEF Leave, Ended
  <2>3. \A a \in Peer : outcome'[a] = outcome[a] \/ outcome'[a] = result
    BY <2>2 DEF LifeType
  <2>4. ~IsDesync(result)
    BY DEF IsDesync
  <2>. HIDE DEF result
  <2>. QED
    BY <2>3, <2>4, RealGrows
<1>5. CASE \E p \in Peer : Pump(p)
  <2>1. outcome' = outcome
    BY <1>5 DEF Pump
  <2>. QED
    BY <2>1, RealStays
<1>6. CASE \E m \in net : AbsorbHello(m) /\ UNCHANGED net
  <2>1. outcome' = outcome
    BY <1>6 DEF AbsorbHello
  <2>. QED
    BY <2>1, RealStays
<1>7. CASE \E m \in net : AbsorbInputs(m) /\ UNCHANGED net
  <2>1. outcome' = outcome
    BY <1>7 DEF AbsorbInputs
  <2>. QED
    BY <2>1, RealStays
<1>8. CASE \E m \in net : AbsorbDigest(m) /\ UNCHANGED net
  <2>1. PICK m \in net : AbsorbDigest(m) /\ UNCHANGED net
    BY <1>8
  <2>2. m.dst \in Peer /\ m.src \in Peer
    BY <2>1 DEF NetType, Datagram
  <2>3. m.print.tick \in Nat /\ DigestSlot(m.print.tick) \in DigestSlots
    BY <2>1, SlotType DEF AbsorbDigest, NetType, Datagram, Fingerprint, Tick
  <2>4. CASE UNCHANGED <<phase, outcome>>
    BY <2>4, RealStays
  <2>5. CASE Judge(m.dst, m.print.tick, mine[m.dst], theirs'[m.dst])
    <3>. DEFINE s == DigestSlot(m.print.tick)
                own == mine[m.dst]
                heard == theirs'[m.dst]
    <3>1. own[s] # None => PrintFrom(own[s], m.dst, fork', pending')
      BY <2>2, <2>3, PrintStays DEF MineHold
    <3>2. \A q \in Peer : heard[q][s] # None => PrintFrom(heard[q][s], q, fork', pending')
      BY <2>2, <2>3 DEF TheirsHold
    <3>3. Judge(m.dst, m.print.tick, own, heard)
      BY <2>5
    <3>. HIDE DEF own, heard
    <3>4. ASSUME NEW a \in Peer, IsDesync(outcome'[a])
          PROVE  \/ outcome'[a] = outcome[a]
                 \/ \E r \in Peer : fork'[r] # None /\ fork'[r] <= outcome'[a].tick
      <4>. DEFINE fk == fork'
                  pn == pending'
      <4>1. /\ own[s] # None => PrintFrom(own[s], m.dst, fk, pn)
            /\ \A q \in Peer : heard[q][s] # None => PrintFrom(heard[q][s], q, fk, pn)
        BY <3>1, <3>2
      <4>. HIDE DEF fk, pn
      <4>2. \/ outcome'[a] = outcome[a]
            \/ outcome'[a].tick = m.print.tick /\ \E r \in Peer : fk[r] # None /\ fk[r] <= m.print.tick
        BY <2>2, <2>3, <3>3, <3>4, <4>1, JudgeIsReal
      <4>. QED
        BY <4>2 DEF fk
    <3>. QED
      BY <3>4, RealGrows
  <2>. QED
    BY <2>1, <2>4, <2>5 DEF AbsorbDigest
<1>9. CASE \E m \in net : AbsorbBye(m) /\ UNCHANGED net
  <2>1. PICK m \in net : AbsorbBye(m) /\ UNCHANGED net
    BY <1>9
  <2>2. m.dst \in Peer /\ m.src \in Peer
    BY <2>1 DEF NetType, Datagram
  <2>. DEFINE result == [kind |-> "PeerLeft", peer |-> m.src, tick |-> m.tick]
  <2>3. outcome' = [outcome EXCEPT ![m.dst] = IF @ = None THEN result ELSE @]
    BY <2>1 DEF AbsorbBye, Ended
  <2>4. \A a \in Peer : outcome'[a] = outcome[a] \/ outcome'[a] = result
    BY <2>2, <2>3 DEF LifeType
  <2>5. ~IsDesync(result)
    BY DEF IsDesync
  <2>. HIDE DEF result
  <2>. QED
    BY <2>4, <2>5, RealGrows
<1>10. CASE UNCHANGED vars
  BY <1>10, RealStays DEF vars
<1>. QED
  BY <1>1, <1>2, <1>3, <1>4, <1>5, <1>6, <1>7, <1>8, <1>9, <1>10, Actions


THEOREM ReportInvariant == Spec => []ReportInv
<1>1. Init => ReportInv
  BY DEF Init, ReportInv, MineHold, TheirsHold, OwedHold, SentHold, ForkPast,
         DepartureBehind, IsDesync
<1>2. CoreInv /\ ConfirmedAgree /\ ReportInv /\ [Next]_vars => ReportInv'
  <2>. SUFFICES ASSUME CoreInv, ConfirmedAgree, ReportInv, [Next]_vars
                PROVE  ReportInv'
    OBVIOUS
  <2>1. LifeType /\ CountType /\ DigestType /\ NetType /\ Stepping
    BY CoreParts
  <2>2. MineHold /\ TheirsHold /\ OwedHold /\ SentHold /\ ForkPast /\ DepartureBehind
    BY DEF ReportInv
  <2>3. MineHold' /\ TheirsHold' /\ OwedHold' /\ SentHold' /\ ForkPast'
    BY <2>1, <2>2, MineStep, TheirsStep, OwedStep, SentHoldStep, ForkPastStep
  <2>4. DepartureBehind'
    BY <2>1, <2>2, <2>3, RealStep
  <2>. QED
    BY <2>3, <2>4 DEF ReportInv
<1>. QED
  BY <1>1, <1>2, CoreInvariant, InputsAgreeEverywhere, PTL DEF Spec

(* What everyone is heard to agree on was run before any departure.        *)
LEMMA AgreedIsSound ==
  ASSUME DigestType, MineHold, TheirsHold, NEW p \in Peer, NEW tick,
         NEW t \in AgreedBefore(p, tick), DigestsHeld(p, t)
  PROVE  \A q \in Peer : fork[q] # None => ~(fork[q] <= t)
<1>. DEFINE s == DigestSlot(t)
            own == mine[p][s]
<1>1. /\ t \in Tick /\ own # None /\ own.tick = t
      /\ \A q \in Remotes(p) : ~Dissents(own, theirs[p][q][s], t)
  BY DEF AgreedBefore
<1>2. s \in DigestSlots
  BY <1>1, SlotType DEF Tick
<1>3. PrintFrom(own, p, fork, pending)
  BY <1>1, <1>2 DEF MineHold
<1>4. ASSUME NEW q \in Remotes(p)
      PROVE  /\ own.state.fork = None
             /\ fork[q] # None => ~(fork[q] <= t)
  <2>. DEFINE print == theirs[p][q][s]
  <2>1. q \in Peer /\ q # p
    BY DEF Remotes
  <2>2. print # None /\ print.tick = t
    BY DEF DigestsHeld
  <2>3. PrintFrom(print, q, fork, pending)
    BY <1>2, <2>1, <2>2 DEF TheirsHold
  <2>4. ~Dissents(own, print, t)
    BY <1>1
  <2>. HIDE DEF print, own
  <2>5. print.state = own.state
    BY <1>1, <2>2, <2>4 DEF Dissents
  <2>6. own.state.fork = None
    BY <1>3, <2>1, <2>3, <2>5 DEF PrintFrom
  <2>. QED
    BY <2>2, <2>3, <2>5, <2>6 DEF PrintFrom
<1>5. own.state.fork = None
  BY <1>4, RosterAssumption DEF Remotes
<1>6. fork[p] # None => ~(fork[p] <= t)
  BY <1>1, <1>3, <1>5 DEF PrintFrom
<1>. QED
  BY <1>4, <1>6 DEF Remotes

(* A session reports a desync at a tick only if some simulation really had *)
(* departed by that tick, and after every tick everyone is heard to agree  *)
(* on: late, repeated or reordered fingerprints, and slots of the digest   *)
(* ring used again, never make one up (judge, last_agreed_before).         *)
THEOREM NoFalseDesync == Spec => []DesyncIsReal
<1>1. DigestType /\ ReportInv => DesyncIsReal
  <2>. SUFFICES ASSUME DigestType, ReportInv, NEW p \in Peer, IsDesync(outcome[p])
                PROVE  \E q \in Peer :
                         /\ fork[q] # None /\ fork[q] <= outcome[p].tick
                         /\ \A t \in AgreedBefore(p, outcome[p].tick) :
                              DigestsHeld(p, t) => t < fork[q]
    BY DEF DesyncIsReal
  <2>1. PICK q \in Peer : fork[q] # None /\ fork[q] <= outcome[p].tick
    BY DEF ReportInv, DepartureBehind
  <2>2. ASSUME NEW t \in AgreedBefore(p, outcome[p].tick), DigestsHeld(p, t)
        PROVE  t < fork[q]
    <3>1. ~(fork[q] <= t)
      BY <2>1, <2>2, AgreedIsSound DEF ReportInv
    <3>2. t \in Nat /\ fork[q] \in Nat
      BY <2>1 DEF AgreedBefore, DigestType, Tick
    <3>. QED
      BY <3>1, <3>2
  <2>. QED
    BY <2>1, <2>2
<1>2. CoreInv => DigestType
  BY CoreParts
<1>. QED
  BY <1>1, <1>2, CoreInvariant, ReportInvariant, PTL


=============================================================================
