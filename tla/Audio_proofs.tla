---------------------------- MODULE Audio_proofs ----------------------------
(***************************************************************************)
(* That the command ring of Audio loses and repeats nothing, however the   *)
(* two threads meet at its lock, and that the mixer cuts only what is      *)
(* oldest and plays the rest whole: for every capacity, every number of    *)
(* voices, every buffer and every set of sounds.                           *)
(***************************************************************************)
EXTENDS Audio, SequenceTheorems, TLAPS

USE SizeAssumption, NameAssumption

RingType ==
  /\ slots \in [Slots -> Sound \cup {None}]
  /\ pushed \in Nat /\ drained \in 0..pushed
  /\ pushed - drained <= Capacity
  /\ pushing \in Sound \cup {None} /\ asked \in 0..MaxPushes
  /\ callback \in {"idle", "starting"}
  /\ scratch \in Seq(Sound) /\ Len(scratch) <= Capacity
  /\ accepted \in Seq(Sound)

(* What was asked for and not pushed yet is at most the one under way      *)
Asked == pushed + (IF pushing = None THEN 0 ELSE 1) <= asked

(* The slots that wait hold the last commands accepted, and the drained    *)
(* ones not started are those before them                                  *)
RingHolds ==
  /\ Len(accepted) = pushed
  /\ \A t \in drained..(pushed - 1) : slots[t % Capacity] = accepted[t + 1]
  /\ Len(scratch) <= drained
  /\ \A i \in 1..Len(scratch) : scratch[i] = accepted[drained - Len(scratch) + i]
  /\ callback = "idle" => scratch = << >>

StartedInOrder ==
  /\ \A n \in DOMAIN started :
       started[n].place \in 1..Done /\ accepted[started[n].place] = started[n].sound
  /\ \A m, n \in DOMAIN started : m < n => started[m].place < started[n].place
  /\ \A i \in 1..Done :
       accepted[i] \in Length => \E n \in DOMAIN started : started[n].place = i

MixerType ==
  /\ voices \in [Voice -> Playback \cup {None}]
  /\ next_sequence = Len(started)
  /\ started \in Seq([place : Nat, sound : Length])
  /\ heard \in [DOMAIN started -> Nat]
  /\ cut \subseteq DOMAIN started

(* A voice plays one of the sounds started, no other voice plays it, and   *)
(* what it has played is what was heard of it                              *)
VoicesPlay ==
  /\ \A v \in Voice : Busy(v) =>
       LET n == voices[v].sequence + 1
       IN /\ n \in DOMAIN started
          /\ voices[v].sound = started[n].sound
          /\ voices[v].cursor = heard[n]
          /\ voices[v].cursor <= voices[v].sound
          /\ callback = "idle" => voices[v].cursor < voices[v].sound
  /\ \A u, v \in Voice :
       (Busy(u) /\ Busy(v) /\ voices[u].sequence = voices[v].sequence) => u = v

(* A sound that plays no more, and was not cut, was heard whole            *)
EndedWhole ==
  \A n \in DOMAIN started : (~Playing(n) /\ n \notin cut) => heard[n] = started[n].sound

MixerInv == RingType /\ Asked /\ RingHolds /\ StartedInOrder /\ MixerType
            /\ VoicesPlay /\ OldestGivesWay /\ EndedWhole

-----------------------------------------------------------------------------
(* Around the ring *)

LEMMA Division ==
  ASSUME NEW a \in Nat
  PROVE  /\ a = Capacity * (a \div Capacity) + (a % Capacity)
         /\ a \div Capacity \in Int /\ a % Capacity \in Slots
BY DEF Slots

LEMMA MultipleBelow ==
  ASSUME NEW x \in Int, NEW y \in Int, NEW w \in Nat \ {0},
         w * x - w * y < w, w * x - w * y >= 0
  PROVE  x = y
<1>1. w * (x - y) < w /\ w * (x - y) >= 0
  OBVIOUS
<1>2. x - y < 1
  BY <1>1
<1>3. x - y > -1
  BY <1>1
<1> QED  BY <1>2, <1>3

(* Of the commands that fit into the ring no two share a slot.             *)
LEMMA SlotInjective ==
  ASSUME NEW a \in Nat, NEW b \in Nat, b <= a, a - b < Capacity,
         a % Capacity = b % Capacity
  PROVE  a = b
<1> DEFINE x == a \div Capacity
           y == b \div Capacity
           r == a % Capacity
<1>1. /\ x \in Int /\ y \in Int /\ r \in Int
      /\ a = Capacity * x + r /\ b = Capacity * y + r
  BY Division DEF Slots
<1> HIDE DEF x, y, r
<1>2. Capacity * x \in Int /\ Capacity * y \in Int
  BY <1>1
<1>3. Capacity * x - Capacity * y < Capacity /\ Capacity * x - Capacity * y >= 0
  BY <1>1, <1>2
<1>4. x = y
  BY <1>1, <1>3, MultipleBelow
<1> QED  BY <1>1, <1>4

(* How many commands wait, and what a drain takes: all of them.            *)
LEMMA Takings ==
  ASSUME RingType
  PROVE  /\ pushed - drained \in 0..Capacity
         /\ Taken(pushed - drained) = pushed - drained
BY DEF RingType, Taken

-----------------------------------------------------------------------------
(* The ring *)

(* Another element at the end of a sequence.                               *)
LEMMA AppendIs ==
  ASSUME NEW S, NEW had \in Seq(S), NEW x \in S
  PROVE  /\ Append(had, x) \in Seq(S)
         /\ Len(Append(had, x)) = Len(had) + 1
         /\ \A i \in 1..Len(had) : Append(had, x)[i] = had[i]
         /\ Append(had, x)[Len(had) + 1] = x
OBVIOUS

(* What waits, as a sequence.                                              *)
LEMMA WaitingIs ==
  ASSUME RingType, RingHolds, NEW n \in 0..(pushed - drained)
  PROVE  /\ Waiting(n) \in Seq(Sound) /\ Len(Waiting(n)) = n
         /\ \A i \in 1..n : Waiting(n)[i] = accepted[drained + i]
<1>1. n \in Nat /\ drained \in Nat /\ pushed \in Nat
  BY DEF RingType
<1>2. ASSUME NEW i \in 1..n
      PROVE  /\ slots[(drained + i - 1) % Capacity] = accepted[drained + i]
             /\ accepted[drained + i] \in Sound
  <2>1. drained + i - 1 \in drained..(pushed - 1) /\ drained + i - 1 + 1 = drained + i
    BY <1>1
  <2>2. drained + i \in 1..Len(accepted)
    BY <1>1, <2>1 DEF RingHolds
  <2>3. accepted[drained + i] \in Sound
    BY <2>2 DEF RingType
  <2> QED  BY <2>1, <2>3 DEF RingHolds
<1>3. Waiting(n) \in [1..n -> Sound]
  BY <1>2 DEF Waiting
<1>4. Waiting(n) \in Seq(Sound) /\ Len(Waiting(n)) = n
  BY <1>1, <1>3
<1> QED  BY <1>2, <1>4 DEF Waiting

(* What is left when the first command drained is started.                 *)
LEMMA TailIs ==
  ASSUME NEW S, NEW had \in Seq(S), had # << >>
  PROVE  /\ Tail(had) \in Seq(S) /\ Len(Tail(had)) = Len(had) - 1 /\ Len(had) \in Nat \ {0}
         /\ Head(had) = had[1] /\ Head(had) \in S
         /\ \A i \in 1..(Len(had) - 1) : Tail(had)[i] = had[i + 1]
OBVIOUS

LEMMA PushedIs ==
  ASSUME RingType, Push, HasRoom(pushed - drained)
  PROVE  /\ pushing \in Sound /\ pushed - drained < Capacity
         /\ slots' = [slots EXCEPT ![pushed % Capacity] = pushing]
         /\ pushed' = pushed + 1 /\ accepted' = Append(accepted, pushing)
         /\ pushing' = None /\ UNCHANGED <<drained, asked, callback, scratch>>
BY DEF RingType, Push, HasRoom

LEMMA RingTypeStep ==
  ASSUME RingType, Asked, RingHolds, [Next]_vars
  PROVE  RingType' /\ Asked'
<1> USE DEF Asked
<1>1. ASSUME NEW sound \in Sound, Lock(sound) PROVE RingType' /\ Asked'
  <2>1. sound # None /\ asked + 1 \in 0..MaxPushes
    BY <1>1 DEF Lock, Sound, RingType
  <2> QED  BY <1>1, <2>1 DEF Lock, RingType, ring
<1>2. CASE Push
  <2>1. CASE HasRoom(pushed - drained)
    <3>1. /\ pushing \in Sound /\ pushed - drained < Capacity
          /\ slots' = [slots EXCEPT ![pushed % Capacity] = pushing]
          /\ pushed' = pushed + 1 /\ accepted' = Append(accepted, pushing)
          /\ pushing' = None /\ UNCHANGED <<drained, asked, callback, scratch>>
      BY <1>2, <2>1, PushedIs
    <3>2. accepted' \in Seq(Sound)
      BY <3>1, AppendIs DEF RingType
    <3>3. slots' \in [Slots -> Sound \cup {None}]
      BY <3>1 DEF RingType
    <3>4. pushing # None
      BY <1>2 DEF Push
    <3>5. /\ pushed' \in Nat /\ drained' \in 0..pushed' /\ pushed' - drained' <= Capacity
          /\ pushed + 1 <= asked
      BY <3>1, <3>4 DEF RingType
    <3> QED  BY <3>1, <3>2, <3>3, <3>5 DEF RingType
  <2>2. CASE ~HasRoom(pushed - drained)
    BY <1>2, <2>2 DEF Push, RingType
  <2> QED  BY <2>1, <2>2
<1>3. CASE SkipDrain
  BY <1>3 DEF SkipDrain, RingType, ring, game
<1>4. CASE Drain
  <2>1. /\ scratch' = Waiting(pushed - drained) /\ drained' = drained + (pushed - drained)
        /\ callback' = "starting" /\ UNCHANGED <<pushed, pushing, asked, accepted>>
    BY <1>4, Takings DEF Drain, game
  <2>2. scratch' \in Seq(Sound) /\ Len(scratch') <= Capacity
    BY <2>1, Takings, WaitingIs
  <2>3. slots' \in [Slots -> Sound \cup {None}]
    BY <1>4 DEF Drain, RingType
  <2>4. drained' = pushed
    BY <2>1 DEF RingType
  <2> QED  BY <2>1, <2>2, <2>3, <2>4 DEF RingType
<1>5. CASE Start
  <2>1. scratch' = Tail(scratch) /\ scratch # << >>
    BY <1>5 DEF Start
  <2>2. scratch' \in Seq(Sound) /\ Len(scratch') <= Capacity
    BY <2>1, TailIs DEF RingType
  <2> QED  BY <1>5, <2>2 DEF Start, RingType, ring, game
<1>6. CASE Mix
  BY <1>6 DEF Mix, RingType, ring, game
<1>7. CASE UNCHANGED vars
  BY <1>7 DEF vars, RingType, ring, game
<1> QED  BY <1>1, <1>2, <1>3, <1>4, <1>5, <1>6, <1>7 DEF Next, Callback

LEMMA RingStep ==
  ASSUME RingType, RingHolds, [Next]_vars
  PROVE  RingHolds'
<1>0. /\ pushed \in Nat /\ drained \in 0..pushed /\ Len(scratch) \in Nat
      /\ Len(accepted) = pushed
  BY DEF RingType, RingHolds
<1>1. ASSUME NEW sound \in Sound, Lock(sound) PROVE RingHolds'
  BY <1>1 DEF Lock, RingHolds, ring
<1>2. CASE Push
  <2>1. CASE HasRoom(pushed - drained)
    <3>1. /\ pushing \in Sound /\ pushed - drained < Capacity
          /\ slots' = [slots EXCEPT ![pushed % Capacity] = pushing]
          /\ pushed' = pushed + 1 /\ accepted' = Append(accepted, pushing)
          /\ UNCHANGED <<drained, callback, scratch>>
      BY <1>2, <2>1, PushedIs
    <3>2. /\ Len(accepted') = pushed + 1 /\ accepted'[pushed + 1] = pushing
          /\ \A i \in 1..pushed : accepted'[i] = accepted[i]
      BY <1>0, <3>1, AppendIs DEF RingType
    <3>3. ASSUME NEW t \in drained..(pushed - 1)
          PROVE  slots'[t % Capacity] = accepted'[t + 1]
      <4>1. t \in Nat /\ t + 1 \in 1..pushed /\ t <= pushed /\ pushed - t < Capacity /\ t # pushed
        BY <1>0, <3>1
      <4>2. t % Capacity # pushed % Capacity /\ t % Capacity \in Slots
        BY <1>0, <4>1, SlotInjective, Division
      <4>3. slots'[t % Capacity] = slots[t % Capacity]
        BY <3>1, <4>2 DEF RingType
      <4> QED  BY <3>2, <4>1, <4>3 DEF RingHolds
    <3>4. slots'[pushed % Capacity] = accepted'[pushed + 1]
      <4>1. pushed % Capacity \in Slots
        BY <1>0, Division
      <4> QED  BY <3>1, <3>2, <4>1 DEF RingType
    <3>5. \A t \in drained..(pushed + 1 - 1) : t \in drained..(pushed - 1) \/ t = pushed
      BY <1>0
    <3>6. \A i \in 1..Len(scratch) : accepted'[drained - Len(scratch) + i]
                                       = accepted[drained - Len(scratch) + i]
      BY <1>0, <3>2 DEF RingHolds
    <3>7. ASSUME NEW t \in drained'..(pushed' - 1)
          PROVE  slots'[t % Capacity] = accepted'[t + 1]
      <4>1. t \in drained..(pushed + 1 - 1)
        BY <1>0, <3>1
      <4> QED  BY <3>3, <3>4, <3>5, <4>1
    <3>8. Len(scratch') <= drained' /\ (callback' = "idle" => scratch' = << >>)
      BY <3>1 DEF RingHolds
    <3>9. \A i \in 1..Len(scratch') : scratch'[i] = accepted'[drained' - Len(scratch') + i]
      BY <3>1, <3>6 DEF RingHolds
    <3> QED  BY <1>0, <3>1, <3>2, <3>7, <3>8, <3>9 DEF RingHolds
  <2>2. CASE ~HasRoom(pushed - drained)
    BY <1>2, <2>2 DEF Push, RingHolds
  <2> QED  BY <2>1, <2>2
<1>3. CASE SkipDrain
  BY <1>3 DEF SkipDrain, RingHolds, ring
<1>4. CASE Drain
  <2> DEFINE waits == pushed - drained
  <2>1. /\ scratch' = Waiting(waits) /\ drained' = drained + waits
        /\ callback' = "starting" /\ UNCHANGED <<pushed, accepted>>
    BY <1>4, Takings DEF Drain
  <2>2. waits \in 0..waits /\ drained + waits = pushed /\ waits \in Nat
    BY <1>0
  <2>3. /\ Len(scratch') = waits
        /\ \A i \in 1..waits : scratch'[i] = accepted[drained + i]
    BY <2>1, <2>2, WaitingIs
  <2>4. drained' = pushed /\ drained' - Len(scratch') = drained
    BY <1>0, <2>1, <2>2, <2>3
  <2>5. Len(accepted') = pushed'
    BY <1>0, <2>1
  <2>6. \A t \in drained'..(pushed' - 1) : FALSE
    BY <1>0, <2>1, <2>4
  <2>7. Len(scratch') <= drained'
    BY <1>0, <2>3, <2>4
  <2>8. \A i \in 1..Len(scratch') : scratch'[i] = accepted'[drained' - Len(scratch') + i]
    BY <2>1, <2>3, <2>4
  <2> QED  BY <2>1, <2>5, <2>6, <2>7, <2>8 DEF RingHolds
<1>5. CASE Start
  <2>1. /\ scratch' = Tail(scratch) /\ scratch # << >> /\ callback = "starting"
        /\ UNCHANGED <<slots, pushed, drained, callback, accepted>>
    BY <1>5 DEF Start, ring
  <2>2. /\ Len(scratch') = Len(scratch) - 1 /\ Len(scratch) \in Nat \ {0}
        /\ \A i \in 1..(Len(scratch) - 1) : scratch'[i] = scratch[i + 1]
    BY <2>1, TailIs DEF RingType
  <2>3. ASSUME NEW i \in 1..Len(scratch')
        PROVE  scratch'[i] = accepted[drained - Len(scratch') + i]
    <3>1. i + 1 \in 1..Len(scratch) /\ i \in 1..(Len(scratch) - 1)
      BY <2>2
    <3>2. scratch'[i] = accepted[drained - Len(scratch) + (i + 1)]
      BY <3>1, <2>2 DEF RingHolds
    <3>3. drained - Len(scratch) + (i + 1) = drained - Len(scratch') + i
      BY <1>0, <2>2, <3>1
    <3> QED  BY <3>2, <3>3
  <2>4. Len(scratch') <= drained
    BY <1>0, <2>2 DEF RingHolds
  <2> QED  BY <2>1, <2>3, <2>4 DEF RingHolds
<1>6. CASE Mix
  BY <1>6 DEF Mix, RingHolds, ring
<1>7. CASE UNCHANGED vars
  BY <1>7 DEF vars, RingHolds, ring
<1> QED  BY <1>1, <1>2, <1>3, <1>4, <1>5, <1>6, <1>7 DEF Next, Callback

-----------------------------------------------------------------------------
(* What the mixer came to *)

LEMMA DoneIs ==
  ASSUME RingType, RingHolds
  PROVE  /\ Done = drained - Len(scratch) /\ Done \in Nat /\ Done <= Len(accepted)
         /\ Done + Len(scratch) <= Len(accepted)
<1>1. /\ pushed \in Nat /\ drained \in 0..pushed /\ Len(scratch) \in Nat
      /\ Len(accepted) = pushed /\ Len(scratch) <= drained
  BY DEF RingType, RingHolds
<1> QED  BY <1>1 DEF Done

(* Only a start comes to another command, and what was accepted stays.     *)
LEMMA DoneStep ==
  ASSUME RingType, RingHolds, RingType', RingHolds', [Next]_vars
  PROVE  /\ Done' = IF Start THEN Done + 1 ELSE Done
         /\ \A i \in 1..Len(accepted) : accepted'[i] = accepted[i]
<1>0. /\ pushed \in Nat /\ drained \in 0..pushed /\ Len(scratch) \in Nat
      /\ Len(accepted) = pushed /\ Len(scratch) <= drained
      /\ Done = drained - Len(scratch)
  BY DoneIs DEF RingType, RingHolds
<1>00. /\ pushed' \in Nat /\ drained' \in 0..pushed' /\ Len(scratch') \in Nat
       /\ Len(accepted') = pushed'
  BY DEF RingType, RingHolds
<1>01. Done' = drained' - Len(scratch')
  BY <1>00 DEF Done
<1>1. CASE Start
  <2>1. scratch' = Tail(scratch) /\ scratch # << >> /\ UNCHANGED <<drained, accepted>>
    BY <1>1 DEF Start, ring
  <2>2. Len(scratch') = Len(scratch) - 1
    BY <2>1, TailIs DEF RingType
  <2> QED  BY <1>0, <1>01, <1>1, <2>1, <2>2
<1>2. CASE Push /\ ~Start
  <2>1. UNCHANGED <<drained, scratch>>
    BY <1>2 DEF Push
  <2>2. CASE HasRoom(pushed - drained)
    <3>1. pushing \in Sound /\ accepted' = Append(accepted, pushing)
      BY <1>2, <2>2, PushedIs
    <3>2. \A i \in 1..Len(accepted) : accepted'[i] = accepted[i]
      BY <3>1, AppendIs DEF RingType
    <3> QED  BY <1>0, <1>01, <1>2, <2>1, <3>2
  <2>3. CASE ~HasRoom(pushed - drained)
    BY <1>0, <1>01, <1>2, <2>1, <2>3 DEF Push
  <2> QED  BY <2>2, <2>3
<1>3. CASE Drain /\ ~Start
  <2> DEFINE waits == pushed - drained
  <2>1. /\ scratch' = Waiting(waits) /\ drained' = drained + waits
        /\ UNCHANGED <<pushed, accepted>> /\ callback = "idle"
    BY <1>3, Takings DEF Drain
  <2>2. waits \in 0..waits /\ drained + waits = pushed /\ waits \in Nat
    BY <1>0
  <2>3. Len(scratch') = waits
    BY <2>1, <2>2, WaitingIs
  <2>4. Len(scratch) = 0
    BY <2>1 DEF RingHolds
  <2> QED  BY <1>0, <1>01, <1>3, <2>1, <2>2, <2>3, <2>4
<1>4. CASE UNCHANGED <<drained, scratch, accepted>> /\ ~Start
  BY <1>0, <1>01, <1>4
<1> QED
  BY <1>1, <1>2, <1>3, <1>4
  DEF Next, Callback, Lock, SkipDrain, Mix, vars, ring, game

(* What a start does with the next command: the identifier of another      *)
(* mixer is left alone, a sound is started on one voice.                   *)
Starts(v, sound) ==
  /\ Takes(v)
  /\ voices' = [voices EXCEPT ![v] =
       [sound |-> sound, cursor |-> 0, sequence |-> next_sequence]]
  /\ next_sequence' = next_sequence + 1
  /\ started' = Append(started, [place |-> Done + 1, sound |-> sound])
  /\ heard' = Append(heard, 0)
  /\ cut' = cut \cup (IF Busy(v) THEN {voices[v].sequence + 1} ELSE {})

LEMMA StartIs ==
  ASSUME RingType, RingHolds, Start
  PROVE  /\ Head(scratch) = accepted[Done + 1] /\ Done + 1 \in 1..Len(accepted)
         /\ accepted[Done + 1] \in Sound
         /\ \/ accepted[Done + 1] \notin Length /\ UNCHANGED <<mixer, history>>
            \/ /\ accepted[Done + 1] \in Length
               /\ \E v \in Voice : Starts(v, accepted[Done + 1])
         /\ UNCHANGED callback /\ callback = "starting"
<1>1. scratch # << >>
  BY DEF Start
<1>2. Head(scratch) = scratch[1] /\ Len(scratch) \in Nat \ {0}
  BY <1>1, TailIs DEF RingType
<1>3. Done = drained - Len(scratch) /\ Done \in Nat /\ Done + Len(scratch) <= Len(accepted)
      /\ Len(accepted) \in Nat
  BY DoneIs DEF RingType
<1>4. 1 \in 1..Len(scratch) /\ Done + 1 \in 1..Len(accepted)
  BY <1>2, <1>3
<1>5. Head(scratch) = accepted[Done + 1]
  BY <1>2, <1>3, <1>4 DEF RingHolds
<1>6. accepted[Done + 1] \in Sound
  BY <1>4 DEF RingType
<1>7. \/ accepted[Done + 1] \notin Length /\ UNCHANGED <<mixer, history>>
      \/ /\ accepted[Done + 1] \in Length
         /\ \E v \in Voice : Starts(v, accepted[Done + 1])
  BY <1>5 DEF Start, Starts
<1> QED  BY <1>4, <1>5, <1>6, <1>7 DEF Start

(* A step that starts nothing leaves the mixer's history of starts alone.  *)
LEMMA NoStart ==
  ASSUME [Next]_vars, ~Start
  PROVE  UNCHANGED <<started, next_sequence, cut>>
BY DEF Next, Callback, Lock, Push, SkipDrain, Drain, Mix, vars, ring, game, mixer, history

LEMMA StartedStep ==
  ASSUME RingType, RingHolds, RingType', RingHolds', MixerType, StartedInOrder, [Next]_vars
  PROVE  StartedInOrder'
<1>0. Done \in Nat /\ Done <= Len(accepted) /\ Len(accepted) \in Nat
  BY DoneIs DEF RingType
<1>1. /\ Done' = IF Start THEN Done + 1 ELSE Done
      /\ \A i \in 1..Len(accepted) : accepted'[i] = accepted[i]
  BY DoneStep
<1>2. \A i \in 1..Done : accepted'[i] = accepted[i]
  BY <1>0, <1>1
<1>3. CASE UNCHANGED started /\ ~Start
  BY <1>1, <1>2, <1>3 DEF StartedInOrder
<1>4. CASE Start
  <2> DEFINE sound == accepted[Done + 1]
             place == Done + 1
             last == Len(started) + 1
  <2>0. Done' = place /\ place \in 1..Len(accepted) /\ accepted'[place] = sound
    BY <1>1, <1>4, StartIs
  <2>1. \A i \in 1..Done' : i \in 1..Done \/ i = place
    BY <1>0, <2>0
  <2>2. \A i \in 1..Done : i \in 1..Done' /\ i < place
    BY <1>0, <2>0
  <2>3. CASE sound \notin Length /\ UNCHANGED started
    <3> HIDE DEF sound, place
    <3> QED  BY <1>2, <2>0, <2>1, <2>2, <2>3 DEF StartedInOrder
  <2>4. CASE sound \in Length /\ \E v \in Voice : Starts(v, sound)
    <3>1. started' = Append(started, [place |-> place, sound |-> sound])
      BY <2>4 DEF Starts
    <3>2. [place |-> place, sound |-> sound] \in [place : Nat, sound : Length]
      BY <1>0, <2>4
    <3>3. /\ Len(started) \in Nat /\ DOMAIN started = 1..Len(started)
          /\ Len(started') = last /\ DOMAIN started' = 1..Len(started')
          /\ \A n \in 1..Len(started) : started'[n] = started[n]
          /\ started'[last] = [place |-> place, sound |-> sound]
      BY <3>1, <3>2, AppendIs DEF MixerType
    <3>4. started'[last].place = place /\ started'[last].sound = sound
      BY <3>3
    <3>5. \A n \in DOMAIN started' : n \in DOMAIN started \/ n = last
      BY <3>3
    <3>6. \A n \in DOMAIN started : n # last /\ n \in DOMAIN started' /\ n < last
      BY <3>3
    <3>7. last \in DOMAIN started' /\ \A n \in DOMAIN started' : ~(last < n)
      BY <3>3
    <3>8. place \in 1..Done'
      BY <1>0, <2>0
    <3>9. \A n \in DOMAIN started : started'[n] = started[n]
      BY <3>3
    <3> HIDE DEF sound, place, last
    <3>10. \A n \in DOMAIN started' :
             started'[n].place \in 1..Done' /\ accepted'[started'[n].place] = started'[n].sound
      BY <1>2, <2>0, <2>2, <3>4, <3>5, <3>8, <3>9 DEF StartedInOrder
    <3>11. \A m, n \in DOMAIN started' : m < n => started'[m].place < started'[n].place
      BY <2>2, <3>4, <3>5, <3>7, <3>9 DEF StartedInOrder
    <3>12. \A i \in 1..Done' :
             accepted'[i] \in Length => \E n \in DOMAIN started' : started'[n].place = i
      BY <1>2, <2>1, <3>4, <3>6, <3>7, <3>9 DEF StartedInOrder
    <3> QED  BY <3>10, <3>11, <3>12 DEF StartedInOrder
  <2> QED
    BY <1>4, <2>3, <2>4, StartIs DEF history
<1> QED  BY <1>3, <1>4, NoStart

-----------------------------------------------------------------------------
(* The voices *)

(* A voice in use plays a sound that was started.                          *)
LEMMA VoiceIs ==
  ASSUME MixerType, VoicesPlay, NEW v \in Voice, Busy(v)
  PROVE  /\ voices[v] \in Playback
         /\ voices[v].sound \in Nat /\ voices[v].cursor \in Nat /\ voices[v].sequence \in Nat
         /\ voices[v].sequence + 1 \in DOMAIN started
         /\ voices[v].sound = started[voices[v].sequence + 1].sound
         /\ voices[v].cursor = heard[voices[v].sequence + 1]
         /\ voices[v].cursor <= voices[v].sound
BY DEF MixerType, VoicesPlay, Busy, Playback

LEMMA StartsIs ==
  ASSUME MixerType, VoicesPlay, Done \in Nat,
         NEW v \in Voice, NEW sound \in Length, Starts(v, sound)
  PROVE  /\ \A u \in Voice : u # v => voices'[u] = voices[u] /\ Busy(u)' = Busy(u)
         /\ voices'[v] = [sound |-> sound, cursor |-> 0, sequence |-> Len(started)]
         /\ Busy(v)'
         /\ next_sequence' = Len(started')
         /\ Len(started) \in Nat /\ DOMAIN started = 1..Len(started)
         /\ Len(started') = Len(started) + 1 /\ DOMAIN started' = 1..Len(started')
         /\ started' \in Seq([place : Nat, sound : Length])
         /\ \A n \in DOMAIN started : started'[n] = started[n] /\ heard'[n] = heard[n]
         /\ started'[Len(started')].sound = sound /\ heard'[Len(started')] = 0
         /\ heard' \in [DOMAIN started' -> Nat]
<1> DEFINE new == [sound |-> sound, cursor |-> 0, sequence |-> next_sequence]
           command == [place |-> Done + 1, sound |-> sound]
<1>1. /\ voices' = [voices EXCEPT ![v] = new] /\ next_sequence' = next_sequence + 1
      /\ started' = Append(started, command) /\ heard' = Append(heard, 0)
  BY DEF Starts
<1>2. /\ next_sequence = Len(started) /\ Len(started) \in Nat
      /\ DOMAIN started = 1..Len(started) /\ started \in Seq([place : Nat, sound : Length])
      /\ command \in [place : Nat, sound : Length]
  BY DEF MixerType
<1>3. new \in Playback /\ new # None
  BY <1>2 DEF Playback
<1>4. heard \in Seq(Nat) /\ Len(heard) = Len(started)
  BY <1>2 DEF MixerType
<1>5. /\ heard' \in Seq(Nat) /\ Len(heard') = Len(heard) + 1 /\ heard'[Len(heard) + 1] = 0
      /\ \A n \in 1..Len(heard) : heard'[n] = heard[n]
  BY <1>1, <1>4, AppendIs
<1>6. /\ started' \in Seq([place : Nat, sound : Length]) /\ Len(started') = Len(started) + 1
      /\ started'[Len(started) + 1] = command
      /\ \A n \in 1..Len(started) : started'[n] = started[n]
  BY <1>1, <1>2, AppendIs
<1>7. heard' \in [DOMAIN started' -> Nat] /\ DOMAIN started' = 1..Len(started')
  BY <1>4, <1>5, <1>6
<1>8. /\ \A u \in Voice : u # v => voices'[u] = voices[u]
      /\ voices'[v] = new
  BY <1>1 DEF MixerType
<1>9. /\ \A u \in Voice : u # v => Busy(u)' = Busy(u)
      /\ Busy(v)'
  BY <1>3, <1>8 DEF Busy
<1> QED  BY <1>1, <1>2, <1>4, <1>5, <1>6, <1>7, <1>8, <1>9

(* What a buffer does to a voice: it ends and what it had left was heard,  *)
(* or it goes on and a buffer of it was heard.                             *)
LEMMA MixIs ==
  ASSUME MixerType, VoicesPlay, Mix, NEW v \in Voice, Busy(v)
  PROVE  LET n == voices[v].sequence + 1
         IN \/ ~Busy(v)' /\ heard'[n] = voices[v].sound
            \/ /\ Busy(v)' /\ voices'[v] \in Playback
               /\ voices'[v].sequence = voices[v].sequence
               /\ voices'[v].sound = voices[v].sound
               /\ voices'[v].cursor = heard'[n]
               /\ voices'[v].cursor < voices'[v].sound
<1> DEFINE n == voices[v].sequence + 1
           old == voices[v]
           own == {u \in Voice : Busy(u) /\ voices[u].sequence + 1 = n}
<1>1. /\ old \in Playback /\ old # None /\ n \in DOMAIN started
      /\ old.sound \in Nat /\ old.cursor \in Nat /\ old.sequence \in Nat
      /\ old.cursor = heard[n] /\ old.cursor <= old.sound
  BY VoiceIs DEF Busy
<1>2. \A u \in Voice : Busy(u) => voices[u].sequence \in Nat
  BY VoiceIs
<1>3. own = {v}
  BY <1>1, <1>2 DEF VoicesPlay
<1>4. (CHOOSE u \in own : TRUE) = v
  BY <1>3
<1>5. heard'[n] = heard[n] + Take(old)
  BY <1>1, <1>3, <1>4 DEF Mix, MixerType
<1>6. voices'[v] = Mixed(old)
  BY DEF Mix
<1>7. CASE Ends(old)
  <2>1. ~Busy(v)'
    BY <1>6, <1>7 DEF Mixed, Busy
  <2>2. heard'[n] = old.sound
    BY <1>1, <1>5, <1>7 DEF Take
  <2> QED  BY <2>1, <2>2
<1>8. CASE ~Ends(old)
  <2>1. voices'[v] = [old EXCEPT !.cursor = @ + Buffer] /\ heard'[n] = old.cursor + Buffer
    BY <1>1, <1>5, <1>6, <1>8 DEF Mixed, Take
  <2>2. /\ voices'[v] \in Playback /\ voices'[v].sequence = old.sequence
        /\ voices'[v].sound = old.sound /\ voices'[v].cursor = old.cursor + Buffer
    BY <1>1, <2>1 DEF Playback
  <2>3. Busy(v)'
    BY <2>2 DEF Busy
  <2>4. old.cursor + Buffer < old.sound
    BY <1>1, <1>8 DEF Ends
  <2> QED  BY <2>1, <2>2, <2>3, <2>4
<1> QED  BY <1>7, <1>8

LEMMA MixLeaves ==
  ASSUME MixerType, VoicesPlay, Mix
  PROVE  /\ \A v \in Voice : ~Busy(v) => voices'[v] = None /\ ~Busy(v)'
         /\ \A n \in DOMAIN started : ~Playing(n) => heard'[n] = heard[n]
         /\ heard' \in [DOMAIN started -> Nat]
         /\ callback' = "idle" /\ UNCHANGED <<started, next_sequence, cut>>
<1>1. \A v \in Voice : ~Busy(v) => voices'[v] = None /\ ~Busy(v)'
  BY DEF Mix, Busy
<1>2. ASSUME NEW n \in DOMAIN started, ~Playing(n)
      PROVE  heard'[n] = heard[n]
  <2>1. {v \in Voice : Busy(v) /\ voices[v].sequence + 1 = n} = {}
    BY <1>2 DEF Playing
  <2> QED  BY <2>1 DEF Mix, MixerType
<1>3. ASSUME NEW n \in DOMAIN started
      PROVE  heard'[n] \in Nat
  <2>1. CASE ~Playing(n)
    BY <1>2, <2>1 DEF MixerType
  <2>2. CASE Playing(n)
    <3>1. PICK v \in Voice : Busy(v) /\ voices[v].sequence + 1 = n
      BY <2>2 DEF Playing
    <3>2. voices[v].sound \in Nat
      BY <3>1, VoiceIs
    <3> QED  BY <3>1, <3>2, MixIs DEF Playback
  <2> QED  BY <2>1, <2>2
<1>4. heard' \in [DOMAIN started -> Nat]
  BY <1>3 DEF Mix, MixerType
<1> QED  BY <1>1, <1>2, <1>4 DEF Mix

(* A step that neither starts nor mixes leaves the voices alone.           *)
LEMMA MixerIdle ==
  ASSUME [Next]_vars, ~Start, ~Mix
  PROVE  /\ UNCHANGED <<voices, next_sequence, started, heard, cut>>
         /\ callback' = "idle" => callback = "idle"
BY DEF Next, Callback, Lock, Push, SkipDrain, Drain, vars, ring, game, mixer, history

VoiceInv == MixerType /\ VoicesPlay /\ OldestGivesWay /\ EndedWhole

(* The voice that gives way is the oldest of all, so that what is cut is   *)
(* older than whatever still plays.                                        *)
LEMMA StartsKeeps ==
  ASSUME VoiceInv, Done \in Nat, callback' = "starting",
         NEW v \in Voice, NEW sound \in Length, Starts(v, sound)
  PROVE  VoiceInv'
<1> DEFINE last == Len(started')
<1>0. MixerType /\ VoicesPlay
  BY DEF VoiceInv
<1>1. /\ \A u \in Voice : u # v => voices'[u] = voices[u] /\ Busy(u)' = Busy(u)
      /\ voices'[v] = [sound |-> sound, cursor |-> 0, sequence |-> Len(started)]
      /\ Busy(v)'
      /\ next_sequence' = Len(started')
      /\ Len(started) \in Nat /\ DOMAIN started = 1..Len(started)
      /\ last = Len(started) + 1 /\ DOMAIN started' = 1..Len(started')
      /\ started' \in Seq([place : Nat, sound : Length])
      /\ \A n \in DOMAIN started : started'[n] = started[n] /\ heard'[n] = heard[n]
      /\ started'[last].sound = sound /\ heard'[last] = 0
      /\ heard' \in [DOMAIN started' -> Nat]
  BY <1>0, StartsIs
<1>2. voices'[v].sequence + 1 = last /\ voices'[v].sound = sound /\ voices'[v].cursor = 0
  BY <1>1
<1>3. \A u \in Voice : Busy(u) =>
        /\ voices[u].sequence \in Nat /\ voices[u].sequence + 1 \in DOMAIN started
        /\ voices[u].sequence + 1 < last
        /\ voices[u].sound = started[voices[u].sequence + 1].sound
        /\ voices[u].cursor = heard[voices[u].sequence + 1]
        /\ voices[u].cursor <= voices[u].sound
  BY <1>0, <1>1, VoiceIs
<1>4. cut' = cut \cup (IF Busy(v) THEN {voices[v].sequence + 1} ELSE {})
  BY DEF Starts
<1>5. \A n \in DOMAIN started : n \in DOMAIN started' /\ n < last
  BY <1>1
<1>6. \A n \in cut' : n \in DOMAIN started
  BY <1>0, <1>3, <1>4 DEF MixerType
<1>7. last \in DOMAIN started' /\ sound \in Nat
  BY <1>1
<1>8. \A n \in DOMAIN started' : n \in DOMAIN started \/ n = last
  BY <1>1
<1>9. MixerType'
  <2>1. voices' \in [Voice -> Playback \cup {None}]
    <3>1. [sound |-> sound, cursor |-> 0, sequence |-> next_sequence] \in Playback
      BY <1>0, <1>1 DEF MixerType, Playback
    <3> QED  BY <1>0, <3>1 DEF MixerType, Starts
  <2>2. cut' \subseteq DOMAIN started'
    BY <1>5, <1>6
  <2> QED  BY <1>1, <2>1, <2>2 DEF MixerType
<1>10. VoicesPlay'
  <2>1. ASSUME NEW u \in Voice, Busy(u)'
        PROVE  /\ voices'[u].sequence + 1 \in DOMAIN started'
               /\ voices'[u].sound = started'[voices'[u].sequence + 1].sound
               /\ voices'[u].cursor = heard'[voices'[u].sequence + 1]
               /\ voices'[u].cursor <= voices'[u].sound
    <3>1. CASE u = v
      BY <1>1, <1>2, <1>7, <3>1
    <3>2. CASE u # v
      <4>1. Busy(u) /\ voices'[u] = voices[u]
        BY <1>1, <2>1, <3>2
      <4>2. voices[u].sequence + 1 \in DOMAIN started
        BY <1>3, <4>1
      <4>3. /\ started'[voices[u].sequence + 1] = started[voices[u].sequence + 1]
            /\ heard'[voices[u].sequence + 1] = heard[voices[u].sequence + 1]
        BY <1>1, <4>2
      <4> QED  BY <1>3, <1>5, <4>1, <4>2, <4>3
    <3> QED  BY <3>1, <3>2
  <2>2. ASSUME NEW u \in Voice, NEW w \in Voice, Busy(u)', Busy(w)',
               voices'[u].sequence = voices'[w].sequence
        PROVE  u = w
    <3>1. CASE u # v /\ w # v
      <4>1. /\ Busy(u) /\ voices'[u] = voices[u]
            /\ Busy(w) /\ voices'[w] = voices[w]
        BY <1>1, <2>2, <3>1
      <4> QED  BY <1>0, <2>2, <4>1 DEF VoicesPlay
    <3>2. CASE u = v /\ w # v
      BY <1>1, <1>2, <1>3, <2>2, <3>2
    <3>3. CASE u # v /\ w = v
      BY <1>1, <1>2, <1>3, <2>2, <3>3
    <3> QED  BY <3>1, <3>2, <3>3
  <2> QED  BY <2>1, <2>2 DEF VoicesPlay
<1>11. OldestGivesWay'
  <2>1. ASSUME NEW n \in cut', NEW u \in Voice, Busy(u)'
        PROVE  voices'[u].sequence + 1 > n
    <3>0. n \in Nat /\ n < last
      BY <1>1, <1>5, <1>6
    <3>1. CASE u = v
      BY <1>1, <1>2, <3>0, <3>1
    <3>2. CASE u # v /\ n \in cut
      BY <1>1, <2>1, <3>2 DEF VoiceInv, OldestGivesWay
    <3>3. CASE u # v /\ n \notin cut
      <4>1. Busy(u) /\ voices'[u] = voices[u] /\ Busy(v) /\ n = voices[v].sequence + 1
        BY <1>1, <1>4, <2>1, <3>3
      <4>2. Takes(v)
        BY DEF Starts
      <4>3. voices[v].sequence <= voices[u].sequence
        BY <4>1, <4>2 DEF Takes, Oldest
      <4>4. voices[v].sequence # voices[u].sequence
        BY <1>0, <3>3, <4>1 DEF VoicesPlay
      <4> QED  BY <1>3, <4>1, <4>3, <4>4
    <3> QED  BY <3>1, <3>2, <3>3
  <2> QED  BY <2>1 DEF OldestGivesWay
<1>12. EndedWhole'
  <2>1. ASSUME NEW n \in DOMAIN started', ~Playing(n)', n \notin cut'
        PROVE  heard'[n] = started'[n].sound
    <3>1. n # last
      BY <1>1, <1>2, <2>1 DEF Playing
    <3>2. n \in DOMAIN started /\ n \notin cut
      BY <1>4, <1>8, <2>1, <3>1
    <3>3. ASSUME NEW u \in Voice, Busy(u), voices[u].sequence + 1 = n
          PROVE  FALSE
      <4>1. CASE u = v
        BY <1>4, <2>1, <3>3, <4>1
      <4>2. CASE u # v
        BY <1>1, <2>1, <3>3, <4>2 DEF Playing
      <4> QED  BY <4>1, <4>2
    <3>4. ~Playing(n)
      BY <3>3 DEF Playing
    <3> QED  BY <1>1, <3>2, <3>4 DEF VoiceInv, EndedWhole
  <2> QED  BY <2>1 DEF EndedWhole
<1> QED  BY <1>9, <1>10, <1>11, <1>12 DEF VoiceInv

(* A buffer keeps it: a voice that goes on goes on with its own sound, and *)
(* one that ends has put out the whole of it.                              *)
LEMMA MixKeeps ==
  ASSUME VoiceInv, Mix
  PROVE  VoiceInv'
<1>0. MixerType /\ VoicesPlay
  BY DEF VoiceInv
<1>1. /\ \A v \in Voice : ~Busy(v) => voices'[v] = None /\ ~Busy(v)'
      /\ \A n \in DOMAIN started : ~Playing(n) => heard'[n] = heard[n]
      /\ heard' \in [DOMAIN started -> Nat]
      /\ callback' = "idle" /\ UNCHANGED <<started, next_sequence, cut>>
  BY <1>0, MixLeaves
<1>2. \A v \in Voice : Busy(v) =>
        \/ ~Busy(v)' /\ heard'[voices[v].sequence + 1] = voices[v].sound
        \/ /\ Busy(v)' /\ voices'[v] \in Playback
           /\ voices'[v].sequence = voices[v].sequence
           /\ voices'[v].sound = voices[v].sound
           /\ voices'[v].cursor = heard'[voices[v].sequence + 1]
           /\ voices'[v].cursor < voices'[v].sound
  BY <1>0, MixIs
<1>3. ASSUME NEW v \in Voice, Busy(v)'
      PROVE  /\ Busy(v) /\ voices'[v] \in Playback
             /\ voices'[v].sequence = voices[v].sequence
             /\ voices'[v].sound = voices[v].sound
             /\ voices'[v].cursor = heard'[voices[v].sequence + 1]
             /\ voices'[v].cursor < voices'[v].sound
  BY <1>1, <1>2, <1>3
<1>4. MixerType'
  <2>1. ASSUME NEW v \in Voice
        PROVE  voices'[v] \in Playback \cup {None}
    BY <1>3 DEF Busy
  <2>2. voices' \in [Voice -> Playback \cup {None}]
    BY <2>1 DEF Mix
  <2> QED  BY <1>0, <1>1, <2>2 DEF MixerType
<1>5. VoicesPlay'
  <2>1. ASSUME NEW v \in Voice, Busy(v)'
        PROVE  /\ voices'[v].sequence + 1 \in DOMAIN started'
               /\ voices'[v].sound = started'[voices'[v].sequence + 1].sound
               /\ voices'[v].cursor = heard'[voices'[v].sequence + 1]
               /\ voices'[v].cursor < voices'[v].sound
    BY <1>0, <1>1, <1>3, <2>1 DEF VoicesPlay
  <2>2. ASSUME NEW v \in Voice, Busy(v)'
        PROVE  voices'[v].cursor <= voices'[v].sound
    <3>1. voices'[v].cursor \in Nat /\ voices'[v].sound \in Nat
      BY <1>3, <2>2 DEF Playback
    <3> QED  BY <1>3, <2>2, <3>1
  <2>3. ASSUME NEW u \in Voice, NEW w \in Voice, Busy(u)', Busy(w)',
               voices'[u].sequence = voices'[w].sequence
        PROVE  u = w
    BY <1>0, <1>3, <2>3 DEF VoicesPlay
  <2> QED  BY <2>1, <2>2, <2>3 DEF VoicesPlay
<1>6. OldestGivesWay'
  BY <1>1, <1>3 DEF VoiceInv, OldestGivesWay
<1>7. EndedWhole'
  <2>1. ASSUME NEW n \in DOMAIN started, ~Playing(n)', n \notin cut
        PROVE  heard'[n] = started[n].sound
    <3>1. CASE ~Playing(n)
      BY <1>1, <2>1, <3>1 DEF VoiceInv, EndedWhole
    <3>2. CASE Playing(n)
      <4>1. PICK v \in Voice : Busy(v) /\ voices[v].sequence + 1 = n
        BY <3>2 DEF Playing
      <4>2. ~Busy(v)'
        BY <1>3, <2>1, <4>1 DEF Playing
      <4>3. heard'[n] = voices[v].sound
        BY <1>2, <4>1, <4>2
      <4> QED  BY <1>0, <4>1, <4>3, VoiceIs
    <3> QED  BY <3>1, <3>2
  <2> QED  BY <1>1, <2>1 DEF EndedWhole
<1> QED  BY <1>4, <1>5, <1>6, <1>7 DEF VoiceInv

LEMMA VoiceStep ==
  ASSUME VoiceInv, RingType, RingHolds, [Next]_vars
  PROVE  VoiceInv'
<1>1. CASE Start
  <2>1. /\ callback' = "starting" /\ Done \in Nat
        /\ \/ UNCHANGED <<callback, voices, next_sequence, started, heard, cut>>
           \/ \E sound \in Length : \E v \in Voice : Starts(v, sound)
    BY <1>1, StartIs, DoneIs DEF mixer, history
  <2>2. CASE UNCHANGED <<callback, voices, next_sequence, started, heard, cut>>
    BY <2>2 DEF VoiceInv, MixerType, VoicesPlay, OldestGivesWay, EndedWhole, Busy, Playing
  <2>3. CASE \E sound \in Length : \E v \in Voice : Starts(v, sound)
    BY <2>1, <2>3, StartsKeeps
  <2> QED  BY <2>1, <2>2, <2>3
<1>2. CASE Mix
  BY <1>2, MixKeeps
<1>3. CASE ~Start /\ ~Mix
  <2>1. /\ UNCHANGED <<voices, next_sequence, started, heard, cut>>
        /\ callback' = "idle" => callback = "idle"
    BY <1>3, MixerIdle
  <2>2. MixerType' /\ EndedWhole'
    BY <2>1 DEF VoiceInv, MixerType, EndedWhole, Busy, Playing
  <2>3. VoicesPlay'
    BY <2>1 DEF VoiceInv, VoicesPlay, Busy
  <2>4. OldestGivesWay'
    BY <2>1 DEF VoiceInv, OldestGivesWay, Busy
  <2> QED  BY <2>2, <2>3, <2>4 DEF VoiceInv
<1> QED  BY <1>1, <1>2, <1>3

-----------------------------------------------------------------------------
(* The theorems *)

LEMMA MixerInit ==
  ASSUME Init
  PROVE  MixerInv
<1>1. /\ \A v \in Voice : ~Busy(v)
      /\ started = << >> /\ DOMAIN started = {} /\ Len(started) = 0
      /\ scratch = << >> /\ Len(scratch) = 0 /\ accepted = << >> /\ Len(accepted) = 0
      /\ pushed = 0 /\ drained = 0
  BY DEF Init, Busy
<1>2. RingType /\ Asked
  BY <1>1 DEF Init, RingType, Asked
<1>3. RingHolds
  BY <1>1 DEF Init, RingHolds
<1>4. Done = 0
  BY <1>1 DEF Done
<1>5. StartedInOrder
  BY <1>1, <1>4 DEF StartedInOrder
<1>6. MixerType
  BY <1>1 DEF Init, MixerType
<1>7. VoicesPlay /\ OldestGivesWay /\ EndedWhole
  BY <1>1 DEF VoicesPlay, OldestGivesWay, EndedWhole, Init
<1> QED  BY <1>2, <1>3, <1>5, <1>6, <1>7 DEF MixerInv

LEMMA MixerStep ==
  ASSUME MixerInv, [Next]_vars
  PROVE  MixerInv'
<1>1. RingType' /\ Asked' /\ RingHolds'
  BY RingTypeStep, RingStep DEF MixerInv
<1>2. StartedInOrder'
  BY <1>1, StartedStep DEF MixerInv
<1>3. VoiceInv'
  BY VoiceStep DEF MixerInv, VoiceInv
<1> QED  BY <1>1, <1>2, <1>3 DEF MixerInv, VoiceInv

(* The inductive invariant: the ring and the mixer agree on every command, *)
(* and every voice on the sound it plays.                                  *)
THEOREM MixerInvariant == Spec => []MixerInv
<1>1. Init => MixerInv
  BY MixerInit
<1>2. MixerInv /\ [Next]_vars => MixerInv'
  BY MixerStep
<1> QED  BY <1>1, <1>2, PTL DEF Spec

(* What waits, after what was drained, is the rest of what was accepted.   *)
LEMMA RestWaits ==
  ASSUME RingType, RingHolds
  PROVE  scratch \o Waiting(pushed - drained) = SubSeq(accepted, Done + 1, Len(accepted))
<1> DEFINE n == Len(scratch)
           waits == pushed - drained
           rest == SubSeq(accepted, Done + 1, Len(accepted))
           both == scratch \o Waiting(waits)
<1>1. /\ pushed \in Nat /\ drained \in 0..pushed /\ n \in Nat /\ n <= drained
      /\ Len(accepted) = pushed /\ Done = drained - n /\ accepted \in Seq(Sound)
      /\ waits \in Nat /\ waits \in 0..waits
  BY DoneIs DEF RingType, RingHolds
<1>2. /\ Waiting(waits) \in Seq(Sound) /\ Len(Waiting(waits)) = waits
      /\ \A i \in 1..waits : Waiting(waits)[i] = accepted[drained + i]
  BY <1>1, WaitingIs
<1>3. scratch \in Seq(Sound) /\ \A i \in 1..n : scratch[i] = accepted[Done + i]
  BY <1>1 DEF RingType, RingHolds
<1>4. Done + 1 \in Nat \ {0} /\ Len(accepted) - (Done + 1) + 1 = n + waits
  BY <1>1
<1>5. /\ rest \in Seq(Sound) /\ Len(rest) = n + waits
      /\ \A i \in 1..(n + waits) : rest[i] = accepted[Done + i]
  BY <1>1, <1>4
<1>6. /\ both \in Seq(Sound) /\ Len(both) = n + waits
      /\ \A i \in 1..n : both[i] = scratch[i]
      /\ \A i \in 1..waits : both[n + i] = Waiting(waits)[i]
  BY <1>2, <1>3
<1>7. ASSUME NEW i \in 1..(n + waits)
      PROVE  both[i] = rest[i]
  <2>1. CASE i \in 1..n
    BY <1>3, <1>5, <1>6, <2>1
  <2>2. CASE i \notin 1..n
    <3>1. i - n \in 1..waits /\ n + (i - n) = i /\ drained + (i - n) = Done + i
      BY <1>1, <2>2
    <3>2. both[n + (i - n)] = accepted[drained + (i - n)]
      BY <1>2, <1>6, <3>1
    <3> QED  BY <1>5, <3>1, <3>2
  <2> QED  BY <2>1, <2>2
<1> HIDE DEF both, rest, n, waits
<1>8. both = rest
  BY <1>1, <1>5, <1>6, <1>7
<1> QED  BY <1>8 DEF both, rest, waits

(* For any capacity and any number of commands the ring loses none it      *)
(* accepted, overwrites none that waits and hands none out twice, and the  *)
(* mixer starts each sound of its own once and in the order accepted, at   *)
(* whichever callbacks the lock was found taken.                           *)
THEOREM CommandsInOrder == Spec => []InOrderOnce
<1>1. ASSUME MixerInv PROVE InOrderOnce
  <2>1. TypeOK
    BY <1>1 DEF MixerInv, RingType, Asked, MixerType, TypeOK
  <2>2. scratch \o Waiting(pushed - drained) = SubSeq(accepted, Done + 1, Len(accepted))
    BY <1>1, RestWaits DEF MixerInv
  <2> QED  BY <1>1, <2>1, <2>2 DEF MixerInv, StartedInOrder, InOrderOnce
<1>2. MixerInv => InOrderOnce
  BY <1>1
<1> QED  BY <1>2, MixerInvariant, PTL

(* Whatever the number of voices, a sound is cut only when all are busy    *)
(* with sounds no older.                                                   *)
THEOREM OldestIsCut == Spec => []OldestGivesWay
<1>1. MixerInv => OldestGivesWay
  BY DEF MixerInv
<1> QED  BY <1>1, MixerInvariant, PTL

(* Whatever the length of the buffer, a sound that is not cut has put all  *)
(* its samples into the output when its voice is free again, and frees it  *)
(* with the buffer it ends in.                                             *)
THEOREM SoundsHeardWhole == Spec => []HeardWhole
<1>1. ASSUME MixerInv, NEW n \in DOMAIN started
      PROVE  /\ Playing(n) => n \notin cut
             /\ (~Playing(n) /\ n \notin cut) => heard[n] = started[n].sound
             /\ (Playing(n) /\ callback = "idle") => heard[n] < started[n].sound
  <2>1. ASSUME Playing(n)
        PROVE  /\ n \notin cut
               /\ callback = "idle" => heard[n] < started[n].sound
    <3>1. PICK v \in Voice : Busy(v) /\ voices[v].sequence + 1 = n
      BY <2>1 DEF Playing
    <3>2. n \notin cut
      <4>1. n \in Nat
        BY <1>1, <3>1, VoiceIs DEF MixerInv
      <4> QED  BY <1>1, <3>1, <4>1 DEF MixerInv, OldestGivesWay
    <3>3. callback = "idle" => voices[v].cursor < voices[v].sound
      BY <1>1, <3>1 DEF MixerInv, VoicesPlay
    <3>4. voices[v].sound = started[n].sound /\ voices[v].cursor = heard[n]
      BY <1>1, <3>1, VoiceIs DEF MixerInv
    <3> QED  BY <3>2, <3>3, <3>4
  <2>2. (~Playing(n) /\ n \notin cut) => heard[n] = started[n].sound
    BY <1>1 DEF MixerInv, EndedWhole
  <2> QED  BY <2>1, <2>2
<1>2. MixerInv => HeardWhole
  BY <1>1 DEF HeardWhole
<1> QED  BY <1>2, MixerInvariant, PTL

=============================================================================
