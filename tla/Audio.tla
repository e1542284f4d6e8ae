------------------------------- MODULE Audio -------------------------------
(***************************************************************************)
(* The mixer of crates/audio and the command ring that feeds it.  The game *)
(* thread holds the ring's lock while it pushes one command and may be     *)
(* preempted there; the audio callback only tries the lock, drains what    *)
(* waits, starts it, and mixes one buffer.                                 *)
(*                                                                         *)
(* A sound is named by its number of samples; Foreign is an identifier of  *)
(* another mixer.  A command is named by its place among those accepted.   *)
(* accepted, started, heard and cut are history: the sounds the ring took, *)
(* those started and the places of their commands, the samples each of     *)
(* these has put into the output, and those whose voice was taken.         *)
(***************************************************************************)
EXTENDS Integers, Sequences, FiniteSets

CONSTANTS
  Capacity,     (* CAPACITY, 64                                            *)
  MaxVoices,    (* MAX_VOICES, 8                                           *)
  Buffer,       (* samples in the buffer of one callback                   *)
  Length,       (* the lengths of the loaded sounds                        *)
  MaxPushes,    (* bound: commands the game asks for                       *)
  Foreign, None

ASSUME SizeAssumption ==
  /\ Capacity \in Nat \ {0} /\ MaxVoices \in Nat \ {0} /\ Buffer \in Nat \ {0}
  /\ Length \subseteq Nat /\ MaxPushes \in Nat

(* What a voice in use holds                                               *)
Playback == [sound : Length, cursor : Nat, sequence : Nat]

ASSUME NameAssumption ==
  Foreign \notin Nat /\ None \notin Nat \cup Playback /\ Foreign # None

VARIABLES
  (* the ring, the command the game thread holds its lock for, and how     *)
  (* many the game has asked for                                           *)
  slots, pushed, drained, pushing, asked,
  (* the mixer: where its callback is, the drained commands not started    *)
  (* yet, its voices                                                       *)
  callback, scratch, voices, next_sequence,
  accepted, started, heard, cut

ring == <<slots, pushed, drained>>
game == <<pushing, asked>>
mixer == <<voices, next_sequence>>
history == <<started, heard, cut>>
vars == <<ring, game, callback, scratch, mixer, accepted, history>>

Sound == Length \cup {Foreign}
Slots == 0..(Capacity - 1)
Voice == 1..MaxVoices
Busy(v) == voices[v] # None

TypeOK ==
  /\ slots \in [Slots -> Sound \cup {None}]
  /\ pushed \in 0..MaxPushes /\ drained \in 0..pushed
  /\ pushed - drained <= Capacity
  /\ pushing \in Sound \cup {None} /\ asked \in 0..MaxPushes
  /\ callback \in {"idle", "starting"}
  /\ scratch \in Seq(Sound) /\ Len(scratch) <= Capacity
  /\ voices \in [Voice -> Playback \cup {None}]
  /\ next_sequence = Len(started)
  /\ accepted \in Seq(Sound)
  /\ started \in Seq([place : Nat, sound : Length])
  /\ heard \in [DOMAIN started -> Nat]
  /\ cut \subseteq DOMAIN started

Init ==
  /\ slots = [s \in Slots |-> None]
  /\ pushed = 0 /\ drained = 0 /\ pushing = None /\ asked = 0
  /\ callback = "idle" /\ scratch = << >>
  /\ voices = [v \in Voice |-> None] /\ next_sequence = 0
  /\ accepted = << >> /\ started = << >> /\ heard = << >> /\ cut = {}

-----------------------------------------------------------------------------
(* The game thread *)

(* Producer::push takes the lock; the callback holds it within one step    *)
Lock(sound) ==
  /\ pushing = None
  /\ asked < MaxPushes
  /\ pushing' = sound
  /\ asked' = asked + 1
  /\ UNCHANGED <<ring, callback, scratch, mixer, accepted, history>>

(* Mutant: one more command than there are slots                           *)
HasRoomLate(waiting) == waiting <= Capacity

HasRoom(waiting) == waiting < Capacity

(* CommandRing::push, and the lock is released; a full ring drops it       *)
Push ==
  /\ pushing # None
  /\ IF HasRoom(pushed - drained)
     THEN /\ slots' = [slots EXCEPT ![pushed % Capacity] = pushing]
          /\ pushed' = pushed + 1
          /\ accepted' = Append(accepted, pushing)
     ELSE UNCHANGED <<slots, pushed, accepted>>
  /\ pushing' = None
  /\ UNCHANGED <<drained, asked, callback, scratch, mixer, history>>

-----------------------------------------------------------------------------
(* The audio callback: Mixer::fill *)

(* A lock that is taken is not waited for: the commands wait               *)
SkipDrain ==
  /\ callback = "idle"
  /\ pushing # None
  /\ callback' = "starting"
  /\ UNCHANGED <<ring, game, scratch, mixer, accepted, history>>

(* The first n commands that wait                                          *)
Waiting(n) == [i \in 1..n |-> slots[(drained + i - 1) % Capacity]]

(* Mutant: one always stays behind                                         *)
TakenButOne(waiting) == IF waiting = 0 THEN 0 ELSE waiting - 1

(* DRAIN_BATCH is the ring's capacity                                      *)
Taken(waiting) == IF waiting < Capacity THEN waiting ELSE Capacity

(* Consumer::drain: what waits, oldest first                               *)
Drain ==
  LET taken == Taken(pushed - drained)
      read == {t % Capacity : t \in drained..(drained + taken - 1)}
  IN /\ callback = "idle"
     /\ pushing = None
     /\ scratch' = Waiting(taken)
     /\ slots' = [s \in Slots |-> IF s \in read THEN None ELSE slots[s]]
     /\ drained' = drained + taken
     /\ callback' = "starting"
     /\ UNCHANGED <<pushed, game, mixer, accepted, history>>

(* Mutant: the newest voice gives way                                      *)
OldestNewest(v) == \A u \in Voice : voices[u].sequence <= voices[v].sequence

(* All voices busy: the oldest gives way                                   *)
Oldest(v) == \A u \in Voice : voices[v].sequence <= voices[u].sequence

(* The commands the mixer has come to: those that wait are still ahead     *)
Done == Len(accepted) - (pushed - drained) - Len(scratch)

(* The voice a sound is started on: the first free one, or the oldest      *)
Takes(v) ==
  IF \E u \in Voice : ~Busy(u)
  THEN ~Busy(v) /\ \A u \in Voice : u < v => Busy(u)
  ELSE Oldest(v)

Start ==
  /\ callback = "starting"
  /\ scratch # << >>
  /\ scratch' = Tail(scratch)
  /\ IF Head(scratch) \notin Length
     THEN UNCHANGED <<mixer, history>>
     ELSE \E v \in Voice :
            /\ Takes(v)
            /\ voices' = [voices EXCEPT ![v] =
                 [sound |-> Head(scratch), cursor |-> 0, sequence |-> next_sequence]]
            /\ next_sequence' = next_sequence + 1
            /\ started' = Append(started, [place |-> Done + 1, sound |-> Head(scratch)])
            /\ heard' = Append(heard, 0)
            /\ cut' = cut \cup
                 (IF Busy(v) THEN {voices[v].sequence + 1} ELSE {})
  /\ UNCHANGED <<ring, game, callback, accepted>>

(* Mutant: a sound that ends with the buffer keeps its voice               *)
EndsInside(voice) == voice.sound - voice.cursor < Buffer

Ends(voice) == voice.sound - voice.cursor <= Buffer

(* Samples a voice puts into this buffer                                   *)
Take(voice) == IF Ends(voice) THEN voice.sound - voice.cursor ELSE Buffer

Mixed(voice) ==
  IF voice = None \/ Ends(voice) THEN None
  ELSE [voice EXCEPT !.cursor = @ + Take(voice)]

Mix ==
  /\ callback = "starting"
  /\ scratch = << >>
  /\ voices' = [v \in Voice |-> IF Busy(v) THEN Mixed(voices[v]) ELSE None]
  /\ heard' = [n \in DOMAIN heard |->
       LET own == {v \in Voice : Busy(v) /\ voices[v].sequence + 1 = n}
       IN IF own = {} THEN heard[n]
          ELSE heard[n] + Take(voices[CHOOSE v \in own : TRUE])]
  /\ callback' = "idle"
  /\ UNCHANGED <<ring, game, scratch, next_sequence, accepted, started, cut>>

-----------------------------------------------------------------------------

Callback == SkipDrain \/ Drain \/ Start \/ Mix

Next == (\E sound \in Sound : Lock(sound)) \/ Push \/ Callback

(* The device calls back for ever, and the game lets go of the lock.  That *)
(* a callback finds it free at last is not assumed: the bound on the       *)
(* pushes is a game that pauses.                                           *)
Spec == Init /\ [][Next]_vars /\ WF_vars(Push) /\ WF_vars(Callback)

-----------------------------------------------------------------------------
(* Properties *)

(* What waits is what was accepted and not come to yet, in that order, so  *)
(* that no slot is overwritten before it is read; and of what the mixer    *)
(* came to, each sound of its own was started, once and in that order,     *)
(* however the two threads meet at the lock (CommandRing,                  *)
(* start_pending_sounds).                                                  *)
InOrderOnce ==
  /\ TypeOK
  /\ scratch \o Waiting(pushed - drained) = SubSeq(accepted, Done + 1, Len(accepted))
  /\ \A n \in DOMAIN started :
       started[n].place \in 1..Done /\ accepted[started[n].place] = started[n].sound
  /\ \A m, n \in DOMAIN started : m < n => started[m].place < started[n].place
  /\ \A i \in 1..Done :
       accepted[i] \in Length => \E n \in DOMAIN started : started[n].place = i

(* A sound is cut short only by newer ones, when no older one was left     *)
(* playing (start).                                                        *)
OldestGivesWay ==
  \A n \in cut : \A v \in Voice : Busy(v) => voices[v].sequence + 1 > n

Playing(n) == \E v \in Voice : Busy(v) /\ voices[v].sequence + 1 = n

(* A sound that was not cut is heard whole: what its voice has left is     *)
(* what has not been heard yet, and no voice is held by a sound that has   *)
(* ended (fill).                                                           *)
HeardWhole ==
  \A n \in DOMAIN started :
    /\ Playing(n) => n \notin cut
    /\ (~Playing(n) /\ n \notin cut) => heard[n] = started[n].sound
    /\ (Playing(n) /\ callback = "idle") => heard[n] < started[n].sound

(* Every accepted command is drained once the game pauses, though a        *)
(* callback that finds the lock taken takes none (Consumer::drain).        *)
AllDrained == \A n \in 1..MaxPushes : (pushed >= n) ~> (drained >= n)

=============================================================================
