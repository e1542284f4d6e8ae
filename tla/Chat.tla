-------------------------------- MODULE Chat --------------------------------
(***************************************************************************)
(* The chat of crates/net/src/chat.rs: one ChatChannel per peer, beside    *)
(* the session and never in it.  A message is repeated for a few pumps and *)
(* forgotten; a receiver filters the repeats with one window per sender    *)
(* and keeps the newest messages in a ring the driver drains.              *)
(*                                                                         *)
(* A message is named by its sender and its number.  The network keeps     *)
(* every datagram sent: it may deliver one never, late, or many times.     *)
(* arrived and sends are history: the messages each peer took in, in that  *)
(* order, and how often what a slot holds was sent to each peer.           *)
(***************************************************************************)
EXTENDS Integers, Sequences, FiniteSets

CONSTANTS
  Peers,        (* the size of the roster                                  *)
  Outbox,       (* CHAT_OUTBOX, 4                                          *)
  Inbox,        (* CHAT_INBOX, 16                                          *)
  Repeats,      (* CHAT_REPEATS, 6                                         *)
  SeenWindow,   (* the width of Seen::below, 64                            *)
  Talkers,      (* peers whose player types                                *)
  MaxMessages,  (* bound: messages each of them sends                      *)
  None

Peer == 0..(Peers - 1)

ASSUME RosterAssumption == Peers \in Nat \ {0, 1} /\ Talkers \subseteq Peer
ASSUME SizeAssumption ==
  /\ Outbox \in Nat \ {0} /\ Inbox \in Nat \ {0}
  /\ Repeats \in Nat \ {0} /\ SeenWindow \in Nat \ {0}
  /\ MaxMessages \in Nat \ {0}

VARIABLES
  next_sequence, outbox,
  (* the ring of received messages: its cells, where a drain starts        *)
  inbox, head, len,
  seen,
  (* where the pump stands: the slot, and the least seat to send it to     *)
  emit_slot, emit_peer,
  net, arrived, sends

sender == <<next_sequence, outbox, emit_slot, emit_peer, sends>>
receiver == <<inbox, head, len, seen, arrived>>
vars == <<sender, receiver, net>>

Sequence == 0..(MaxMessages - 1)
Message == [from : Peer, sequence : Sequence]
Outgoing == [sequence : Sequence, repeats_left : 1..Repeats]
Seen == [any : BOOLEAN, high : Sequence, below : SUBSET (1..SeenWindow)]

ASSUME NoneAssumption == None \notin Outgoing \cup Message

Slots == 0..(Outbox - 1)
Cells == 0..(Inbox - 1)
Remotes(p) == Peer \ {p}

TypeOK ==
  /\ next_sequence \in [Peer -> 0..MaxMessages]
  /\ outbox \in [Peer -> [Slots -> Outgoing \cup {None}]]
  /\ inbox \in [Peer -> [Cells -> Message \cup {None}]]
  /\ head \in [Peer -> Cells]
  /\ len \in [Peer -> 0..Inbox]
  /\ seen \in [Peer -> [Peer -> Seen]]
  /\ emit_slot \in [Peer -> Slots]
  /\ emit_peer \in [Peer -> 0..Peers]
  /\ net \subseteq [src : Peer, dst : Peer, sequence : Sequence]
  /\ arrived \in [Peer -> Seq(Message)]
  /\ sends \in [Peer -> [Slots -> [Peer -> 0..(Repeats + 1)]]]

Init ==
  /\ next_sequence = [p \in Peer |-> 0]
  /\ outbox = [p \in Peer |-> [s \in Slots |-> None]]
  /\ inbox = [p \in Peer |-> [c \in Cells |-> None]]
  /\ head = [p \in Peer |-> 0]
  /\ len = [p \in Peer |-> 0]
  /\ seen = [p \in Peer |-> [q \in Peer |-> [any |-> FALSE, high |-> 0, below |-> {}]]]
  /\ emit_slot = [p \in Peer |-> 0]
  /\ emit_peer = [p \in Peer |-> 0]
  /\ net = {}
  /\ arrived = [p \in Peer |-> << >>]
  /\ sends = [p \in Peer |-> [s \in Slots |-> [q \in Peer |-> 0]]]

-----------------------------------------------------------------------------
(* Sending *)

(* The first free slot takes the message; none is queued beyond them       *)
Send(p) ==
  /\ p \in Talkers /\ next_sequence[p] < MaxMessages
  /\ \E s \in Slots :
       /\ outbox[p][s] = None
       /\ \A r \in Slots : r < s => outbox[p][r] # None
       /\ outbox' = [outbox EXCEPT ![p][s] =
                       [sequence |-> next_sequence[p], repeats_left |-> Repeats]]
       /\ sends' = [sends EXCEPT ![p][s] = [q \in Peer |-> 0]]
  /\ next_sequence' = [next_sequence EXCEPT ![p] = @ + 1]
  /\ UNCHANGED <<receiver, emit_slot, emit_peer, net>>

(* Mutant: the seat is not set back to the first when the slot moves on    *)
AheadUnreset(p) ==
  {t \in Slots \X Remotes(p) : t[1] >= emit_slot[p] /\ t[2] >= emit_peer[p]}

(* Slots and seats from where the pump stands: each message to every       *)
(* remote, then the next                                                   *)
Ahead(p) ==
  {t \in Slots \X Remotes(p) :
     t[1] > emit_slot[p] \/ (t[1] = emit_slot[p] /\ t[2] >= emit_peer[p])}

Owed(p) == {t \in Ahead(p) : outbox[p][t[1]] # None}

(* One call of next_outbound that returns a datagram; sends counts up to   *)
(* one more than there may be                                              *)
Emit(p) ==
  \E t \in Owed(p) :
    /\ \A u \in Owed(p) : u[1] > t[1] \/ (u[1] = t[1] /\ u[2] >= t[2])
    /\ net' = net \cup
         {[src |-> p, dst |-> t[2], sequence |-> outbox[p][t[1]].sequence]}
    /\ sends' = [sends EXCEPT ![p][t[1]][t[2]] =
                    IF @ <= Repeats THEN @ + 1 ELSE @]
    /\ emit_slot' = [emit_slot EXCEPT ![p] = t[1]]
    /\ emit_peer' = [emit_peer EXCEPT ![p] = t[2] + 1]
    /\ UNCHANGED <<receiver, next_sequence, outbox>>

Expired(m) == IF m = None \/ m.repeats_left = 1 THEN None
              ELSE [m EXCEPT !.repeats_left = @ - 1]

(* The call that returns None and ends the pump                            *)
EndPump(p) ==
  /\ Owed(p) = {}
  /\ outbox' = [outbox EXCEPT ![p] = [s \in Slots |-> Expired(@[s])]]
  /\ emit_slot' = [emit_slot EXCEPT ![p] = 0]
  /\ emit_peer' = [emit_peer EXCEPT ![p] = 0]
  /\ UNCHANGED <<receiver, next_sequence, net, sends>>

-----------------------------------------------------------------------------
(* Receiving *)

(* Is n news to filter f                                                   *)
Admits(f, n) ==
  \/ ~f.any
  \/ n > f.high
  \/ f.high - n \in (1..SeenWindow) \ f.below

(* Mutant: the bit of the old newest is set one too far                    *)
ShiftedFar(below, shift) ==
  IF shift >= SeenWindow THEN {}
  ELSE {b + shift : b \in {c \in below : c + shift <= SeenWindow}} \cup {shift + 1}

(* Mutant: the old newest is not remembered                                *)
ShiftedShort(below, shift) ==
  IF shift >= SeenWindow THEN {}
  ELSE {b + shift : b \in {c \in below : c + shift <= SeenWindow}}

(* The window moved up by shift: at its full width everything is forgotten *)
Shifted(below, shift) ==
  IF shift >= SeenWindow THEN {}
  ELSE {b + shift : b \in {c \in below : c + shift <= SeenWindow}} \cup {shift}

(* Seen::admit of an n it admits                                           *)
Noted(f, n) ==
  IF ~f.any THEN [f EXCEPT !.any = TRUE, !.high = n]
  ELSE IF n > f.high
       THEN [f EXCEPT !.high = n, !.below = Shifted(f.below, n - f.high)]
       ELSE [f EXCEPT !.below = @ \cup {f.high - n}]

(* Mutant: a full ring takes the newest without dropping the oldest        *)
DroppedNone(p) == 0

(* How many are dropped to make room: the oldest, of a full ring           *)
Dropped(p) == IF len[p] = Inbox THEN 1 ELSE 0

(* A repeat, or one older than the window, changes nothing                 *)
Deliver(m) ==
  LET p == m.dst
      message == [from |-> m.src, sequence |-> m.sequence]
      start == (head[p] + Dropped(p)) % Inbox
      held == len[p] - Dropped(p)
  IN /\ m \in net
     /\ Admits(seen[p][m.src], m.sequence)
     /\ seen' = [seen EXCEPT ![p][m.src] = Noted(@, m.sequence)]
     /\ head' = [head EXCEPT ![p] = start]
     /\ inbox' = [inbox EXCEPT ![p][(start + held) % Inbox] = message]
     /\ len' = [len EXCEPT ![p] = held + 1]
     /\ arrived' = [arrived EXCEPT ![p] = Append(@, message)]
     /\ UNCHANGED <<sender, net>>

(* next_message: the driver drains one                                     *)
Read(p) ==
  /\ len[p] > 0
  /\ inbox' = [inbox EXCEPT ![p][head[p]] = None]
  /\ head' = [head EXCEPT ![p] = (@ + 1) % Inbox]
  /\ len' = [len EXCEPT ![p] = @ - 1]
  /\ UNCHANGED <<sender, seen, arrived, net>>

-----------------------------------------------------------------------------

Pump(p) == Emit(p) \/ EndPump(p)

Next ==
  \/ \E p \in Peer : Send(p) \/ Pump(p) \/ Read(p)
  \/ \E m \in net : Deliver(m)

Spec == Init /\ [][Next]_vars /\ \A p \in Peer : WF_vars(Pump(p))

-----------------------------------------------------------------------------
(* Properties *)

(* The filter holds nothing against a message that never came: what it     *)
(* refuses it has taken in, or it is older than the window (Seen::admit).  *)
RefusesOnlyRepeats ==
  \A p, q \in Peer : seen[p][q].any =>
    \A back \in seen[p][q].below \cup {0} :
      \E i \in DOMAIN arrived[p] :
        arrived[p][i] = [from |-> q, sequence |-> seen[p][q].high - back]

(* A message is taken in twice only across a jump of exactly the window:   *)
(* the other repeats, the late and the reordered, are all filtered         *)
(* (Seen::admit).                                                          *)
TwiceOnlyAcrossJump ==
  \A p \in Peer : \A i, j \in DOMAIN arrived[p] :
    (i < j /\ arrived[p][i] = arrived[p][j]) =>
      \E k \in i..j : arrived[p][k] =
        [arrived[p][i] EXCEPT !.sequence = @ + SeenWindow]

(* The ring holds the newest messages, in the order they came, whatever    *)
(* was drained or dropped (absorb, next_message).                          *)
Waiting(p) == [i \in 1..len[p] |-> inbox[p][(head[p] + i - 1) % Inbox]]

InboxIsRecent ==
  TypeOK /\ \A p \in Peer :
    LET n == Len(arrived[p])
    IN Waiting(p) = SubSeq(arrived[p], n - len[p] + 1, n)

(* A message leaves the outbox only after it was sent to every remote in   *)
(* every pump it was there for: the one it arrived in may have passed its  *)
(* slot (expire: "the count means pumps and not peers").                   *)
SentToAll ==
  [][\A p \in Peer : \A s \in Slots :
       (outbox[p][s] # None /\ outbox'[p][s] = None) =>
         \A q \in Remotes(p) : sends[p][s][q] \in {Repeats - 1, Repeats}]_vars

(* And it does leave: a player is refused for a few pumps, never for good  *)
(* (OutboxFull).                                                           *)
RepeatsSpent == SentToAll /\ \A p \in Peer : \A s \in Slots : []<>(outbox[p][s] = None)

=============================================================================
