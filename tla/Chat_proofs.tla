----------------------------- MODULE Chat_proofs -----------------------------
(***************************************************************************)
(* That the chat filter of Chat refuses nothing new and repeats itself in  *)
(* one case only, that the ring holds the newest messages, and that every  *)
(* message is sent its repeats: for every roster, window, ring and number  *)
(* of repeats, over a network that loses, repeats and reorders.            *)
(***************************************************************************)
EXTENDS Chat, SequenceTheorems, TLAPS

USE RosterAssumption, SizeAssumption

From(q, n) == [from |-> q, sequence |-> n]

(* A filter that noted nothing has nothing behind it                       *)
Blank ==
  \A p, q \in Peer : ~seen[p][q].any =>
    /\ seen[p][q].below = {}
    /\ \A i \in 1..Len(arrived[p]) : arrived[p][i].from # q

(* What became of a message taken in: it is the newest, or marked, or too  *)
(* old, or the jump of exactly the window came after it                    *)
Noticed(p, q, i) ==
  LET f == seen[p][q]
      n == arrived[p][i].sequence
  IN /\ n <= f.high
     /\ \/ n = f.high
        \/ f.high - n > SeenWindow
        \/ f.high - n \in f.below
        \/ \E k \in i..Len(arrived[p]) : arrived[p][k] = From(q, n + SeenWindow)

Remembered ==
  \A p, q \in Peer : \A i \in 1..Len(arrived[p]) :
    arrived[p][i].from = q => Noticed(p, q, i)

FilterInv == TypeOK /\ Blank /\ RefusesOnlyRepeats /\ Remembered /\ TwiceOnlyAcrossJump

(* The cells of the ring, by their places                                  *)
Wrap(x) == IF x < Inbox THEN x ELSE x - Inbox

RingHolds ==
  \A p \in Peer :
    LET n == Len(arrived[p])
    IN /\ len[p] <= n
       /\ \A i \in 1..len[p] :
            inbox[p][Wrap(head[p] + i - 1)] = arrived[p][n - len[p] + i]

(* A slot and seat the pump is past                                        *)
Passed(p, s, q) == s < emit_slot[p] \/ (s = emit_slot[p] /\ q < emit_peer[p])

(* A message was sent to each remote in every pump it was there for, the   *)
(* one under way when it was passed, but perhaps for the first             *)
SentEach ==
  \A p \in Peer : \A s \in Slots : outbox[p][s] # None =>
    \A q \in Remotes(p) :
      LET pumps == Repeats - outbox[p][s].repeats_left
      IN sends[p][s][q] \in
           IF Passed(p, s, q) THEN {pumps, pumps + 1} ELSE {pumps - 1, pumps}

-----------------------------------------------------------------------------
(* What a step is.                                                         *)
LEMMA Actions ==
  ASSUME [Next]_vars
  PROVE  \/ \E p \in Peer : Send(p)
         \/ \E p \in Peer : Emit(p)
         \/ \E p \in Peer : EndPump(p)
         \/ \E p \in Peer : Read(p)
         \/ \E m \in net : Deliver(m)
         \/ UNCHANGED vars
BY DEF Next, Pump

SenderType ==
  /\ next_sequence \in [Peer -> 0..MaxMessages]
  /\ outbox \in [Peer -> [Slots -> Outgoing \cup {None}]]
  /\ emit_slot \in [Peer -> Slots]
  /\ emit_peer \in [Peer -> 0..Peers]
  /\ net \subseteq [src : Peer, dst : Peer, sequence : Sequence]
  /\ sends \in [Peer -> [Slots -> [Peer -> 0..(Repeats + 1)]]]
ReceiverType ==
  /\ inbox \in [Peer -> [Cells -> Message \cup {None}]]
  /\ head \in [Peer -> Cells]
  /\ len \in [Peer -> 0..Inbox]
  /\ seen \in [Peer -> [Peer -> Seen]]
  /\ arrived \in [Peer -> Seq(Message)]

LEMMA TypeParts == TypeOK <=> SenderType /\ ReceiverType
BY DEF TypeOK, SenderType, ReceiverType

LEMMA NextSeat == \A q \in Peer : q \in Nat /\ q + 1 \in 0..Peers
BY DEF Peer

LEMMA SenderStep ==
  ASSUME SenderType, [Next]_vars
  PROVE  SenderType'
<1> USE DEF SenderType
<1>1. CASE \E p \in Peer : Send(p)
  <2>1. PICK p \in Peer : Send(p)
    BY <1>1
  <2>2. next_sequence[p] \in Sequence /\ next_sequence' \in [Peer -> 0..MaxMessages]
    <3>1. next_sequence[p] \in 0..MaxMessages /\ next_sequence[p] < MaxMessages
      BY <2>1 DEF Send
    <3>2. next_sequence[p] + 1 \in 0..MaxMessages
      BY <3>1
    <3> QED  BY <2>1, <3>1, <3>2 DEF Send, Sequence
  <2>3. PICK s \in Slots :
          /\ outbox' = [outbox EXCEPT ![p][s] =
                         [sequence |-> next_sequence[p], repeats_left |-> Repeats]]
          /\ sends' = [sends EXCEPT ![p][s] = [q \in Peer |-> 0]]
    BY <2>1 DEF Send
  <2>4. [sequence |-> next_sequence[p], repeats_left |-> Repeats] \in Outgoing
    BY <2>2 DEF Outgoing
  <2>5. [q \in Peer |-> 0] \in [Peer -> 0..(Repeats + 1)]
    OBVIOUS
  <2> QED  BY <2>1, <2>2, <2>3, <2>4, <2>5 DEF Send
<1>2. CASE \E p \in Peer : Emit(p)
  <2>1. PICK p \in Peer : Emit(p)
    BY <1>2
  <2>2. PICK t \in Owed(p) :
          /\ net' = net \cup
               {[src |-> p, dst |-> t[2], sequence |-> outbox[p][t[1]].sequence]}
          /\ sends' = [sends EXCEPT ![p][t[1]][t[2]] = IF @ <= Repeats THEN @ + 1 ELSE @]
          /\ emit_slot' = [emit_slot EXCEPT ![p] = t[1]]
          /\ emit_peer' = [emit_peer EXCEPT ![p] = t[2] + 1]
    BY <2>1 DEF Emit
  <2>3. t[1] \in Slots /\ t[2] \in Peer /\ outbox[p][t[1]] # None
    BY DEF Owed, Ahead, Remotes
  <2>4. outbox[p][t[1]].sequence \in Sequence
    <3>1. outbox[p][t[1]] \in Outgoing
      BY <2>3
    <3> QED  BY <3>1 DEF Outgoing
  <2>5. t[2] + 1 \in 0..Peers
    BY <2>3, NextSeat
  <2>6. sends' \in [Peer -> [Slots -> [Peer -> 0..(Repeats + 1)]]]
    <3>1. sends[p][t[1]][t[2]] \in 0..(Repeats + 1)
      BY <2>3
    <3>2. (IF sends[p][t[1]][t[2]] <= Repeats THEN sends[p][t[1]][t[2]] + 1
           ELSE sends[p][t[1]][t[2]]) \in 0..(Repeats + 1)
      BY <3>1
    <3> QED  BY <2>2, <2>3, <3>2
  <2> QED  BY <2>1, <2>2, <2>3, <2>4, <2>5, <2>6 DEF Emit
<1>3. CASE \E p \in Peer : EndPump(p)
  <2>1. PICK p \in Peer : EndPump(p)
    BY <1>3
  <2>2. \A m \in Outgoing \cup {None} : Expired(m) \in Outgoing \cup {None}
    BY DEF Expired, Outgoing
  <2>3. outbox' \in [Peer -> [Slots -> Outgoing \cup {None}]]
    BY <2>1, <2>2 DEF EndPump
  <2>4. emit_slot' \in [Peer -> Slots] /\ emit_peer' \in [Peer -> 0..Peers]
    <3>1. 0 \in Slots /\ 0 \in 0..Peers
      BY DEF Slots
    <3> QED  BY <2>1, <3>1 DEF EndPump
  <2> QED  BY <2>1, <2>3, <2>4 DEF EndPump
<1>4. CASE \E p \in Peer : Read(p)
  BY <1>4 DEF Read, sender
<1>5. CASE \E m \in net : Deliver(m)
  BY <1>5 DEF Deliver, sender
<1>6. CASE UNCHANGED vars
  BY <1>6 DEF vars, sender
<1> QED  BY <1>1, <1>2, <1>3, <1>4, <1>5, <1>6, Actions

(* What the other actions leave to Deliver and Read.                       *)
LEMMA ReceiverActions ==
  ASSUME [Next]_vars
  PROVE  \/ UNCHANGED receiver
         \/ \E p \in Peer : Read(p)
         \/ \E m \in net : Deliver(m)
BY Actions DEF Send, Emit, EndPump, vars

(* Around the ring once.                                                   *)
LEMMA WrapIs ==
  ASSUME NEW x \in 0..(2 * Inbox - 1)
  PROVE  x % Inbox = Wrap(x) /\ Wrap(x) \in Cells
BY DEF Wrap, Cells

(* A place counted from a start that went around, or from before it.       *)
LEMMA WrapTwice ==
  ASSUME NEW h \in 0..(Inbox - 1), NEW d \in 0..1, NEW i \in 1..Inbox
  PROVE  Wrap(Wrap(h + d) + i - 1) = Wrap(h + (i + d) - 1)
BY DEF Wrap

LEMMA NotedType ==
  ASSUME NEW f \in Seen, NEW n \in Sequence, Admits(f, n)
  PROVE  Noted(f, n) \in Seen
<1>0. f.high \in Nat /\ n \in Nat /\ f.high \in Sequence
  BY DEF Seen, Sequence
<1>1. CASE ~f.any
  BY <1>1 DEF Noted, Seen
<1>2. CASE f.any /\ n > f.high
  <2>1. Shifted(f.below, n - f.high) \in SUBSET (1..SeenWindow)
    BY <1>2, <1>0 DEF Shifted, Seen
  <2> QED  BY <1>2, <2>1 DEF Noted, Seen
<1>3. CASE f.any /\ ~(n > f.high)
  <2>1. f.high - n \in 1..SeenWindow
    BY <1>3 DEF Admits
  <2> QED  BY <1>3, <2>1 DEF Noted, Seen
<1> QED  BY <1>1, <1>2, <1>3

(* A message behind those taken in before.                                 *)
LEMMA AppendIs ==
  ASSUME NEW had \in Seq(Message), NEW message \in Message
  PROVE  /\ Append(had, message) \in Seq(Message)
         /\ Len(Append(had, message)) = Len(had) + 1
         /\ \A i \in 1..Len(had) : Append(had, message)[i] = had[i]
         /\ Append(had, message)[Len(had) + 1] = message
OBVIOUS

LEMMA ReceiverStep ==
  ASSUME SenderType, ReceiverType, [Next]_vars
  PROVE  ReceiverType'
<1> USE DEF ReceiverType
<1>1. CASE UNCHANGED receiver
  BY <1>1 DEF receiver
<1>2. ASSUME NEW p \in Peer, Read(p) PROVE ReceiverType'
  <2>1. (head[p] + 1) % Inbox \in Cells /\ len[p] - 1 \in 0..Inbox
    <3>1. head[p] + 1 \in 0..(2 * Inbox - 1)
      BY DEF Cells
    <3>2. len[p] \in 0..Inbox /\ len[p] > 0
      BY <1>2 DEF Read
    <3>3. (head[p] + 1) % Inbox \in Cells
      BY <3>1, WrapIs
    <3> QED  BY <3>2, <3>3
  <2> QED  BY <2>1, <1>2 DEF Read
<1>3. ASSUME NEW m \in net, Deliver(m) PROVE ReceiverType'
  <2> DEFINE p == m.dst
             message == [from |-> m.src, sequence |-> m.sequence]
             start == (head[p] + Dropped(p)) % Inbox
             held == len[p] - Dropped(p)
  <2>0. p \in Peer /\ m.src \in Peer /\ m.sequence \in Sequence /\ message \in Message
    BY DEF SenderType, Message
  <2>1. start \in Cells /\ held \in 0..(Inbox - 1)
    <3>1. head[p] \in Cells /\ len[p] \in 0..Inbox
      BY <2>0
    <3>2. head[p] + Dropped(p) \in 0..(2 * Inbox - 1)
      BY <3>1 DEF Dropped, Cells
    <3>3. held \in 0..(Inbox - 1)
      BY <3>1 DEF Dropped
    <3> QED  BY <3>2, <3>3, WrapIs
  <2>2. (start + held) % Inbox \in Cells
    <3>1. start + held \in 0..(2 * Inbox - 1)
      BY <2>1 DEF Cells
    <3> HIDE DEF start, held
    <3> QED  BY <3>1, WrapIs
  <2>3. Append(arrived[p], message) \in Seq(Message)
    BY <2>0, AppendIs
  <2>4. /\ seen' = [seen EXCEPT ![p][m.src] = Noted(@, m.sequence)]
        /\ head' = [head EXCEPT ![p] = start]
        /\ inbox' = [inbox EXCEPT ![p][(start + held) % Inbox] = message]
        /\ len' = [len EXCEPT ![p] = held + 1]
        /\ arrived' = [arrived EXCEPT ![p] = Append(@, message)]
    BY <1>3 DEF Deliver
  <2>5. Noted(seen[p][m.src], m.sequence) \in Seen
    <3>1. seen[p][m.src] \in Seen
      BY <2>0
    <3>2. Admits(seen[p][m.src], m.sequence)
      BY <1>3 DEF Deliver
    <3> HIDE DEF p
    <3> QED  BY <2>0, <3>1, <3>2, NotedType
  <2> HIDE DEF p, message, start, held
  <2>6. seen' \in [Peer -> [Peer -> Seen]]
    BY <2>0, <2>4, <2>5
  <2>7. inbox' \in [Peer -> [Cells -> Message \cup {None}]]
    BY <2>0, <2>2, <2>4
  <2>8. arrived' \in [Peer -> Seq(Message)]
    BY <2>0, <2>3, <2>4
  <2>9. head' \in [Peer -> Cells] /\ len' \in [Peer -> 0..Inbox]
    <3>1. held + 1 \in 0..Inbox
      BY <2>1
    <3> QED  BY <2>0, <2>1, <3>1, <2>4
  <2> QED  BY <2>6, <2>7, <2>8, <2>9
<1> QED  BY <1>1, <1>2, <1>3, ReceiverActions

LEMMA InitType == Init => TypeOK
<1> SUFFICES ASSUME Init PROVE SenderType /\ ReceiverType
  BY TypeParts
<1>1. SenderType
  <2>1. 0 \in Slots /\ 0 \in 0..Peers /\ 0 \in 0..MaxMessages /\ 0 \in 0..(Repeats + 1)
    BY DEF Slots
  <2> QED  BY <2>1 DEF Init, SenderType
<1>2. [any |-> FALSE, high |-> 0, below |-> {}] \in Seen
  BY DEF Seen, Sequence
<1>3. ReceiverType
  <2>1. 0 \in Cells /\ 0 \in 0..Inbox
    BY DEF Cells
  <2>2. << >> \in Seq(Message)
    OBVIOUS
  <2> QED  BY <1>2, <2>1, <2>2 DEF Init, ReceiverType
<1> QED  BY <1>1, <1>3

LEMMA TypeStep ==
  ASSUME TypeOK, [Next]_vars
  PROVE  TypeOK'
<1>1. SenderType /\ ReceiverType
  BY TypeParts
<1>2. SenderType' /\ ReceiverType'
  BY <1>1, SenderStep, ReceiverStep
<1> QED  BY <1>2 DEF TypeOK, SenderType, ReceiverType

-----------------------------------------------------------------------------
(* The filter *)

(* What a filter holds against after it noted a message, it held against   *)
(* before, or is that message.                                             *)
LEMMA NotedBehind ==
  ASSUME NEW f \in Seen, NEW n \in Sequence, Admits(f, n), ~f.any => f.below = {},
         NEW back \in Noted(f, n).below \cup {0}
  PROVE  /\ Noted(f, n).any
         /\ \/ Noted(f, n).high - back = n
            \/ f.any /\ \E b \in f.below \cup {0} : Noted(f, n).high - back = f.high - b
<1>0. f.high \in Nat /\ n \in Nat /\ f.below \subseteq 1..SeenWindow
  BY DEF Seen, Sequence
<1>1. CASE ~f.any
  <2>1. Noted(f, n) = [f EXCEPT !.any = TRUE, !.high = n]
    BY <1>1 DEF Noted
  <2>2. Noted(f, n).any /\ Noted(f, n).high = n /\ Noted(f, n).below = {}
    BY <1>1, <2>1 DEF Seen
  <2> QED  BY <2>2, <1>0
<1>2. CASE f.any /\ n > f.high
  <2>1. Noted(f, n) = [f EXCEPT !.high = n, !.below = Shifted(f.below, n - f.high)]
    BY <1>2 DEF Noted
  <2>2. /\ Noted(f, n).any /\ Noted(f, n).high = n
        /\ Noted(f, n).below = Shifted(f.below, n - f.high)
    BY <1>2, <2>1 DEF Seen
  <2>3. CASE back = 0
    BY <2>2, <2>3, <1>0
  <2>4. CASE back \in Shifted(f.below, n - f.high)
    <3>1. back = n - f.high \/ \E b \in f.below : back = b + (n - f.high)
      BY <2>4, <1>0 DEF Shifted
    <3>2. CASE back = n - f.high
      BY <3>2, <2>2, <1>0, <1>2
    <3>3. ASSUME NEW b \in f.below, back = b + (n - f.high)
          PROVE  n - back = f.high - b
      BY <3>3, <1>0
    <3> QED  BY <3>1, <3>2, <3>3, <2>2, <1>2
  <2> QED  BY <2>2, <2>3, <2>4
<1>3. CASE f.any /\ ~(n > f.high)
  <2>1. Noted(f, n) = [f EXCEPT !.below = @ \cup {f.high - n}]
    BY <1>3 DEF Noted
  <2>2. /\ Noted(f, n).any /\ Noted(f, n).high = f.high
        /\ Noted(f, n).below = f.below \cup {f.high - n}
    BY <1>3, <2>1 DEF Seen
  <2>3. CASE back = f.high - n
    BY <2>2, <2>3, <1>0
  <2>4. CASE back \in f.below \cup {0}
    BY <2>2, <2>4, <1>3
  <2> QED  BY <2>2, <2>3, <2>4
<1> QED  BY <1>1, <1>2, <1>3

(* And nothing it noticed is lost to it but by a jump of just the window.  *)
LEMMA NotedKeeps ==
  ASSUME NEW f \in Seen, NEW n \in Sequence, Admits(f, n), f.any,
         NEW x \in Nat, x <= f.high,
         x = f.high \/ f.high - x > SeenWindow \/ f.high - x \in f.below
  PROVE  LET g == Noted(f, n)
         IN /\ x <= g.high
            /\ x = g.high \/ g.high - x > SeenWindow \/ g.high - x \in g.below
               \/ n = x + SeenWindow
<1>0. f.high \in Nat /\ n \in Nat /\ f.below \subseteq 1..SeenWindow
  BY DEF Seen, Sequence
<1>1. CASE n > f.high
  <2>1. Noted(f, n) = [f EXCEPT !.high = n, !.below = Shifted(f.below, n - f.high)]
    BY <1>1 DEF Noted
  <2>2. /\ Noted(f, n).high = n
        /\ Noted(f, n).below = Shifted(f.below, n - f.high)
    BY <2>1 DEF Seen
  <2>3. CASE f.high - x > SeenWindow
    BY <2>2, <2>3, <1>0, <1>1
  <2>4. CASE n - f.high >= SeenWindow
    BY <2>2, <2>4, <1>0, <1>1
  <2>5. CASE x = f.high /\ n - f.high < SeenWindow
    <3>1. n - x \in Shifted(f.below, n - f.high)
      BY <2>5, <1>0 DEF Shifted
    <3> QED  BY <3>1, <2>2, <2>5, <1>0, <1>1
  <2>6. CASE f.high - x \in f.below /\ n - f.high < SeenWindow
    <3> DEFINE b == f.high - x
               shift == n - f.high
    <3>1. b \in f.below /\ n - x = b + shift /\ shift < SeenWindow
      BY <2>6, <1>0
    <3>2. CASE b + shift <= SeenWindow
      <4>1. b + shift \in Shifted(f.below, shift)
        BY <3>1, <3>2, <1>0 DEF Shifted
      <4> QED  BY <4>1, <3>1, <2>2, <1>0, <1>1
    <3>3. CASE ~(b + shift <= SeenWindow)
      BY <3>1, <3>3, <2>2, <1>0, <1>1
    <3> QED  BY <3>2, <3>3
  <2> QED  BY <2>3, <2>4, <2>5, <2>6, <1>0
<1>2. CASE ~(n > f.high)
  <2>1. Noted(f, n) = [f EXCEPT !.below = @ \cup {f.high - n}]
    BY <1>2 DEF Noted
  <2>2. Noted(f, n).high = f.high /\ Noted(f, n).below = f.below \cup {f.high - n}
    BY <2>1 DEF Seen
  <2> QED  BY <2>2
<1> QED  BY <1>1, <1>2

(* The message just noted is the newest, or marked.                        *)
LEMMA NotedItself ==
  ASSUME NEW f \in Seen, NEW n \in Sequence, Admits(f, n)
  PROVE  LET g == Noted(f, n)
         IN g.any /\ n <= g.high /\ (n = g.high \/ g.high - n \in g.below)
<1>0. f.high \in Nat /\ n \in Nat
  BY DEF Seen, Sequence
<1>1. CASE ~f.any
  <2>1. Noted(f, n) = [f EXCEPT !.any = TRUE, !.high = n]
    BY <1>1 DEF Noted
  <2> QED  BY <2>1, <1>0 DEF Seen
<1>2. CASE f.any /\ n > f.high
  <2>1. Noted(f, n) = [f EXCEPT !.high = n, !.below = Shifted(f.below, n - f.high)]
    BY <1>2 DEF Noted
  <2> QED  BY <2>1, <1>0, <1>2 DEF Seen
<1>3. CASE f.any /\ ~(n > f.high)
  <2>1. Noted(f, n) = [f EXCEPT !.below = @ \cup {f.high - n}]
    BY <1>3 DEF Noted
  <2> QED  BY <2>1, <1>0, <1>3 DEF Seen
<1> QED  BY <1>1, <1>2, <1>3

(* What one delivery does to the filters and to what was taken in.         *)
TakesIn(p, q, n) ==
  /\ p \in Peer /\ q \in Peer /\ n \in Sequence
  /\ seen[p][q] \in Seen /\ Admits(seen[p][q], n)
  /\ \A a, b \in Peer :
       seen'[a][b] = IF a = p /\ b = q THEN Noted(seen[p][q], n) ELSE seen[a][b]
  /\ \A a \in Peer : a # p => arrived'[a] = arrived[a]
  /\ Len(arrived[p]) \in Nat
  /\ Len(arrived'[p]) = Len(arrived[p]) + 1
  /\ arrived'[p][Len(arrived[p]) + 1] = From(q, n)
  /\ \A i \in 1..Len(arrived[p]) : arrived'[p][i] = arrived[p][i]

LEMMA DeliverIs ==
  ASSUME SenderType, ReceiverType, NEW m \in net, Deliver(m)
  PROVE  TakesIn(m.dst, m.src, m.sequence)
<1> DEFINE p == m.dst
           q == m.src
           message == From(q, m.sequence)
<1>1. p \in Peer /\ q \in Peer /\ m.sequence \in Sequence
  BY DEF SenderType
<1>2. message \in Message
  BY <1>1 DEF Message, From
<1>3. /\ seen' = [seen EXCEPT ![p][q] = Noted(@, m.sequence)]
      /\ arrived' = [arrived EXCEPT ![p] = Append(@, message)]
      /\ Admits(seen[p][q], m.sequence)
  BY DEF Deliver, From
<1>4. seen[p][q] \in Seen /\ arrived[p] \in Seq(Message)
  BY <1>1 DEF ReceiverType
<1> HIDE DEF p, q, message
<1>5. \A a, b \in Peer : seen'[a][b] = IF a = p /\ b = q
                                       THEN Noted(seen[p][q], m.sequence) ELSE seen[a][b]
  BY <1>1, <1>3 DEF ReceiverType
<1>6. /\ \A a \in Peer : a # p => arrived'[a] = arrived[a]
      /\ arrived'[p] = Append(arrived[p], message)
  BY <1>1, <1>3 DEF ReceiverType
<1>7. /\ Len(arrived'[p]) = Len(arrived[p]) + 1
      /\ arrived'[p][Len(arrived[p]) + 1] = message
      /\ \A i \in 1..Len(arrived[p]) : arrived'[p][i] = arrived[p][i]
  BY <1>2, <1>4, <1>6, AppendIs
<1>8. Len(arrived[p]) \in Nat
  BY <1>4
<1> QED  BY <1>1, <1>3, <1>4, <1>5, <1>6, <1>7, <1>8 DEF TakesIn, p, q, message

(* The filters change in a delivery only.                                  *)
LEMMA FilterActions ==
  ASSUME SenderType, ReceiverType, [Next]_vars
  PROVE  \/ UNCHANGED <<seen, arrived>>
         \/ \E p, q \in Peer : \E n \in Sequence : TakesIn(p, q, n)
<1>1. ASSUME NEW m \in net, Deliver(m)
      PROVE  \E p, q \in Peer : \E n \in Sequence : TakesIn(p, q, n)
  BY <1>1, DeliverIs, SMTT(30) DEF TakesIn
<1> QED  BY <1>1, ReceiverActions DEF Read, receiver

LEMMA BlankStep ==
  ASSUME SenderType, ReceiverType, Blank, [Next]_vars
  PROVE  Blank'
<1>1. CASE UNCHANGED <<seen, arrived>>
  BY <1>1 DEF Blank
<1>2. ASSUME NEW p \in Peer, NEW q \in Peer, NEW n \in Sequence, TakesIn(p, q, n)
      PROVE  Blank'
  <2> DEFINE had == Len(arrived[p])
  <2>1. Noted(seen[p][q], n).any
    BY <1>2, NotedItself DEF TakesIn
  <2>2. From(q, n).from = q
    BY DEF From
  <2> SUFFICES ASSUME NEW a \in Peer, NEW b \in Peer, ~seen'[a][b].any
               PROVE  /\ seen'[a][b].below = {}
                      /\ \A i \in 1..Len(arrived'[a]) : arrived'[a][i].from # b
    BY DEF Blank
  <2>3. CASE a # p
    BY <2>3, <1>2 DEF Blank, TakesIn
  <2>4. CASE a = p
    <3>1. b # q /\ seen'[a][b] = seen[a][b]
      BY <1>2, <2>1, <2>4 DEF TakesIn
    <3>2. \A i \in 1..had : arrived[p][i].from # b
      BY <3>1, <2>4 DEF Blank
    <3>3. had \in Nat
      BY <1>2 DEF TakesIn
    <3>4. \A i \in 1..(had + 1) : i \in 1..had \/ i = had + 1
      BY <3>3
    <3>5. Len(arrived'[p]) = had + 1 /\ arrived'[p][had + 1] = From(q, n)
          /\ \A i \in 1..had : arrived'[p][i] = arrived[p][i]
      BY <1>2 DEF TakesIn
    <3>6. \A i \in 1..(had + 1) : arrived'[p][i].from # b
      BY <3>1, <3>2, <3>4, <3>5, <2>2
    <3>7. seen'[a][b].below = {}
      BY <3>1 DEF Blank
    <3> QED  BY <3>5, <3>6, <3>7, <2>4
  <2> QED  BY <2>3, <2>4
<1> QED  BY <1>1, <1>2, FilterActions

(* What the filter holds against was taken in.                             *)
LEMMA Refused ==
  ASSUME RefusesOnlyRepeats, NEW a \in Peer, NEW b \in Peer, seen[a][b].any,
         NEW back \in seen[a][b].below \cup {0}
  PROVE  \E i \in DOMAIN arrived[a] : arrived[a][i] = From(b, seen[a][b].high - back)
BY DEF RefusesOnlyRepeats, From

LEMMA RefusesStep ==
  ASSUME SenderType, ReceiverType, Blank, RefusesOnlyRepeats, [Next]_vars
  PROVE  RefusesOnlyRepeats'
<1>0. \A a \in Peer : DOMAIN arrived[a] = 1..Len(arrived[a])
  BY DEF ReceiverType
<1>1. CASE UNCHANGED <<seen, arrived>>
  BY <1>1 DEF RefusesOnlyRepeats
<1>2. ASSUME NEW p \in Peer, NEW q \in Peer, NEW n \in Sequence, TakesIn(p, q, n)
      PROVE  RefusesOnlyRepeats'
  <2> DEFINE had == Len(arrived[p])
  <2>1. \A a \in Peer : DOMAIN arrived'[a] = 1..Len(arrived'[a])
    BY ReceiverStep DEF ReceiverType
  <2> SUFFICES ASSUME NEW a \in Peer, NEW b \in Peer, seen'[a][b].any,
                      NEW back \in seen'[a][b].below \cup {0}
               PROVE  \E i \in DOMAIN arrived'[a] :
                        arrived'[a][i] = From(b, seen'[a][b].high - back)
    BY DEF RefusesOnlyRepeats, From
  <2>2. \A x : (\E i \in DOMAIN arrived[a] : arrived[a][i] = x)
                 => \E i \in DOMAIN arrived'[a] : arrived'[a][i] = x
    <3>1. CASE a # p
      BY <3>1, <1>2 DEF TakesIn
    <3>2. CASE a = p
      <4>1. had \in Nat /\ DOMAIN arrived'[p] = 1..(had + 1) /\ DOMAIN arrived[p] = 1..had
        BY <1>0, <1>2, <2>1 DEF TakesIn
      <4>2. 1..had \subseteq 1..(had + 1)
        BY <4>1
      <4> QED  BY <3>2, <4>1, <4>2, <1>2 DEF TakesIn
    <3> QED  BY <3>1, <3>2
  <2>3. CASE a = p /\ b = q
    <3>1. seen'[a][b] = Noted(seen[p][q], n) /\ Admits(seen[p][q], n) /\ seen[p][q] \in Seen
      BY <2>3, <1>2 DEF TakesIn
    <3>2. ~seen[p][q].any => seen[p][q].below = {}
      BY DEF Blank
    <3>3. \/ seen'[a][b].high - back = n
          \/ /\ seen[p][q].any
             /\ \E c \in seen[p][q].below \cup {0} :
                  seen'[a][b].high - back = seen[p][q].high - c
      BY <3>1, <3>2, NotedBehind
    <3>4. CASE seen'[a][b].high - back = n
      <4>1. had + 1 \in DOMAIN arrived'[p]
        BY <1>2, <2>1 DEF TakesIn
      <4> QED  BY <4>1, <3>4, <2>3, <1>2 DEF TakesIn
    <3>5. ASSUME seen[p][q].any, NEW c \in seen[p][q].below \cup {0},
                 seen'[a][b].high - back = seen[p][q].high - c
          PROVE  \E i \in DOMAIN arrived[p] :
                   arrived[p][i] = From(q, seen'[a][b].high - back)
      <4>1. \E i \in DOMAIN arrived[p] : arrived[p][i] = From(q, seen[p][q].high - c)
        BY <3>5, <1>2, Refused
      <4> QED  BY <4>1, <3>5
    <3> QED  BY <3>3, <3>4, <3>5, <2>2, <2>3
  <2>4. CASE ~(a = p /\ b = q)
    <3>1. seen'[a][b] = seen[a][b]
      BY <2>4, <1>2 DEF TakesIn
    <3>2. \E i \in DOMAIN arrived[a] : arrived[a][i] = From(b, seen'[a][b].high - back)
      <4>1. seen[a][b].any /\ back \in seen[a][b].below \cup {0}
        BY <3>1
      <4>2. \E i \in DOMAIN arrived[a] : arrived[a][i] = From(b, seen[a][b].high - back)
        BY <4>1, Refused
      <4> QED  BY <4>2, <3>1
    <3> QED  BY <3>2, <2>2
  <2> QED  BY <2>3, <2>4
<1> QED  BY <1>1, <1>2, FilterActions

LEMMA RememberedStep ==
  ASSUME SenderType, ReceiverType, Blank, Remembered, [Next]_vars
  PROVE  Remembered'
<1>1. CASE UNCHANGED <<seen, arrived>>
  BY <1>1 DEF Remembered, Noticed
<1>2. ASSUME NEW p \in Peer, NEW q \in Peer, NEW n \in Sequence, TakesIn(p, q, n)
      PROVE  Remembered'
  <2> DEFINE had == Len(arrived[p])
  <2>0. had \in Nat /\ From(q, n).from = q /\ From(q, n).sequence = n
    BY <1>2 DEF TakesIn, From
  <2> SUFFICES ASSUME NEW a \in Peer, NEW b \in Peer, NEW i \in 1..Len(arrived'[a]),
                      arrived'[a][i].from = b
               PROVE  LET f == seen'[a][b]
                          x == arrived'[a][i].sequence
                      IN /\ x <= f.high
                         /\ \/ x = f.high
                            \/ f.high - x > SeenWindow
                            \/ f.high - x \in f.below
                            \/ \E k \in i..Len(arrived'[a]) :
                                 arrived'[a][k] = From(b, x + SeenWindow)
    BY DEF Remembered, Noticed
  <2>1. CASE a # p
    BY <2>1, <1>2 DEF TakesIn, Remembered, Noticed
  <2>2. CASE a = p /\ i = had + 1
    <3>1. arrived'[a][i] = From(q, n) /\ b = q
      BY <2>0, <2>2, <1>2 DEF TakesIn
    <3>2. seen'[a][b] = Noted(seen[p][q], n) /\ Admits(seen[p][q], n) /\ seen[p][q] \in Seen
      BY <2>2, <3>1, <1>2 DEF TakesIn
    <3>3. /\ n <= seen'[a][b].high
          /\ n = seen'[a][b].high \/ seen'[a][b].high - n \in seen'[a][b].below
      BY <3>2, NotedItself
    <3> QED  BY <3>1, <3>3, <2>0
  <2>3. CASE a = p /\ i \in 1..had
    <3> DEFINE x == arrived[p][i].sequence
    <3>1. /\ arrived'[a][i] = arrived[p][i] /\ arrived[p][i] \in Message
          /\ x \in Nat /\ arrived[p][i].from = b
      <4>1. arrived[p] \in Seq(Message)
        BY DEF ReceiverType
      <4>2. arrived[p][i] \in Message
        BY <4>1, <2>3
      <4> QED  BY <4>2, <2>3, <1>2 DEF TakesIn, Message, Sequence
    <3>2. \A k \in i..had : k \in i..Len(arrived'[a]) /\ arrived'[a][k] = arrived[p][k]
      BY <2>0, <2>3, <1>2 DEF TakesIn
    <3>3. /\ x <= seen[p][b].high
          /\ \/ x = seen[p][b].high
             \/ seen[p][b].high - x > SeenWindow
             \/ seen[p][b].high - x \in seen[p][b].below
             \/ \E k \in i..had : arrived[p][k] = From(b, x + SeenWindow)
      BY <2>3, <3>1 DEF Remembered, Noticed
    <3>4. CASE b # q
      <4>1. seen'[a][b] = seen[p][b]
        BY <3>4, <2>3, <1>2 DEF TakesIn
      <4> QED  BY <4>1, <3>1, <3>2, <3>3
    <3>5. CASE b = q
      <4>1. seen'[a][b] = Noted(seen[p][q], n) /\ Admits(seen[p][q], n) /\ seen[p][q] \in Seen
        BY <3>5, <2>3, <1>2 DEF TakesIn
      <4>2. seen[p][q].any
        BY <3>1, <3>5, <2>3 DEF Blank
      <4>3. seen[p][q].high <= seen'[a][b].high
        BY <4>1, <4>2 DEF Noted, Seen, Sequence
      <4>4. CASE \E k \in i..had : arrived[p][k] = From(b, x + SeenWindow)
        <5>1. x <= seen'[a][b].high
          <6>1. seen'[a][b] \in Seen
            BY <4>1, NotedType
          <6>2. seen'[a][b].high \in Nat /\ seen[p][q].high \in Nat
            BY <6>1, <4>1 DEF Seen, Sequence
          <6> QED  BY <6>2, <3>1, <3>3, <3>5, <4>3
        <5> QED  BY <5>1, <4>4, <3>1, <3>2
      <4>5. CASE \/ x = seen[p][q].high
                 \/ seen[p][q].high - x > SeenWindow
                 \/ seen[p][q].high - x \in seen[p][q].below
        <5> HIDE DEF x
        <5>1. /\ x <= seen'[a][b].high
              /\ x = seen'[a][b].high \/ seen'[a][b].high - x > SeenWindow
                 \/ seen'[a][b].high - x \in seen'[a][b].below
                 \/ n = x + SeenWindow
          BY <4>1, <4>2, <4>5, <3>1, <3>3, <3>5, NotedKeeps
        <5>2. CASE n = x + SeenWindow
          <6>1. had + 1 \in i..Len(arrived'[a]) /\ arrived'[a][had + 1] = From(q, n)
            BY <2>0, <2>3, <1>2 DEF TakesIn
          <6> QED  BY <6>1, <5>1, <5>2, <3>1, <3>5 DEF x
        <5> QED  BY <5>1, <5>2, <3>1 DEF x
      <4> QED  BY <4>4, <4>5, <3>3, <3>5
    <3> QED  BY <3>4, <3>5
  <2>4. i = had + 1 \/ i \in 1..had \/ a # p
    BY <2>0, <1>2 DEF TakesIn
  <2> QED  BY <2>1, <2>2, <2>3, <2>4
<1> QED  BY <1>1, <1>2, FilterActions

(* What was taken in twice came across a jump.                             *)
LEMMA Twice ==
  ASSUME TwiceOnlyAcrossJump, NEW a \in Peer,
         NEW i \in DOMAIN arrived[a], NEW j \in DOMAIN arrived[a],
         i < j, arrived[a][i] = arrived[a][j]
  PROVE  \E k \in i..j :
           arrived[a][k] = [arrived[a][i] EXCEPT !.sequence = @ + SeenWindow]
BY DEF TwiceOnlyAcrossJump

LEMMA TwiceStep ==
  ASSUME SenderType, ReceiverType, Blank, Remembered, TwiceOnlyAcrossJump, [Next]_vars
  PROVE  TwiceOnlyAcrossJump'
<1>0. \A a \in Peer : DOMAIN arrived[a] = 1..Len(arrived[a])
  BY DEF ReceiverType
<1>1. CASE UNCHANGED <<seen, arrived>>
  BY <1>1 DEF TwiceOnlyAcrossJump
<1>2. ASSUME NEW p \in Peer, NEW q \in Peer, NEW n \in Sequence, TakesIn(p, q, n)
      PROVE  TwiceOnlyAcrossJump'
  <2> DEFINE had == Len(arrived[p])
  <2>1. \A a \in Peer : DOMAIN arrived'[a] = 1..Len(arrived'[a])
    BY ReceiverStep DEF ReceiverType
  <2> SUFFICES ASSUME NEW a \in Peer, NEW i \in DOMAIN arrived'[a], NEW j \in DOMAIN arrived'[a],
                      i < j, arrived'[a][i] = arrived'[a][j]
               PROVE  \E k \in i..j :
                        arrived'[a][k] = [arrived'[a][i] EXCEPT !.sequence = @ + SeenWindow]
    BY DEF TwiceOnlyAcrossJump
  <2>2. CASE a # p
    <3>1. arrived'[a] = arrived[a]
      BY <2>2, <1>2 DEF TakesIn
    <3> QED  BY <3>1, Twice
  <2>3. had \in Nat /\ (a = p => i \in 1..(had + 1) /\ j \in 1..(had + 1))
    BY <1>2, <2>1 DEF TakesIn
  <2>4. CASE a = p /\ j \in 1..had
    <3>1. i \in DOMAIN arrived[p] /\ j \in DOMAIN arrived[p]
      BY <1>0, <2>3, <2>4
    <3>2. \A k \in i..j : arrived'[p][k] = arrived[p][k]
      BY <2>3, <2>4, <1>2 DEF TakesIn
    <3>3. arrived'[p][i] = arrived[p][i] /\ arrived'[p][j] = arrived[p][j]
      BY <2>3, <2>4, <3>2
    <3>4. \E k \in i..j : arrived[p][k] = [arrived[p][i] EXCEPT !.sequence = @ + SeenWindow]
      <4>1. i < j /\ arrived[p][i] = arrived[p][j]
        BY <3>3, <2>4
      <4> QED  BY <3>1, <4>1, Twice, Zenon
    <3> QED  BY <3>2, <3>3, <3>4, <2>4
  <2>5. CASE a = p /\ j = had + 1
    <3>1. i \in 1..had /\ arrived'[p][i] = arrived[p][i] /\ arrived[p][i] = From(q, n)
      BY <2>3, <2>5, <1>2 DEF TakesIn
    <3>2. arrived[p][i].from = q /\ arrived[p][i].sequence = n
      BY <3>1 DEF From
    <3>3. seen[p][q].any
      BY <3>1, <3>2 DEF Blank
    <3>4. /\ n <= seen[p][q].high
          /\ \/ n = seen[p][q].high
             \/ seen[p][q].high - n > SeenWindow
             \/ seen[p][q].high - n \in seen[p][q].below
             \/ \E k \in i..had : arrived[p][k] = From(q, n + SeenWindow)
      BY <3>1, <3>2 DEF Remembered, Noticed
    <3>5. \E k \in i..had : arrived[p][k] = From(q, n + SeenWindow)
      <4>1. seen[p][q].high \in Nat /\ n \in Nat
        BY <1>2 DEF TakesIn, Seen, Sequence
      <4>2. seen[p][q].high - n \in (1..SeenWindow) \ seen[p][q].below
        BY <4>1, <3>3, <3>4, <1>2 DEF TakesIn, Admits
      <4> QED  BY <4>1, <4>2, <3>4
    <3>6. PICK k \in i..had : arrived[p][k] = From(q, n + SeenWindow)
      BY <3>5
    <3>7. k \in i..j /\ arrived'[p][k] = arrived[p][k]
      BY <3>1, <2>3, <2>5, <1>2 DEF TakesIn
    <3>8. [From(q, n) EXCEPT !.sequence = @ + SeenWindow] = From(q, n + SeenWindow)
      BY DEF From
    <3> QED  BY <3>1, <3>6, <3>7, <3>8, <2>5
  <2>6. a = p => j \in 1..had \/ j = had + 1
    <3> HIDE DEF had
    <3> QED  BY <2>3
  <2> QED  BY <2>2, <2>4, <2>5, <2>6, Zenon
<1> QED  BY <1>1, <1>2, FilterActions

(* The invariant of the filters: see its parts above.                      *)
THEOREM FilterInvariant == Spec => []FilterInv
<1>1. Init => FilterInv
  <2> SUFFICES ASSUME Init PROVE FilterInv
    OBVIOUS
  <2>1. Blank /\ RefusesOnlyRepeats /\ Remembered /\ TwiceOnlyAcrossJump
    BY DEF Init, Blank, RefusesOnlyRepeats, Remembered, TwiceOnlyAcrossJump
  <2> QED  BY <2>1, InitType DEF FilterInv
<1>2. FilterInv /\ [Next]_vars => FilterInv'
  <2> SUFFICES ASSUME FilterInv, [Next]_vars PROVE FilterInv'
    OBVIOUS
  <2>1. SenderType /\ ReceiverType
    BY TypeParts DEF FilterInv
  <2>2. TypeOK'
    BY TypeStep DEF FilterInv
  <2>3. Blank' /\ RefusesOnlyRepeats' /\ Remembered' /\ TwiceOnlyAcrossJump'
    BY <2>1, BlankStep, RefusesStep, RememberedStep, TwiceStep DEF FilterInv
  <2> QED  BY <2>2, <2>3 DEF FilterInv
<1> QED  BY <1>1, <1>2, PTL DEF Spec

(* A filter refuses a message only if it was taken in before or is older   *)
(* than the window: nothing new is ever lost to it (Seen::admit).          *)
THEOREM NothingNewRefused == Spec => []RefusesOnlyRepeats
BY FilterInvariant, PTL DEF FilterInv

(* No message is taken in twice but across a jump of exactly the window,   *)
(* however often and late the network repeats it (Seen::admit).            *)
THEOREM RepeatsFiltered == Spec => []TwiceOnlyAcrossJump
BY FilterInvariant, PTL DEF FilterInv

-----------------------------------------------------------------------------
(* The ring of received messages *)

LEMMA RingStep ==
  ASSUME SenderType, ReceiverType, RingHolds, [Next]_vars
  PROVE  RingHolds'
<1>0. \A p \in Peer : /\ Len(arrived[p]) \in Nat /\ head[p] \in 0..(Inbox - 1)
                      /\ len[p] \in 0..Inbox
  BY DEF ReceiverType, Cells
<1>1. CASE UNCHANGED receiver
  BY <1>1 DEF RingHolds, receiver
<1>2. ASSUME NEW r \in Peer, Read(r) PROVE RingHolds'
  <2> SUFFICES ASSUME NEW p \in Peer
               PROVE  LET n == Len(arrived'[p])
                      IN /\ len'[p] <= n
                         /\ \A i \in 1..len'[p] :
                              inbox'[p][Wrap(head'[p] + i - 1)] = arrived'[p][n - len'[p] + i]
    BY DEF RingHolds, Wrap
  <2> DEFINE n == Len(arrived[p])
  <2>1. arrived' = arrived
    BY <1>2 DEF Read
  <2>2. CASE p # r
    <3>1. inbox'[p] = inbox[p] /\ head'[p] = head[p] /\ len'[p] = len[p]
      BY <2>2, <1>2 DEF Read, ReceiverType
    <3> QED  BY <3>1, <2>1 DEF RingHolds
  <2>3. CASE p = r
    <3>1. /\ len[p] \in 1..Inbox /\ len'[p] = len[p] - 1
          /\ head'[p] = (head[p] + 1) % Inbox
          /\ inbox'[p] = [inbox[p] EXCEPT ![head[p]] = None]
      BY <2>3, <1>0, <1>2 DEF Read, ReceiverType
    <3>2. head'[p] = Wrap(head[p] + 1)
      <4>1. head[p] + 1 \in 0..(2 * Inbox - 1)
        BY <1>0
      <4> QED  BY <4>1, <3>1, WrapIs
    <3>3. ASSUME NEW i \in 1..(len[p] - 1)
          PROVE  inbox'[p][Wrap(Wrap(head[p] + 1) + i - 1)] = arrived[p][n - len[p] + (i + 1)]
      <4>1. Wrap(Wrap(head[p] + 1) + i - 1) = Wrap(head[p] + (i + 1) - 1)
        <5>1. head[p] \in 0..(Inbox - 1) /\ 1 \in 0..1 /\ i \in 1..Inbox
          BY <1>0, <3>1
        <5> QED  BY <5>1, WrapTwice, Zenon
      <4>2. Wrap(head[p] + (i + 1) - 1) \in Cells /\ Wrap(head[p] + (i + 1) - 1) # head[p]
        BY <1>0, <3>1, SMTT(40) DEF Wrap, Cells
      <4>3. inbox[p] \in [Cells -> Message \cup {None}]
        BY DEF ReceiverType
      <4>4. inbox'[p][Wrap(head[p] + (i + 1) - 1)] = inbox[p][Wrap(head[p] + (i + 1) - 1)]
        BY <3>1, <4>2, <4>3
      <4>5. i + 1 \in 1..len[p]
        BY <3>1
      <4> QED  BY <4>1, <4>4, <4>5 DEF RingHolds
    <3>4. n - (len[p] - 1) \in Nat
      BY <1>0, <3>1 DEF RingHolds
    <3>5. n - (len[p] - 1) + 0 = n - len[p] + 1 /\ len[p] - 1 <= n
      BY <1>0, <3>1 DEF RingHolds
    <3>6. ASSUME NEW i \in 1..(len[p] - 1)
          PROVE  n - (len[p] - 1) + i = n - len[p] + (i + 1)
      <4>1. n \in Nat /\ len[p] \in Nat
        BY <1>0, <3>1
      <4> HIDE DEF n
      <4> QED  BY <4>1
    <3>7. len'[p] = len[p] - 1 /\ Len(arrived'[p]) = n /\ len[p] - 1 <= n
      BY <2>1, <3>1, <3>5
    <3>8. \A i \in 1..len'[p] :
            inbox'[p][Wrap(head'[p] + i - 1)] = arrived'[p][n - len'[p] + i]
      <4> SUFFICES ASSUME NEW i \in 1..(len[p] - 1)
                   PROVE  inbox'[p][Wrap(head'[p] + i - 1)] = arrived'[p][n - len'[p] + i]
        BY <3>7
      <4>1. n - len'[p] + i = n - len[p] + (i + 1)
        BY <3>6, <3>7
      <4>2. inbox'[p][Wrap(head'[p] + i - 1)] = arrived[p][n - len[p] + (i + 1)]
        BY <3>2, <3>3
      <4> QED  BY <2>1, <4>1, <4>2
    <3> QED  BY <3>7, <3>8
  <2> QED  BY <2>2, <2>3
<1>3. ASSUME NEW m \in net, Deliver(m) PROVE RingHolds'
  <2> SUFFICES ASSUME NEW p \in Peer
               PROVE  LET n == Len(arrived'[p])
                      IN /\ len'[p] <= n
                         /\ \A i \in 1..len'[p] :
                              inbox'[p][Wrap(head'[p] + i - 1)] = arrived'[p][n - len'[p] + i]
    BY DEF RingHolds, Wrap
  <2> DEFINE n == Len(arrived[p])
             drop == Dropped(p)
             start == Wrap(head[p] + drop)
             held == len[p] - drop
             message == From(m.src, m.sequence)
  <2>1. TakesIn(m.dst, m.src, m.sequence)
    BY <1>3, DeliverIs
  <2>2. CASE p # m.dst
    <3>1. inbox'[p] = inbox[p] /\ head'[p] = head[p] /\ len'[p] = len[p]
      BY <2>2, <1>3 DEF Deliver, ReceiverType
    <3>2. arrived'[p] = arrived[p]
      BY <2>1, <2>2 DEF TakesIn
    <3> QED  BY <3>1, <3>2 DEF RingHolds
  <2>3. CASE p = m.dst
    <3>1. /\ drop \in 0..1 /\ held \in 0..(Inbox - 1) /\ len[p] = held + drop
          /\ drop = 1 => len[p] = Inbox
      BY <1>0 DEF Dropped
    <3>2. start = (head[p] + drop) % Inbox /\ start \in Cells
      <4>1. head[p] + drop \in 0..(2 * Inbox - 1)
        BY <1>0, <3>1
      <4> HIDE DEF drop
      <4> QED  BY <4>1, WrapIs
    <3>3. (start + held) % Inbox = Wrap(start + held) /\ Wrap(start + held) \in Cells
      <4>1. start + held \in 0..(2 * Inbox - 1)
        BY <3>1, <3>2 DEF Cells
      <4> HIDE DEF start, held
      <4> QED  BY <4>1, WrapIs
    <3>4. /\ head'[p] = start /\ len'[p] = held + 1
          /\ inbox'[p] = [inbox[p] EXCEPT ![Wrap(start + held)] = message]
      BY <2>3, <1>3, <3>2, <3>3 DEF Deliver, ReceiverType, From
    <3>5. /\ Len(arrived'[p]) = n + 1 /\ arrived'[p][n + 1] = message
          /\ \A i \in 1..n : arrived'[p][i] = arrived[p][i]
      BY <2>1, <2>3 DEF TakesIn
    <3>6. inbox[p] \in [Cells -> Message \cup {None}]
      BY DEF ReceiverType
    <3>7. n \in Nat /\ len[p] <= n /\ head[p] \in 0..(Inbox - 1)
      BY <1>0 DEF RingHolds
    <3>8. inbox'[p][Wrap(start + (held + 1) - 1)] = arrived'[p][n + 1]
      <4>1. start + (held + 1) - 1 = start + held
        BY <3>1, <3>2 DEF Cells
      <4> QED  BY <4>1, <3>3, <3>4, <3>5, <3>6
    <3>9. ASSUME NEW i \in 1..held
          PROVE  inbox'[p][Wrap(start + i - 1)] = arrived'[p][n - held + i]
      <4>1. i + drop \in 1..len[p] /\ n - held + i \in 1..n
        BY <3>1, <3>7
      <4>2. inbox[p][Wrap(head[p] + (i + drop) - 1)] = arrived[p][n - len[p] + (i + drop)]
        BY <4>1 DEF RingHolds
      <4>3. n - len[p] + (i + drop) = n - held + i
        <5> HIDE DEF n, drop, held
        <5> QED  BY <3>1, <3>7
      <4>4. Wrap(start + i - 1) = Wrap(head[p] + (i + drop) - 1)
        <5>1. Inbox \in Nat /\ i \in Nat /\ i >= 1 /\ i + drop <= Inbox
          BY <1>0, <3>1, <4>1
        <5>2. CASE head[p] + drop < Inbox
          <6>1. start = head[p] + drop
            BY <5>2 DEF Wrap
          <6>2. start + i - 1 = head[p] + (i + drop) - 1
            <7> HIDE DEF start, drop
            <7> QED  BY <3>1, <3>7, <5>1, <6>1
          <6> QED  BY <6>2
        <5>3. CASE ~(head[p] + drop < Inbox)
          <6>1. start = head[p] + drop - Inbox
            BY <3>1, <3>7, <5>1, <5>3 DEF Wrap
          <6> HIDE DEF start, drop
          <6>2. start \in Nat /\ drop \in Nat /\ head[p] \in Nat
            BY <3>1, <3>2, <3>7 DEF Cells
          <6> DEFINE from == head[p]
          <6> HIDE DEF from
          <6>3. start = from + drop - Inbox /\ from \in 0..(Inbox - 1)
            BY <3>7, <6>1 DEF from
          <6>4. start + i - 1 < Inbox /\ ~(from + (i + drop) - 1 < Inbox)
                /\ start + i - 1 = (from + (i + drop) - 1) - Inbox
            BY <5>1, <6>2, <6>3
          <6> QED  BY <6>4 DEF Wrap, from
        <5> QED  BY <5>2, <5>3
      <4>5. Wrap(start + i - 1) \in Cells /\ Wrap(start + i - 1) # Wrap(start + held)
        <5>1. start \in 0..(Inbox - 1)
          BY <3>2 DEF Cells
        <5> HIDE DEF start, held
        <5> QED  BY <5>1, <3>1 DEF Wrap, Cells
      <4>6. inbox'[p][Wrap(start + i - 1)] = inbox[p][Wrap(start + i - 1)]
        BY <3>4, <3>6, <4>5
      <4> QED  BY <4>1, <4>2, <4>3, <4>4, <4>6, <3>5
    <3> HIDE DEF n, drop, start, held, message
    <3>10. \A i \in 1..(held + 1) : n + 1 - (held + 1) + i = n - held + i
      BY <3>1, <3>7
    <3>11. \A i \in 1..(held + 1) : i \in 1..held \/ i = held + 1
      BY <3>1
    <3>12. n - held + (held + 1) = n + 1 /\ held + 1 <= n + 1
      BY <3>1, <3>7
    <3>13. ASSUME NEW i \in 1..(held + 1)
           PROVE  inbox'[p][Wrap(start + i - 1)] = arrived'[p][n + 1 - (held + 1) + i]
      <4>1. CASE i \in 1..held
        BY <4>1, <3>9, <3>10
      <4>2. CASE i = held + 1
        BY <4>2, <3>8, <3>10, <3>12
      <4> QED  BY <4>1, <4>2, <3>11
    <3>14. ASSUME NEW i \in 1..len'[p]
           PROVE  inbox'[p][Wrap(head'[p] + i - 1)]
                    = arrived'[p][Len(arrived'[p]) - len'[p] + i]
      <4>1. i \in 1..(held + 1)
        BY <3>4
      <4>2. inbox'[p][Wrap(start + i - 1)] = arrived'[p][n + 1 - (held + 1) + i]
        BY <4>1, <3>13
      <4>3. Len(arrived'[p]) = n + 1 /\ len'[p] = held + 1 /\ head'[p] = start
        BY <3>4, <3>5
      <4>4. Len(arrived'[p]) - len'[p] + i = n + 1 - (held + 1) + i
        <5>1. n \in Int /\ held \in Int /\ i \in Int
          BY <3>1, <3>7, <4>1
        <5> QED  BY <5>1, <4>3
      <4>5. Wrap(head'[p] + i - 1) = Wrap(start + i - 1)
        BY <4>3
      <4> QED  BY <4>2, <4>4, <4>5
    <3> QED  BY <3>4, <3>5, <3>12, <3>14
  <2> QED  BY <2>2, <2>3
<1> QED  BY <1>1, <1>2, <1>3, ReceiverActions

(* The ring holds the newest messages taken in, oldest first, whatever the *)
(* driver drained and whatever was dropped (absorb, next_message).         *)
THEOREM RingIsNewest == Spec => []InboxIsRecent
<1>1. Init => RingHolds
  BY DEF Init, RingHolds
<1>2. TypeOK /\ RingHolds /\ [Next]_vars => RingHolds'
  BY TypeParts, RingStep
<1>3. TypeOK /\ RingHolds => InboxIsRecent
  <2> SUFFICES ASSUME TypeOK, RingHolds, NEW p \in Peer
               PROVE  Waiting(p) = SubSeq(arrived[p], Len(arrived[p]) - len[p] + 1,
                                          Len(arrived[p]))
    BY DEF InboxIsRecent
  <2> DEFINE n == Len(arrived[p])
             newest == SubSeq(arrived[p], n - len[p] + 1, n)
  <2>1. /\ arrived[p] \in Seq(Message) /\ n \in Nat
        /\ head[p] \in 0..(Inbox - 1) /\ len[p] \in 0..Inbox /\ len[p] <= n
    BY TypeParts DEF ReceiverType, Cells, RingHolds
  <2>2. newest = [i \in 1..len[p] |-> arrived[p][n - len[p] + i]]
    <3>1. \A i \in (n - len[p] + 1)..n : arrived[p][i] \in Message
      BY <2>1
    <3>2. /\ newest \in Seq(Message) /\ Len(newest) = len[p]
          /\ \A i \in 1..len[p] : newest[i] = arrived[p][n - len[p] + i]
      <4> DEFINE first == n - len[p] + 1
      <4>1. first \in Int /\ n \in Int
        BY <2>1
      <4>2. /\ SubSeq(arrived[p], first, n) \in Seq(Message)
            /\ Len(SubSeq(arrived[p], first, n)) = IF first <= n THEN n - first + 1 ELSE 0
            /\ \A i \in 1..(n - first + 1) :
                 SubSeq(arrived[p], first, n)[i] = arrived[p][first + i - 1]
        BY <3>1, <4>1, SubSeqProperties
      <4>3. n - first + 1 = len[p] /\ (first <= n <=> len[p] # 0)
        BY <2>1
      <4>4. \A i \in 1..len[p] : first + i - 1 = n - len[p] + i
        BY <2>1
      <4> HIDE DEF first, n
      <4> QED  BY <4>2, <4>3, <4>4 DEF first
    <3> HIDE DEF newest, n
    <3>3. newest = [i \in 1..Len(newest) |-> newest[i]]
      BY <3>2
    <3> QED  BY <3>2, <3>3
  <2>3. ASSUME NEW i \in 1..len[p]
        PROVE  inbox[p][(head[p] + i - 1) % Inbox] = arrived[p][n - len[p] + i]
    <3>1. head[p] + i - 1 \in 0..(2 * Inbox - 1)
      BY <2>1
    <3>2. (head[p] + i - 1) % Inbox = Wrap(head[p] + i - 1)
      BY <3>1, WrapIs
    <3> QED  BY <3>2 DEF RingHolds
  <2> HIDE DEF n, newest
  <2> QED  BY <2>2, <2>3 DEF Waiting, n, newest
<1>4. FilterInv => TypeOK
  BY DEF FilterInv
<1> QED  BY <1>1, <1>2, <1>3, <1>4, FilterInvariant, PTL DEF Spec

-----------------------------------------------------------------------------
(* The repeats of a message *)

LEMMA SentStep ==
  ASSUME SenderType, SentEach, [Next]_vars
  PROVE  SentEach'
<1>0. /\ \A p \in Peer : emit_slot[p] \in Nat /\ emit_peer[p] \in Nat
      /\ Slots \subseteq Nat /\ Peer \subseteq Nat
  <2>1. Slots \subseteq Nat /\ Peer \subseteq Nat
    BY DEF Slots, Peer
  <2>2. ASSUME NEW r \in Peer PROVE emit_slot[r] \in Nat /\ emit_peer[r] \in Nat
    <3>1. emit_slot[r] \in Slots /\ emit_peer[r] \in 0..Peers
      BY DEF SenderType
    <3>2. emit_slot[r] \in Nat
      BY <3>1, <2>1
    <3>3. emit_peer[r] \in Nat
      BY <3>1
    <3> QED  BY <3>2, <3>3
  <2> QED  BY <2>1, <2>2
<1> DEFINE Right(m, past, n) ==
             n \in IF past THEN {Repeats - m.repeats_left, Repeats - m.repeats_left + 1}
                   ELSE {Repeats - m.repeats_left - 1, Repeats - m.repeats_left}
<1>1. SentEach <=> \A p \in Peer : \A s \in Slots : outbox[p][s] # None =>
                     \A q \in Remotes(p) : Right(outbox[p][s], Passed(p, s, q), sends[p][s][q])
  BY DEF SentEach
<1> SUFFICES ASSUME NEW p \in Peer, NEW s \in Slots, outbox'[p][s] # None,
                    NEW q \in Remotes(p)
             PROVE  Right(outbox'[p][s], Passed(p, s, q)', sends'[p][s][q])
  BY DEF SentEach
<1>2. q \in Peer /\ sends[p][s][q] \in 0..(Repeats + 1)
  BY DEF Remotes, SenderType
<1>2a. s \in Nat /\ q \in Nat /\ emit_slot[p] \in Nat /\ emit_peer[p] \in Nat
  BY <1>0, <1>2
<1>3. ASSUME outbox'[p][s] = outbox[p][s], Passed(p, s, q)' = Passed(p, s, q),
             sends'[p][s][q] = sends[p][s][q]
      PROVE  Right(outbox'[p][s], Passed(p, s, q)', sends'[p][s][q])
  BY <1>1, <1>3
<1>4. ASSUME NEW r \in Peer, Send(r)
      PROVE  Right(outbox'[p][s], Passed(p, s, q)', sends'[p][s][q])
  <2>1. Passed(p, s, q)' = Passed(p, s, q)
    BY <1>4 DEF Send, Passed
  <2>2. PICK t \in Slots :
          /\ outbox' = [outbox EXCEPT ![r][t] =
                         [sequence |-> next_sequence[r], repeats_left |-> Repeats]]
          /\ sends' = [sends EXCEPT ![r][t] = [u \in Peer |-> 0]]
    BY <1>4 DEF Send
  <2>3. CASE p = r /\ s = t
    <3>1. outbox'[p][s].repeats_left = Repeats /\ sends'[p][s][q] = 0
      BY <2>2, <2>3, <1>2 DEF SenderType
    <3> QED  BY <3>1
  <2>4. CASE ~(p = r /\ s = t)
    <3>1. outbox'[p][s] = outbox[p][s] /\ sends'[p][s][q] = sends[p][s][q]
      BY <2>2, <2>4 DEF SenderType
    <3> QED  BY <2>1, <3>1, <1>3
  <2> QED  BY <2>3, <2>4
<1>5. ASSUME NEW r \in Peer, Emit(r)
      PROVE  Right(outbox'[p][s], Passed(p, s, q)', sends'[p][s][q])
  <2>1. PICK t \in Owed(r) :
          /\ \A u \in Owed(r) : u[1] > t[1] \/ (u[1] = t[1] /\ u[2] >= t[2])
          /\ sends' = [sends EXCEPT ![r][t[1]][t[2]] = IF @ <= Repeats THEN @ + 1 ELSE @]
          /\ emit_slot' = [emit_slot EXCEPT ![r] = t[1]]
          /\ emit_peer' = [emit_peer EXCEPT ![r] = t[2] + 1]
    BY <1>5 DEF Emit
  <2>2. outbox' = outbox
    BY <1>5 DEF Emit
  <2>3. /\ t[1] \in Slots /\ t[2] \in Peer /\ t[1] \in Nat /\ t[2] \in Nat
        /\ t[1] > emit_slot[r] \/ (t[1] = emit_slot[r] /\ t[2] >= emit_peer[r])
    BY <1>0 DEF Owed, Ahead, Remotes
  <2>4. CASE p # r
    <3>1. sends'[p][s][q] = sends[p][s][q] /\ emit_slot'[p] = emit_slot[p]
          /\ emit_peer'[p] = emit_peer[p]
      BY <2>1, <2>4 DEF SenderType
    <3> QED  BY <2>2, <3>1, <1>3 DEF Passed
  <2>5. CASE p = r
    <3>1. /\ emit_slot'[p] = t[1] /\ emit_peer'[p] = t[2] + 1
      BY <2>1, <2>5 DEF SenderType
    <3>2. CASE s = t[1] /\ q = t[2]
      <4>1. Passed(p, s, q)' /\ ~Passed(p, s, q)
        BY <3>1, <3>2, <2>3, <2>5, <1>0 DEF Passed
      <4>2. outbox[p][s] \in Outgoing
        BY <2>2 DEF SenderType
      <4>3. outbox[p][s].repeats_left \in 1..Repeats
        BY <4>2 DEF Outgoing
      <4>4. Right(outbox[p][s], FALSE, sends[p][s][q])
        BY <1>1, <2>2, <4>1
      <4>5. sends[p][s][q] <= Repeats
        BY <4>3, <4>4
      <4>6. sends'[p][s][q] = sends[p][s][q] + 1
        BY <4>5, <2>1, <2>3, <2>5, <3>2 DEF SenderType
      <4> QED  BY <4>1, <4>3, <4>4, <4>6, <2>2, <1>2
    <3>3. CASE ~(s = t[1] /\ q = t[2])
      <4>1. sends'[p][s][q] = sends[p][s][q]
        BY <2>1, <2>3, <2>5, <3>3, <1>2 DEF SenderType
      <4>2. Passed(p, s, q) => Passed(p, s, q)'
        BY <3>1, <2>3, <2>5, <1>2a DEF Passed
      <4>3. ASSUME ~Passed(p, s, q) PROVE ~Passed(p, s, q)'
        <5>1. s > emit_slot[p] \/ (s = emit_slot[p] /\ q >= emit_peer[p])
          BY <4>3, <1>0, <1>2 DEF Passed
        <5>2. <<s, q>> \in Owed(p)
          BY <5>1, <2>2 DEF Owed, Ahead
        <5>3. s > t[1] \/ (s = t[1] /\ q >= t[2])
          BY <5>2, <2>1, <2>5
        <5>4. s > t[1] \/ (s = t[1] /\ q > t[2])
          BY <5>3, <3>3, <2>3, <1>2a
        <5>5. ~(s < t[1] \/ (s = t[1] /\ q < t[2] + 1))
          BY <5>4, <2>3, <1>2a
        <5> QED  BY <5>5, <3>1 DEF Passed
      <4>4. Passed(p, s, q)' = Passed(p, s, q)
        BY <4>2, <4>3 DEF Passed
      <4> QED  BY <4>1, <4>4, <2>2, <1>3
    <3> QED  BY <3>2, <3>3
  <2> QED  BY <2>4, <2>5
<1>6. ASSUME NEW r \in Peer, EndPump(r)
      PROVE  Right(outbox'[p][s], Passed(p, s, q)', sends'[p][s][q])
  <2>1. sends' = sends
    BY <1>6 DEF EndPump
  <2>2. CASE p # r
    <3>1. /\ outbox'[p][s] = outbox[p][s] /\ emit_slot'[p] = emit_slot[p]
          /\ emit_peer'[p] = emit_peer[p]
      BY <2>2, <1>6 DEF EndPump, SenderType
    <3> QED  BY <2>1, <3>1, <1>3 DEF Passed
  <2>3. CASE p = r
    <3>1. outbox'[p][s] = Expired(outbox[p][s]) /\ emit_slot'[p] = 0 /\ emit_peer'[p] = 0
      BY <2>3, <1>6 DEF EndPump, SenderType
    <3>2. outbox[p][s] # None /\ outbox[p][s] \in Outgoing
      BY <3>1 DEF Expired, SenderType
    <3>3. outbox[p][s].repeats_left \in 1..Repeats
      BY <3>2 DEF Outgoing
    <3>4. outbox'[p][s].repeats_left = outbox[p][s].repeats_left - 1
      BY <3>1, <3>2 DEF Expired, Outgoing
    <3>5. Passed(p, s, q)
      <4>1. <<s, q>> \notin Ahead(p)
        BY <3>2, <2>3, <1>6 DEF EndPump, Owed
      <4>2. ~(s > emit_slot[p] \/ (s = emit_slot[p] /\ q >= emit_peer[p]))
        BY <4>1 DEF Ahead
      <4> QED  BY <4>2, <1>0, <1>2 DEF Passed
    <3>6. ~Passed(p, s, q)'
      BY <3>1, <1>0, <1>2 DEF Passed
    <3>7. Right(outbox[p][s], TRUE, sends[p][s][q])
      BY <1>1, <3>2, <3>5
    <3> QED  BY <3>3, <3>4, <3>6, <3>7, <2>1, <1>2
  <2> QED  BY <2>2, <2>3
<1>7. ASSUME UNCHANGED <<outbox, emit_slot, emit_peer, sends>>
      PROVE  Right(outbox'[p][s], Passed(p, s, q)', sends'[p][s][q])
  BY <1>7, <1>3 DEF Passed
<1>8. CASE \E r \in Peer : Read(r)
  BY <1>8, <1>7 DEF Read, sender
<1>9. CASE \E m \in net : Deliver(m)
  BY <1>9, <1>7 DEF Deliver, sender
<1>10. CASE UNCHANGED vars
  BY <1>10, <1>7 DEF vars, sender
<1> QED  BY <1>4, <1>5, <1>6, <1>8, <1>9, <1>10, Actions

(* A message that leaves the outbox was sent to every remote in every pump *)
(* it was there for, the one it arrived in perhaps excepted.               *)
LEMMA SpentStep ==
  ASSUME SenderType, SentEach, [Next]_vars,
         NEW p \in Peer, NEW s \in Slots, outbox[p][s] # None, outbox'[p][s] = None,
         NEW q \in Remotes(p)
  PROVE  sends[p][s][q] \in {Repeats - 1, Repeats}
<1>1. /\ q \in Peer /\ emit_slot[p] \in Nat /\ emit_peer[p] \in Nat /\ s \in Nat /\ q \in Nat
      /\ outbox[p][s] \in Outgoing /\ outbox[p][s].repeats_left \in 1..Repeats
  <2>1. q \in Peer /\ s \in Nat /\ q \in Nat
    BY DEF Remotes, Slots, Peer
  <2>2. emit_slot[p] \in Nat /\ emit_peer[p] \in Nat
    BY DEF SenderType, Slots
  <2>3. outbox[p][s] \in Outgoing
    BY DEF SenderType
  <2> QED  BY <2>1, <2>2, <2>3 DEF Outgoing
<1>2. EndPump(p)
  <2>1. ASSUME NEW r \in Peer, Send(r) PROVE FALSE
    <3>1. PICK t \in Slots :
            /\ outbox[r][t] = None
            /\ outbox' = [outbox EXCEPT ![r][t] =
                           [sequence |-> next_sequence[r], repeats_left |-> Repeats]]
      BY <2>1 DEF Send
    <3> QED  BY <3>1 DEF SenderType
  <2>2. ASSUME NEW r \in Peer, EndPump(r), r # p PROVE FALSE
    BY <2>2 DEF EndPump, SenderType
  <2>3. outbox' # outbox
    OBVIOUS
  <2> QED  BY <2>1, <2>2, <2>3, Actions DEF Emit, Read, Deliver, sender, vars
<1>3. Expired(outbox[p][s]) = None
  BY <1>2 DEF EndPump, SenderType
<1>4. outbox[p][s].repeats_left = 1
  <2>1. CASE outbox[p][s].repeats_left # 1
    <3>1. [outbox[p][s] EXCEPT !.repeats_left = @ - 1] = None
      BY <2>1, <1>3 DEF Expired
    <3>2. [outbox[p][s] EXCEPT !.repeats_left = @ - 1] \in Outgoing
      BY <2>1, <1>1 DEF Outgoing
    <3> QED  BY <3>1, <3>2, NoneAssumption
  <2> QED  BY <2>1
<1>5. Passed(p, s, q)
  <2>1. <<s, q>> \notin Ahead(p)
    BY <1>2 DEF EndPump, Owed
  <2>2. ~(s > emit_slot[p] \/ (s = emit_slot[p] /\ q >= emit_peer[p]))
    BY <2>1 DEF Ahead
  <2> QED  BY <2>2, <1>1 DEF Passed
<1>6. sends[p][s][q] \in {Repeats - 1, Repeats - 1 + 1}
  BY <1>4, <1>5 DEF SentEach
<1> QED  BY <1>6

(* The count of repeats "means pumps and not peers" (expire), and no more  *)
(* than one pump is ever missed: the safety half of RepeatsSpent.          *)
THEOREM RepeatsReachAll == Spec => SentToAll
<1>1. Init => SentEach
  BY DEF Init, SentEach
<1>2. TypeOK /\ SentEach /\ [Next]_vars => SentEach'
  BY TypeParts, SentStep
<1>3. TypeOK /\ SentEach /\ [Next]_vars =>
        [\A p \in Peer : \A s \in Slots :
           (outbox[p][s] # None /\ outbox'[p][s] = None) =>
             \A q \in Remotes(p) : sends[p][s][q] \in {Repeats - 1, Repeats}]_vars
  BY TypeParts, SpentStep
<1>4. FilterInv => TypeOK
  BY DEF FilterInv
<1> QED  BY <1>1, <1>2, <1>3, <1>4, FilterInvariant, PTL DEF Spec, SentToAll

=============================================================================
