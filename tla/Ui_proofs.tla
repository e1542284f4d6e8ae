------------------------------ MODULE Ui_proofs ------------------------------
(***************************************************************************)
(* Proofs about the widget tree: the arena stays a tree whatever is        *)
(* inserted and removed, a click is about one node, what is worn follows   *)
(* the bits, the rectangles are those of the styles in force, and a field  *)
(* holds the text of its node.  For any number of slots and fields, any    *)
(* document, pools, tables and plans.                                      *)
(*                                                                         *)
(* A field's text comes first, then the arena's links: the invariant is    *)
(* Linked, of an arena while a stack of its nodes waits to be freed.       *)
(***************************************************************************)
EXTENDS Ui, FiniteSetTheorems, SequenceTheorems, WellFoundedInduction, TLAPS

(* What IsText says of one byte. *)
Follows(bytes, i) ==
  /\ bytes[i].place \in 1..bytes[i].char.width
  /\ bytes[i].place > 1 =>
       i > 1 /\ bytes[i - 1] = [char |-> bytes[i].char, place |-> bytes[i].place - 1]
  /\ bytes[i].place < bytes[i].char.width =>
       i < Len(bytes) /\ bytes[i + 1] = [char |-> bytes[i].char, place |-> bytes[i].place + 1]

(* Text, byte by byte.                                                    *)
LEMMA TextFollows ==
  ASSUME NEW Byte, NEW bytes \in Seq(Byte)
  PROVE  IsText(bytes) <=> \A i \in 1..Len(bytes) : Follows(bytes, i)
BY DEF IsText, Follows

(* What remove leaves of the bytes, and where.                            *)
LEMMA CutIs ==
  ASSUME NEW Byte, NEW bytes \in Seq(Byte),
         NEW from \in 0..Len(bytes), NEW to \in from..Len(bytes)
  PROVE  /\ Cut(bytes, from, to) \in Seq(Byte)
         /\ Len(Cut(bytes, from, to)) = Len(bytes) - (to - from)
         /\ \A i \in 1..(Len(bytes) - (to - from)) :
              Cut(bytes, from, to)[i] = IF i <= from THEN bytes[i]
                                        ELSE bytes[i + (to - from)]
<1> DEFINE head == SubSeq(bytes, 1, from)
           tail == SubSeq(bytes, to + 1, Len(bytes))
<1>1. Len(bytes) \in Nat /\ from \in Nat /\ to \in Nat
  OBVIOUS
<1>2. /\ head \in Seq(Byte) /\ Len(head) = from
      /\ \A i \in 1..from : head[i] = bytes[i]
  <2>1. \A i \in 1..from : bytes[i] \in Byte
    BY <1>1
  <2> QED  BY <2>1, <1>1, SubSeqProperties
<1>3. /\ tail \in Seq(Byte) /\ Len(tail) = Len(bytes) - to
      /\ \A i \in 1..(Len(bytes) - to) : tail[i] = bytes[to + i]
  <2>1. \A i \in (to + 1)..Len(bytes) : bytes[i] \in Byte
    BY <1>1
  <2>2. /\ tail \in Seq(Byte)
        /\ Len(tail) = IF to + 1 <= Len(bytes) THEN Len(bytes) - (to + 1) + 1 ELSE 0
        /\ \A i \in 1..(Len(bytes) - (to + 1) + 1) : tail[i] = bytes[(to + 1) + i - 1]
    BY <2>1, <1>1, SubSeqProperties
  <2>3. Len(bytes) - (to + 1) + 1 = Len(bytes) - to
    BY <1>1
  <2>4. \A i \in 1..(Len(bytes) - to) : (to + 1) + i - 1 = to + i
    BY <1>1
  <2> HIDE DEF tail
  <2>5. Len(tail) = Len(bytes) - to
    <3>1. CASE to + 1 <= Len(bytes)
      BY <2>2, <2>3, <3>1
    <3>2. CASE ~(to + 1 <= Len(bytes))
      <4>1. to = Len(bytes)
        BY <1>1, <3>2
      <4> QED  BY <2>2, <3>2, <4>1, <1>1
    <3> QED  BY <3>1, <3>2
  <2>6. \A i \in 1..(Len(bytes) - to) : tail[i] = bytes[(to + 1) + i - 1]
    BY <2>2, <2>3
  <2>7. \A i \in 1..(Len(bytes) - to) : tail[i] = bytes[to + i]
    BY <2>4, <2>6
  <2> QED  BY <2>2, <2>5, <2>7
<1>4. Cut(bytes, from, to) = head \o tail
  BY DEF Cut
<1> HIDE DEF head, tail
<1>5. /\ head \o tail \in Seq(Byte)
      /\ Len(head \o tail) = Len(head) + Len(tail)
      /\ \A i \in 1..(Len(head) + Len(tail)) :
           (head \o tail)[i] = IF i <= Len(head) THEN head[i] ELSE tail[i - Len(head)]
  BY <1>2, <1>3, ConcatProperties
<1>6. ASSUME NEW i \in 1..(Len(bytes) - (to - from))
      PROVE  (head \o tail)[i] = IF i <= from THEN bytes[i] ELSE bytes[i + (to - from)]
  <2>1. CASE i <= from
    BY <2>1, <1>1, <1>2, <1>3, <1>5
  <2>2. CASE i > from
    <3>1. i - from \in 1..(Len(bytes) - to) /\ to + (i - from) = i + (to - from)
      BY <2>2, <1>1
    <3>2. i \in 1..(Len(head) + Len(tail)) /\ ~(i <= Len(head)) /\ i - Len(head) = i - from
      BY <2>2, <1>1, <1>2, <1>3
    <3>3. (head \o tail)[i] = tail[i - from]
      BY <3>2, <1>5
    <3>4. tail[i - from] = bytes[to + (i - from)]
      BY <3>1, <1>3
    <3>5. ~(i <= from)
      BY <2>2, <1>1
    <3>6. (head \o tail)[i] = bytes[i + (to - from)]
      BY <3>1, <3>3, <3>4, Zenon
    <3> QED  BY <3>5, <3>6, Zenon
  <2>3. i <= from \/ i > from
    BY <1>1
  <2> QED  BY <2>1, <2>2, <2>3, Zenon
<1> QED  BY <1>1, <1>2, <1>3, <1>4, <1>5, <1>6

(* Cutting at two boundaries leaves text, and a boundary at the cut. *)
LEMMA CutKeepsText ==
  ASSUME NEW Byte, NEW bytes \in Seq(Byte), IsText(bytes),
         NEW from \in 0..Len(bytes), NEW to \in from..Len(bytes),
         OnBoundary(bytes, from), OnBoundary(bytes, to)
  PROVE  IsText(Cut(bytes, from, to)) /\ OnBoundary(Cut(bytes, from, to), from)
<1> DEFINE new == Cut(bytes, from, to)
           gap == to - from
           len == Len(bytes)
<1>1. /\ len \in Nat /\ from \in 0..len /\ gap \in Nat /\ from + gap = to /\ to <= len
      /\ from < len => bytes[from + 1].place = 1
      /\ to < len => bytes[to + 1].place = 1
  BY DEF OnBoundary
<1>2. /\ new \in Seq(Byte) /\ Len(new) = len - gap
      /\ \A i \in 1..(len - gap) : new[i] = IF i <= from THEN bytes[i] ELSE bytes[i + gap]
  BY CutIs
<1>3. \A i \in 1..len : Follows(bytes, i)
  BY TextFollows
<1> HIDE DEF new, gap, len
<1>4. ASSUME NEW i \in 1..(len - gap)  PROVE Follows(new, i)
  <2>1. CASE i <= from
    <3>1. i \in 1..len /\ new[i] = bytes[i] /\ Follows(bytes, i)
      BY <2>1, <1>1, <1>2, <1>3
    <3>2. i > 1 => new[i - 1] = bytes[i - 1]
      BY <2>1, <1>1, <1>2
    <3>3. i < from => i < len - gap /\ new[i + 1] = bytes[i + 1]
      BY <1>1, <1>2
    <3>4. i = from => ~(bytes[i].place < bytes[i].char.width)
      BY <3>1, <1>1 DEF Follows, len
    <3> QED  BY <3>1, <3>2, <3>3, <3>4, <2>1, <1>1, <1>2 DEF Follows
  <2>2. CASE i > from
    <3> DEFINE k == i + gap
    <3>1. k \in 1..len /\ new[i] = bytes[k] /\ Follows(bytes, k)
      BY <2>2, <1>1, <1>2, <1>3
    <3>2. i > from + 1 => i > 1 /\ new[i - 1] = bytes[k - 1]
      <4>1. i > from + 1 => i - 1 \in 1..(len - gap) /\ i - 1 > from /\ (i - 1) + gap = k - 1
        BY <1>1
      <4> QED  BY <4>1, <1>1, <1>2
    <3>3. i = from + 1 => ~(bytes[k].place > 1)
      BY <3>1, <1>1
    <3>4. k < len => i < len - gap /\ new[i + 1] = bytes[k + 1]
      <4>1. k < len => i + 1 \in 1..(len - gap) /\ i + 1 > from /\ (i + 1) + gap = k + 1
        BY <2>2, <1>1
      <4> QED  BY <4>1, <1>1, <1>2
    <3>5. k < len <=> i < len - gap
      BY <1>1
    <3>6. Len(new) = len - gap /\ Len(bytes) = len
      BY <1>2 DEF len
    <3>7. bytes[k].place > 1 => i > from + 1
      BY <3>3, <2>2, <1>1
    <3> HIDE DEF k
    <3> QED  BY <3>1, <3>2, <3>4, <3>5, <3>6, <3>7 DEF Follows
  <2> QED  BY <2>1, <2>2, <1>1
<1>5. IsText(new)
  BY <1>2, <1>4, TextFollows
<1>6. OnBoundary(new, from)
  <2>1. from < len - gap => from + 1 \in 1..(len - gap) /\ from + 1 > from
                            /\ (from + 1) + gap = to + 1 /\ to < len
    BY <1>1
  <2>2. from < len - gap => new[from + 1].place = 1
    BY <2>1, <1>1, <1>2
  <2> QED  BY <2>2, <1>1, <1>2 DEF OnBoundary
<1> QED  BY <1>5, <1>6 DEF new

-----------------------------------------------------------------------------

(* What Typed makes of the bytes. *)
Spliced(bytes, at, word) == SubSeq(bytes, 1, at) \o word \o SubSeq(bytes, at + 1, Len(bytes))

(* What insert leaves of the bytes, and where.                            *)
LEMMA TypedIs ==
  ASSUME NEW Byte, NEW bytes \in Seq(Byte), NEW at \in 0..Len(bytes),
         NEW word \in Seq(Byte)
  PROVE  /\ Spliced(bytes, at, word) \in Seq(Byte)
         /\ Len(Spliced(bytes, at, word)) = Len(bytes) + Len(word)
         /\ \A i \in 1..at : Spliced(bytes, at, word)[i] = bytes[i]
         /\ \A i \in 1..Len(word) : Spliced(bytes, at, word)[at + i] = word[i]
         /\ \A i \in (at + 1)..Len(bytes) : Spliced(bytes, at, word)[i + Len(word)] = bytes[i]
<1> DEFINE head == SubSeq(bytes, 1, at)
           tail == SubSeq(bytes, at + 1, Len(bytes))
           len == Len(bytes)
           w == Len(word)
           new == Spliced(bytes, at, word)
<1>1. len \in Nat /\ at \in 0..len /\ w \in Nat
  OBVIOUS
<1>2. /\ head \in Seq(Byte) /\ Len(head) = at
      /\ \A i \in 1..at : head[i] = bytes[i]
  <2>1. \A i \in 1..at : bytes[i] \in Byte
    BY <1>1
  <2> QED  BY <2>1, <1>1, SubSeqProperties
<1>3. /\ tail \in Seq(Byte) /\ Len(tail) = len - at
      /\ \A i \in 1..(len - at) : tail[i] = bytes[at + i]
  <2>1. \A i \in (at + 1)..len : bytes[i] \in Byte
    BY <1>1
  <2>2. /\ tail \in Seq(Byte)
        /\ Len(tail) = IF at + 1 <= len THEN len - (at + 1) + 1 ELSE 0
        /\ \A i \in 1..(len - (at + 1) + 1) : tail[i] = bytes[(at + 1) + i - 1]
    BY <2>1, <1>1, SubSeqProperties
  <2>3. len - (at + 1) + 1 = len - at
    BY <1>1
  <2>4. \A i \in 1..(len - at) : (at + 1) + i - 1 = at + i
    BY <1>1
  <2> HIDE DEF tail, len
  <2> QED  BY <2>2, <2>3, <2>4, <1>1
<1> HIDE DEF head, tail
<1> DEFINE front == head \o word
<1>4. /\ front \in Seq(Byte) /\ Len(front) = at + w
      /\ \A i \in 1..(at + w) : front[i] = IF i <= at THEN head[i] ELSE word[i - at]
  BY <1>1, <1>2, ConcatProperties
<1>n. new = front \o tail
  BY DEF head, tail, Spliced
<1> HIDE DEF front, new
<1>5. /\ new \in Seq(Byte) /\ Len(new) = (at + w) + (len - at)
      /\ \A i \in 1..((at + w) + (len - at)) :
           new[i] = IF i <= at + w THEN front[i] ELSE tail[i - (at + w)]
  <2>1. /\ front \o tail \in Seq(Byte) /\ Len(front \o tail) = Len(front) + Len(tail)
        /\ \A i \in 1..(Len(front) + Len(tail)) :
             (front \o tail)[i] = IF i <= Len(front) THEN front[i] ELSE tail[i - Len(front)]
    BY <1>3, <1>4, ConcatProperties
  <2>2. Len(front) = at + w /\ Len(tail) = len - at
    BY <1>3, <1>4
  <2> HIDE DEF len, w
  <2> QED  BY <2>1, <2>2, <1>n
<1> HIDE DEF len, w
<1>6. Len(new) = len + w
  BY <1>1, <1>5
<1>7. ASSUME NEW i \in 1..at  PROVE new[i] = bytes[i]
  BY <1>1, <1>2, <1>4, <1>5
<1>8. ASSUME NEW i \in 1..w  PROVE new[at + i] = word[i]
  <2>1. /\ at + i \in 1..((at + w) + (len - at)) /\ at + i <= at + w
        /\ at + i \in 1..(at + w) /\ ~(at + i <= at) /\ (at + i) - at = i
    BY <1>1
  <2> QED  BY <2>1, <1>4, <1>5
<1>9. ASSUME NEW i \in (at + 1)..len  PROVE new[i + w] = bytes[i]
  <2>1. /\ i + w \in 1..((at + w) + (len - at)) /\ ~(i + w <= at + w)
        /\ (i + w) - (at + w) = i - at /\ i - at \in 1..(len - at) /\ at + (i - at) = i
    BY <1>1
  <2>2. new[i + w] = tail[i - at]
    BY <2>1, <1>5
  <2>3. tail[i - at] = bytes[at + (i - at)]
    BY <2>1, <1>3
  <2> QED  BY <2>1, <2>2, <2>3, Zenon
<1> QED  BY <1>5, <1>6, <1>7, <1>8, <1>9 DEF len, w, new

(* A character put in at a boundary leaves text, and a boundary behind it. *)
LEMMA TypedKeepsText ==
  ASSUME NEW Byte, NEW bytes \in Seq(Byte), IsText(bytes),
         NEW at \in 0..Len(bytes), OnBoundary(bytes, at),
         NEW ch, ch.width \in 1..4, Encoded(ch) \in Seq(Byte)
  PROVE  LET new == Spliced(bytes, at, Encoded(ch))
         IN /\ new \in Seq(Byte) /\ Len(new) = Len(bytes) + ch.width
            /\ IsText(new) /\ OnBoundary(new, at + ch.width)
<1> DEFINE len == Len(bytes)
           w == ch.width
           word == Encoded(ch)
           new == Spliced(bytes, at, word)
<1>1. /\ len \in Nat /\ at \in 0..len /\ w \in 1..4
      /\ at < len => bytes[at + 1].place = 1
  BY DEF OnBoundary
<1>2. /\ Len(word) = w
      /\ \A i \in 1..w : word[i] = [char |-> ch, place |-> i]
  <2>1. DOMAIN word = 1..w /\ word \in Seq(Byte)
    BY DEF Encoded
  <2>2. Len(word) = w
    BY <2>1, <1>1
  <2> QED  BY <2>2 DEF Encoded
<1>n. /\ new \in Seq(Byte) /\ Len(new) = len + Len(word)
      /\ \A i \in 1..at : new[i] = bytes[i]
      /\ \A i \in 1..Len(word) : new[at + i] = word[i]
      /\ \A i \in (at + 1)..len : new[i + Len(word)] = bytes[i]
  BY TypedIs, SMTT(40)
<1>3. Len(bytes) = len
  OBVIOUS
<1>4. \A i \in 1..len : Follows(bytes, i)
  BY TextFollows
<1> HIDE DEF len, w, word, new
<1>5. new \in Seq(Byte) /\ Len(new) = len + w
  BY <1>n, <1>2
<1>h. \A i \in 1..at : new[i] = bytes[i]
  BY <1>n
<1>w. \A i \in 1..w : new[at + i] = [char |-> ch, place |-> i]
  BY <1>n, <1>2
<1>t. \A i \in (at + 1)..len : new[i + w] = bytes[i]
  BY <1>n, <1>2
<1>6. ASSUME NEW i \in 1..at  PROVE Follows(new, i)
  <2>1. new[i] = bytes[i] /\ Follows(bytes, i)
    BY <1>1, <1>h, <1>4
  <2>2. i > 1 => new[i - 1] = bytes[i - 1]
    BY <1>1, <1>h
  <2>3. i < at => i < Len(new) /\ new[i + 1] = bytes[i + 1]
    BY <1>1, <1>5, <1>h
  <2>4. bytes[i].place < bytes[i].char.width => i < at
    BY <2>1, <1>1, <1>3 DEF Follows
  <2> QED  BY <2>1, <2>2, <2>3, <2>4 DEF Follows
<1>7. ASSUME NEW i \in 1..w  PROVE Follows(new, at + i)
  <2>1. new[at + i] = [char |-> ch, place |-> i] /\ at + i \in Nat
    BY <1>1, <1>w
  <2>2. i > 1 => new[(at + i) - 1] = [char |-> ch, place |-> i - 1] /\ at + i > 1
    <3>1. i > 1 => i - 1 \in 1..w /\ at + (i - 1) = (at + i) - 1 /\ at + i > 1
      BY <1>1
    <3> QED  BY <3>1, <1>w
  <2>3. i < w => new[(at + i) + 1] = [char |-> ch, place |-> i + 1] /\ at + i < Len(new)
    <3>1. i < w => i + 1 \in 1..w /\ at + (i + 1) = (at + i) + 1 /\ at + i < len + w
      BY <1>1
    <3> QED  BY <3>1, <1>w, <1>5
  <2>4. [char |-> ch, place |-> i].char.width = w
    BY DEF w
  <2> QED  BY <2>1, <2>2, <2>3, <2>4 DEF Follows
<1>8. ASSUME NEW i \in (at + 1)..len  PROVE Follows(new, i + w)
  <2>1. new[i + w] = bytes[i] /\ Follows(bytes, i)
    BY <1>t, <1>4, <1>1
  <2>2. i > at + 1 => new[(i + w) - 1] = bytes[i - 1] /\ i + w > 1
    <3>1. i > at + 1 => i - 1 \in (at + 1)..len /\ (i - 1) + w = (i + w) - 1 /\ i + w > 1
      BY <1>1
    <3> QED  BY <3>1, <1>t
  <2>3. i < len => new[(i + w) + 1] = bytes[i + 1] /\ i + w < Len(new)
    <3>1. i < len => i + 1 \in (at + 1)..len /\ (i + 1) + w = (i + w) + 1 /\ i + w < len + w
      BY <1>1
    <3> QED  BY <3>1, <1>t, <1>5
  <2>4. bytes[i].place > 1 => i > at + 1
    <3>1. i = at + 1 => bytes[i].place = 1
      BY <1>1
    <3> QED  BY <3>1, <1>1
  <2> QED  BY <2>1, <2>2, <2>3, <2>4, <1>3 DEF Follows
<1>9. ASSUME NEW j \in 1..Len(new)  PROVE Follows(new, j)
  <2>1. CASE j <= at
    BY <2>1, <1>6, <1>1
  <2>2. CASE j > at /\ j <= at + w
    <3>1. j - at \in 1..w /\ at + (j - at) = j
      BY <2>2, <1>1
    <3>2. Follows(new, at + (j - at))
      BY <3>1, <1>7
    <3> QED  BY <3>1, <3>2, Zenon
  <2>3. CASE j > at + w
    <3>1. j - w \in (at + 1)..len /\ (j - w) + w = j
      BY <2>3, <1>1, <1>5
    <3>2. Follows(new, (j - w) + w)
      BY <3>1, <1>8
    <3> QED  BY <3>1, <3>2, Zenon
  <2> QED  BY <2>1, <2>2, <2>3, <1>1
<1>10. IsText(new)
  BY <1>5, <1>9, TextFollows
<1>11. OnBoundary(new, at + w)
  <2>1. at + w < Len(new) => at + 1 \in (at + 1)..len /\ (at + 1) + w = (at + w) + 1
    <3>1. Len(new) = len + w
      BY <1>5
    <3>2. at + w < len + w => at + 1 \in (at + 1)..len /\ (at + 1) + w = (at + w) + 1
      BY <1>1
    <3> QED  BY <3>1, <3>2, Zenon
  <2>2. at + w < Len(new) => new[(at + w) + 1].place = 1
    <3>1. at + w < Len(new) => new[(at + 1) + w] = bytes[at + 1] /\ at < len
      BY <2>1, <1>t, <1>1
    <3> QED  BY <3>1, <2>1, <1>1
  <2> QED  BY <2>2, <1>1, <1>5 DEF OnBoundary
<1> QED  BY <1>5, <1>10, <1>11 DEF len, w, new, word

-----------------------------------------------------------------------------

(* The bytes of characters of one to four bytes. *)
Text(bytes, Char) ==
  /\ bytes \in Seq([char : Char, place : 1..4])
  /\ IsText(bytes)
  /\ \A ch \in Char : ch.width \in 1..4

(* What text says of each of its bytes.                                   *)
LEMMA TextBytes ==
  ASSUME NEW bytes, NEW Char, Text(bytes, Char), NEW i \in 1..Len(bytes)
  PROVE  bytes[i].place \in 1..4 /\ bytes[i].char.width \in 1..4 /\ Follows(bytes, i)
<1>1. bytes[i] \in [char : Char, place : 1..4]
  <2> DEFINE Byte == [char : Char, place : 1..4]
  <2>1. bytes \in Seq(Byte)
    BY DEF Text
  <2> HIDE DEF Byte
  <2>2. bytes[i] \in Byte
    BY <2>1
  <2> QED  BY <2>2 DEF Byte
<1>2. Follows(bytes, i)
  BY TextFollows DEF Text
<1> QED  BY <1>1, <1>2 DEF Text

(* Whatever precedes a byte in its character precedes it in the field. *)
LEMMA RunBefore ==
  ASSUME NEW bytes, NEW Char, Text(bytes, Char), NEW i \in 1..Len(bytes)
  PROVE  \A p \in 1..4 : (p < bytes[i].place) =>
           i - p \in 1..Len(bytes) /\ bytes[i - p].place = bytes[i].place - p
<1> DEFINE before(j) == j \in 1..Len(bytes)
           place(j) == bytes[j].place
<1>1. Len(bytes) \in Nat
  BY DEF Text
<1>2. ASSUME NEW j \in 1..Len(bytes), place(j) > 1
      PROVE  before(j - 1) /\ place(j - 1) = place(j) - 1
  <2>1. Follows(bytes, j)
    BY TextBytes
  <2> QED  BY <2>1, <1>1, <1>2 DEF Follows
<1>3. place(i) \in 1..4
  BY TextBytes
<1> HIDE DEF place
<1>4. place(i) > 1 => before(i - 1) /\ place(i - 1) = place(i) - 1
  BY <1>2
<1>5. place(i) > 2 => before(i - 2) /\ place(i - 2) = place(i) - 2
  <2>1. place(i) > 2 => before((i - 1) - 1) /\ place((i - 1) - 1) = place(i - 1) - 1
    BY <1>2, <1>3, <1>4
  <2>2. (i - 1) - 1 = i - 2
    BY <1>1
  <2> QED  BY <2>1, <2>2, <1>3, <1>4
<1>6. place(i) > 3 => before(i - 3) /\ place(i - 3) = place(i) - 3
  <2>1. place(i) > 3 => before((i - 2) - 1) /\ place((i - 2) - 1) = place(i - 2) - 1
    BY <1>2, <1>3, <1>5
  <2>2. (i - 2) - 1 = i - 3
    BY <1>1
  <2> QED  BY <2>1, <2>2, <1>3, <1>5
<1> QED  BY <1>3, <1>4, <1>5, <1>6 DEF place

(* Left lands between two characters. *)
LEMMA BackIsBoundary ==
  ASSUME NEW Char, NEW field, Text(field.bytes, Char),
         field.cursor \in 1..Len(field.bytes)
  PROVE  /\ StepBack(field) \in 0..(field.cursor - 1)
         /\ OnBoundary(field.bytes, StepBack(field))
<1> DEFINE bytes == field.bytes
           at == field.cursor
           Found(i) == /\ i = 0 \/ ~IsContinuation(bytes, i)
                       /\ \A j \in (i + 1)..(at - 1) : IsContinuation(bytes, j)
<1>1. Len(bytes) \in Nat /\ at \in 1..Len(bytes)
  BY DEF Text
<1>2. \E i \in 0..(at - 1) : Found(i)
  <2> DEFINE p == bytes[at].place
  <2>1. p \in 1..4
    BY TextBytes, <1>1
  <2>2. \A q \in 1..4 : q < p => at - q \in 1..Len(bytes) /\ bytes[at - q].place = p - q
    BY RunBefore, <1>1
  <2> HIDE DEF p
  <2>3. at - p \in 0..(at - 1)
    <3>1. p > 1 => p - 1 \in 1..4 /\ at - (p - 1) \in 1..Len(bytes)
      BY <2>1, <2>2
    <3> QED  BY <3>1, <2>1, <1>1
  <2>4. bytes[(at - p) + 1].place = 1
    <3>1. CASE p = 1
      BY <3>1, <1>1 DEF p
    <3>2. CASE p > 1
      <4>1. p - 1 \in 1..4 /\ p - 1 < p /\ at - (p - 1) = (at - p) + 1 /\ p - (p - 1) = 1
        BY <3>2, <2>1, <1>1
      <4>2. bytes[at - (p - 1)].place = p - (p - 1)
        BY <4>1, <2>2
      <4> QED  BY <4>1, <4>2
    <3> QED  BY <3>1, <3>2, <2>1
  <2>5. ASSUME NEW j \in ((at - p) + 1)..(at - 1)  PROVE IsContinuation(bytes, j)
    <3>1. CASE j = at - 1
      <4>1. p > 1 /\ j + 1 = at
        BY <3>1, <2>1, <1>1
      <4> QED  BY <4>1 DEF IsContinuation, p
    <3>2. CASE j < at - 1
      <4> DEFINE q == at - (j + 1)
      <4>1. q \in 1..4 /\ q < p /\ at - q = j + 1 /\ p - q > 1
        BY <3>2, <2>1, <1>1
      <4>2. bytes[at - q].place = p - q
        BY <4>1, <2>2
      <4> QED  BY <4>1, <4>2 DEF IsContinuation
    <3> QED  BY <3>1, <3>2, <1>1, <2>1
  <2>6. Found(at - p)
    BY <2>4, <2>5, <2>1, <1>1 DEF IsContinuation
  <2> QED  BY <2>3, <2>6
<1>3. StepBack(field) = CHOOSE i \in 0..(at - 1) : Found(i)
  BY DEF StepBack
<1>4. StepBack(field) \in 0..(at - 1) /\ Found(StepBack(field))
  <2> HIDE DEF Found
  <2> QED  BY <1>2, <1>3
<1>5. OnBoundary(bytes, StepBack(field))
  <2> DEFINE b == StepBack(field)
  <2>1. b \in 0..(at - 1) /\ (b = 0 \/ ~IsContinuation(bytes, b))
    BY <1>4
  <2> HIDE DEF b
  <2>2. b + 1 \in 1..Len(bytes) /\ b \in 0..Len(bytes)
    BY <2>1, <1>1
  <2>3. Follows(bytes, b + 1) /\ bytes[b + 1].place \in 1..4
    BY <2>2, TextBytes
  <2>4. b = 0 => ~(bytes[b + 1].place > 1)
    BY <2>3 DEF Follows
  <2>5. bytes[b + 1].place = 1
    BY <2>1, <2>3, <2>4 DEF IsContinuation
  <2> QED  BY <2>2, <2>5 DEF OnBoundary, b
<1> QED  BY <1>4, <1>5

(* The byte of the given place of the character that starts at i. *)
RunsOn(bytes, i, q) ==
  /\ i + (q - 1) \in 1..Len(bytes)
  /\ bytes[i + (q - 1)] = [char |-> bytes[i].char, place |-> q]

(* Whatever follows a byte in its character follows it in the field. *)
LEMMA RunAfter ==
  ASSUME NEW bytes, NEW Char, Text(bytes, Char), NEW i \in 1..Len(bytes),
         bytes[i].place = 1
  PROVE  \A q \in 1..4 : q <= bytes[i].char.width => RunsOn(bytes, i, q)
<1> DEFINE ch == bytes[i].char
           Here(q) == /\ i + (q - 1) \in 1..Len(bytes)
                      /\ bytes[i + (q - 1)] = [char |-> ch, place |-> q]
<1>1. Len(bytes) \in Nat
  BY DEF Text
<1>2. ASSUME NEW q \in 1..3, Here(q), q + 1 <= ch.width  PROVE Here(q + 1)
  <2> DEFINE k == i + (q - 1)
  <2>1. k \in 1..Len(bytes) /\ bytes[k] = [char |-> ch, place |-> q] /\ k + 1 = i + ((q + 1) - 1)
    BY <1>1, <1>2
  <2> HIDE DEF k, Here
  <2>2. Follows(bytes, k) /\ ch.width \in 1..4
    BY <2>1, TextBytes DEF ch
  <2>3. bytes[k].place < bytes[k].char.width
    BY <2>1, <2>2, <1>2
  <2>4. k < Len(bytes) /\ bytes[k + 1] = [char |-> ch, place |-> q + 1]
    BY <2>1, <2>2, <2>3 DEF Follows
  <2>5. k + 1 \in 1..Len(bytes)
    BY <2>1, <2>4, <1>1
  <2> QED  BY <2>1, <2>4, <2>5 DEF Here
<1>3. ch.width \in 1..4
  BY TextBytes
<1>4. Here(1)
  <2>1. bytes[i] \in [char : Char, place : 1..4]
    <3> DEFINE Byte == [char : Char, place : 1..4]
    <3>1. bytes \in Seq(Byte)
      BY DEF Text
    <3> HIDE DEF Byte
    <3>2. bytes[i] \in Byte
      BY <3>1
    <3> QED  BY <3>2 DEF Byte
  <2>2. bytes[i] = [char |-> ch, place |-> 1]
    BY <2>1
  <2>3. i + (1 - 1) = i
    BY <1>1
  <2> QED  BY <2>2, <2>3
<1> HIDE DEF Here, ch
<1>5. 2 <= ch.width => Here(2)
  BY <1>2, <1>3, <1>4
<1>6. 3 <= ch.width => Here(3)
  <2>1. 3 <= ch.width => Here(2) /\ 2 + 1 <= ch.width
    BY <1>3, <1>5
  <2> QED  BY <2>1, <1>2
<1>7. 4 <= ch.width => Here(4)
  <2>1. 4 <= ch.width => Here(3) /\ 3 + 1 <= ch.width
    BY <1>3, <1>6
  <2> QED  BY <2>1, <1>2
<1>8. \A q \in 1..4 : q <= ch.width => Here(q)
  BY <1>4, <1>5, <1>6, <1>7
<1> QED  BY <1>8 DEF Here, ch, RunsOn

(* Right lands between two characters. *)
LEMMA ForwardIsBoundary ==
  ASSUME NEW Char, NEW field, Text(field.bytes, Char),
         OnBoundary(field.bytes, field.cursor), field.cursor < Len(field.bytes)
  PROVE  /\ StepForward(field) \in (field.cursor + 1)..Len(field.bytes)
         /\ OnBoundary(field.bytes, StepForward(field))
<1> DEFINE bytes == field.bytes
           at == field.cursor
           Found(i) == /\ i = Len(bytes) \/ ~IsContinuation(bytes, i)
                       /\ \A j \in (at + 1)..(i - 1) : IsContinuation(bytes, j)
<1>1. /\ Len(bytes) \in Nat /\ at \in 0..Len(bytes) /\ at < Len(bytes)
      /\ at + 1 \in 1..Len(bytes) /\ bytes[at + 1].place = 1
  BY DEF Text, OnBoundary
<1>2. \E i \in (at + 1)..Len(bytes) : Found(i)
  <2> DEFINE w == bytes[at + 1].char.width
             ch == bytes[at + 1].char
  <2>1. w \in 1..4
    BY TextBytes, <1>1
  <2>2. \A q \in 1..4 : q <= w =>
          (at + 1) + (q - 1) \in 1..Len(bytes)
            /\ bytes[(at + 1) + (q - 1)] = [char |-> ch, place |-> q]
    <3> DEFINE i == at + 1
    <3>1. Text(bytes, Char) /\ i \in 1..Len(bytes) /\ bytes[i].place = 1
      BY <1>1
    <3> HIDE DEF i
    <3>2. \A q \in 1..4 : q <= bytes[i].char.width => RunsOn(bytes, i, q)
      BY <3>1, RunAfter
    <3> QED  BY <3>2 DEF i, RunsOn
  <2>3. \A q \in 1..4 : q <= w =>
          at + q \in 1..Len(bytes) /\ bytes[at + q] = [char |-> ch, place |-> q]
    <3>1. \A q \in 1..4 : (at + 1) + (q - 1) = at + q
      BY <1>1
    <3> QED  BY <2>2, <3>1
  <2>4. ch.width = w
    OBVIOUS
  <2> HIDE DEF w, ch
  <2>5. at + w \in 1..Len(bytes) /\ bytes[at + w] = [char |-> ch, place |-> w]
    BY <2>1, <2>3
  <2>6. at + w < Len(bytes) => ~IsContinuation(bytes, at + w)
    <3> SUFFICES ASSUME at + w < Len(bytes), IsContinuation(bytes, at + w)  PROVE FALSE
      OBVIOUS
    <3> DEFINE k == (at + w) + 1
    <3>1. k \in 1..Len(bytes) /\ k - 1 = at + w
      BY <1>1, <2>1
    <3>2. bytes[k].place > 1
      BY DEF IsContinuation
    <3> HIDE DEF k
    <3>3. Follows(bytes, k) /\ bytes[k].place \in 1..4
      BY <3>1, TextBytes
    <3>4. bytes[at + w] = [char |-> bytes[k].char, place |-> bytes[k].place - 1]
      BY <3>1, <3>2, <3>3 DEF Follows
    <3>5. bytes[k].char = ch /\ bytes[k].place - 1 = w
      BY <3>4, <2>5
    <3> QED  BY <3>3, <3>5, <2>1, <2>4 DEF Follows
  <2>7. ASSUME NEW j \in (at + 1)..((at + w) - 1)  PROVE IsContinuation(bytes, j)
    <3> DEFINE q == (j + 1) - at
    <3>1. q \in 1..4 /\ q <= w /\ at + q = j + 1 /\ q > 1
      BY <1>1, <2>1
    <3> HIDE DEF q
    <3>2. bytes[j + 1].place = q
      BY <3>1, <2>3
    <3> QED  BY <3>1, <3>2 DEF IsContinuation
  <2>8. Found(at + w)
    BY <2>6, <2>7, <2>5, <1>1, <2>1
  <2>9. at + w \in (at + 1)..Len(bytes)
    BY <2>1, <2>5, <1>1
  <2> QED  BY <2>8, <2>9
<1>3. StepForward(field) = CHOOSE i \in (at + 1)..Len(bytes) : Found(i)
  BY DEF StepForward
<1>4. StepForward(field) \in (at + 1)..Len(bytes) /\ Found(StepForward(field))
  <2> HIDE DEF Found
  <2> QED  BY <1>2, <1>3
<1>5. OnBoundary(bytes, StepForward(field))
  <2> DEFINE f == StepForward(field)
  <2>1. f \in (at + 1)..Len(bytes) /\ (f = Len(bytes) \/ ~IsContinuation(bytes, f))
    BY <1>4
  <2> HIDE DEF f
  <2>2. f \in 0..Len(bytes) /\ (f < Len(bytes) => f + 1 \in 1..Len(bytes))
    BY <2>1, <1>1
  <2>3. f < Len(bytes) => bytes[f + 1].place \in 1..4
    BY <2>2, TextBytes
  <2>4. f < Len(bytes) => bytes[f + 1].place = 1
    BY <2>1, <2>2, <2>3, <1>1 DEF IsContinuation
  <2> QED  BY <2>2, <2>4 DEF OnBoundary, f
<1> QED  BY <1>4, <1>5

-----------------------------------------------------------------------------

(* A field of characters of Char, as every operation of field.rs is handed *)
(* one and must leave one.                                                 *)
Field(Owner, Char) ==
  [owner : Owner, bytes : Seq([char : Char, place : 1..4]), cursor : Nat]
Narrow(Char) == \A ch \in Char : ch.width \in 1..4

(* A field with other bytes and another cursor.                           *)
LEMMA FieldRewritten ==
  ASSUME NEW Owner, NEW Bytes, NEW field \in [owner : Owner, bytes : Bytes, cursor : Nat],
         NEW b \in Bytes, NEW c \in Nat
  PROVE  LET new == [field EXCEPT !.bytes = b, !.cursor = c]
         IN /\ new \in [owner : Owner, bytes : Bytes, cursor : Nat]
            /\ new.bytes = b /\ new.cursor = c
OBVIOUS

(* What a field holds, as the lemmas on text take it.                     *)
LEMMA FieldText ==
  ASSUME NEW Owner, NEW Char, Narrow(Char), NEW field \in Field(Owner, Char), FieldOK(field)
  PROVE  /\ Text(field.bytes, Char)
         /\ IsText(field.bytes) /\ Len(field.bytes) <= MaxBytes
         /\ Len(field.bytes) \in Nat /\ field.cursor \in 0..Len(field.bytes)
         /\ OnBoundary(field.bytes, field.cursor)
         /\ field.bytes \in Seq([char : Char, place : 1..4])
<1>1. field.bytes \in Seq([char : Char, place : 1..4])
  BY DEF Field
<1> QED  BY <1>1 DEF FieldOK, OnBoundary, Text, Narrow

(* A character typed at the cursor goes in whole or not at all: the field  *)
(* holds text of at most MaxBytes bytes, with the cursor between two       *)
(* characters (field.rs insert).                                           *)
THEOREM TypingKeepsText ==
  ASSUME NEW Owner, NEW Char, Narrow(Char), NEW field \in Field(Owner, Char), FieldOK(field),
         NEW ch \in Char
  PROVE  Typed(field, ch) \in Field(Owner, Char) /\ FieldOK(Typed(field, ch))
<1> DEFINE Byte == [char : Char, place : 1..4]
           bytes == field.bytes
           at == field.cursor
           new == Spliced(bytes, at, Encoded(ch))
<1>1. /\ bytes \in Seq(Byte) /\ IsText(bytes) /\ Len(bytes) \in Nat
      /\ at \in 0..Len(bytes) /\ OnBoundary(bytes, at)
  BY FieldText
<1>2. ch.width \in 1..4
  BY DEF Narrow
<1>3. Encoded(ch) \in Seq(Byte)
  <2>1. Encoded(ch) \in [1..ch.width -> Byte] /\ ch.width \in Nat
    BY <1>2 DEF Encoded
  <2> HIDE DEF Byte
  <2> QED  BY <2>1, SeqDef
<1>4. field \in [owner : Owner, bytes : Seq(Byte), cursor : Nat]
  BY DEF Field
<1> HIDE DEF Byte
<1>5. /\ new \in Seq(Byte) /\ Len(new) = Len(bytes) + ch.width
      /\ IsText(new) /\ OnBoundary(new, at + ch.width)
  BY <1>1, <1>2, <1>3, TypedKeepsText
<1> CASE Len(bytes) + ch.width > MaxBytes
  <2>1. Typed(field, ch) = field
    BY DEF Typed
  <2> QED  BY <2>1
<1> CASE ~(Len(bytes) + ch.width > MaxBytes)
  <2>1. Typed(field, ch) = [field EXCEPT !.bytes = new, !.cursor = at + ch.width]
    BY DEF Typed, Spliced
  <2> HIDE DEF new
  <2>2. /\ Typed(field, ch).bytes = new /\ Typed(field, ch).cursor = at + ch.width
        /\ Typed(field, ch) \in [owner : Owner, bytes : Seq(Byte), cursor : Nat]
    <3>1. at + ch.width \in Nat /\ new \in Seq(Byte)
      BY <1>1, <1>2, <1>5
    <3> QED  BY <2>1, <3>1, <1>4, FieldRewritten, ZenonT(40)
  <2>3. Len(new) <= MaxBytes
    BY <1>1, <1>2, <1>5, MaxBytesAssumption
  <2>4. FieldOK(Typed(field, ch))
    BY <2>2, <2>3, <1>5 DEF FieldOK
  <2> QED  BY <2>2, <2>4 DEF Field, Byte
<1> QED  OBVIOUS

(* No editing key cuts a character in two, and none leaves the cursor      *)
(* inside one: backspace and delete take a whole character, left and right *)
(* pass one (field.rs remove, step_back, step_forward).                    *)
THEOREM EditingKeepsText ==
  ASSUME NEW Owner, NEW Char, Narrow(Char), NEW field \in Field(Owner, Char), FieldOK(field),
         NEW op \in EditOps
  PROVE  Edited(field, op) \in Field(Owner, Char) /\ FieldOK(Edited(field, op))
<1> DEFINE Byte == [char : Char, place : 1..4]
           bytes == field.bytes
           at == field.cursor
           len == Len(bytes)
<1>1. /\ bytes \in Seq(Byte) /\ IsText(bytes) /\ len \in Nat /\ len <= MaxBytes
      /\ at \in 0..len /\ OnBoundary(bytes, at) /\ Text(bytes, Char)
  BY FieldText
<1>2. field \in [owner : Owner, bytes : Seq(Byte), cursor : Nat]
  BY DEF Field
<1> HIDE DEF Byte
<1>3. ASSUME NEW from \in 0..len, NEW to \in from..len,
             OnBoundary(bytes, from), OnBoundary(bytes, to)
      PROVE  /\ Cut(bytes, from, to) \in Seq(Byte)
             /\ IsText(Cut(bytes, from, to)) /\ OnBoundary(Cut(bytes, from, to), from)
             /\ Len(Cut(bytes, from, to)) <= MaxBytes
  <2>1. /\ Cut(bytes, from, to) \in Seq(Byte)
        /\ Len(Cut(bytes, from, to)) = len - (to - from)
    BY <1>1, <1>3, CutIs
  <2>2. IsText(Cut(bytes, from, to)) /\ OnBoundary(Cut(bytes, from, to), from)
    BY <1>1, <1>3, CutKeepsText
  <2>3. len - (to - from) <= MaxBytes
    BY <1>1, MaxBytesAssumption
  <2> QED  BY <2>1, <2>2, <2>3
<1>4. at > 0 => /\ StepBack(field) \in 0..(at - 1)
                /\ OnBoundary(bytes, StepBack(field))
  <2>1. at > 0 => at \in 1..len
    BY <1>1
  <2> QED  BY <1>1, <2>1, BackIsBoundary
<1>5. at < len => /\ StepForward(field) \in (at + 1)..len
                  /\ OnBoundary(bytes, StepForward(field))
  BY <1>1, ForwardIsBoundary
<1>6. ASSUME NEW to \in 0..len, OnBoundary(bytes, to)
      PROVE  /\ [field EXCEPT !.cursor = to] \in Field(Owner, Char)
             /\ FieldOK([field EXCEPT !.cursor = to])
  <2> DEFINE moved == [field EXCEPT !.cursor = to]
  <2>1. moved.bytes = bytes /\ moved.cursor = to
        /\ moved \in [owner : Owner, bytes : Seq(Byte), cursor : Nat]
    BY <1>2, <1>1, <1>6
  <2> HIDE DEF moved
  <2>2. FieldOK(moved) /\ moved \in Field(Owner, Char)
    BY <2>1, <1>1, <1>6 DEF FieldOK, Field, Byte
  <2> QED  BY <2>2 DEF moved
<1>7. ASSUME NEW from \in 0..len, NEW to \in from..len,
             OnBoundary(bytes, from), OnBoundary(bytes, to)
      PROVE  LET short == [field EXCEPT !.bytes = Cut(bytes, from, to), !.cursor = from]
             IN short \in Field(Owner, Char) /\ FieldOK(short)
  <2> DEFINE cut == Cut(bytes, from, to)
             short == [field EXCEPT !.bytes = cut, !.cursor = from]
  <2>1. /\ cut \in Seq(Byte) /\ IsText(cut) /\ OnBoundary(cut, from) /\ Len(cut) <= MaxBytes
    BY <1>3, <1>7
  <2> HIDE DEF cut
  <2>2. /\ short.bytes = cut /\ short.cursor = from
        /\ short \in [owner : Owner, bytes : Seq(Byte), cursor : Nat]
    <3>1. from \in Nat /\ cut \in Seq(Byte)
      BY <1>1, <2>1
    <3> QED  BY <3>1, <1>2, FieldRewritten, ZenonT(40)
  <2> HIDE DEF short
  <2>3. FieldOK(short) /\ short \in Field(Owner, Char)
    BY <2>2, <2>1 DEF FieldOK, Field, Byte
  <2> QED  BY <2>3 DEF short, cut
<1> HIDE DEF bytes, at, len
<1>8. CASE op = "Backspace"
  <2>1. Edited(field, op) = Backspaced(field)
    BY <1>8 DEF Edited
  <2>2. CASE at = 0
    BY <2>1, <2>2 DEF Backspaced, at
  <2>3. CASE at > 0
    <3>1. Backspaced(field) = [field EXCEPT !.bytes = Cut(bytes, StepBack(field), at),
                                            !.cursor = StepBack(field)]
      BY <2>3, <1>1 DEF Backspaced, at, bytes
    <3>2. at \in StepBack(field)..len /\ StepBack(field) \in 0..len
      BY <1>1, <1>4, <2>3
    <3>3. OnBoundary(bytes, StepBack(field)) /\ OnBoundary(bytes, at)
      BY <1>1, <1>4, <2>3
    <3> QED  BY <2>1, <3>1, <3>2, <3>3, <1>7
  <2> QED  BY <2>2, <2>3, <1>1
<1>9. CASE op = "Delete"
  <2>1. Edited(field, op) = Deleted(field)
    BY <1>9 DEF Edited
  <2>2. CASE at >= len
    BY <2>1, <2>2 DEF Deleted, at, len, bytes
  <2>3. CASE at < len
    <3>1. Deleted(field) = [field EXCEPT !.bytes = Cut(bytes, at, StepForward(field))]
      BY <2>3, <1>1 DEF Deleted, at, bytes, len
    <3>2. [field EXCEPT !.bytes = Cut(bytes, at, StepForward(field))]
            = [field EXCEPT !.bytes = Cut(bytes, at, StepForward(field)), !.cursor = at]
      BY <1>2 DEF at
    <3>3. StepForward(field) \in at..len
      BY <1>1, <1>5, <2>3
    <3> QED  BY <2>1, <3>1, <3>2, <3>3, <1>1, <1>5, <2>3, <1>7
  <2> QED  BY <2>2, <2>3, <1>1
<1>10. CASE op = "Left"
  <2>1. Edited(field, op) = SteppedLeft(field)
    BY <1>10 DEF Edited
  <2>2. CASE at = 0
    BY <2>1, <2>2 DEF SteppedLeft, at
  <2>3. CASE at > 0
    <3>1. SteppedLeft(field) = [field EXCEPT !.cursor = StepBack(field)]
      BY <2>3, <1>1 DEF SteppedLeft, at
    <3>2. StepBack(field) \in 0..len /\ OnBoundary(bytes, StepBack(field))
      BY <1>1, <1>4, <2>3
    <3> QED  BY <2>1, <3>1, <3>2, <1>6
  <2> QED  BY <2>2, <2>3, <1>1
<1>11. CASE op = "Right"
  <2>1. Edited(field, op) = SteppedRight(field)
    BY <1>11 DEF Edited
  <2>2. CASE at >= len
    BY <2>1, <2>2 DEF SteppedRight, at, len, bytes
  <2>3. CASE at < len
    <3>1. SteppedRight(field) = [field EXCEPT !.cursor = StepForward(field)]
      BY <2>3, <1>1 DEF SteppedRight, at, len, bytes
    <3>2. StepForward(field) \in 0..len /\ OnBoundary(bytes, StepForward(field))
      BY <1>1, <1>5, <2>3
    <3> QED  BY <2>1, <3>1, <3>2, <1>6
  <2> QED  BY <2>2, <2>3, <1>1
<1>12. CASE op = "Home"
  <2>1. Edited(field, op) = [field EXCEPT !.cursor = 0]
    BY <1>12 DEF Edited
  <2>2. 0 \in 0..len /\ OnBoundary(bytes, 0)
    <3>1. 0 < len => 1 \in 1..Len(bytes)
      BY <1>1 DEF len
    <3>2. 0 < len => Follows(bytes, 1) /\ bytes[1].place \in 1..4
      BY <3>1, <1>1, TextBytes
    <3>3. 0 < len => bytes[1].place = 1
      BY <3>2 DEF Follows
    <3> QED  BY <3>3, <1>1 DEF OnBoundary, len
  <2> QED  BY <2>1, <2>2, <1>6
<1>13. CASE op = "End"
  <2>1. Edited(field, op) = [field EXCEPT !.cursor = len]
    BY <1>13 DEF Edited, len, bytes
  <2>2. len \in 0..len /\ OnBoundary(bytes, len)
    BY <1>1 DEF OnBoundary, len
  <2> QED  BY <2>1, <2>2, <1>6
<1> QED  BY <1>8, <1>9, <1>10, <1>11, <1>12, <1>13 DEF EditOps

(* Every non-empty set of numbered things has one with the least number.  *)
LEMMA Least ==
  ASSUME NEW T, T # {}, NEW rank, \A x \in T : rank[x] \in Nat
  PROVE  \E x \in T : \A y \in T : rank[x] <= rank[y]
<1> DEFINE V == {rank[x] : x \in T}
           R == OpToRel(<, Nat)
<1>1. IsWellFoundedOn(R, Nat)
  BY NatLessThanWellFounded
<1>2. V \subseteq Nat /\ V # {}
  OBVIOUS
<1> HIDE DEF R, V
<1>3. PICK v \in V : \A w \in V : <<w, v>> \notin R
  BY <1>1, <1>2, WFMin
<1>4. PICK x \in T : v = rank[x]
  BY DEF V
<1>5. ASSUME NEW y \in T
      PROVE  rank[x] <= rank[y]
  <2>1. rank[y] \in V /\ rank[y] \in Nat /\ rank[x] \in Nat
    BY DEF V
  <2>2. <<rank[y], rank[x]>> \notin R
    BY <1>3, <1>4, <2>1
  <2>3. ~(rank[y] < rank[x])
    BY <2>1, <2>2 DEF R, OpToRel
  <2> QED  BY <2>1, <2>3
<1> QED  BY <1>5

(* Induction over the naturals, as a fact about sets. *)
LEMMA Induction ==
  ASSUME NEW S, 0 \in S, \A n \in Nat : n \in S => n + 1 \in S
  PROVE  Nat \subseteq S
<1> DEFINE T == Nat \ S
<1>1. ASSUME T # {} PROVE FALSE
  <2> DEFINE same == [n \in T |-> n]
  <2>1. \A n \in T : same[n] \in Nat
    OBVIOUS
  <2>2. PICK x \in T : \A y \in T : same[x] <= same[y]
    <3> HIDE DEF T, same
    <3> QED  BY <1>1, <2>1, Least
  <2>3. x \in Nat /\ x \notin S /\ x # 0
    OBVIOUS
  <2>4. x - 1 \in Nat /\ x - 1 + 1 = x
    BY <2>3
  <2>5. x - 1 \in T
    BY <2>3, <2>4
  <2>6. x <= x - 1
    BY <2>2, <2>5
  <2> QED  BY <2>3, <2>6
<1> QED  BY <1>1

Turns(g, f, x, N) == g = [n \in 0..N |-> IF n = 0 THEN x ELSE f[g[n - 1]]]

(* What is applied again and again to a member of a closed set stays there. *)
LEMMA Repetition ==
  ASSUME NEW S, NEW f \in [S -> S], NEW x \in S, NEW N \in Nat
  PROVE  \E g \in [0..N -> S] : Turns(g, f, x, N)
<1> DEFINE Walks(g, n) == Turns(g, f, x, n)
           M == {n \in Nat : \E g \in [0..n -> S] : Walks(g, n)}
<1>1. 0 \in M
  <2>1. Walks([m \in 0..0 |-> x], 0)
    BY DEF Turns
  <2>2. [m \in 0..0 |-> x] \in [0..0 -> S]
    OBVIOUS
  <2> QED  BY <2>1, <2>2
<1>2. ASSUME NEW n \in Nat, n \in M
      PROVE  n + 1 \in M
  <2>1. PICK g \in [0..n -> S] : Walks(g, n)
    BY <1>2
  <2> DEFINE h == [m \in 0..(n + 1) |-> IF m = n + 1 THEN f[g[n]] ELSE g[m]]
  <2>2. ASSUME NEW m \in 0..(n + 1)
        PROVE  h[m] = (IF m = 0 THEN x ELSE f[h[m - 1]]) /\ h[m] \in S
    <3>1. CASE m = n + 1
      <4>1. m # 0 /\ m - 1 = n /\ n \in 0..(n + 1) /\ n # n + 1 /\ n \in 0..n
        BY <3>1
      <4>2. g[n] \in S /\ f[g[n]] \in S
        BY <4>1
      <4> QED  BY <3>1, <4>1, <4>2
    <3>2. CASE m # n + 1
      <4>1. m \in 0..n
        BY <3>2
      <4>2. g[m] = (IF m = 0 THEN x ELSE f[g[m - 1]]) /\ g[m] \in S
        BY <2>1, <4>1 DEF Turns
      <4>3. m # 0 => m - 1 \in 0..(n + 1) /\ m - 1 # n + 1
        BY <4>1
      <4> QED  BY <3>2, <4>2, <4>3
    <3> QED  BY <3>1, <3>2
  <2>3. h = [m \in 0..(n + 1) |-> h[m]]
    OBVIOUS
  <2> HIDE DEF h
  <2>4. h \in [0..(n + 1) -> S]
    BY <2>2, <2>3
  <2>5. Walks(h, n + 1)
    BY <2>2, <2>3 DEF Turns
  <2>6. n + 1 \in Nat
    OBVIOUS
  <2> QED  BY <2>4, <2>5, <2>6
<1> HIDE DEF M
<1>3. N \in M
  BY <1>1, <1>2, Induction
<1> QED  BY <1>3 DEF M

-----------------------------------------------------------------------------
(* Arenas *)

Trees == [generation : [Slots -> Nat], live : [Slots -> BOOLEAN],
          parent : [Slots -> Links], first : [Slots -> Links], last : [Slots -> Links],
          prev : [Slots -> Links], next : [Slots -> Links],
          free : Links, count : Int]

(* Nil is no slot, and the root is one.                                   *)
LEMMA SlotFacts ==
  /\ Nodes \in Nat /\ Nodes > 0
  /\ Root \in Slots /\ Nil \notin Slots /\ Slots \subseteq Links /\ Nil \in Links
  /\ Slots \subseteq Nat
BY NodesAssumption DEF Slots, Links, Root, Nil

(* One more turn of a chain gives sequences of slots again.               *)
LEMMA LongerType ==
  ASSUME NEW link \in [Slots -> Links], NEW from \in [Links -> Seq(Slots)]
  PROVE  Longer(link, from) \in [Links -> Seq(Slots)]
<1>1. ASSUME NEW at \in Links
      PROVE  (IF at = Nil THEN <<>> ELSE <<at>> \o from[link[at]]) \in Seq(Slots)
  <2>1. CASE at = Nil
    BY <2>1
  <2>2. CASE at # Nil
    <3>1. at \in Slots
      BY <2>2 DEF Links
    <3>2. <<at>> \in Seq(Slots) /\ from[link[at]] \in Seq(Slots)
      BY <3>1
    <3>3. <<at>> \o from[link[at]] \in Seq(Slots)
      BY <3>2, ConcatProperties
    <3> QED  BY <2>2, <3>3
  <2> QED  BY <2>1, <2>2
<1> QED  BY <1>1 DEF Longer

(* The turns a chain is made in. *)
ChainWalk(g, link) ==
  g = [n \in 0..Nodes |-> IF n = 0 THEN [at \in Links |-> <<>>] ELSE Longer(link, g[n - 1])]

(* A chain is made in as many turns as there are slots.                   *)
LEMMA ChainIs ==
  ASSUME NEW link \in [Slots -> Links], NEW s \in Links
  PROVE  \E g \in [0..Nodes -> [Links -> Seq(Slots)]] :
           /\ g[0] = [at \in Links |-> <<>>]
           /\ \A n \in 0..(Nodes - 1) : g[n + 1] = Longer(link, g[n])
           /\ Chain(link, s) = g[Nodes][s]
<1> DEFINE S == [Links -> Seq(Slots)]
           none == [at \in Links |-> <<>>]
           f == [from \in S |-> Longer(link, from)]
           g == CHOOSE h : ChainWalk(h, link)
<1>1. Chain(link, s) = g[Nodes][s]
  BY Zenon DEF Chain, Repeated, ChainWalk
<1>2. f \in [S -> S] /\ none \in S /\ Nodes \in Nat
  BY LongerType, SlotFacts
<1>3. \E h : ChainWalk(h, link)
  <2> HIDE DEF f, S, none
  <2>1. PICK h \in [0..Nodes -> S] : Turns(h, f, none, Nodes)
    <3>1. f \in [S -> S] /\ none \in S /\ Nodes \in Nat
      BY <1>2
    <3> QED  BY <3>1, Repetition
  <2> DEFINE k == [n \in 0..Nodes |-> IF n = 0 THEN none ELSE Longer(link, h[n - 1])]
  <2>2. ASSUME NEW n \in 0..Nodes
        PROVE  h[n] = k[n]
    <3>1. n # 0 => n - 1 \in 0..Nodes
      BY SlotFacts
    <3>2. n # 0 => h[n - 1] \in S
      BY <3>1
    <3>3. n # 0 => f[h[n - 1]] = Longer(link, h[n - 1])
      BY <3>2 DEF f
    <3> QED  BY <2>1, <3>3 DEF Turns
  <2>3. h = [n \in 0..Nodes |-> h[n]]
    OBVIOUS
  <2>4. h = k
    BY <2>2, <2>3
  <2> QED  BY <2>4 DEF ChainWalk, none
<1>4. ChainWalk(g, link)
  BY <1>3, Zenon
<1> HIDE DEF g
<1>5. ASSUME NEW m \in 0..Nodes
      PROVE  g[m] = IF m = 0 THEN none ELSE Longer(link, g[m - 1])
  BY <1>4, Zenon DEF ChainWalk
<1>6. g[0] = none
  <2>1. 0 \in 0..Nodes
    BY SlotFacts
  <2> HIDE DEF none
  <2> QED  BY <2>1, <1>5
<1>7. ASSUME NEW n \in 0..(Nodes - 1)
      PROVE  g[n + 1] = Longer(link, g[n])
  <2>1. n + 1 \in 0..Nodes /\ n + 1 # 0 /\ n + 1 - 1 = n
    BY SlotFacts
  <2> HIDE DEF none
  <2> QED  BY <2>1, <1>5
<1>8. g \in [0..Nodes -> S]
  <2> DEFINE M == {n \in Nat : n <= Nodes => g[n] \in S}
  <2>1. 0 \in M
    BY <1>2, <1>6
  <2>2. ASSUME NEW n \in Nat, n \in M
        PROVE  n + 1 \in M
    <3>1. CASE n + 1 <= Nodes
      <4>1. n \in 0..(Nodes - 1) /\ n <= Nodes /\ n + 1 \in Nat
        BY <3>1, SlotFacts
      <4>2. g[n] \in S
        BY <2>2, <4>1
      <4>3. f[g[n]] \in S /\ f[g[n]] = Longer(link, g[n])
        <5> HIDE DEF S, none
        <5> QED  BY <1>2, <4>2 DEF f
      <4>4. g[n + 1] \in S
        BY <1>7, <4>1, <4>3
      <4> QED  BY <4>1, <4>4
    <3>2. CASE ~(n + 1 <= Nodes)
      BY <3>2
    <3> QED  BY <3>1, <3>2
  <2> HIDE DEF M
  <2>3. Nat \subseteq M
    BY <2>1, <2>2, Induction
  <2>4. \A n \in 0..Nodes : g[n] \in S
    BY <2>3, SlotFacts DEF M
  <2>5. g = [n \in 0..Nodes |-> g[n]]
    BY <1>4 DEF ChainWalk
  <2> QED  BY <2>4, <2>5
<1> QED  BY <1>1, <1>6, <1>7, <1>8

(* A chain is a sequence of slots.                                        *)
LEMMA ChainType ==
  ASSUME NEW link \in [Slots -> Links], NEW s \in Links
  PROVE  Chain(link, s) \in Seq(Slots)
<1>1. PICK g \in [0..Nodes -> [Links -> Seq(Slots)]] : Chain(link, s) = g[Nodes][s]
  BY ChainIs
<1>2. Nodes \in 0..Nodes
  BY SlotFacts
<1> QED  BY <1>1, <1>2

(* The children of a slot are a sequence of slots.                        *)
LEMMA ChildrenType ==
  ASSUME NEW t \in Trees, NEW s \in Slots
  PROVE  ChildrenOf(t, s) \in Seq(Slots)
<1>1. t.next \in [Slots -> Links] /\ t.first[s] \in Links
  BY DEF Trees
<1> QED  BY <1>1, ChainType DEF ChildrenOf

(* A sequence that names no slot twice is as long as the set it names.     *)
LEMMA InjectiveLength ==
  ASSUME NEW q \in Seq(Slots), IsInjective(q)
  PROVE  /\ IsFiniteSet(ToSet(q)) /\ Cardinality(ToSet(q)) = Len(q)
         /\ Len(q) <= Nodes
         /\ Len(q) = Nodes => ToSet(q) = Slots
<1>1. q \in [1..Len(q) -> ToSet(q)] /\ Len(q) \in Nat
  BY DEF ToSet
<1>2. q \in Bijection(1..Len(q), ToSet(q))
  <2>1. q \in Injection(1..Len(q), ToSet(q))
    BY <1>1 DEF Injection, IsInjective
  <2>2. \A x \in ToSet(q) : \E i \in 1..Len(q) : q[i] = x
    BY DEF ToSet
  <2>3. q \in Surjection(1..Len(q), ToSet(q))
    BY <1>1, <2>2 DEF Surjection
  <2> QED  BY <2>1, <2>3 DEF Bijection
<1>3. IsFiniteSet(1..Len(q)) /\ Cardinality(1..Len(q)) = Len(q)
  <2>1. 1 \in Int /\ Len(q) \in Int /\ (IF 1 > Len(q) THEN 0 ELSE Len(q) - 1 + 1) = Len(q)
    BY <1>1
  <2>2. /\ IsFiniteSet(1..Len(q))
        /\ Cardinality(1..Len(q)) = IF 1 > Len(q) THEN 0 ELSE Len(q) - 1 + 1
    BY <2>1, FS_Interval
  <2> QED  BY <2>1, <2>2
<1>4. IsFiniteSet(ToSet(q)) /\ Cardinality(ToSet(q)) = Len(q)
  <2>1. ExistsBijection(1..Len(q), ToSet(q))
    BY <1>2 DEF ExistsBijection
  <2> QED  BY <1>3, <2>1, FS_Bijection
<1>5. IsFiniteSet(Slots) /\ Cardinality(Slots) = Nodes
  <2>1. 0 \in Int /\ Nodes - 1 \in Int /\ ~(0 > Nodes - 1) /\ Nodes - 1 - 0 + 1 = Nodes
    BY SlotFacts
  <2>2. IsFiniteSet(0..(Nodes - 1)) /\ Cardinality(0..(Nodes - 1)) = Nodes
    BY <2>1, FS_Interval
  <2> QED  BY <2>2 DEF Slots
<1>6. ToSet(q) \subseteq Slots
  BY DEF ToSet
<1>7. /\ Cardinality(ToSet(q)) <= Cardinality(Slots)
      /\ Cardinality(Slots) = Cardinality(ToSet(q)) => Slots = ToSet(q)
  BY <1>5, <1>6, FS_Subset
<1> QED  BY <1>4, <1>5, <1>7

(* A stack of slots threaded through a link, with its top as given.        *)
Stacked(link, top, stack) ==
  /\ stack \in Seq(Slots) /\ IsInjective(stack)
  /\ top = IF stack = <<>> THEN Nil ELSE stack[Len(stack)]
  /\ \A i \in 1..Len(stack) : link[stack[i]] = IF i = 1 THEN Nil ELSE stack[i - 1]

(* Whoever follows the link from the top meets the whole stack, once.      *)
LEMMA StackChain ==
  ASSUME NEW link \in [Slots -> Links], NEW top \in Links, NEW stack,
         Stacked(link, top, stack)
  PROVE  /\ IsInjective(Chain(link, top))
         /\ ToSet(Chain(link, top)) = ToSet(stack)
<1>1. PICK g \in [0..Nodes -> [Links -> Seq(Slots)]] :
           /\ g[0] = [at \in Links |-> <<>>]
           /\ \A n \in 0..(Nodes - 1) : g[n + 1] = Longer(link, g[n])
           /\ Chain(link, top) = g[Nodes][top]
  BY ChainIs
<1> DEFINE At(k) == IF k = 0 THEN Nil ELSE stack[k]
           Met(k) == [i \in 1..k |-> stack[k + 1 - i]]
           M == {n \in Nat : n <= Nodes =>
                   \A k \in 0..Len(stack) : k <= n => g[n][At(k)] = Met(k)}
<1>2. stack \in Seq(Slots) /\ Len(stack) \in Nat /\ stack \in [1..Len(stack) -> Slots]
  BY DEF Stacked
<1>3. ASSUME NEW k \in 0..Len(stack)
      PROVE  At(k) \in Links /\ (At(k) = Nil <=> k = 0)
  <2>1. CASE k = 0
    BY <2>1, SlotFacts
  <2>2. CASE k # 0
    <3>1. k \in 1..Len(stack)
      BY <1>2, <2>2
    <3>2. stack[k] \in Slots
      BY <1>2, <3>1
    <3> QED  BY <2>2, <3>2, SlotFacts
  <2> QED  BY <2>1, <2>2
<1>4. 0 \in M
  <2>1. g[0][At(0)] = <<>>
    BY <1>1, SlotFacts
  <2>2. Met(0) = <<>>
    OBVIOUS
  <2>3. ASSUME NEW k \in 0..Len(stack), k <= 0
        PROVE  k = 0
    BY <1>2, <2>3
  <2> HIDE DEF At, Met
  <2> QED  BY <2>1, <2>2, <2>3
<1>5. ASSUME NEW n \in Nat, n \in M
      PROVE  n + 1 \in M
  <2> SUFFICES ASSUME n + 1 <= Nodes, NEW k \in 0..Len(stack), k <= n + 1
               PROVE  g[n + 1][At(k)] = Met(k)
    OBVIOUS
  <2>1. n \in 0..(Nodes - 1) /\ n <= Nodes /\ n \in 0..Nodes
    BY SlotFacts
  <2>2. At(k) \in Links
    BY <1>3
  <2>3. g[n + 1][At(k)] = IF At(k) = Nil THEN <<>> ELSE <<At(k)>> \o g[n][link[At(k)]]
    <3> HIDE DEF At
    <3> QED  BY <1>1, <2>1, <2>2 DEF Longer
  <2>4. CASE k = 0
    <3>1. At(k) = Nil /\ Met(k) = <<>>
      BY <2>4
    <3> QED  BY <2>3, <3>1
  <2>5. CASE k # 0
    <3>1. k \in 1..Len(stack) /\ k - 1 \in 0..Len(stack) /\ k - 1 <= n
      BY <1>2, <2>5
    <3>2. link[At(k)] = At(k - 1) /\ At(k) # Nil /\ At(k) = stack[k] /\ stack[k] \in Slots
      BY <1>2, <1>3, <2>5, <3>1 DEF Stacked
    <3>3. g[n][At(k - 1)] = Met(k - 1)
      <4> HIDE DEF At, Met
      <4> QED  BY <1>5, <2>1, <3>1
    <3>4. Met(k - 1) \in Seq(Slots) /\ Len(Met(k - 1)) = k - 1
      <4>1. \A i \in 1..(k - 1) : k - 1 + 1 - i \in 1..Len(stack)
        BY <1>2, <3>1
      <4>2. Met(k - 1) \in [1..(k - 1) -> Slots]
        BY <1>2, <4>1
      <4>3. k - 1 \in Nat
        BY <3>1
      <4> HIDE DEF Met
      <4> QED  BY <4>2, <4>3
    <3>5. <<stack[k]>> \in Seq(Slots) /\ Len(<<stack[k]>>) = 1 /\ <<stack[k]>>[1] = stack[k]
      BY <3>2
    <3> DEFINE joined == <<stack[k]>> \o Met(k - 1)
    <3>6. /\ joined \in Seq(Slots) /\ Len(joined) = k
          /\ \A i \in 1..k : joined[i] = IF i <= 1 THEN stack[k] ELSE Met(k - 1)[i - 1]
      <4>1. /\ joined \in Seq(Slots) /\ Len(joined) = 1 + (k - 1)
            /\ \A i \in 1..Len(joined) : joined[i] = IF i <= 1 THEN <<stack[k]>>[i]
                                                     ELSE Met(k - 1)[i - 1]
        <5> HIDE DEF Met
        <5> QED  BY <3>4, <3>5, ConcatProperties
      <4> HIDE DEF joined, Met
      <4> QED  BY <3>1, <3>5, <4>1
    <3>7. \A i \in 1..k : joined[i] = Met(k)[i]
      <4> SUFFICES ASSUME NEW i \in 1..k PROVE joined[i] = Met(k)[i]
        OBVIOUS
      <4>1. Met(k)[i] = stack[k + 1 - i]
        OBVIOUS
      <4>2. CASE i = 1
        <5> HIDE DEF joined, Met
        <5> QED  BY <3>1, <3>6, <4>1, <4>2
      <4>3. CASE i # 1
        <5>1. i - 1 \in 1..(k - 1) /\ k - 1 + 1 - (i - 1) = k + 1 - i /\ ~(i <= 1)
          BY <3>1, <4>3
        <5>2. Met(k - 1)[i - 1] = stack[k + 1 - i]
          BY <5>1
        <5> HIDE DEF joined, Met
        <5> QED  BY <3>6, <4>1, <5>1, <5>2
      <4> QED  BY <4>2, <4>3
    <3>8. joined = [i \in 1..k |-> joined[i]]
      <4> HIDE DEF joined, Met
      <4> QED  BY <3>6
    <3>9. joined = Met(k)
      <4> HIDE DEF joined
      <4> QED  BY <3>7, <3>8
    <3> HIDE DEF Met, joined
    <3>10. g[n + 1][At(k)] = <<stack[k]>> \o g[n][At(k - 1)]
      <4> HIDE DEF At
      <4> QED  BY <2>3, <3>2
    <3> HIDE DEF At
    <3> QED  BY <3>3, <3>9, <3>10 DEF joined
  <2> QED  BY <2>4, <2>5
<1> HIDE DEF M
<1>6. Nat \subseteq M
  BY <1>4, <1>5, Induction
<1>7. Chain(link, top) = Met(Len(stack))
  <2>1. Len(stack) <= Nodes /\ Len(stack) \in 0..Len(stack)
    BY <1>2, InjectiveLength DEF Stacked
  <2>2. top = At(Len(stack))
    BY <1>2 DEF Stacked
  <2>3. g[Nodes][At(Len(stack))] = Met(Len(stack))
    <3> HIDE DEF At, Met
    <3> QED  BY <1>6, <2>1, SlotFacts DEF M
  <2> HIDE DEF At, Met
  <2> QED  BY <1>1, <2>2, <2>3
<1> DEFINE len == Len(stack)
<1>8. \A i \in 1..len : len + 1 - i \in 1..len /\ len + 1 - (len + 1 - i) = i
  BY <1>2
<1>9. IsInjective(Met(len))
  <2> SUFFICES ASSUME NEW i \in 1..len, NEW j \in 1..len, Met(len)[i] = Met(len)[j]
               PROVE  i = j
    BY DEF IsInjective
  <2>1. stack[len + 1 - i] = stack[len + 1 - j]
    OBVIOUS
  <2>2. len + 1 - i = len + 1 - j
    BY <1>2, <1>8, <2>1 DEF Stacked, IsInjective
  <2> QED  BY <1>2, <2>2
<1>10. ToSet(Met(len)) = ToSet(stack)
  <2>1. ToSet(stack) = {stack[i] : i \in 1..len} /\ ToSet(Met(len)) = {stack[len + 1 - i] : i \in 1..len}
    BY <1>2 DEF ToSet
  <2>2. ASSUME NEW i \in 1..len
        PROVE  stack[len + 1 - i] \in ToSet(stack) /\ stack[i] \in ToSet(Met(len))
    <3>1. len + 1 - i \in 1..len /\ stack[len + 1 - (len + 1 - i)] = stack[i]
      BY <1>8
    <3> HIDE DEF Met
    <3> QED  BY <2>1, <3>1
  <2> HIDE DEF Met
  <2> QED  BY <2>1, <2>2
<1> QED  BY <1>7, <1>9, <1>10

(* A sequence whose ranks rise names nothing twice.                       *)
LEMMA RisingInjective ==
  ASSUME NEW q \in Seq(Slots), NEW rank \in [Slots -> Nat],
         \A i \in 1..(Len(q) - 1) : rank[q[i]] < rank[q[i + 1]]
  PROVE  IsInjective(q)
<1>1. q \in [1..Len(q) -> Slots] /\ Len(q) \in Nat
  OBVIOUS
<1> DEFINE M == {n \in Nat : \A i \in 1..Len(q) :
                   i + n + 1 <= Len(q) => rank[q[i]] < rank[q[i + n + 1]]}
<1>2. 0 \in M
  <2> SUFFICES ASSUME NEW i \in 1..Len(q), i + 0 + 1 <= Len(q)
               PROVE  rank[q[i]] < rank[q[i + 0 + 1]]
    OBVIOUS
  <2>1. i \in 1..(Len(q) - 1) /\ i + 0 + 1 = i + 1
    BY <1>1
  <2> QED  BY <2>1
<1>3. ASSUME NEW n \in Nat, n \in M
      PROVE  n + 1 \in M
  <2> SUFFICES ASSUME NEW i \in 1..Len(q), i + (n + 1) + 1 <= Len(q)
               PROVE  rank[q[i]] < rank[q[i + (n + 1) + 1]]
    OBVIOUS
  <2> DEFINE j == i + n + 1
  <2>1. j \in 1..(Len(q) - 1) /\ j \in 1..Len(q) /\ j + 1 \in 1..Len(q) /\ i + (n + 1) + 1 = j + 1
    BY <1>1
  <2>2. rank[q[i]] < rank[q[j]]
    BY <1>3, <2>1
  <2> HIDE DEF j
  <2>3. rank[q[j]] < rank[q[j + 1]]
    BY <2>1
  <2>4. rank[q[i]] \in Nat /\ rank[q[j]] \in Nat /\ rank[q[j + 1]] \in Nat
    BY <1>1, <2>1
  <2> QED  BY <2>1, <2>2, <2>3, <2>4
<1> HIDE DEF M
<1>4. Nat \subseteq M
  BY <1>2, <1>3, Induction
<1>5. ASSUME NEW i \in 1..Len(q), NEW j \in 1..Len(q), i < j
      PROVE  q[i] # q[j]
  <2>1. PICK n \in Nat : i + n + 1 = j
    <3>1. j - i - 1 \in Nat /\ i + (j - i - 1) + 1 = j
      BY <1>1, <1>5
    <3> QED  BY <3>1
  <2>2. n \in M /\ i + n + 1 <= Len(q)
    BY <1>1, <1>4, <2>1
  <2>3. rank[q[i]] < rank[q[i + n + 1]]
    BY <2>2 DEF M
  <2>4. rank[q[i]] < rank[q[j]]
    BY <2>1, <2>3
  <2>5. rank[q[i]] \in Nat
    BY <1>1
  <2> QED  BY <2>4, <2>5
<1> QED
  <2> SUFFICES ASSUME NEW i \in 1..Len(q), NEW j \in 1..Len(q), q[i] = q[j]
               PROVE  i = j
    BY <1>1 DEF IsInjective
  <2> QED  BY <1>5

(* The children of u among the standing nodes A. *)
Kids(t, A, u) == {c \in A : t.parent[c] = u}

(* What the links of u and of its children say of each other. *)
Siblings(t, A, u) ==
  /\ \A c \in Kids(t, A, u) :
       /\ t.prev[c] = Nil => t.first[u] = c
       /\ t.prev[c] # Nil => t.prev[c] \in Kids(t, A, u) /\ t.next[t.prev[c]] = c
       /\ t.next[c] = Nil => t.last[u] = c
       /\ t.next[c] # Nil => t.next[c] \in Kids(t, A, u) /\ t.prev[t.next[c]] = c
  /\ t.first[u] # Nil => t.first[u] \in Kids(t, A, u) /\ t.prev[t.first[u]] = Nil
  /\ t.last[u] # Nil => t.last[u] \in Kids(t, A, u) /\ t.next[t.last[u]] = Nil
  /\ t.first[u] = Nil <=> t.last[u] = Nil

(* Parents and elder siblings came first. *)
Aged(t, A, rank) ==
  /\ rank \in [Slots -> Nat]
  /\ \A c \in A \ {Root} :
       /\ rank[t.parent[c]] < rank[c]
       /\ t.prev[c] # Nil => rank[t.prev[c]] < rank[c]

(* A walk along next, n turns of it. *)
Walked(t, K, q, c, n) ==
  /\ q \in Seq(K)
  /\ n > 0 => Len(q) > 0 /\ q[1] = c
  /\ \A i \in 1..(Len(q) - 1) : t.next[q[i]] = q[i + 1]
  /\ Len(q) = n \/ (Len(q) > 0 /\ t.next[q[Len(q)]] = Nil)

(* The chain along next from a member of a closed set is a walk in it.    *)
LEMMA WalkAlong ==
  ASSUME NEW t \in Trees, NEW K, K \subseteq Slots,
         \A c \in K : t.next[c] # Nil => t.next[c] \in K,
         NEW s \in K
  PROVE  Walked(t, K, Chain(t.next, s), s, Nodes)
<1> DEFINE link == t.next
<1>1. link \in [Slots -> Links] /\ s \in Links
  BY SlotFacts DEF Trees
<1>2. PICK g \in [0..Nodes -> [Links -> Seq(Slots)]] :
           /\ g[0] = [at \in Links |-> <<>>]
           /\ \A n \in 0..(Nodes - 1) : g[n + 1] = Longer(link, g[n])
           /\ Chain(link, s) = g[Nodes][s]
  <2> HIDE DEF link
  <2> QED  BY <1>1, ChainIs
<1> DEFINE M == {n \in Nat : n <= Nodes =>
                   /\ g[n][Nil] = <<>>
                   /\ \A c \in K : Walked(t, K, g[n][c], c, n)}
<1>3. 0 \in M
  <2>1. g[0][Nil] = <<>> /\ \A c \in K : g[0][c] = <<>>
    BY <1>2, SlotFacts
  <2>2. \A c \in K : Walked(t, K, <<>>, c, 0)
    BY DEF Walked
  <2> QED  BY <2>1, <2>2
<1>4. ASSUME NEW n \in Nat, n \in M
      PROVE  n + 1 \in M
  <2> SUFFICES ASSUME n + 1 <= Nodes
               PROVE  /\ g[n + 1][Nil] = <<>>
                      /\ \A c \in K : Walked(t, K, g[n + 1][c], c, n + 1)
    OBVIOUS
  <2>1. n \in 0..(Nodes - 1) /\ n <= Nodes /\ n \in 0..Nodes
    BY SlotFacts
  <2>2. \A at \in Links : g[n + 1][at] = IF at = Nil THEN <<>> ELSE <<at>> \o g[n][link[at]]
    <3> HIDE DEF link
    <3> QED  BY <1>2, <2>1 DEF Longer
  <2>3. g[n + 1][Nil] = <<>>
    BY <2>2, SlotFacts
  <2>4. ASSUME NEW c \in K
        PROVE  Walked(t, K, g[n + 1][c], c, n + 1)
    <3>1. c \in Slots /\ c \in Links /\ c # Nil /\ link[c] \in Links
      BY <1>1, SlotFacts
    <3>2. g[n + 1][c] = <<c>> \o g[n][link[c]]
      BY <2>2, <3>1
    <3> DEFINE q == g[n][link[c]]
               r == g[n + 1][c]
    <3>3. q \in Seq(K)
      <4>1. CASE link[c] = Nil
        <5>1. q = <<>>
          BY <1>4, <2>1, <4>1
        <5> QED  BY <5>1
      <4>2. CASE link[c] # Nil
        <5>1. link[c] \in K
          BY <4>2
        <5> QED  BY <1>4, <2>1, <5>1 DEF Walked
      <4> QED  BY <4>1, <4>2
    <3>4. <<c>> \in Seq(K) /\ Len(<<c>>) = 1 /\ <<c>>[1] = c
      OBVIOUS
    <3>5. /\ r \in Seq(K) /\ Len(r) = 1 + Len(q)
          /\ \A i \in 1..(1 + Len(q)) : r[i] = IF i <= 1 THEN <<c>>[i] ELSE q[i - 1]
      <4> HIDE DEF q, r
      <4> QED  BY <3>2, <3>3, <3>4, ConcatProperties DEF q, r
    <3>6. Len(q) \in Nat
      BY <3>3
    <3>7. r[1] = c /\ Len(r) > 0 /\ \A i \in 1..Len(q) : r[i + 1] = q[i]
      <4> HIDE DEF q, r
      <4>1. r[1] = c
        BY <3>4, <3>5, <3>6
      <4>2. ASSUME NEW i \in 1..Len(q)
            PROVE  r[i + 1] = q[i]
        <5>1. i + 1 \in 1..(1 + Len(q)) /\ ~(i + 1 <= 1) /\ i + 1 - 1 = i
          BY <3>6
        <5> QED  BY <3>5, <5>1
      <4> QED  BY <3>5, <3>6, <4>1, <4>2
    <3>8. CASE link[c] = Nil
      <4>1. q = <<>>
        BY <1>4, <2>1, <3>8
      <4>2. Len(q) = 0 /\ Len(r) = 1
        BY <3>5, <4>1
      <4>3. t.next[r[1]] = Nil
        BY <3>7, <3>8
      <4> HIDE DEF q, r, link
      <4>4. \A i \in 1..(Len(r) - 1) : FALSE
        BY <4>2
      <4> QED  BY <3>5, <3>7, <4>2, <4>3, <4>4 DEF Walked, r
    <3>9. CASE link[c] # Nil
      <4>1. link[c] \in K
        BY <3>9
      <4>2. Walked(t, K, q, link[c], n)
        BY <1>4, <2>1, <4>1
      <4> HIDE DEF q, r
      <4>3. \A i \in 1..(Len(r) - 1) : t.next[r[i]] = r[i + 1]
        <5> SUFFICES ASSUME NEW i \in 1..(Len(r) - 1)
                     PROVE  t.next[r[i]] = r[i + 1]
          OBVIOUS
        <5>1. i \in 1..Len(q) /\ r[i + 1] = q[i]
          BY <3>5, <3>6, <3>7
        <5>2. CASE i = 1
          <6>1. n > 0 \/ n = 0
            OBVIOUS
          <6>2. CASE n > 0
            <7>1. q[1] = link[c]
              BY <4>2, <6>2 DEF Walked
            <7> QED  BY <3>7, <5>1, <5>2, <7>1
          <6>3. CASE n = 0
            <7>1. Len(q) = 0 \/ t.next[q[Len(q)]] = Nil
              BY <4>2, <6>3 DEF Walked
            <7>2. q = <<>>
              BY <1>2, <3>1, <6>3 DEF q
            <7> QED  BY <5>1, <7>2
          <6> QED  BY <6>1, <6>2, <6>3
        <5>3. CASE i # 1
          <6>1. i - 1 \in 1..(Len(q) - 1) /\ i - 1 + 1 = i /\ i - 1 \in 1..Len(q)
            BY <3>6, <5>1, <5>3
          <6>2. t.next[q[i - 1]] = q[i] /\ r[i] = q[i - 1]
            BY <3>7, <4>2, <6>1 DEF Walked
          <6> QED  BY <5>1, <6>2
        <5> QED  BY <5>2, <5>3
      <4>4. Len(r) = n + 1 \/ (Len(r) > 0 /\ t.next[r[Len(r)]] = Nil)
        <5>1. CASE Len(q) = n
          BY <3>5, <5>1
        <5>2. CASE Len(q) > 0 /\ t.next[q[Len(q)]] = Nil
          <6>1. Len(q) \in 1..Len(q) /\ Len(r) = Len(q) + 1
            BY <3>5, <3>6, <5>2
          <6>2. r[Len(r)] = q[Len(q)]
            BY <3>7, <6>1
          <6> QED  BY <3>7, <5>2, <6>2
        <5> QED  BY <4>2, <5>1, <5>2 DEF Walked
      <4> QED  BY <3>5, <3>7, <4>3, <4>4 DEF Walked, r
    <3> QED  BY <3>8, <3>9
  <2> QED  BY <2>3, <2>4
<1> HIDE DEF M
<1>5. Nat \subseteq M
  BY <1>3, <1>4, Induction
<1> QED  BY <1>2, <1>5, SlotFacts DEF M

(* A sequence of all the children of u, each once, in the order of the links. *)
InOrder(t, K, u, kids) ==
  /\ kids \in Seq(Slots) /\ IsInjective(kids)
  /\ ToSet(kids) = K
  /\ t.first[u] = IF kids = <<>> THEN Nil ELSE kids[1]
  /\ t.last[u] = IF kids = <<>> THEN Nil ELSE kids[Len(kids)]
  /\ \A i \in 1..Len(kids) : t.prev[kids[i]] = IF i = 1 THEN Nil ELSE kids[i - 1]

(* The children met from the first one on are the children, each once, in  *)
(* the order of their links.                                               *)
LEMMA ChildrenAre ==
  ASSUME NEW t \in Trees, NEW A, A \subseteq Slots, NEW u \in Slots,
         Root \notin Kids(t, A, u), Siblings(t, A, u),
         NEW rank, Aged(t, A, rank)
  PROVE  InOrder(t, Kids(t, A, u), u, ChildrenOf(t, u))
<1> DEFINE K == Kids(t, A, u)
           kids == ChildrenOf(t, u)
<1>1. K \subseteq Slots /\ K \subseteq A \ {Root}
  BY DEF Kids
<1>2. /\ t.next \in [Slots -> Links] /\ t.prev \in [Slots -> Links]
      /\ t.first \in [Slots -> Links] /\ t.last \in [Slots -> Links]
  BY DEF Trees
<1>3. ASSUME NEW c \in K
      PROVE  /\ t.prev[c] = Nil => t.first[u] = c
             /\ t.prev[c] # Nil => /\ t.prev[c] \in K /\ t.next[t.prev[c]] = c
                                   /\ rank[t.prev[c]] < rank[c]
             /\ t.next[c] = Nil => t.last[u] = c
             /\ t.next[c] # Nil => /\ t.next[c] \in K /\ t.prev[t.next[c]] = c
                                   /\ rank[c] < rank[t.next[c]]
  <2>1. /\ t.prev[c] = Nil => t.first[u] = c
        /\ t.prev[c] # Nil => t.prev[c] \in K /\ t.next[t.prev[c]] = c
        /\ t.next[c] = Nil => t.last[u] = c
        /\ t.next[c] # Nil => t.next[c] \in K /\ t.prev[t.next[c]] = c
    BY DEF Siblings
  <2>2. \A d \in K : t.prev[d] # Nil => rank[t.prev[d]] < rank[d]
    BY <1>1 DEF Aged
  <2> HIDE DEF K
  <2>3. t.next[c] # Nil => t.prev[t.next[c]] # Nil
    BY <1>1, <2>1, SlotFacts
  <2> QED  BY <2>1, <2>2, <2>3
<1>4. /\ t.first[u] # Nil => t.first[u] \in K /\ t.prev[t.first[u]] = Nil
      /\ t.last[u] # Nil => t.last[u] \in K /\ t.next[t.last[u]] = Nil
      /\ t.first[u] = Nil <=> t.last[u] = Nil
  BY DEF Siblings
<1>5. rank \in [Slots -> Nat]
  BY DEF Aged
<1>6. K # {} => t.first[u] # Nil
  <2> SUFFICES ASSUME K # {} PROVE t.first[u] # Nil
    OBVIOUS
  <2> HIDE DEF K
  <2>1. \A c \in K : rank[c] \in Nat
    BY <1>1, <1>5
  <2>2. PICK c \in K : \A d \in K : rank[c] <= rank[d]
    BY <2>1, Least
  <2>3. t.prev[c] = Nil
    <3> SUFFICES ASSUME t.prev[c] # Nil PROVE FALSE
      OBVIOUS
    <3>1. t.prev[c] \in K /\ rank[t.prev[c]] < rank[c] /\ rank[c] <= rank[t.prev[c]]
      BY <1>3, <2>2
    <3> QED  BY <2>1, <3>1
  <2>4. t.first[u] = c /\ c # Nil
    BY <1>1, <1>3, <2>3, SlotFacts
  <2> QED  BY <2>4
<1>7. CASE t.first[u] = Nil
  <2>1. K = {} /\ t.last[u] = Nil
    BY <1>4, <1>6, <1>7
  <2>2. kids = <<>>
    <3>1. Stacked(t.next, Nil, <<>>)
      BY DEF Stacked, IsInjective
    <3>2. ToSet(Chain(t.next, Nil)) = ToSet(<<>>)
      BY <1>2, <3>1, StackChain, SlotFacts
    <3>3. Chain(t.next, Nil) \in Seq(Slots)
      BY <1>2, ChainType, SlotFacts
    <3>4. ToSet(<<>>) = {}
      BY DEF ToSet
    <3>5. Len(Chain(t.next, Nil)) = 0
      <4>1. Len(Chain(t.next, Nil)) \in Nat
        BY <3>3
      <4>2. Len(Chain(t.next, Nil)) > 0 => Chain(t.next, Nil)[1] \in ToSet(Chain(t.next, Nil))
        BY <3>3 DEF ToSet
      <4> QED  BY <3>2, <3>4, <4>1, <4>2
    <3> QED  BY <1>7, <3>3, <3>5 DEF ChildrenOf
  <2>3. /\ <<>> \in Seq(Slots) /\ IsInjective(<<>>) /\ ToSet(<<>>) = {}
        /\ \A i \in 1..Len(<<>>) : FALSE
    BY DEF IsInjective, ToSet
  <2> HIDE DEF K, kids
  <2>4. InOrder(t, K, u, kids)
    BY <1>7, <2>1, <2>2, <2>3 DEF InOrder
  <2> QED  BY <2>4 DEF K, kids
<1>8. CASE t.first[u] # Nil
  <2>1. t.first[u] \in K
    BY <1>4, <1>8
  <2>2. Walked(t, K, kids, t.first[u], Nodes)
    <3> HIDE DEF K
    <3>1. \A c \in K : t.next[c] # Nil => t.next[c] \in K
      BY <1>3
    <3> QED  BY <1>1, <2>1, <3>1, WalkAlong DEF ChildrenOf
  <2> HIDE DEF K, kids
  <2>3. /\ kids \in Seq(K) /\ Len(kids) \in Nat /\ Len(kids) > 0
        /\ kids[1] = t.first[u]
        /\ \A i \in 1..(Len(kids) - 1) : t.next[kids[i]] = kids[i + 1]
        /\ Len(kids) = Nodes \/ t.next[kids[Len(kids)]] = Nil
    BY <2>2, SlotFacts DEF Walked
  <2>4. kids \in Seq(Slots) /\ kids \in [1..Len(kids) -> K]
    BY <1>1, <2>3
  <2>5. ASSUME NEW i \in 1..(Len(kids) - 1)
        PROVE  /\ kids[i] \in K /\ kids[i + 1] \in K
               /\ t.next[kids[i]] = kids[i + 1] /\ t.prev[kids[i + 1]] = kids[i]
               /\ rank[kids[i]] < rank[kids[i + 1]]
    <3>1. i \in 1..Len(kids) /\ i + 1 \in 1..Len(kids)
      BY <2>3
    <3>2. kids[i] \in K /\ kids[i + 1] \in K /\ t.next[kids[i]] = kids[i + 1]
      BY <2>3, <2>4, <3>1
    <3>3. kids[i + 1] # Nil
      BY <1>1, <3>2, SlotFacts
    <3> QED  BY <1>3, <3>2, <3>3
  <2>6. IsInjective(kids)
    BY <1>5, <2>4, <2>5, RisingInjective
  <2>7. t.next[kids[Len(kids)]] = Nil
    <3>1. ToSet(kids) \subseteq K
      BY <2>4 DEF ToSet
    <3>2. Root \notin K
      BY DEF K
    <3>3. Len(kids) # Nodes
      BY <2>4, <2>6, <3>1, <3>2, InjectiveLength, SlotFacts
    <3> QED  BY <2>3, <3>3
  <2>8. t.last[u] = kids[Len(kids)]
    <3>1. kids[Len(kids)] \in K
      BY <2>3, <2>4
    <3> QED  BY <1>3, <2>7, <3>1
  <2>9. K \subseteq ToSet(kids)
    <3> DEFINE lost == K \ ToSet(kids)
    <3>1. ASSUME lost # {} PROVE FALSE
      <4>1. \A c \in lost : rank[c] \in Nat
        BY <1>1, <1>5
      <4> HIDE DEF lost
      <4>2. PICK c \in lost : \A d \in lost : rank[c] <= rank[d]
        BY <3>1, <4>1, Least
      <4>3. c \in K /\ c \notin ToSet(kids)
        BY <4>2 DEF lost
      <4>4. t.prev[c] # Nil
        <5>1. kids[1] \in ToSet(kids)
          BY <2>3, <2>4 DEF ToSet
        <5> QED  BY <1>3, <2>3, <4>3, <5>1
      <4>5. t.prev[c] \in K /\ t.next[t.prev[c]] = c /\ rank[t.prev[c]] < rank[c]
        BY <1>3, <4>3, <4>4
      <4>6. t.prev[c] \in ToSet(kids)
        <5>1. rank[t.prev[c]] \in Nat /\ rank[c] \in Nat
          BY <1>1, <1>5, <4>3, <4>5
        <5>2. ~(rank[c] <= rank[t.prev[c]])
          BY <4>5, <5>1
        <5> QED  BY <4>2, <4>5, <5>2 DEF lost
      <4>7. PICK i \in 1..Len(kids) : kids[i] = t.prev[c]
        BY <2>4, <4>6 DEF ToSet
      <4>8. i # Len(kids)
        BY <2>7, <4>3, <4>5, <4>7, <1>1, SlotFacts
      <4>9. i \in 1..(Len(kids) - 1) /\ i + 1 \in 1..Len(kids)
        BY <2>3, <4>8
      <4>10. kids[i + 1] = c
        BY <2>5, <4>5, <4>7, <4>9
      <4>11. kids[i + 1] \in ToSet(kids)
        BY <2>4, <4>9 DEF ToSet
      <4> QED  BY <4>3, <4>10, <4>11
    <3> QED  BY <3>1
  <2>10. ToSet(kids) = K
    <3>1. ToSet(kids) \subseteq K
      BY <2>4 DEF ToSet
    <3> QED  BY <2>9, <3>1
  <2>11. ASSUME NEW i \in 1..Len(kids)
         PROVE  t.prev[kids[i]] = IF i = 1 THEN Nil ELSE kids[i - 1]
    <3>1. CASE i = 1
      BY <1>4, <1>8, <2>3, <3>1
    <3>2. CASE i # 1
      <4>1. i - 1 \in 1..(Len(kids) - 1) /\ i - 1 + 1 = i
        BY <2>3, <3>2
      <4>2. t.prev[kids[i - 1 + 1]] = kids[i - 1]
        BY <2>5, <4>1
      <4> QED  BY <3>2, <4>1, <4>2
    <3> QED  BY <3>1, <3>2
  <2>12. kids # <<>>
    BY <2>3
  <2>13. InOrder(t, K, u, kids)
    BY <2>3, <2>4, <2>6, <2>8, <2>10, <2>11, <2>12 DEF InOrder
  <2> QED  BY <2>13 DEF K, kids
<1> QED  BY <1>7, <1>8

(* A stack without its top. *)
LEMMA Popped ==
  ASSUME NEW link \in [Slots -> Links], NEW top \in Slots, NEW stack,
         Stacked(link, top, stack)
  PROVE  \E rest : /\ Stacked(link, link[top], rest)
                   /\ ToSet(rest) = ToSet(stack) \ {top}
                   /\ top \in ToSet(stack)
<1> DEFINE n == Len(stack)
           rest == [i \in 1..(n - 1) |-> stack[i]]
<1>1. stack \in Seq(Slots) /\ stack \in [1..n -> Slots] /\ n \in Nat
  BY DEF Stacked
<1>2. n > 0 /\ n - 1 \in Nat /\ stack[n] = top
  <2>1. top # Nil
    BY SlotFacts
  <2>2. stack # <<>> /\ top = stack[n]
    BY <2>1 DEF Stacked
  <2> QED  BY <1>1, <2>2
<1>3. rest \in Seq(Slots) /\ Len(rest) = n - 1 /\ \A i \in 1..(n - 1) : rest[i] = stack[i]
  <2>1. rest \in [1..(n - 1) -> Slots]
    BY <1>1, <1>2
  <2> QED  BY <1>2, <2>1
<1> HIDE DEF rest
<1>4. \A i, j \in 1..n : stack[i] = stack[j] => i = j
  BY <1>1 DEF Stacked, IsInjective
<1>5. IsInjective(rest)
  <2> SUFFICES ASSUME NEW i \in 1..(n - 1), NEW j \in 1..(n - 1), rest[i] = rest[j]
               PROVE  i = j
    BY <1>3 DEF IsInjective
  <2>1. i \in 1..n /\ j \in 1..n /\ stack[i] = stack[j]
    BY <1>2, <1>3
  <2> QED  BY <1>4, <2>1
<1>6. link[top] = IF rest = <<>> THEN Nil ELSE rest[Len(rest)]
  <2>1. n \in 1..n
    BY <1>2
  <2>2. link[top] = IF n = 1 THEN Nil ELSE stack[n - 1]
    BY <1>2, <2>1 DEF Stacked
  <2>3. rest = <<>> <=> n = 1
    BY <1>2, <1>3
  <2>4. n # 1 => n - 1 \in 1..(n - 1)
    BY <1>1, <1>2
  <2> QED  BY <1>3, <2>2, <2>3, <2>4
<1>7. ASSUME NEW i \in 1..(n - 1)
      PROVE  link[rest[i]] = IF i = 1 THEN Nil ELSE rest[i - 1]
  <2>1. i \in 1..n /\ (i # 1 => i - 1 \in 1..(n - 1))
    BY <1>2
  <2>2. link[stack[i]] = IF i = 1 THEN Nil ELSE stack[i - 1]
    BY <2>1 DEF Stacked
  <2> QED  BY <1>3, <2>1, <2>2
<1>8. Stacked(link, link[top], rest)
  BY <1>3, <1>5, <1>6, <1>7 DEF Stacked
<1>9. ToSet(stack) = {stack[i] : i \in 1..n} /\ ToSet(rest) = {rest[i] : i \in 1..(n - 1)}
  BY <1>1, <1>3 DEF ToSet
<1>10. ToSet(rest) \subseteq ToSet(stack) \ {top}
  <2> SUFFICES ASSUME NEW i \in 1..(n - 1) PROVE rest[i] \in ToSet(stack) /\ rest[i] # top
    BY <1>9
  <2>1. i \in 1..n /\ n \in 1..n /\ i # n /\ rest[i] = stack[i]
    BY <1>2, <1>3
  <2> QED  BY <1>2, <1>4, <1>9, <2>1
<1>11. ToSet(stack) \ {top} \subseteq ToSet(rest)
  <2> SUFFICES ASSUME NEW i \in 1..n, stack[i] # top PROVE stack[i] \in ToSet(rest)
    BY <1>9
  <2>1. i \in 1..(n - 1)
    BY <1>2
  <2> QED  BY <1>3, <1>9, <2>1
<1>12. top \in ToSet(stack)
  <2>1. n \in 1..n
    BY <1>2
  <2> QED  BY <1>2, <1>9, <2>1
<1> QED  BY <1>8, <1>10, <1>11, <1>12

(* Several slots, each linked to the one before it, piled on a stack.      *)
LEMMA Piled ==
  ASSUME NEW link, NEW top, NEW stack, Stacked(link, top, stack),
         NEW more \in Seq(Slots), IsInjective(more),
         ToSet(more) \cap ToSet(stack) = {},
         NEW new,
         \A x \in ToSet(stack) : new[x] = link[x],
         \A i \in 1..Len(more) : new[more[i]] = IF i = 1 THEN top ELSE more[i - 1]
  PROVE  \E pile : /\ Stacked(new, IF more = <<>> THEN top ELSE more[Len(more)], pile)
                   /\ ToSet(pile) = ToSet(stack) \cup ToSet(more)
<1> DEFINE n == Len(stack)
           m == Len(more)
           pile == stack \o more
<1>1. stack \in Seq(Slots) /\ stack \in [1..n -> Slots] /\ n \in Nat /\ m \in Nat
  BY DEF Stacked
<1>2. /\ pile \in Seq(Slots) /\ Len(pile) = n + m
      /\ \A i \in 1..(n + m) : pile[i] = IF i <= n THEN stack[i] ELSE more[i - n]
  BY <1>1, ConcatProperties
<1> HIDE DEF pile
<1>3. /\ ToSet(stack) = {stack[i] : i \in 1..n} /\ ToSet(more) = {more[i] : i \in 1..m}
      /\ ToSet(pile) = {pile[i] : i \in 1..(n + m)}
  <2>1. DOMAIN stack = 1..n /\ DOMAIN more = 1..m /\ DOMAIN pile = 1..(n + m)
    BY <1>1, <1>2
  <2> QED  BY <2>1 DEF ToSet
<1>4. \A i \in 1..n : i \in 1..(n + m) /\ pile[i] = stack[i] /\ pile[i] \in ToSet(stack)
  BY <1>1, <1>2, <1>3
<1>5. ASSUME NEW i \in (n + 1)..(n + m)
      PROVE  i - n \in 1..m /\ i \in 1..(n + m) /\ pile[i] = more[i - n] /\ pile[i] \in ToSet(more)
  <2>1. i - n \in 1..m /\ i \in 1..(n + m) /\ ~(i <= n)
    BY <1>1
  <2>2. more[i - n] \in ToSet(more)
    BY <1>3, <2>1
  <2> QED  BY <1>2, <2>1, <2>2
<1>6. \A i \in 1..(n + m) : i \in 1..n \/ i \in (n + 1)..(n + m)
  BY <1>1
<1>7. \A i, j \in 1..n : stack[i] = stack[j] => i = j
  BY <1>1 DEF Stacked, IsInjective
<1>8. \A i, j \in 1..m : more[i] = more[j] => i = j
  BY <1>1 DEF IsInjective
<1>9. IsInjective(pile)
  <2> SUFFICES ASSUME NEW i \in 1..(n + m), NEW j \in 1..(n + m), pile[i] = pile[j]
               PROVE  i = j
    BY <1>2 DEF IsInjective
  <2>1. CASE i \in 1..n /\ j \in 1..n
    BY <1>4, <1>7, <2>1
  <2>2. CASE i \in (n + 1)..(n + m) /\ j \in (n + 1)..(n + m)
    <3>1. i - n = j - n
      BY <1>5, <1>8, <2>2
    <3> QED  BY <1>1, <3>1
  <2>3. CASE ~(i \in 1..n <=> j \in 1..n)
    <3>1. pile[i] \in ToSet(more) /\ pile[i] \in ToSet(stack)
      BY <1>4, <1>5, <1>6, <2>3
    <3> QED  BY <3>1
  <2> QED  BY <1>6, <2>1, <2>2, <2>3
<1>10. (IF more = <<>> THEN top ELSE more[m]) = IF pile = <<>> THEN Nil ELSE pile[Len(pile)]
  <2>1. more = <<>> <=> m = 0
    BY <1>1
  <2>2. pile = <<>> <=> n + m = 0
    BY <1>2
  <2>3. CASE m = 0
    <3>1. n # 0 => n \in 1..n
      BY <1>1
    <3>2. stack = <<>> <=> n = 0
      BY <1>1
    <3>3. n # 0 => pile[n] = stack[n]
      BY <1>4, <3>1
    <3>4. top = IF n = 0 THEN Nil ELSE stack[n]
      BY <3>2 DEF Stacked
    <3> QED  BY <1>1, <1>2, <2>1, <2>2, <2>3, <3>3, <3>4
  <2>4. CASE m # 0
    <3>1. n + m \in (n + 1)..(n + m) /\ n + m - n = m /\ n + m # 0
      BY <1>1, <2>4
    <3>2. pile[n + m] = more[m]
      BY <1>5, <3>1
    <3> QED  BY <1>2, <2>1, <2>2, <2>4, <3>1, <3>2
  <2> QED  BY <2>3, <2>4
<1>11. ASSUME NEW i \in 1..(n + m)
       PROVE  new[pile[i]] = IF i = 1 THEN Nil ELSE pile[i - 1]
  <2>1. CASE i \in 1..n
    <3>1. new[pile[i]] = link[stack[i]]
      BY <1>4, <2>1
    <3>2. link[stack[i]] = IF i = 1 THEN Nil ELSE stack[i - 1]
      BY <2>1 DEF Stacked
    <3>3. i # 1 => i - 1 \in 1..n
      BY <1>1, <2>1
    <3> QED  BY <1>4, <3>1, <3>2, <3>3
  <2>2. CASE i \in (n + 1)..(n + m)
    <3>1. i - n \in 1..m /\ pile[i] = more[i - n]
      BY <1>5, <2>2
    <3>2. new[pile[i]] = IF i - n = 1 THEN top ELSE more[i - n - 1]
      BY <3>1
    <3>3. CASE i - n = 1
      <4>1. i = n + 1
        BY <1>1, <3>3
      <4>2. stack = <<>> <=> n = 0
        BY <1>1
      <4>3. top = IF n = 0 THEN Nil ELSE stack[n]
        BY <4>2 DEF Stacked
      <4>4. n # 0 => n \in 1..n /\ i - 1 = n /\ i # 1
        BY <1>1, <4>1
      <4>5. n # 0 => pile[i - 1] = stack[n]
        BY <1>4, <4>4
      <4> QED  BY <1>1, <3>2, <3>3, <4>1, <4>3, <4>4, <4>5
    <3>4. CASE i - n # 1
      <4>1. i - 1 \in (n + 1)..(n + m) /\ i - 1 - n = i - n - 1 /\ i # 1
        BY <1>1, <2>2, <3>4
      <4>2. pile[i - 1] = more[i - n - 1]
        BY <1>5, <4>1
      <4> QED  BY <3>2, <3>4, <4>1, <4>2
    <3> QED  BY <3>3, <3>4
  <2> QED  BY <1>6, <2>1, <2>2
<1>12. ToSet(pile) = ToSet(stack) \cup ToSet(more)
  <2>1. ToSet(pile) \subseteq ToSet(stack) \cup ToSet(more)
    <3>1. \A i \in 1..(n + m) : pile[i] \in ToSet(stack) \/ pile[i] \in ToSet(more)
      BY <1>4, <1>5, <1>6
    <3>2. \A x \in ToSet(pile) : \E i \in 1..(n + m) : x = pile[i]
      BY <1>3
    <3> QED  BY <3>1, <3>2
  <2>2. ASSUME NEW i \in 1..n PROVE stack[i] \in ToSet(pile)
    BY <1>3, <1>4
  <2>3. ASSUME NEW i \in 1..m PROVE more[i] \in ToSet(pile)
    <3>1. i + n \in (n + 1)..(n + m) /\ i + n - n = i /\ i + n \in 1..(n + m)
      BY <1>1
    <3>2. pile[i + n] = more[i]
      BY <1>5, <3>1
    <3>3. pile[i + n] \in ToSet(pile)
      BY <1>3, <3>1
    <3> QED  BY <3>2, <3>3
  <2>4. ToSet(stack) \subseteq ToSet(pile)
    BY <1>3, <2>2
  <2>5. ToSet(more) \subseteq ToSet(pile)
    BY <1>3, <2>3
  <2> QED  BY <2>1, <2>4, <2>5
<1>13. Stacked(new, IF more = <<>> THEN top ELSE more[m], pile)
  BY <1>2, <1>9, <1>10, <1>11 DEF Stacked
<1> QED  BY <1>12, <1>13

(* The same stack, by another link that agrees on it. *)
LEMMA StackedElsewhere ==
  ASSUME NEW link, NEW top, NEW stack, Stacked(link, top, stack), NEW new,
         \A x \in ToSet(stack) : new[x] = link[x]
  PROVE  Stacked(new, top, stack)
<1>1. \A i \in 1..Len(stack) : stack[i] \in ToSet(stack)
  BY DEF Stacked, ToSet
<1>2. \A i \in 1..Len(stack) : new[stack[i]] = link[stack[i]]
  BY <1>1
<1> QED  BY <1>2 DEF Stacked

(* A stack with others piled on it, when the top is taken off.            *)
LEMMA Pushed ==
  ASSUME NEW link, NEW top, NEW stack, Stacked(link, top, stack),
         NEW s \in Slots, s \notin ToSet(stack), NEW new,
         \A x \in ToSet(stack) : new[x] = link[x], new[s] = top
  PROVE  \E pile : Stacked(new, s, pile) /\ ToSet(pile) = ToSet(stack) \cup {s}
<1> DEFINE more == <<s>>
<1>1. /\ more \in Seq(Slots) /\ IsInjective(more) /\ ToSet(more) = {s} /\ Len(more) = 1
      /\ more[1] = s /\ more # <<>>
  BY DEF IsInjective, ToSet
<1> HIDE DEF more
<1>2. \A i \in 1..Len(more) : new[more[i]] = IF i = 1 THEN top ELSE more[i - 1]
  BY <1>1
<1>3. ToSet(more) \cap ToSet(stack) = {}
  BY <1>1
<1>4. \E pile : /\ Stacked(new, IF more = <<>> THEN top ELSE more[Len(more)], pile)
                /\ ToSet(pile) = ToSet(stack) \cup ToSet(more)
  BY <1>1, <1>2, <1>3, Piled
<1> QED  BY <1>1, <1>4

Live(t) == {s \in Slots : t.live[s]}

(* The arena while a stack of its nodes waits to be freed: the other live   *)
(* nodes are a forest that hangs off the root and off those that wait, and  *)
(* the free list threads the dead slots.                                    *)
Linked(t, waiting) ==
  /\ t \in Trees
  /\ waiting \subseteq Live(t) \ {Root}
  /\ Root \in Live(t) /\ t.parent[Root] = Nil
  /\ \A u \in Live(t) : Siblings(t, Live(t) \ waiting, u)
  /\ \A c \in Live(t) \ waiting : c # Root => t.parent[c] \in Live(t)
  /\ \E rank : Aged(t, Live(t) \ waiting, rank)
  /\ \E unused : Stacked(t.next, t.free, unused) /\ ToSet(unused) = Slots \ Live(t)
  /\ t.count = Cardinality(Live(t))

TreeInv(t) == Linked(t, {})

Freeing(work) ==
  /\ work.pending \in Links
  /\ \E stack : /\ Stacked(work.tree.prev, work.pending, stack)
                /\ Linked(work.tree, ToSet(stack))

(* The live slots are finitely many slots.                                *)
LEMMA LiveFinite ==
  ASSUME NEW t
  PROVE  Live(t) \subseteq Slots /\ IsFiniteSet(Live(t))
<1>1. IsFiniteSet(Slots)
  <2>1. 0 \in Int /\ Nodes - 1 \in Int
    BY SlotFacts
  <2> QED  BY <2>1, FS_Interval DEF Slots
<1> QED  BY <1>1, FS_Subset DEF Live

(* A new arena: the root alone, and every other slot free.                *)
LEMMA NewTreeLinked == TreeInv(NewTree)
<1> DEFINE t == NewTree
           n == Nodes - 1
           unused == [i \in 1..n |-> Nodes - i]
<1>1. n \in Nat /\ n + 1 = Nodes
  BY SlotFacts
<1>2. t \in Trees
  <2>1. \A s \in Slots : (IF s # Root /\ s + 1 < Nodes THEN s + 1 ELSE Nil) \in Links
    BY SlotFacts DEF Slots, Links
  <2>2. (IF Nodes > 1 THEN 1 ELSE Nil) \in Links
    BY SlotFacts DEF Slots, Links
  <2>3. Nil \in Links
    BY SlotFacts
  <2> QED  BY <2>1, <2>2, <2>3 DEF NewTree, Trees
<1>3. Live(t) = {Root}
  BY SlotFacts DEF Live, NewTree
<1>4. \A s \in Slots : t.parent[s] = Nil /\ t.first[s] = Nil /\ t.last[s] = Nil /\ t.prev[s] = Nil
  BY DEF NewTree
<1>5. \A s \in Slots : t.next[s] = IF s # Root /\ s + 1 < Nodes THEN s + 1 ELSE Nil
  BY DEF NewTree
<1>6. t.free = (IF Nodes > 1 THEN 1 ELSE Nil) /\ t.count = 1
  BY DEF NewTree
<1> HIDE DEF t
<1>7. Siblings(t, {Root}, Root)
  <2>1. Kids(t, {Root}, Root) = {}
    BY <1>4, SlotFacts DEF Kids
  <2> QED  BY <1>4, <2>1, SlotFacts DEF Siblings
<1>8. Aged(t, {Root}, [s \in Slots |-> 0])
  BY DEF Aged
<1>9. Stacked(t.next, t.free, unused) /\ ToSet(unused) = Slots \ {Root}
  <2>1. \A i \in 1..n : Nodes - i \in Slots
    BY <1>1 DEF Slots
  <2>2. unused \in Seq(Slots) /\ Len(unused) = n /\ \A i \in 1..n : unused[i] = Nodes - i
    BY <1>1, <2>1
  <2> HIDE DEF unused
  <2>3. IsInjective(unused)
    <3> SUFFICES ASSUME NEW i \in 1..n, NEW j \in 1..n, unused[i] = unused[j]
                 PROVE  i = j
      BY <2>2 DEF IsInjective
    <3>1. Nodes - i = Nodes - j
      BY <2>2
    <3> QED  BY <3>1, <1>1
  <2>4. t.free = IF unused = <<>> THEN Nil ELSE unused[Len(unused)]
    <3>1. unused = <<>> <=> n = 0
      BY <1>1, <2>2
    <3>2. n # 0 => n \in 1..n /\ Nodes - n = 1
      BY <1>1
    <3>3. n # 0 => unused[n] = 1
      BY <2>2, <3>2
    <3> QED  BY <1>1, <1>6, <2>2, <3>1, <3>3
  <2>5. ASSUME NEW i \in 1..n
        PROVE  t.next[unused[i]] = IF i = 1 THEN Nil ELSE unused[i - 1]
    <3>1. Nodes - i \in Slots /\ Nodes - i # Root
      BY <1>1, <2>1 DEF Root
    <3>2. t.next[Nodes - i] = IF Nodes - i + 1 < Nodes THEN Nodes - i + 1 ELSE Nil
      BY <1>5, <3>1
    <3>3. CASE i = 1
      <4>1. ~(Nodes - i + 1 < Nodes)
        BY <1>1, <3>3
      <4> QED  BY <2>2, <3>2, <3>3, <4>1
    <3>4. CASE i # 1
      <4>1. i - 1 \in 1..n /\ Nodes - i + 1 < Nodes /\ Nodes - (i - 1) = Nodes - i + 1
        BY <1>1, <3>4
      <4> QED  BY <2>2, <3>2, <3>4, <4>1
    <3> QED  BY <3>3, <3>4
  <2>6. ToSet(unused) = {Nodes - i : i \in 1..n}
    <3>1. DOMAIN unused = 1..n
      BY <2>2
    <3> QED  BY <2>2, <3>1 DEF ToSet
  <2>7. \A i \in 1..n : Nodes - i \in Slots \ {Root}
    BY <1>1, <2>1 DEF Root
  <2>8. \A s \in Slots \ {Root} : Nodes - s \in 1..n /\ Nodes - (Nodes - s) = s
    BY <1>1 DEF Slots, Root
  <2>9. Slots \ {Root} \subseteq ToSet(unused)
    <3> SUFFICES ASSUME NEW s \in Slots \ {Root} PROVE s \in ToSet(unused)
      OBVIOUS
    <3>1. \E i \in 1..n : Nodes - i = s
      BY <2>8
    <3> QED  BY <2>6, <3>1
  <2>10. ToSet(unused) \subseteq Slots \ {Root}
    BY <2>6, <2>7
  <2> QED  BY <2>2, <2>3, <2>4, <2>5, <2>9, <2>10 DEF Stacked
<1>10. Cardinality({Root}) = 1
  BY FS_Singleton
<1>11. t.parent[Root] = Nil
  BY <1>4, SlotFacts
<1>12. {Root} \ {} = {Root}
  OBVIOUS
<1> HIDE DEF unused
<1>13. /\ t \in Trees
       /\ {} \subseteq Live(t) \ {Root}
       /\ Root \in Live(t) /\ t.parent[Root] = Nil
       /\ \A u \in Live(t) : Siblings(t, Live(t) \ {}, u)
       /\ \A c \in Live(t) \ {} : c # Root => t.parent[c] \in Live(t)
       /\ \E rank : Aged(t, Live(t) \ {}, rank)
       /\ \E q : Stacked(t.next, t.free, q) /\ ToSet(q) = Slots \ Live(t)
       /\ t.count = Cardinality(Live(t))
  BY <1>2, <1>3, <1>6, <1>7, <1>8, <1>9, <1>10, <1>11, <1>12
<1> QED  BY <1>13 DEF TreeInv, Linked, t

(* A record of the arena's fields. *)
Whole(t) == [generation |-> t.generation, live |-> t.live, parent |-> t.parent,
   first |-> t.first, last |-> t.last, prev |-> t.prev, next |-> t.next,
   free |-> t.free, count |-> t.count]

(* What insert makes of every link. *)
LEMMA GrownIs ==
  ASSUME NEW t \in Trees, NEW parent \in Slots, t.free \in Slots, t.free # parent
  PROVE  LET s == t.free
             last == t.last[parent]
             u == Grown(t, parent)
         IN /\ u \in Trees
            /\ u.generation = t.generation /\ u.free = t.next[s] /\ u.count = t.count + 1
            /\ u.live = [t.live EXCEPT ![s] = TRUE]
            /\ u.parent = [t.parent EXCEPT ![s] = parent]
            /\ \A n \in Slots :
                 /\ u.first[n] = IF n = s THEN Nil
                                 ELSE IF n = parent /\ last = Nil THEN s ELSE t.first[n]
                 /\ u.last[n] = IF n = parent THEN s ELSE IF n = s THEN Nil ELSE t.last[n]
                 /\ (last # s => u.prev[n] = IF n = s THEN last ELSE t.prev[n])
                 /\ (last # s => u.next[n] = IF n = s THEN Nil
                                             ELSE IF n = last THEN s ELSE t.next[n])
<1> DEFINE s == t.free
           last == t.last[parent]
           w == [t EXCEPT !.free = t.next[s], !.live[s] = TRUE, !.parent[s] = parent,
                          !.first[s] = Nil, !.last[s] = Nil, !.prev[s] = Nil,
                          !.next[s] = Nil, !.count = @ + 1]
           u == LinkedLast(w, parent, s)
<1>1. u = Grown(t, parent)
  BY DEF Grown
<1>2. /\ t.generation \in [Slots -> Nat] /\ t.live \in [Slots -> BOOLEAN]
      /\ t.parent \in [Slots -> Links] /\ t.first \in [Slots -> Links]
      /\ t.last \in [Slots -> Links] /\ t.prev \in [Slots -> Links]
      /\ t.next \in [Slots -> Links] /\ t.free \in Links /\ t.count \in Int
      /\ s \in Links /\ s \in Slots /\ parent \in Links /\ Nil \in Links
  BY SlotFacts DEF Trees
<1>3. /\ w.generation = t.generation /\ w.free = t.next[s] /\ w.count = t.count + 1
      /\ w.live = [t.live EXCEPT ![s] = TRUE] /\ w.parent = [t.parent EXCEPT ![s] = parent]
      /\ w.first = [t.first EXCEPT ![s] = Nil] /\ w.last = [t.last EXCEPT ![s] = Nil]
      /\ w.prev = [t.prev EXCEPT ![s] = Nil] /\ w.next = [t.next EXCEPT ![s] = Nil]
      /\ w = Whole(w)
  <2>1. t = Whole(t)
    BY DEF Trees, Whole
  <2> HIDE DEF s
  <2>2. w = [x \in DOMAIN t |-> w[x]]
    OBVIOUS
  <2>3. w = [generation |-> t.generation, live |-> [t.live EXCEPT ![s] = TRUE],
             parent |-> [t.parent EXCEPT ![s] = parent],
             first |-> [t.first EXCEPT ![s] = Nil], last |-> [t.last EXCEPT ![s] = Nil],
             prev |-> [t.prev EXCEPT ![s] = Nil], next |-> [t.next EXCEPT ![s] = Nil],
             free |-> t.next[s], count |-> t.count + 1]
    <3>1. DOMAIN t = {"generation", "live", "parent", "first", "last", "prev", "next",
                      "free", "count"}
      BY DEF Trees
    <3>2. DOMAIN w = DOMAIN t
      OBVIOUS
    <3>3. /\ w.generation = t.generation /\ w.live = [t.live EXCEPT ![s] = TRUE]
          /\ w.parent = [t.parent EXCEPT ![s] = parent]
      BY <3>1
    <3>4. /\ w.first = [t.first EXCEPT ![s] = Nil] /\ w.last = [t.last EXCEPT ![s] = Nil]
          /\ w.prev = [t.prev EXCEPT ![s] = Nil]
      BY <3>1
    <3>5. /\ w.next = [t.next EXCEPT ![s] = Nil] /\ w.free = t.next[s]
          /\ w.count = t.count + 1
      BY <3>1
    <3>6. w = [x \in DOMAIN w |-> w[x]]
      BY <2>2, <3>2
    <3> HIDE DEF w
    <3> QED  BY <3>1, <3>2, <3>3, <3>4, <3>5, <3>6
  <2> HIDE DEF w
  <2> QED  BY <2>3 DEF Whole
<1> HIDE DEF w
<1>4. w.last[parent] = last
  BY <1>2, <1>3
<1> HIDE DEF s, last
<1>5. /\ u.generation = w.generation /\ u.free = w.free /\ u.count = w.count
      /\ u.live = w.live /\ u.parent = w.parent
      /\ u.first = [w.first EXCEPT ![parent] = IF last = Nil THEN s ELSE @]
      /\ u.last = [w.last EXCEPT ![parent] = s]
      /\ u.prev = (IF last = Nil THEN w.prev ELSE [w.prev EXCEPT ![s] = last])
      /\ u.next = (IF last = Nil THEN w.next ELSE [w.next EXCEPT ![last] = s])
      /\ u = Whole(u)
  <2> DEFINE first == [w.first EXCEPT ![parent] = IF last = Nil THEN s ELSE @]
             newlast == [w.last EXCEPT ![parent] = s]
             prev == IF last = Nil THEN w.prev ELSE [w.prev EXCEPT ![s] = last]
             next == IF last = Nil THEN w.next ELSE [w.next EXCEPT ![last] = s]
  <2>1. w = Whole(w)
    BY <1>3
  <2>2. u = [w EXCEPT !.first = first, !.next = next, !.prev = prev, !.last = newlast]
    BY <1>4, <2>1 DEF LinkedLast, Whole
  <2> HIDE DEF u, first, newlast, prev, next
  <2>3. u = [generation |-> w.generation, live |-> w.live, parent |-> w.parent,
             first |-> first, last |-> newlast, prev |-> prev, next |-> next,
             free |-> w.free, count |-> w.count]
    BY <2>1, <2>2 DEF Whole
  <2>4. u = Whole(u)
    BY <2>3 DEF Whole
  <2> QED  BY <2>3, <2>4 DEF first, newlast, prev, next
<1> HIDE DEF u
<1>6. last \in Links
  BY <1>2 DEF last
<1>7. /\ w.first \in [Slots -> Links] /\ w.last \in [Slots -> Links]
      /\ w.prev \in [Slots -> Links] /\ w.next \in [Slots -> Links]
      /\ w.parent \in [Slots -> Links] /\ w.live \in [Slots -> BOOLEAN]
      /\ w.free \in Links /\ w.count \in Int /\ w.generation \in [Slots -> Nat]
  BY <1>2, <1>3
<1>8. u \in Trees
  <2>1. /\ u.first \in [Slots -> Links] /\ u.last \in [Slots -> Links]
        /\ u.prev \in [Slots -> Links] /\ u.next \in [Slots -> Links]
    <3>1. u.first \in [Slots -> Links] /\ u.last \in [Slots -> Links]
      BY <1>2, <1>5, <1>7
    <3>2. [w.prev EXCEPT ![s] = last] \in [Slots -> Links]
      BY <1>6, <1>7
    <3>3. [w.next EXCEPT ![last] = s] \in [Slots -> Links]
      BY <1>2, <1>7
    <3> QED  BY <1>5, <1>7, <3>1, <3>2, <3>3
  <2> QED  BY <1>5, <1>7, <2>1 DEF Trees, Whole
<1>9. ASSUME NEW n \in Slots
      PROVE  /\ u.first[n] = IF n = s THEN Nil
                             ELSE IF n = parent /\ last = Nil THEN s ELSE t.first[n]
             /\ u.last[n] = IF n = parent THEN s ELSE IF n = s THEN Nil ELSE t.last[n]
             /\ (last # s => u.prev[n] = IF n = s THEN last ELSE t.prev[n])
             /\ (last # s => u.next[n] = IF n = s THEN Nil
                                         ELSE IF n = last THEN s ELSE t.next[n])
  <2>1. s # parent
    BY DEF s
  <2>2. /\ w.first[n] = (IF n = s THEN Nil ELSE t.first[n])
        /\ w.last[n] = (IF n = s THEN Nil ELSE t.last[n])
        /\ w.prev[n] = (IF n = s THEN Nil ELSE t.prev[n])
        /\ w.next[n] = (IF n = s THEN Nil ELSE t.next[n])
    BY <1>2, <1>3
  <2>3. u.first[n] = IF n = parent /\ last = Nil THEN s ELSE w.first[n]
    BY <1>5, <1>7
  <2>4. u.last[n] = IF n = parent THEN s ELSE w.last[n]
    BY <1>5, <1>7
  <2>5. u.prev[n] = IF n = s /\ last # Nil THEN last ELSE w.prev[n]
    BY <1>5, <1>7
  <2>6. u.next[n] = IF n = last /\ last # Nil THEN s ELSE w.next[n]
    BY <1>5, <1>7
  <2>7. n # Nil
    BY SlotFacts
  <2> QED  BY <2>1, <2>2, <2>3, <2>4, <2>5, <2>6, <2>7
<1> QED  BY <1>1, <1>3, <1>5, <1>8, <1>9 DEF s, last

(* An insert under a live node keeps the links a tree (insert, link_last). *)
THEOREM GrownKeepsTree ==
  ASSUME NEW t, TreeInv(t), NEW parent \in Live(t), t.free # Nil
  PROVE  /\ TreeInv(Grown(t, parent))
         /\ t.free \in Slots \ Live(t)
         /\ Live(Grown(t, parent)) = Live(t) \cup {t.free}
         /\ Grown(t, parent).generation = t.generation
<1> DEFINE A == Live(t)
           s == t.free
           last == t.last[parent]
           u == Grown(t, parent)
           B == A \cup {s}
<1>1. /\ t \in Trees
      /\ Root \in A /\ t.parent[Root] = Nil
      /\ \A v \in A : Siblings(t, A, v)
      /\ \A c \in A : c # Root => t.parent[c] \in A
      /\ \E rank : Aged(t, A, rank)
      /\ \E unused : Stacked(t.next, t.free, unused) /\ ToSet(unused) = Slots \ A
      /\ t.count = Cardinality(A)
  <2>1. A \ {} = A
    OBVIOUS
  <2> HIDE DEF A
  <2> QED  BY <2>1 DEF TreeInv, Linked, A
<1>2. A \subseteq Slots /\ parent \in Slots /\ IsFiniteSet(A)
  BY LiveFinite
<1>3. /\ t.live \in [Slots -> BOOLEAN] /\ t.parent \in [Slots -> Links]
      /\ t.next \in [Slots -> Links] /\ t.free \in Links /\ s \in Slots
  BY <1>1 DEF Trees, Links
<1>4. PICK rest : /\ Stacked(t.next, t.next[s], rest)
                  /\ ToSet(rest) = (Slots \ A) \ {s}
                  /\ s \in Slots \ A
  <2>1. PICK unused : Stacked(t.next, t.free, unused) /\ ToSet(unused) = Slots \ A
    BY <1>1
  <2> HIDE DEF A
  <2> QED  BY <1>3, <2>1, Popped
<1>5. s # parent
  BY <1>4
<1>6. /\ u \in Trees
      /\ u.generation = t.generation /\ u.free = t.next[s] /\ u.count = t.count + 1
      /\ u.live = [t.live EXCEPT ![s] = TRUE]
      /\ u.parent = [t.parent EXCEPT ![s] = parent]
      /\ \A n \in Slots :
           /\ u.first[n] = IF n = s THEN Nil
                           ELSE IF n = parent /\ last = Nil THEN s ELSE t.first[n]
           /\ u.last[n] = IF n = parent THEN s ELSE IF n = s THEN Nil ELSE t.last[n]
           /\ (last # s => u.prev[n] = IF n = s THEN last ELSE t.prev[n])
           /\ (last # s => u.next[n] = IF n = s THEN Nil
                                       ELSE IF n = last THEN s ELSE t.next[n])
  <2>1. t.free \in Slots /\ t.free # parent
    BY <1>3, <1>5
  <2> QED  BY <1>1, <1>2, <2>1, GrownIs
<1>7. Live(u) = B
  BY <1>3, <1>6 DEF Live
<1> HIDE DEF u, A, s
<1>8. Siblings(t, A, parent)
  BY <1>1 DEF A
<1>9. last # s /\ (last # Nil => last \in Kids(t, A, parent) /\ t.next[last] = Nil)
  <2>1. last # Nil => last \in Kids(t, A, parent) /\ t.next[last] = Nil
    BY <1>8 DEF Siblings
  <2>2. last # Nil => last \in A
    BY <2>1 DEF Kids
  <2> QED  BY <1>3, <1>4, <2>1, <2>2, SlotFacts
<1> HIDE DEF last
<1>10. /\ \A n \in Slots : u.parent[n] = IF n = s THEN parent ELSE t.parent[n]
       /\ \A n \in Slots : u.prev[n] = IF n = s THEN last ELSE t.prev[n]
       /\ \A n \in Slots : u.next[n] = IF n = s THEN Nil ELSE IF n = last THEN s ELSE t.next[n]
       /\ \A n \in Slots : u.last[n] = IF n = parent THEN s ELSE IF n = s THEN Nil ELSE t.last[n]
       /\ \A n \in Slots : u.first[n] = IF n = s THEN Nil
                           ELSE IF n = parent /\ last = Nil THEN s ELSE t.first[n]
  BY <1>3, <1>6, <1>9
<1>11. s \notin A /\ s # Root /\ s # Nil /\ s \in Slots /\ parent \in A
  BY <1>1, <1>3, <1>4, SlotFacts DEF A
<1>12. ASSUME NEW v \in B
       PROVE  Siblings(u, B, v)
  <2>1. CASE v = s
    <3>1. Kids(u, B, v) = {}
      <4>1. \A c \in A : t.parent[c] # s
        BY <1>1, <1>11, SlotFacts DEF A
      <4> QED  BY <1>2, <1>10, <1>11, <2>1, <4>1 DEF Kids
    <3>2. u.first[v] = Nil /\ u.last[v] = Nil
      BY <1>10, <1>11, <2>1
    <3> QED  BY <3>1, <3>2 DEF Siblings
  <2>2. CASE v = parent
    <3>1. Kids(u, B, v) = Kids(t, A, parent) \cup {s}
      BY <1>2, <1>10, <1>11, <2>2 DEF Kids
    <3> DEFINE K == Kids(t, A, parent)
    <3>2. K \subseteq Slots /\ s \notin K
      BY <1>2, <1>11 DEF Kids
    <3>3. /\ \A c \in K :
               /\ t.prev[c] = Nil => t.first[parent] = c
               /\ t.prev[c] # Nil => t.prev[c] \in K /\ t.next[t.prev[c]] = c
               /\ t.next[c] = Nil => t.last[parent] = c
               /\ t.next[c] # Nil => t.next[c] \in K /\ t.prev[t.next[c]] = c
          /\ t.first[parent] # Nil => t.first[parent] \in K /\ t.prev[t.first[parent]] = Nil
          /\ t.first[parent] = Nil <=> t.last[parent] = Nil
      BY <1>8 DEF Siblings
    <3> HIDE DEF K
    <3>4. last = t.last[parent] /\ (last # Nil => last \in K /\ t.next[last] = Nil)
      BY <1>9 DEF last, K
    <3>5. u.last[parent] = s /\ u.first[parent] = IF last = Nil THEN s ELSE t.first[parent]
      BY <1>5, <1>10, <1>11, <3>4, <1>2
    <3>6. u.prev[s] = last /\ u.next[s] = Nil
      BY <1>10, <1>11
    <3>7. ASSUME NEW c \in K
          PROVE  /\ u.prev[c] = t.prev[c]
                 /\ u.next[c] = IF c = last THEN s ELSE t.next[c]
                 /\ c \in Slots /\ c # s /\ c # Nil
      BY <1>10, <3>2, SlotFacts
    <3>8. ASSUME NEW c \in K \cup {s}
          PROVE  /\ u.prev[c] = Nil => u.first[parent] = c
                 /\ u.prev[c] # Nil => u.prev[c] \in K \cup {s} /\ u.next[u.prev[c]] = c
                 /\ u.next[c] = Nil => u.last[parent] = c
                 /\ u.next[c] # Nil => u.next[c] \in K \cup {s} /\ u.prev[u.next[c]] = c
      <4>1. CASE c = s
        BY <3>4, <3>5, <3>6, <3>7, <4>1
      <4>2. CASE c # s
        <5>1. c \in K
          BY <4>2
        <5>2. u.prev[c] = Nil => u.first[parent] = c
          BY <3>3, <3>4, <3>5, <3>7, <5>1
        <5>3. u.prev[c] # Nil => u.prev[c] \in K \cup {s} /\ u.next[u.prev[c]] = c
          BY <3>3, <3>4, <3>7, <5>1
        <5>4. u.next[c] = Nil => u.last[parent] = c
          BY <1>11, <3>3, <3>4, <3>7, <5>1
        <5>5. u.next[c] # Nil => u.next[c] \in K \cup {s} /\ u.prev[u.next[c]] = c
          BY <3>3, <3>4, <3>6, <3>7, <5>1
        <5> QED  BY <5>2, <5>3, <5>4, <5>5
      <4> QED  BY <4>1, <4>2
    <3>9. u.first[parent] # Nil /\ u.first[parent] \in K \cup {s} /\ u.prev[u.first[parent]] = Nil
      BY <1>11, <3>3, <3>4, <3>5, <3>6, <3>7
    <3> QED  BY <1>11, <2>2, <3>1, <3>5, <3>6, <3>8, <3>9 DEF Siblings, K
  <2>3. CASE v # s /\ v # parent
    <3>1. v \in A /\ v \in Slots
      BY <1>2, <2>3
    <3>2. Kids(u, B, v) = Kids(t, A, v)
      BY <1>2, <1>10, <1>11, <2>3 DEF Kids
    <3> DEFINE K == Kids(t, A, v)
    <3>3. last \notin K /\ s \notin K /\ K \subseteq Slots
      BY <1>2, <1>9, <1>11, <2>3, SlotFacts DEF Kids
    <3>4. u.first[v] = t.first[v] /\ u.last[v] = t.last[v]
      BY <1>10, <2>3, <3>1
    <3>5. \A c \in K : u.prev[c] = t.prev[c] /\ u.next[c] = t.next[c]
      BY <1>10, <3>3
    <3>6. Siblings(t, A, v)
      BY <1>1, <3>1 DEF A
    <3> QED  BY <3>2, <3>4, <3>5, <3>6 DEF Siblings
  <2> QED  BY <2>1, <2>2, <2>3
<1>13. \A c \in B : c # Root => u.parent[c] \in B
  <2>1. \A c \in A : c # Root => t.parent[c] \in A
    BY <1>1 DEF A
  <2> QED  BY <1>2, <1>10, <1>11, <2>1
<1>14. \E rank : Aged(u, B, rank)
  <2>1. PICK rank : Aged(t, A, rank)
    BY <1>1 DEF A
  <2> DEFINE since == IF last = Nil THEN 0 ELSE rank[last]
             new == [rank EXCEPT ![s] = rank[parent] + since + 1]
  <2>2. rank \in [Slots -> Nat] /\ rank[parent] \in Nat /\ since \in Nat
    <3>1. last # Nil => last \in Slots
      BY <1>2, <1>9 DEF Kids
    <3> QED  BY <1>2, <2>1, <3>1 DEF Aged
  <2>3. new \in [Slots -> Nat]
    BY <2>2, <1>11
  <2>4. \A n \in Slots : n # s => new[n] = rank[n]
    BY <2>2
  <2>5. new[s] = rank[parent] + since + 1
    BY <2>2, <1>11
  <2> HIDE DEF new
  <2>6. ASSUME NEW c \in B \ {Root}
        PROVE  /\ new[u.parent[c]] < new[c]
               /\ u.prev[c] # Nil => new[u.prev[c]] < new[c]
    <3>1. CASE c = s
      <4>1. u.parent[c] = parent /\ u.prev[c] = last /\ parent # s /\ parent \in Slots
        BY <1>2, <1>5, <1>10, <1>11, <3>1
      <4>2. new[parent] < new[s]
        BY <2>2, <2>4, <2>5, <4>1
      <4>3. last # Nil => last \in Slots /\ last # s /\ new[last] = rank[last]
        BY <1>2, <1>9, <2>4 DEF Kids
      <4>4. last # Nil => new[last] < new[s]
        BY <2>2, <2>5, <4>3
      <4> QED  BY <3>1, <4>1, <4>2, <4>4
    <3>2. CASE c # s
      <4>1. c \in A \ {Root} /\ c \in Slots
        BY <1>2, <3>2
      <4>2. u.parent[c] = t.parent[c] /\ t.parent[c] \in A /\ u.prev[c] = t.prev[c]
        BY <1>1, <1>10, <3>2, <4>1 DEF A
      <4>3. t.prev[c] # Nil => t.prev[c] \in A
        <5>1. c \in Kids(t, A, t.parent[c]) /\ Siblings(t, A, t.parent[c])
          BY <1>1, <4>1, <4>2 DEF Kids, A
        <5> QED  BY <5>1 DEF Siblings, Kids
      <4>4. rank[t.parent[c]] < rank[c] /\ (t.prev[c] # Nil => rank[t.prev[c]] < rank[c])
        BY <2>1, <4>1 DEF Aged
      <4>5. new[c] = rank[c] /\ new[t.parent[c]] = rank[t.parent[c]]
        BY <1>2, <1>11, <2>4, <3>2, <4>1, <4>2
      <4>6. t.prev[c] # Nil => new[t.prev[c]] = rank[t.prev[c]]
        BY <1>2, <1>11, <2>4, <4>3
      <4> QED  BY <4>2, <4>4, <4>5, <4>6
    <3> QED  BY <3>1, <3>2
  <2> QED  BY <2>3, <2>6 DEF Aged
<1>15. Stacked(u.next, u.free, rest) /\ ToSet(rest) = Slots \ B
  <2>1. \A x \in ToSet(rest) : u.next[x] = t.next[x]
    <3>1. last # Nil => last \in A
      BY <1>9 DEF Kids
    <3>2. ASSUME NEW x \in ToSet(rest)
          PROVE  x \in Slots /\ x \notin A /\ x # s
      BY <1>4 DEF A, s
    <3> QED  BY <1>10, <3>1, <3>2, SlotFacts
  <2>2. u.free = t.next[s]
    BY <1>6
  <2>3. Stacked(u.next, u.free, rest)
    <3>1. Stacked(t.next, u.free, rest)
      BY <1>4, <2>2 DEF s
    <3> QED  BY <2>1, <3>1, StackedElsewhere
  <2> QED  BY <1>4, <2>3 DEF A, s
<1>16. u.count = Cardinality(B)
  <2>1. Cardinality(A \cup {s}) = Cardinality(A) + 1
    BY <1>2, <1>11, FS_AddElement DEF A
  <2> QED  BY <1>1, <1>6, <2>1 DEF A
<1>17. Root \in B /\ u.parent[Root] = Nil
  <2>1. Root \in A /\ t.parent[Root] = Nil
    BY <1>1 DEF A
  <2> QED  BY <1>10, <1>11, <2>1, SlotFacts
<1>18. TreeInv(u)
  <2>1. Live(u) \ {} = B /\ Live(u) = B
    BY <1>7
  <2>2. u \in Trees
    BY <1>6
  <2> HIDE DEF B
  <2> QED  BY <1>12, <1>13, <1>14, <1>15, <1>16, <1>17, <2>1, <2>2 DEF TreeInv, Linked
<1> QED  BY <1>6, <1>7, <1>11, <1>18, <1>4 DEF u, A, s

(* What remove makes of every link before it frees the node. *)
LEMMA UnlinkedIs ==
  ASSUME NEW t \in Trees, NEW s \in Slots, t.parent[s] \in Slots, t.next[s] # s
  PROVE  LET p == t.parent[s]
             b == t.prev[s]
             a == t.next[s]
             u == [Unlinked(t, s) EXCEPT !.prev[s] = Nil]
         IN /\ u \in Trees
            /\ u.generation = t.generation /\ u.free = t.free /\ u.count = t.count
            /\ u.live = t.live /\ u.parent = t.parent
            /\ \A n \in Slots :
                 /\ u.first[n] = IF n = p /\ b = Nil THEN a ELSE t.first[n]
                 /\ u.last[n] = IF n = p /\ a = Nil THEN b ELSE t.last[n]
                 /\ u.prev[n] = IF n = s THEN Nil ELSE IF n = a THEN b ELSE t.prev[n]
                 /\ u.next[n] = IF n = b THEN a ELSE t.next[n]
<1> DEFINE p == t.parent[s]
           b == t.prev[s]
           a == t.next[s]
           first == [t.first EXCEPT ![p] = IF b = Nil THEN a ELSE @]
           last == [t.last EXCEPT ![p] = IF a = Nil THEN b ELSE @]
           prev == IF a = Nil THEN t.prev ELSE [t.prev EXCEPT ![a] = b]
           next == IF b = Nil THEN t.next ELSE [t.next EXCEPT ![b] = a]
           w == Unlinked(t, s)
           u == [w EXCEPT !.prev[s] = Nil]
<1>1. /\ t.generation \in [Slots -> Nat] /\ t.live \in [Slots -> BOOLEAN]
      /\ t.parent \in [Slots -> Links] /\ t.first \in [Slots -> Links]
      /\ t.last \in [Slots -> Links] /\ t.prev \in [Slots -> Links]
      /\ t.next \in [Slots -> Links] /\ t.free \in Links /\ t.count \in Int
      /\ Nil \in Links /\ t = Whole(t)
  BY SlotFacts DEF Trees, Whole
<1>2. w = [t EXCEPT !.first = first, !.next = next, !.last = last, !.prev = prev]
  <2>1. DOMAIN t = {"generation", "live", "parent", "first", "last", "prev", "next",
                    "free", "count"}
    BY DEF Trees
  <2> QED  BY <2>1 DEF Unlinked
<1> HIDE DEF w, first, last, prev, next
<1>3. w = [generation |-> t.generation, live |-> t.live, parent |-> t.parent,
           first |-> first, last |-> last, prev |-> prev, next |-> next,
           free |-> t.free, count |-> t.count]
  BY <1>1, <1>2 DEF Whole
<1>4. u = [generation |-> t.generation, live |-> t.live, parent |-> t.parent,
           first |-> first, last |-> last, prev |-> [prev EXCEPT ![s] = Nil], next |-> next,
           free |-> t.free, count |-> t.count]
  BY <1>3
<1>5. b \in Links /\ a \in Links /\ p \in Slots
  BY <1>1
<1> HIDE DEF u, p, b, a
<1>6. first \in [Slots -> Links] /\ last \in [Slots -> Links]
  BY <1>1, <1>5 DEF first, last
<1>7. prev \in [Slots -> Links] /\ next \in [Slots -> Links]
  <2>1. [t.prev EXCEPT ![a] = b] \in [Slots -> Links]
    BY <1>1, <1>5
  <2>2. [t.next EXCEPT ![b] = a] \in [Slots -> Links]
    BY <1>1, <1>5
  <2> QED  BY <1>1, <2>1, <2>2 DEF prev, next
<1>8. [prev EXCEPT ![s] = Nil] \in [Slots -> Links]
  BY <1>1, <1>7
<1>9. u \in Trees
  BY <1>1, <1>4, <1>6, <1>7, <1>8 DEF Trees
<1>10. /\ u.generation = t.generation /\ u.free = t.free /\ u.count = t.count
       /\ u.live = t.live /\ u.parent = t.parent
       /\ u.first = first /\ u.last = last /\ u.prev = [prev EXCEPT ![s] = Nil]
       /\ u.next = next
  BY <1>4
<1>11. ASSUME NEW n \in Slots
       PROVE  /\ u.first[n] = IF n = p /\ b = Nil THEN a ELSE t.first[n]
              /\ u.last[n] = IF n = p /\ a = Nil THEN b ELSE t.last[n]
              /\ u.prev[n] = IF n = s THEN Nil ELSE IF n = a THEN b ELSE t.prev[n]
              /\ u.next[n] = IF n = b THEN a ELSE t.next[n]
  <2>1. n # Nil
    BY SlotFacts
  <2>2. first[n] = IF n = p /\ b = Nil THEN a ELSE t.first[n]
    BY <1>1, <1>5 DEF first
  <2>3. last[n] = IF n = p /\ a = Nil THEN b ELSE t.last[n]
    BY <1>1, <1>5 DEF last
  <2>4. prev[n] = IF n = a THEN b ELSE t.prev[n]
    BY <1>1, <1>5, <2>1 DEF prev
  <2>5. next[n] = IF n = b THEN a ELSE t.next[n]
    BY <1>1, <1>5, <2>1 DEF next
  <2>6. [prev EXCEPT ![s] = Nil][n] = IF n = s THEN Nil ELSE prev[n]
    BY <1>7
  <2> QED  BY <1>10, <2>2, <2>3, <2>4, <2>5, <2>6
<1> QED  BY <1>9, <1>10, <1>11 DEF u, w, p, a, b

(* A node cut off from its siblings is one that may be freed. *)
THEOREM UnlinkedMayBeFreed ==
  ASSUME NEW t, TreeInv(t), NEW s \in Live(t), s # Root
  PROVE  LET u == [Unlinked(t, s) EXCEPT !.prev[s] = Nil]
         IN /\ Freeing([tree |-> u, pending |-> s])
            /\ Live(u) = Live(t) /\ u.generation = t.generation
<1> DEFINE A == Live(t)
           p == t.parent[s]
           b == t.prev[s]
           a == t.next[s]
           K == Kids(t, A, p)
           B == A \ {s}
           u == [Unlinked(t, s) EXCEPT !.prev[s] = Nil]
<1>1. /\ t \in Trees
      /\ Root \in A /\ t.parent[Root] = Nil
      /\ \A v \in A : Siblings(t, A, v)
      /\ \A c \in A : c # Root => t.parent[c] \in A
      /\ \E rank : Aged(t, A, rank)
      /\ \E unused : Stacked(t.next, t.free, unused) /\ ToSet(unused) = Slots \ A
      /\ t.count = Cardinality(A)
  <2>1. A \ {} = A
    OBVIOUS
  <2> HIDE DEF A
  <2> QED  BY <2>1 DEF TreeInv, Linked, A
<1>2. A \subseteq Slots /\ s \in A /\ s \in Slots
  BY LiveFinite
<1> HIDE DEF A
<1>3. PICK rank : Aged(t, A, rank)
  BY <1>1
<1>4. /\ p \in A /\ p \in Slots
      /\ s \in K /\ K \subseteq A /\ K \subseteq Slots /\ Root \notin K
  BY <1>1, <1>2, SlotFacts DEF Kids
<1>5. /\ \A c \in K :
           /\ t.prev[c] = Nil => t.first[p] = c
           /\ t.prev[c] # Nil => t.prev[c] \in K /\ t.next[t.prev[c]] = c
           /\ t.next[c] = Nil => t.last[p] = c
           /\ t.next[c] # Nil => t.next[c] \in K /\ t.prev[t.next[c]] = c
      /\ t.first[p] # Nil => t.first[p] \in K /\ t.prev[t.first[p]] = Nil
      /\ t.last[p] # Nil => t.last[p] \in K /\ t.next[t.last[p]] = Nil
      /\ t.first[p] = Nil <=> t.last[p] = Nil
  BY <1>1, <1>4 DEF Siblings
<1>6. \A c \in A : c # Root => /\ rank[t.parent[c]] < rank[c]
                               /\ t.prev[c] # Nil => rank[t.prev[c]] < rank[c]
  BY <1>3 DEF Aged
<1>7. \A c \in Slots : rank[c] \in Nat
  BY <1>3 DEF Aged
<1> HIDE DEF K
<1>8. /\ b # Nil => b \in K /\ t.next[b] = s /\ rank[b] < rank[s]
      /\ a # Nil => a \in K /\ t.prev[a] = s /\ rank[s] < rank[a]
      /\ b # s /\ a # s /\ p # s /\ s # Nil
  <2>1. b # Nil => b \in K /\ t.next[b] = s
    BY <1>4, <1>5
  <2>2. a # Nil => a \in K /\ t.prev[a] = s
    BY <1>4, <1>5
  <2>3. s # Nil
    BY <1>2, SlotFacts
  <2>4. b # Nil => rank[b] < rank[s]
    BY <1>2, <1>6
  <2>5. a # Nil => rank[s] < rank[a]
    BY <1>4, <1>6, <2>2, <2>3
  <2>6. rank[p] < rank[s]
    BY <1>2, <1>6
  <2> QED  BY <1>2, <1>7, <2>1, <2>2, <2>3, <2>4, <2>5, <2>6
<1>9. /\ u \in Trees
      /\ u.generation = t.generation /\ u.free = t.free /\ u.count = t.count
      /\ u.live = t.live /\ u.parent = t.parent
      /\ \A n \in Slots :
           /\ u.first[n] = IF n = p /\ b = Nil THEN a ELSE t.first[n]
           /\ u.last[n] = IF n = p /\ a = Nil THEN b ELSE t.last[n]
           /\ u.prev[n] = IF n = s THEN Nil ELSE IF n = a THEN b ELSE t.prev[n]
           /\ u.next[n] = IF n = b THEN a ELSE t.next[n]
  <2>1. t.parent[s] \in Slots /\ t.next[s] # s
    BY <1>4, <1>8
  <2> QED  BY <1>1, <1>2, <2>1, UnlinkedIs
<1> HIDE DEF u
<1>10. Live(u) = A
  BY <1>9 DEF Live, A
<1> HIDE DEF p, b, a
<1>11. \A v : Kids(u, B, v) = Kids(t, A, v) \ {s}
  BY <1>9 DEF Kids
<1>12. ASSUME NEW v \in A
       PROVE  Siblings(u, B, v)
  <2>1. CASE v = p
    <3>1. Kids(u, B, v) = K \ {s}
      BY <1>11, <2>1 DEF K
    <3>2. \A c \in K : c \in Slots /\ c # Nil
      BY <1>4, SlotFacts
    <3>3. /\ u.first[p] = (IF b = Nil THEN a ELSE t.first[p])
          /\ u.last[p] = (IF a = Nil THEN b ELSE t.last[p])
      BY <1>4, <1>9
    <3>4. \A c \in K \ {s} : /\ u.prev[c] = IF c = a THEN b ELSE t.prev[c]
                             /\ u.next[c] = IF c = b THEN a ELSE t.next[c]
      BY <1>9, <3>2
    <3>5. /\ b = Nil => t.first[p] = s
          /\ a = Nil => t.last[p] = s
          /\ b = t.prev[s] /\ a = t.next[s]
      BY <1>4, <1>5 DEF a, b
    <3>6. ASSUME NEW c \in K \ {s}
          PROVE  /\ u.prev[c] = Nil => u.first[p] = c
                 /\ u.prev[c] # Nil => u.prev[c] \in K \ {s} /\ u.next[u.prev[c]] = c
                 /\ u.next[c] = Nil => u.last[p] = c
                 /\ u.next[c] # Nil => u.next[c] \in K \ {s} /\ u.prev[u.next[c]] = c
      <4>1. u.prev[c] = Nil => u.first[p] = c
        BY <1>5, <3>3, <3>4, <3>5
      <4>2. u.prev[c] # Nil => u.prev[c] \in K \ {s} /\ u.next[u.prev[c]] = c
        <5>1. CASE c = a
          BY <1>8, <3>4, <3>2, <5>1
        <5>2. CASE c # a
          <6>1. u.prev[c] = t.prev[c]
            BY <3>4, <5>2
          <6>2. t.prev[c] # Nil => t.prev[c] \in K /\ t.next[t.prev[c]] = c
            BY <1>5
          <6>3. t.prev[c] # Nil => t.prev[c] # s /\ t.prev[c] # b
            BY <1>8, <3>5, <5>2, <6>2
          <6> QED  BY <3>4, <6>1, <6>2, <6>3
        <5> QED  BY <5>1, <5>2
      <4>3. u.next[c] = Nil => u.last[p] = c
        BY <1>5, <3>3, <3>4, <3>5
      <4>4. u.next[c] # Nil => u.next[c] \in K \ {s} /\ u.prev[u.next[c]] = c
        <5>1. CASE c = b
          BY <1>8, <3>4, <3>2, <5>1
        <5>2. CASE c # b
          <6>1. u.next[c] = t.next[c]
            BY <3>4, <5>2
          <6>2. t.next[c] # Nil => t.next[c] \in K /\ t.prev[t.next[c]] = c
            BY <1>5
          <6>3. t.next[c] # Nil => t.next[c] # s /\ t.next[c] # a
            BY <1>8, <3>5, <5>2, <6>2
          <6> QED  BY <3>4, <6>1, <6>2, <6>3
        <5> QED  BY <5>1, <5>2
      <4> QED  BY <4>1, <4>2, <4>3, <4>4
    <3>7. u.first[p] # Nil => u.first[p] \in K \ {s} /\ u.prev[u.first[p]] = Nil
      <4>1. CASE b = Nil
        BY <1>8, <3>3, <3>4, <4>1
      <4>2. CASE b # Nil
        <5>1. u.first[p] = t.first[p]
          BY <3>3, <4>2
        <5>2. t.first[p] # Nil => t.first[p] \in K /\ t.prev[t.first[p]] = Nil
          BY <1>5
        <5>3. t.first[p] # Nil => t.first[p] # s /\ t.first[p] # a
          BY <1>8, <3>5, <4>2, <5>2
        <5> QED  BY <3>4, <5>1, <5>2, <5>3
      <4> QED  BY <4>1, <4>2
    <3>8. u.last[p] # Nil => u.last[p] \in K \ {s} /\ u.next[u.last[p]] = Nil
      <4>1. CASE a = Nil
        BY <1>8, <3>3, <3>4, <4>1
      <4>2. CASE a # Nil
        <5>1. u.last[p] = t.last[p]
          BY <3>3, <4>2
        <5>2. t.last[p] # Nil => t.last[p] \in K /\ t.next[t.last[p]] = Nil
          BY <1>5
        <5>3. t.last[p] # Nil => t.last[p] # s /\ t.last[p] # b
          BY <1>8, <3>5, <4>2, <5>2
        <5> QED  BY <3>4, <5>1, <5>2, <5>3
      <4> QED  BY <4>1, <4>2
    <3>9. u.first[p] = Nil <=> u.last[p] = Nil
      BY <1>5, <1>8, <3>3, <3>5
    <3> QED  BY <2>1, <3>1, <3>6, <3>7, <3>8, <3>9 DEF Siblings
  <2>2. CASE v # p
    <3>1. v \in Slots /\ Siblings(t, A, v)
      BY <1>1, <1>2
    <3> DEFINE C == Kids(t, A, v)
    <3>2. C \subseteq Slots /\ s \notin C /\ (b # Nil => b \notin C) /\ (a # Nil => a \notin C)
      BY <1>2, <1>8, <2>2 DEF Kids, K, p
    <3>3. Kids(u, B, v) = C
      BY <1>11, <3>2
    <3>4. \A c \in C : c \in Slots /\ c # Nil /\ c # s /\ c # a /\ c # b
      BY <3>2, SlotFacts
    <3>5. \A c \in C : u.prev[c] = t.prev[c] /\ u.next[c] = t.next[c]
      BY <1>9, <3>4
    <3>6. u.first[v] = t.first[v] /\ u.last[v] = t.last[v]
      BY <1>9, <2>2, <3>1
    <3> QED  BY <3>1, <3>3, <3>5, <3>6 DEF Siblings
  <2> QED  BY <2>1, <2>2
<1>13. \A c \in B : c # Root => u.parent[c] \in A
  BY <1>1, <1>9
<1>14. Aged(u, B, rank)
  <2>1. ASSUME NEW c \in B \ {Root}
        PROVE  /\ rank[u.parent[c]] < rank[c]
               /\ u.prev[c] # Nil => rank[u.prev[c]] < rank[c]
    <3>1. c \in Slots /\ c # s /\ c \in A
      BY <1>2
    <3>2. rank[u.parent[c]] < rank[c] /\ (t.prev[c] # Nil => rank[t.prev[c]] < rank[c])
      BY <1>6, <1>9, <3>1
    <3>3. u.prev[c] = IF c = a THEN b ELSE t.prev[c]
      BY <1>9, <3>1
    <3>4. c = a /\ b # Nil => rank[b] < rank[c]
      <4>1. c = a => a # Nil
        BY <3>1, SlotFacts
      <4>2. rank[c] \in Nat /\ rank[s] \in Nat /\ (b # Nil => rank[b] \in Nat)
        BY <1>2, <1>4, <1>7, <1>8, <3>1
      <4> QED  BY <1>8, <4>1, <4>2
    <3> QED  BY <3>2, <3>3, <3>4
  <2> QED  BY <1>3, <2>1 DEF Aged
<1>15. \E unused : Stacked(u.next, u.free, unused) /\ ToSet(unused) = Slots \ A
  <2>1. PICK unused : Stacked(t.next, t.free, unused) /\ ToSet(unused) = Slots \ A
    BY <1>1
  <2>2. \A x \in ToSet(unused) : u.next[x] = t.next[x]
    <3>1. \A x \in Slots \ A : x # b
      BY <1>4, <1>8, SlotFacts
    <3> QED  BY <1>9, <2>1, <3>1
  <2>3. Stacked(u.next, u.free, unused)
    BY <1>9, <2>1, <2>2, StackedElsewhere
  <2> QED  BY <2>1, <2>3
<1>16. Linked(u, {s})
  <2>1. Live(u) \ {s} = B /\ {s} \subseteq Live(u) \ {Root} /\ Live(u) = A
    BY <1>2, <1>10
  <2>2. u \in Trees /\ u.count = Cardinality(A) /\ Root \in A /\ u.parent[Root] = Nil
    BY <1>1, <1>9
  <2> HIDE DEF B
  <2> QED  BY <1>12, <1>13, <1>14, <1>15, <2>1, <2>2 DEF Linked
<1>17. Stacked(u.prev, s, <<s>>) /\ ToSet(<<s>>) = {s}
  <2>1. u.prev[s] = Nil
    BY <1>2, <1>9
  <2> QED  BY <1>2, <2>1 DEF Stacked, IsInjective, ToSet
<1>18. Freeing([tree |-> u, pending |-> s])
  <2>1. s \in Links
    BY <1>2, SlotFacts
  <2> QED  BY <1>16, <1>17, <2>1 DEF Freeing
<1> QED  BY <1>9, <1>10, <1>18 DEF u, A

(* What freeing one slot makes of every link, when its children are told   *)
(* apart.                                                                  *)
LEMMA FreeOneIs ==
  ASSUME NEW work, work.tree \in Trees, work.pending \in Slots,
         IsInjective(ChildrenOf(work.tree, work.pending)),
         work.pending \notin ToSet(ChildrenOf(work.tree, work.pending))
  PROVE  LET t == work.tree
             s == work.pending
             kids == ChildrenOf(t, s)
             done == FreeOne(work)
             u == done.tree
         IN /\ u \in Trees
            /\ done = [tree |-> u, pending |-> done.pending]
            /\ done.pending = IF kids = <<>> THEN t.prev[s] ELSE kids[Len(kids)]
            /\ done.pending \in Links
            /\ u.free = s /\ u.count = t.count - 1
            /\ u.generation = [t.generation EXCEPT ![s] = @ + 1]
            /\ u.live = [t.live EXCEPT ![s] = FALSE]
            /\ u.parent = [t.parent EXCEPT ![s] = Nil]
            /\ u.first = [t.first EXCEPT ![s] = Nil]
            /\ u.last = [t.last EXCEPT ![s] = Nil]
            /\ u.next = [t.next EXCEPT ![s] = t.free]
            /\ \A n \in Slots \ ToSet(kids) : u.prev[n] = IF n = s THEN Nil ELSE t.prev[n]
            /\ \A i \in 1..Len(kids) :
                 u.prev[kids[i]] = IF i = 1 THEN t.prev[s] ELSE kids[i - 1]
<1> DEFINE t == work.tree
           s == work.pending
           kids == ChildrenOf(t, s)
           stack == <<t.prev[s]>> \o kids
           below == [i \in DOMAIN kids |-> stack[i]]
           prev == [n \in Slots |->
                      IF n = s THEN Nil
                      ELSE IF Contains(kids, n)
                      THEN below[CHOOSE i \in DOMAIN kids : kids[i] = n]
                      ELSE t.prev[n]]
           done == FreeOne(work)
           u == [t EXCEPT
                   !.prev = prev,
                   !.generation[s] = @ + 1, !.live[s] = FALSE, !.parent[s] = Nil,
                   !.first[s] = Nil, !.last[s] = Nil, !.next[s] = t.free,
                   !.free = s, !.count = @ - 1]
<1>1. done = [pending |-> Last(stack), tree |-> u]
  BY Zenon DEF FreeOne
<1> HIDE DEF t, s
<1>2. t \in Trees /\ s \in Slots
  BY DEF t, s
<1>3. /\ t.generation \in [Slots -> Nat] /\ t.live \in [Slots -> BOOLEAN]
      /\ t.parent \in [Slots -> Links] /\ t.first \in [Slots -> Links]
      /\ t.last \in [Slots -> Links] /\ t.prev \in [Slots -> Links]
      /\ t.next \in [Slots -> Links] /\ t.free \in Links /\ t.count \in Int
      /\ Nil \in Links /\ s \in Links
  BY <1>2, SlotFacts DEF Trees
<1>4. DOMAIN t = {"generation", "live", "parent", "first", "last", "prev", "next",
                  "free", "count"}
  BY <1>2 DEF Trees
<1> HIDE DEF prev
<1>5. u = [x \in DOMAIN t |-> u[x]]
  BY <1>2
<1>6. /\ u.generation = [t.generation EXCEPT ![s] = @ + 1]
      /\ u.live = [t.live EXCEPT ![s] = FALSE] /\ u.parent = [t.parent EXCEPT ![s] = Nil]
  BY <1>4
<1>7. /\ u.first = [t.first EXCEPT ![s] = Nil] /\ u.last = [t.last EXCEPT ![s] = Nil]
      /\ u.prev = prev
  BY <1>4
<1>8. /\ u.next = [t.next EXCEPT ![s] = t.free] /\ u.free = s /\ u.count = t.count - 1
  BY <1>4
<1> HIDE DEF u, done
<1>9. kids \in Seq(Slots) /\ Len(kids) \in Nat
  BY <1>2, ChildrenType
<1>10. <<t.prev[s]>> \in Seq(Links) /\ Len(<<t.prev[s]>>) = 1 /\ <<t.prev[s]>>[1] = t.prev[s]
  BY <1>2, <1>3
<1> HIDE DEF kids
<1>11. kids \in Seq(Links)
  <2>1. kids \in [1..Len(kids) -> Links]
    <3>1. \A x \in Slots : x \in Links
      BY SlotFacts
    <3> QED  BY <1>9, <3>1
  <2> QED  BY <1>9, <2>1
<1>12. /\ stack \in Seq(Links) /\ Len(stack) = 1 + Len(kids)
       /\ \A i \in 1..(1 + Len(kids)) : stack[i] = IF i <= 1 THEN t.prev[s] ELSE kids[i - 1]
  <2>1. /\ stack \in Seq(Links) /\ Len(stack) = 1 + Len(kids)
        /\ \A i \in 1..Len(stack) : stack[i] = IF i <= 1 THEN <<t.prev[s]>>[i] ELSE kids[i - 1]
    BY <1>10, <1>11, ConcatProperties
  <2> HIDE DEF stack
  <2> QED  BY <1>9, <1>10, <2>1
<1> HIDE DEF stack
<1>13. /\ Last(stack) = IF kids = <<>> THEN t.prev[s] ELSE kids[Len(kids)]
       /\ Last(stack) \in Links
  <2>1. 1 + Len(kids) \in 1..(1 + Len(kids)) /\ Last(stack) = stack[1 + Len(kids)]
    BY <1>9, <1>12 DEF Last
  <2>2. Last(stack) \in Links
    BY <1>12, <2>1
  <2>3. kids = <<>> <=> Len(kids) = 0
    BY <1>9
  <2> QED  BY <1>9, <1>12, <2>1, <2>2, <2>3
<1>14. DOMAIN kids = 1..Len(kids)
  BY <1>9
<1>15. \A n : Contains(kids, n) <=> n \in ToSet(kids)
  BY <1>14 DEF Contains, ToSet
<1>16. ASSUME NEW i \in 1..Len(kids)
       PROVE  /\ kids[i] \in ToSet(kids) /\ kids[i] \in Slots
              /\ prev[kids[i]] = IF i = 1 THEN t.prev[s] ELSE kids[i - 1]
  <2>1. kids[i] \in ToSet(kids) /\ kids[i] \in Slots /\ kids[i] # s
    BY <1>9, <1>14 DEF ToSet, kids, s, t
  <2>2. prev[kids[i]] = below[CHOOSE j \in DOMAIN kids : kids[j] = kids[i]]
    BY <1>15, <2>1 DEF prev
  <2>3. (CHOOSE j \in DOMAIN kids : kids[j] = kids[i]) = i
    <3>1. \A j \in DOMAIN kids : kids[j] = kids[i] => j = i
      BY <1>14 DEF IsInjective, kids, s, t
    <3> QED  BY <1>14, <3>1
  <2>4. below[i] = stack[i] /\ i \in 1..(1 + Len(kids)) /\ (i <= 1 <=> i = 1)
    BY <1>9, <1>14
  <2> QED  BY <1>12, <2>1, <2>2, <2>3, <2>4
<1>17. \A n \in Slots \ ToSet(kids) : prev[n] = IF n = s THEN Nil ELSE t.prev[n]
  BY <1>15 DEF prev
<1>18. prev \in [Slots -> Links]
  <2>1. ASSUME NEW n \in Slots
        PROVE  prev[n] \in Links
    <3>1. CASE n \in ToSet(kids)
      <4>1. PICK i \in 1..Len(kids) : n = kids[i]
        BY <1>14, <3>1 DEF ToSet
      <4>2. i # 1 => i - 1 \in 1..Len(kids)
        BY <1>9
      <4>3. i # 1 => kids[i - 1] \in Links
        BY <1>11, <4>2
      <4>4. t.prev[s] \in Links
        BY <1>2, <1>3
      <4> QED  BY <1>16, <4>1, <4>3, <4>4
    <3>2. CASE n \notin ToSet(kids)
      BY <1>3, <1>17, <3>2
    <3> QED  BY <3>1, <3>2
  <2>2. prev = [n \in Slots |-> prev[n]]
    BY DEF prev
  <2> QED  BY <2>1, <2>2
<1>19. u \in Trees
  <2>1. [t.generation EXCEPT ![s] = @ + 1] \in [Slots -> Nat]
    BY <1>2, <1>3
  <2>2. [t.live EXCEPT ![s] = FALSE] \in [Slots -> BOOLEAN]
    BY <1>3
  <2>3. /\ [t.parent EXCEPT ![s] = Nil] \in [Slots -> Links]
        /\ [t.first EXCEPT ![s] = Nil] \in [Slots -> Links]
        /\ [t.last EXCEPT ![s] = Nil] \in [Slots -> Links]
        /\ [t.next EXCEPT ![s] = t.free] \in [Slots -> Links]
    BY <1>3
  <2>4. t.count - 1 \in Int
    BY <1>3
  <2> QED  BY <1>3, <1>4, <1>5, <1>6, <1>7, <1>8, <1>18, <2>1, <2>2, <2>3, <2>4 DEF Trees
<1>20. done.tree = u /\ done.pending = Last(stack) /\ done = [tree |-> done.tree, pending |-> done.pending]
  BY <1>1
<1> QED  BY <1>6, <1>7, <1>8, <1>13, <1>16, <1>17, <1>19, <1>20 DEF kids, done, s, t

(* Freeing one of those that wait leaves its children waiting.             *)
THEOREM FreeOneKeeps ==
  ASSUME NEW work, Freeing(work), work.pending # Nil
  PROVE  LET t == work.tree
             s == work.pending
             done == FreeOne(work)
         IN /\ Freeing(done)
            /\ done = [tree |-> done.tree, pending |-> done.pending]
            /\ s \in Live(t) /\ Live(done.tree) = Live(t) \ {s}
            /\ done.tree.generation = [t.generation EXCEPT ![s] = @ + 1]
            /\ t \in Trees
<1> DEFINE t == work.tree
           s == work.pending
<1>1. s \in Slots
  BY DEF Freeing, Links
<1>2. PICK stack : Stacked(t.prev, s, stack) /\ Linked(t, ToSet(stack))
  BY DEF Freeing
<1> HIDE DEF t, s
<1> DEFINE S == ToSet(stack)
           A == Live(t) \ S
           L == Live(t)
           K == Kids(t, A, s)
           kids == ChildrenOf(t, s)
           done == FreeOne(work)
           u == done.tree
           M == L \ {s}
           B == A \ K
           W == (S \ {s}) \cup K
<1>3. /\ t \in Trees
      /\ S \subseteq L \ {Root}
      /\ Root \in L /\ t.parent[Root] = Nil
      /\ \A v \in L : Siblings(t, A, v)
      /\ \A c \in A : c # Root => t.parent[c] \in L
      /\ \E rank : Aged(t, A, rank)
      /\ \E unused : Stacked(t.next, t.free, unused) /\ ToSet(unused) = Slots \ L
      /\ t.count = Cardinality(L)
  BY <1>2 DEF Linked
<1>4. /\ t.live \in [Slots -> BOOLEAN] /\ t.parent \in [Slots -> Links]
      /\ t.first \in [Slots -> Links] /\ t.last \in [Slots -> Links]
      /\ t.prev \in [Slots -> Links] /\ t.next \in [Slots -> Links]
  BY <1>3 DEF Trees
<1>5. PICK rest : /\ Stacked(t.prev, t.prev[s], rest)
                  /\ ToSet(rest) = S \ {s} /\ s \in S
  BY <1>1, <1>2, <1>4, Popped
<1>6. L \subseteq Slots /\ IsFiniteSet(L) /\ A \subseteq Slots /\ s \in L /\ s # Root
  BY <1>3, <1>5, LiveFinite
<1> HIDE DEF L, S
<1>7. PICK rank : Aged(t, A, rank)
  BY <1>3
<1>8. Root \notin K /\ K \subseteq A /\ s \notin K
  BY <1>3, <1>5, <1>6, SlotFacts DEF Kids
<1> HIDE DEF A
<1>9. /\ kids \in Seq(Slots) /\ IsInjective(kids) /\ ToSet(kids) = K
  <2>1. Root \notin Kids(t, A, s) /\ Siblings(t, A, s)
    BY <1>3, <1>6, <1>8
  <2>2. t \in Trees /\ A \subseteq Slots /\ s \in Slots /\ Aged(t, A, rank)
    BY <1>1, <1>3, <1>6, <1>7
  <2> HIDE DEF K, u, done, kids
  <2>3. InOrder(t, Kids(t, A, s), s, ChildrenOf(t, s))
    BY <2>1, <2>2, ChildrenAre
  <2> QED  BY <2>3 DEF InOrder, K, kids
<1> HIDE DEF K
<1>10. /\ u \in Trees
       /\ done = [tree |-> u, pending |-> done.pending]
       /\ done.pending = IF kids = <<>> THEN t.prev[s] ELSE kids[Len(kids)]
       /\ done.pending \in Links
       /\ u.free = s /\ u.count = t.count - 1
       /\ u.generation = [t.generation EXCEPT ![s] = @ + 1]
       /\ u.live = [t.live EXCEPT ![s] = FALSE]
       /\ u.parent = [t.parent EXCEPT ![s] = Nil]
       /\ u.first = [t.first EXCEPT ![s] = Nil]
       /\ u.last = [t.last EXCEPT ![s] = Nil]
       /\ u.next = [t.next EXCEPT ![s] = t.free]
       /\ \A n \in Slots \ ToSet(kids) : u.prev[n] = IF n = s THEN Nil ELSE t.prev[n]
       /\ \A i \in 1..Len(kids) :
            u.prev[kids[i]] = IF i = 1 THEN t.prev[s] ELSE kids[i - 1]
  <2>1. IsInjective(ChildrenOf(t, s)) /\ s \notin ToSet(ChildrenOf(t, s))
    BY <1>8, <1>9
  <2>2. t \in Trees /\ s \in Slots
    BY <1>1, <1>3
  <2> QED  BY <2>1, <2>2, FreeOneIs DEF t, s
<1> HIDE DEF done, kids
<1>11. Live(u) = M
  BY <1>4, <1>10 DEF Live, L
<1>12. \A n \in Slots : n # s => /\ u.parent[n] = t.parent[n] /\ u.first[n] = t.first[n]
                                /\ u.last[n] = t.last[n] /\ u.next[n] = t.next[n]
  BY <1>4, <1>10
<1>13. \A n \in Slots : n # s /\ n \notin K => u.prev[n] = t.prev[n]
  BY <1>9, <1>10
<1>14. M \ W = B /\ s \notin A /\ s \notin B /\ B \subseteq Slots /\ B \subseteq A
  <2>1. A = L \ S
    BY DEF A, L
  <2> QED  BY <1>5, <1>6, <1>8, <2>1
<1>15. \A c \in A : t.parent[c] = s <=> c \in K
  BY DEF K, Kids
<1>16. ASSUME NEW v \in M
       PROVE  Siblings(u, B, v)
  <2>1. v \in Slots /\ v # s /\ Siblings(t, A, v)
    BY <1>3, <1>6
  <2> DEFINE C == Kids(t, A, v)
  <2>2. C \subseteq B /\ C \subseteq Slots /\ \A c \in C : c # s /\ c \notin K
    BY <1>14, <1>15, <2>1 DEF Kids
  <2>3. Kids(u, B, v) = C
    <3>1. \A c \in B : u.parent[c] = t.parent[c]
      BY <1>12, <1>14
    <3> QED  BY <1>14, <2>2, <3>1 DEF Kids
  <2>4. \A c \in C : u.prev[c] = t.prev[c] /\ u.next[c] = t.next[c]
    BY <1>12, <1>13, <2>2
  <2>5. u.first[v] = t.first[v] /\ u.last[v] = t.last[v]
    BY <1>12, <2>1
  <2> QED  BY <2>1, <2>3, <2>4, <2>5 DEF Siblings
<1>17. \A c \in B : c # Root => u.parent[c] \in M
  <2> SUFFICES ASSUME NEW c \in B, c # Root PROVE u.parent[c] \in M
    OBVIOUS
  <2>1. c \in A /\ c \notin K /\ c \in Slots /\ c # s
    BY <1>14
  <2>2. u.parent[c] = t.parent[c] /\ t.parent[c] \in L /\ t.parent[c] # s
    BY <1>3, <1>12, <1>15, <2>1
  <2> QED  BY <2>2
<1>18. Aged(u, B, rank)
  <2>1. ASSUME NEW c \in B \ {Root}
        PROVE  /\ rank[u.parent[c]] < rank[c]
               /\ u.prev[c] # Nil => rank[u.prev[c]] < rank[c]
    <3>1. c \in A \ {Root} /\ c \in Slots /\ c # s /\ c \notin K
      BY <1>14
    <3>2. u.parent[c] = t.parent[c] /\ u.prev[c] = t.prev[c]
      BY <1>12, <1>13, <3>1
    <3> QED  BY <1>7, <3>1, <3>2 DEF Aged
  <2> QED  BY <1>7, <2>1 DEF Aged
<1>19. \E unused : Stacked(u.next, u.free, unused) /\ ToSet(unused) = Slots \ M
  <2>1. PICK unused : Stacked(t.next, t.free, unused) /\ ToSet(unused) = Slots \ L
    BY <1>3
  <2>2. s \notin ToSet(unused)
    BY <1>6, <2>1
  <2>3. \A x \in ToSet(unused) : u.next[x] = t.next[x]
    BY <1>12, <2>1, <2>2
  <2>4. u.next[s] = t.free
    BY <1>1, <1>4, <1>10
  <2>5. PICK pile : Stacked(u.next, s, pile) /\ ToSet(pile) = ToSet(unused) \cup {s}
    <3> HIDE DEF u, L
    <3> QED  BY <1>1, <2>1, <2>2, <2>3, <2>4, Pushed
  <2>6. ToSet(pile) = Slots \ M
    BY <1>6, <2>1, <2>5
  <2> QED  BY <1>10, <2>5, <2>6
<1>20. u.count = Cardinality(M)
  <2>1. Cardinality(L \ {s}) = Cardinality(L) - 1
    BY <1>6, FS_RemoveElement
  <2> QED  BY <1>3, <1>10, <2>1
<1>21. Linked(u, W)
  <2>1. W \subseteq M \ {Root} /\ Root \in M
    <3>1. A = L \ S
      BY DEF A, L
    <3> QED  BY <1>3, <1>5, <1>6, <1>8, <3>1
  <2>2. u.parent[Root] = Nil
    BY <1>3, <1>6, <1>12, SlotFacts
  <2> HIDE DEF M, W, B
  <2> QED  BY <1>10, <1>11, <1>14, <1>16, <1>17, <1>18, <1>19, <1>20, <2>1, <2>2 DEF Linked
<1>22. \E pile : Stacked(u.prev, done.pending, pile) /\ ToSet(pile) = W
  <2>1. ToSet(kids) \cap ToSet(rest) = {}
    <3>1. A \cap S = {}
      BY DEF A
    <3> QED  BY <1>5, <1>8, <1>9, <3>1
  <2>2. \A x \in ToSet(rest) : u.prev[x] = t.prev[x]
    <3>1. \A x \in ToSet(rest) : x \in Slots /\ x # s /\ x \notin K
      BY <1>3, <1>5, <1>6, <1>9, <2>1
    <3> QED  BY <1>13, <3>1
  <2>3. \A i \in 1..Len(kids) :
          u.prev[kids[i]] = IF i = 1 THEN t.prev[s] ELSE kids[i - 1]
    BY <1>10
  <2>4. \E pile : /\ Stacked(u.prev, IF kids = <<>> THEN t.prev[s] ELSE kids[Len(kids)], pile)
                  /\ ToSet(pile) = ToSet(rest) \cup ToSet(kids)
    <3>1. Stacked(t.prev, t.prev[s], rest)
      BY <1>5
    <3>2. kids \in Seq(Slots) /\ IsInjective(kids)
      BY <1>9
    <3> HIDE DEF u
    <3> QED  BY <2>1, <2>2, <2>3, <3>1, <3>2, Piled
  <2> QED  BY <1>5, <1>9, <1>10, <2>4
<1>23. Freeing(done)
  <2>1. PICK pile : Stacked(u.prev, done.pending, pile) /\ ToSet(pile) = W
    BY <1>22
  <2>2. Linked(u, ToSet(pile))
    BY <1>21, <2>1
  <2> QED  BY <1>10, <2>1, <2>2 DEF Freeing
<1> QED  BY <1>3, <1>6, <1>10, <1>11, <1>23 DEF done, L, t, s

FreeWorks == {work \in [tree : Trees, pending : Links] : Freeing(work)}

(* One turn of free_subtree ends one node, and its generation moves on.   *)
LEMMA FreeWork ==
  ASSUME NEW work \in FreeWorks
  PROVE  /\ FreeNext(work) \in FreeWorks
         /\ work.pending # Nil =>
              LET s == work.pending
                  u == FreeNext(work).tree
              IN /\ s \in Live(work.tree) /\ Live(u) = Live(work.tree) \ {s}
                 /\ u.generation = [work.tree.generation EXCEPT ![s] = @ + 1]
<1>1. work \in [tree : Trees, pending : Links] /\ Freeing(work)
  BY DEF FreeWorks
<1>2. CASE work.pending = Nil
  <2>1. FreeNext(work) = work
    BY <1>2 DEF FreeNext
  <2> QED  BY <1>2, <2>1
<1>3. CASE work.pending # Nil
  <2> DEFINE done == FreeOne(work)
  <2>1. /\ Freeing(done)
        /\ done = [tree |-> done.tree, pending |-> done.pending]
        /\ work.pending \in Live(work.tree)
        /\ Live(done.tree) = Live(work.tree) \ {work.pending}
        /\ done.tree.generation = [work.tree.generation EXCEPT ![work.pending] = @ + 1]
    BY <1>1, <1>3, FreeOneKeeps
  <2>2. FreeNext(work) = done
    BY <1>3 DEF FreeNext
  <2> HIDE DEF done
  <2>3. done.tree \in Trees /\ done.pending \in Links
    BY <2>1 DEF Freeing, Linked
  <2>4. done \in FreeWorks
    BY <2>1, <2>3 DEF FreeWorks
  <2> QED  BY <2>1, <2>2, <2>4
<1> QED  BY <1>2, <1>3

Cut1(t, s) == [tree |-> [Unlinked(t, s) EXCEPT !.prev[s] = Nil], pending |-> s]

(* The work free_subtree begins with.                                     *)
LEMMA CutFree ==
  ASSUME NEW t, TreeInv(t), NEW s \in Live(t), s # Root
  PROVE  /\ Cut1(t, s) \in FreeWorks
         /\ Live(Cut1(t, s).tree) = Live(t)
         /\ Cut1(t, s).tree.generation = t.generation
         /\ Cut1(t, s).pending = s
<1> DEFINE u == [Unlinked(t, s) EXCEPT !.prev[s] = Nil]
<1>1. Freeing([tree |-> u, pending |-> s]) /\ Live(u) = Live(t) /\ u.generation = t.generation
  BY UnlinkedMayBeFreed
<1>2. Cut1(t, s) = [tree |-> u, pending |-> s]
  BY DEF Cut1
<1> HIDE DEF u
<1>3. u \in Trees /\ s \in Links
  BY <1>1 DEF Freeing, Linked
<1> QED  BY <1>1, <1>2, <1>3 DEF FreeWorks

(* A turn of free_subtree leaves work it can go on with.                  *)
LEMMA FreeWorksClosed ==
  \A work \in FreeWorks : FreeNext(work) \in FreeWorks
BY FreeWork

(* The turns a subtree is freed in. *)
FreeWalk(g, t, s) ==
  g = [n \in 0..Nodes |-> IF n = 0 THEN Cut1(t, s) ELSE FreeNext(g[n - 1])]

(* A removal takes as many turns as there are slots, or fewer.            *)
LEMMA FreeIs ==
  ASSUME NEW t, TreeInv(t), NEW s \in Live(t), s # Root
  PROVE  \E g \in [0..Nodes -> FreeWorks] :
           /\ g[0] = Cut1(t, s)
           /\ \A n \in 0..(Nodes - 1) : g[n + 1] = FreeNext(g[n])
           /\ Pruned(t, s) = g[Nodes].tree
<1> DEFINE S == FreeWorks
           none == Cut1(t, s)
           f == [from \in S |-> FreeNext(from)]
           g == CHOOSE h : FreeWalk(h, t, s)
<1>1. Pruned(t, s) = g[Nodes].tree
  BY Zenon DEF Pruned, Cut1, Repeated, FreeWalk
<1>2. f \in [S -> S] /\ none \in S /\ Nodes \in Nat
  BY CutFree, FreeWorksClosed, SlotFacts
<1>3. \E h : FreeWalk(h, t, s)
  <2> HIDE DEF f, S, none
  <2>1. PICK h \in [0..Nodes -> S] : Turns(h, f, none, Nodes)
    <3>1. f \in [S -> S] /\ none \in S /\ Nodes \in Nat
      BY <1>2
    <3> QED  BY <3>1, Repetition
  <2> DEFINE k == [n \in 0..Nodes |-> IF n = 0 THEN none ELSE FreeNext(h[n - 1])]
  <2>2. ASSUME NEW n \in 0..Nodes
        PROVE  h[n] = k[n]
    <3>1. n # 0 => n - 1 \in 0..Nodes
      BY SlotFacts
    <3>2. n # 0 => h[n - 1] \in S
      BY <3>1
    <3>3. n # 0 => f[h[n - 1]] = FreeNext(h[n - 1])
      BY <3>2 DEF f
    <3> QED  BY <2>1, <3>3 DEF Turns
  <2>3. h = [n \in 0..Nodes |-> h[n]]
    OBVIOUS
  <2>4. h = k
    BY <2>2, <2>3
  <2> QED  BY <2>4 DEF FreeWalk, none
<1>4. FreeWalk(g, t, s)
  BY <1>3, Zenon
<1> HIDE DEF g
<1>5. ASSUME NEW m \in 0..Nodes
      PROVE  g[m] = IF m = 0 THEN none ELSE FreeNext(g[m - 1])
  BY <1>4, Zenon DEF FreeWalk
<1>6. g[0] = none
  <2>1. 0 \in 0..Nodes
    BY SlotFacts
  <2> HIDE DEF none
  <2> QED  BY <2>1, <1>5
<1>7. ASSUME NEW n \in 0..(Nodes - 1)
      PROVE  g[n + 1] = FreeNext(g[n])
  <2>1. n + 1 \in 0..Nodes /\ n + 1 # 0 /\ n + 1 - 1 = n
    BY SlotFacts
  <2> HIDE DEF none
  <2> QED  BY <2>1, <1>5
<1>8. g \in [0..Nodes -> S]
  <2> DEFINE M == {n \in Nat : n <= Nodes => g[n] \in S}
  <2>1. 0 \in M
    BY <1>2, <1>6
  <2>2. ASSUME NEW n \in Nat, n \in M
        PROVE  n + 1 \in M
    <3>1. CASE n + 1 <= Nodes
      <4>1. n \in 0..(Nodes - 1) /\ n <= Nodes /\ n + 1 \in Nat
        BY <3>1, SlotFacts
      <4>2. g[n] \in S
        BY <2>2, <4>1
      <4>3. f[g[n]] \in S /\ f[g[n]] = FreeNext(g[n])
        <5> HIDE DEF S, none
        <5> QED  BY <1>2, <4>2 DEF f
      <4>4. g[n + 1] \in S
        BY <1>7, <4>1, <4>3
      <4> QED  BY <4>1, <4>4
    <3>2. CASE ~(n + 1 <= Nodes)
      BY <3>2
    <3> QED  BY <3>1, <3>2
  <2> HIDE DEF M
  <2>3. Nat \subseteq M
    BY <2>1, <2>2, Induction
  <2>4. \A n \in 0..Nodes : g[n] \in S
    BY <2>3, SlotFacts DEF M
  <2>5. g = [n \in 0..Nodes |-> g[n]]
    BY <1>4 DEF FreeWalk
  <2> QED  BY <2>4, <2>5
<1> QED  BY <1>1, <1>6, <1>7, <1>8

(* Removing a node leaves a sound arena, without it, and ends the ids of   *)
(* those that went, and of those alone.                                    *)
THEOREM PrunedKeepsTree ==
  ASSUME NEW t, TreeInv(t), NEW s \in Live(t), s # Root
  PROVE  LET u == Pruned(t, s)
         IN /\ TreeInv(u)
            /\ Live(u) \subseteq Live(t) \ {s}
            /\ \A n \in Slots :
                 u.generation[n] = IF n \in Live(t) \ Live(u) THEN t.generation[n] + 1
                                   ELSE t.generation[n]
<1>1. PICK g \in [0..Nodes -> FreeWorks] :
           /\ g[0] = Cut1(t, s)
           /\ \A n \in 0..(Nodes - 1) : g[n + 1] = FreeNext(g[n])
           /\ Pruned(t, s) = g[Nodes].tree
  BY FreeIs
<1> DEFINE Dead(u) == Live(t) \ Live(u)
           Ends(u) == \A n \in Slots :
                        u.generation[n] = IF n \in Dead(u) THEN t.generation[n] + 1
                                          ELSE t.generation[n]
           Left(w, n) == /\ Live(w.tree) \subseteq Live(t)
                         /\ IF n = 0 THEN w.pending = s ELSE s \notin Live(w.tree)
                         /\ w.pending = Nil \/ Cardinality(Live(w.tree)) <= Nodes - n
                         /\ Ends(w.tree)
           M == {n \in Nat : n <= Nodes => Left(g[n], n)}
<1>2. Live(t) \subseteq Slots /\ s \in Slots /\ t \in Trees
  BY LiveFinite DEF TreeInv, Linked
<1>3. t.generation \in [Slots -> Nat]
  BY <1>2 DEF Trees
<1>4. 0 \in M
  <2>1. /\ Live(g[0].tree) = Live(t) /\ g[0].tree.generation = t.generation
        /\ g[0].pending = s
    BY <1>1, CutFree
  <2>2. Cardinality(Live(t)) <= Nodes - 0
    <3>1. IsFiniteSet(Slots) /\ Cardinality(Slots) = Nodes
      <4>1. 0 \in Int /\ Nodes - 1 \in Int /\ ~(0 > Nodes - 1) /\ Nodes - 1 - 0 + 1 = Nodes
        BY SlotFacts
      <4>2. IsFiniteSet(0..(Nodes - 1)) /\ Cardinality(0..(Nodes - 1)) = Nodes
        BY <4>1, FS_Interval
      <4> QED  BY <4>2 DEF Slots
    <3>2. Cardinality(Live(t)) <= Cardinality(Slots)
      BY <1>2, <3>1, FS_Subset
    <3> QED  BY <3>1, <3>2, SlotFacts
  <2> QED  BY <2>1, <2>2
<1>5. ASSUME NEW n \in Nat, n \in M
      PROVE  n + 1 \in M
  <2> SUFFICES ASSUME n + 1 <= Nodes PROVE Left(g[n + 1], n + 1)
    OBVIOUS
  <2> DEFINE w == g[n]
             x == g[n + 1]
             c == w.pending
  <2>1. n \in 0..(Nodes - 1) /\ n \in 0..Nodes /\ n <= Nodes /\ n + 1 # 0
    BY SlotFacts
  <2>2. w \in FreeWorks /\ x = FreeNext(w) /\ Left(w, n)
    BY <1>1, <1>5, <2>1
  <2> HIDE DEF w, x
  <2>3. CASE c = Nil
    <3>1. x = w
      BY <2>2, <2>3 DEF FreeNext
    <3>2. n # 0
      BY <1>2, <2>2, <2>3, SlotFacts
    <3>3. Left(x, n + 1)
      BY <2>1, <2>2, <2>3, <3>1, <3>2
    <3> QED  BY <3>3 DEF x
  <2>4. CASE c # Nil
    <3>1. /\ c \in Live(w.tree) /\ Live(x.tree) = Live(w.tree) \ {c}
          /\ x.tree.generation = [w.tree.generation EXCEPT ![c] = @ + 1]
      BY <2>2, <2>4, FreeWork
    <3>2. Live(w.tree) \subseteq Live(t) /\ Ends(w.tree)
      BY <2>2
    <3>3. w.tree.generation \in [Slots -> Nat]
      BY <2>2 DEF FreeWorks, Trees
    <3>4. Ends(x.tree)
      <4>1. c \notin Dead(w.tree) /\ Dead(x.tree) = Dead(w.tree) \cup {c} /\ c \in Slots
        BY <1>2, <3>1, <3>2
      <4>2. \A m \in Slots : x.tree.generation[m] = IF m = c THEN w.tree.generation[m] + 1
                                                    ELSE w.tree.generation[m]
        BY <3>1, <3>3
      <4> HIDE DEF Dead
      <4> QED  BY <3>2, <4>1, <4>2
    <3>5. Cardinality(Live(x.tree)) <= Nodes - (n + 1)
      <4>1. IsFiniteSet(Live(w.tree)) /\ Cardinality(Live(w.tree)) <= Nodes - n
        BY <2>2, <2>4, LiveFinite
      <4>2. Cardinality(Live(w.tree)) \in Nat
        BY <4>1, FS_CardinalityType
      <4>3. Cardinality(Live(x.tree)) = Cardinality(Live(w.tree)) - 1
        BY <3>1, <4>1, FS_RemoveElement
      <4> QED  BY <4>1, <4>2, <4>3, SlotFacts
    <3>6. s \notin Live(x.tree)
      <4>1. CASE n = 0
        BY <2>2, <3>1, <4>1
      <4>2. CASE n # 0
        BY <2>2, <3>1, <4>2
      <4> QED  BY <4>1, <4>2
    <3>7. Left(x, n + 1)
      <4> HIDE DEF Ends
      <4> QED  BY <2>1, <3>1, <3>2, <3>4, <3>5, <3>6
    <3> QED  BY <3>7 DEF x
  <2> QED  BY <2>3, <2>4
<1> HIDE DEF M
<1>6. Nat \subseteq M
  BY <1>4, <1>5, Induction
<1> DEFINE w == g[Nodes]
<1>7. w \in FreeWorks /\ Left(w, Nodes)
  <2>1. Nodes \in M /\ Nodes <= Nodes /\ Nodes \in 0..Nodes
    BY <1>6, SlotFacts
  <2> HIDE DEF Left
  <2> QED  BY <2>1 DEF M
<1> HIDE DEF w
<1>8. PICK stack : Stacked(w.tree.prev, w.pending, stack) /\ Linked(w.tree, ToSet(stack))
  BY <1>7 DEF FreeWorks, Freeing
<1>9. w.pending = Nil
  <2>1. Root \in Live(w.tree) /\ IsFiniteSet(Live(w.tree))
    BY <1>8, LiveFinite DEF Linked
  <2>2. Cardinality(Live(w.tree)) # 0 /\ Cardinality(Live(w.tree)) \in Nat
    BY <2>1, FS_EmptySet, FS_CardinalityType
  <2> QED  BY <1>7, <2>2, SlotFacts
<1>10. TreeInv(w.tree)
  <2>1. stack = <<>>
    <3>1. stack \in Seq(Slots) /\ (stack # <<>> => stack[Len(stack)] = Nil)
      BY <1>8, <1>9 DEF Stacked
    <3>2. stack # <<>> => stack[Len(stack)] \in Slots
      BY <3>1
    <3> QED  BY <3>1, <3>2, SlotFacts
  <2>2. ToSet(stack) = {}
    BY <2>1 DEF ToSet
  <2> QED  BY <1>8, <2>2 DEF TreeInv
<1>11. Live(w.tree) \subseteq Live(t) \ {s} /\ Ends(w.tree)
  BY <1>7, SlotFacts
<1>12. Pruned(t, s) = w.tree
  BY <1>1 DEF w
<1> QED  BY <1>10, <1>11, <1>12

Sprout(g, n) == IF n = 1 THEN NewTree ELSE Grown(g[n - 1], Document[n].parent)

Grows(g, n) == g = [m \in 1..n |-> Sprout(g, m)]

(* A document has a tree after each of its nodes.                         *)
LEMMA GrowsExists == \A n \in Nat : \E g : Grows(g, n)
<1> DEFINE S == {n \in Nat : \E g : Grows(g, n)}
<1>1. 0 \in S
  <2>1. Grows(<<>>, 0)
    BY DEF Grows
  <2> QED  BY <2>1
<1>2. ASSUME NEW n \in Nat, n \in S
      PROVE  n + 1 \in S
  <2>1. PICK g : Grows(g, n)
    BY <1>2
  <2> DEFINE h == [m \in 1..(n + 1) |-> IF m = n + 1 THEN Sprout(g, n + 1) ELSE g[m]]
             k == [m \in 1..(n + 1) |-> Sprout(h, m)]
  <2>2. ASSUME NEW m \in 1..(n + 1)
        PROVE  h[m] = k[m]
    <3>1. m # 1 => m - 1 \in 1..(n + 1) /\ m - 1 # n + 1 /\ h[m - 1] = g[m - 1]
      OBVIOUS
    <3>2. Sprout(h, m) = Sprout(g, m)
      <4> HIDE DEF h
      <4> QED  BY <3>1 DEF Sprout
    <3>3. CASE m = n + 1
      BY <3>2, <3>3
    <3>4. CASE m # n + 1
      <4>1. m \in 1..n
        BY <3>4
      <4>2. g[m] = Sprout(g, m)
        <5> DEFINE f == [i \in 1..n |-> Sprout(g, i)]
        <5>1. f[m] = Sprout(g, m)
          BY <4>1
        <5>2. g = f
          BY <2>1, Zenon DEF Grows
        <5> HIDE DEF f
        <5> QED  BY <5>1, <5>2
      <4> QED  BY <3>2, <3>4, <4>2
    <3> QED  BY <3>3, <3>4
  <2>3. h = k
    BY <2>2
  <2> HIDE DEF h
  <2>4. Grows(h, n + 1)
    BY <2>3 DEF Grows
  <2> QED  BY <2>4
<1> HIDE DEF S
<1>3. Nat \subseteq S
  BY <1>1, <1>2, Induction
<1> QED  BY <1>3 DEF S

(* The trees a document grows through. *)
LEMMA LoadedIs ==
  \E g : /\ g[1] = NewTree
         /\ \A n \in 1..(Nodes - 1) : g[n + 1] = Grown(g[n], Document[n + 1].parent)
         /\ Loaded = g[Nodes]
<1> DEFINE g == CHOOSE h : Grows(h, Nodes)
<1>1. Loaded = g[Nodes]
  BY Zenon DEF Loaded, Grows, Sprout
<1>2. Grows(g, Nodes)
  <2>1. \E h : Grows(h, Nodes)
    BY GrowsExists, SlotFacts
  <2> QED  BY <2>1, Zenon
<1> HIDE DEF g
<1>3. ASSUME NEW m \in 1..Nodes
      PROVE  g[m] = Sprout(g, m)
  <2> DEFINE f == [i \in 1..Nodes |-> Sprout(g, i)]
  <2>1. f[m] = Sprout(g, m)
    OBVIOUS
  <2>2. g = f
    BY <1>2, Zenon DEF Grows
  <2> HIDE DEF f
  <2> QED  BY <2>1, <2>2
<1>4. g[1] = NewTree
  <2>1. 1 \in 1..Nodes
    BY SlotFacts
  <2> QED  BY <1>3, <2>1 DEF Sprout
<1>5. ASSUME NEW n \in 1..(Nodes - 1)
      PROVE  g[n + 1] = Grown(g[n], Document[n + 1].parent)
  <2>1. n + 1 \in 1..Nodes /\ n + 1 # 1 /\ n + 1 - 1 = n
    BY SlotFacts
  <2>2. g[n + 1] = Sprout(g, n + 1)
    BY <1>3, <2>1
  <2> QED  BY <2>1, <2>2 DEF Sprout
<1> QED  BY <1>1, <1>4, <1>5

Follow(s) == IF s + 1 < Nodes THEN s + 1 ELSE Nil

(* The arena once n nodes of the document are in it. *)
Holding(t, n) ==
  /\ TreeInv(t) /\ Live(t) = 0..(n - 1)
  /\ t.free = IF n < Nodes THEN n ELSE Nil
  /\ \A s \in Slots : s >= n => t.next[s] = Follow(s)
  /\ t.generation = [s \in Slots |-> 1]

(* The next node of the document goes to the next slot. *)
LEMMA HoldingGrows ==
  ASSUME NEW t, NEW m \in Nat, m > 0, m < Nodes, Holding(t, m), NEW p \in 0..(m - 1)
  PROVE  Holding(Grown(t, p), m + 1)
<1> DEFINE u == Grown(t, p)
<1>1. m \in 1..(Nodes - 1) /\ m < Nodes /\ m <= Nodes /\ m + 1 \in 1..Nodes /\ m \in Slots /\ m \in Nat
  BY SlotFacts DEF Slots
<1>2. Holding(t, m)
  OBVIOUS
<1>3. p \in 0..(m - 1)
  OBVIOUS
<1>4. TreeInv(t) /\ p \in Live(t) /\ t.free # Nil /\ t.free = m
  BY <1>1, <1>2, <1>3, SlotFacts DEF Holding
<1>5. /\ TreeInv(u) /\ t.free \in Slots \ Live(t)
      /\ Live(u) = Live(t) \cup {t.free}
      /\ u.generation = t.generation
  BY <1>4, GrownKeepsTree
<1>6. Live(u) = 0..(m + 1 - 1)
  <2>1. (0..(m - 1)) \cup {m} = 0..(m + 1 - 1)
    BY <1>1
  <2> QED  BY <1>2, <1>4, <1>5, <2>1 DEF Holding
<1>7. t \in Trees /\ p \in Slots
  BY <1>4, LiveFinite DEF TreeInv, Linked
<1>8. t.last[p] = Nil \/ t.last[p] \in Live(t)
  <2>1. Siblings(t, Live(t) \ {}, p)
    BY <1>4 DEF TreeInv, Linked
  <2> QED  BY <2>1 DEF Siblings, Kids
<1>9. t.free \in Slots /\ t.free # p /\ t.last[p] # t.free
  BY <1>4, <1>5, <1>8
<1>10. /\ u \in Trees
       /\ u.generation = t.generation /\ u.free = t.next[t.free] /\ u.count = t.count + 1
       /\ u.live = [t.live EXCEPT ![t.free] = TRUE]
       /\ u.parent = [t.parent EXCEPT ![t.free] = p]
       /\ \A n_1 \in Slots :
            /\ u.first[n_1] = IF n_1 = t.free THEN Nil
                            ELSE IF n_1 = p /\ t.last[p] = Nil THEN t.free ELSE t.first[n_1]
            /\ u.last[n_1] = IF n_1 = p THEN t.free ELSE IF n_1 = t.free THEN Nil ELSE t.last[n_1]
            /\ (t.last[p] # t.free => u.prev[n_1] = IF n_1 = t.free THEN t.last[p] ELSE t.prev[n_1])
            /\ (t.last[p] # t.free => u.next[n_1] = IF n_1 = t.free THEN Nil
                                        ELSE IF n_1 = t.last[p] THEN t.free ELSE t.next[n_1])
  <2>1. t.free \in Slots /\ t.free # p
    BY <1>9
  <2> QED  BY <1>7, <2>1, GrownIs
<1> HIDE DEF u
<1>11. /\ u.free = t.next[t.free]
       /\ \A s \in Slots : u.next[s] = IF s = t.free THEN Nil
                                       ELSE IF s = t.last[p] THEN t.free ELSE t.next[s]
  BY <1>9, <1>10
<1>12. u.free = IF m + 1 < Nodes THEN m + 1 ELSE Nil
  <2>1. t.next[m] = Follow(m)
    BY <1>1, <1>2 DEF Holding
  <2> QED  BY <1>4, <1>11, <2>1 DEF Follow
<1>13. ASSUME NEW s \in Slots, s >= m + 1
       PROVE  u.next[s] = Follow(s)
  <2>1. s \in Nat /\ s >= m /\ s # m
    BY <1>1, <1>13, SlotFacts
  <2>2. s \notin Live(t) /\ s # Nil
    BY <1>2, <2>1, <1>1, SlotFacts DEF Holding
  <2>3. t.next[s] = Follow(s)
    BY <1>2, <2>1 DEF Holding
  <2> QED  BY <1>4, <1>8, <1>11, <2>1, <2>2, <2>3
<1>14. u.generation = [s \in Slots |-> 1]
  BY <1>2, <1>5 DEF Holding
<1>15. Holding(u, m + 1)
  <2>1. \A s \in Slots : s >= m + 1 => u.next[s] = Follow(s)
    BY <1>13
  <2>2. TreeInv(u)
    BY <1>5
  <2> QED  BY <1>6, <1>12, <1>14, <2>1, <2>2 DEF Holding
<1> QED  BY <1>15 DEF u

(* A loaded document is a sound arena, and a full one. *)
THEOREM LoadedTree ==
  /\ TreeInv(Loaded) /\ Live(Loaded) = Slots
  /\ Loaded.generation = [s \in Slots |-> 1]
<1>1. PICK g : /\ g[1] = NewTree
               /\ \A n \in 1..(Nodes - 1) : g[n + 1] = Grown(g[n], Document[n + 1].parent)
               /\ Loaded = g[Nodes]
  BY LoadedIs
<1> DEFINE M == {n \in Nat : n + 1 <= Nodes => Holding(g[n + 1], n + 1)}
<1>2. 0 \in M
  <2>1. Live(NewTree) = 0..(1 - 1)
    <3>1. 0..(1 - 1) = {0}
      OBVIOUS
    <3> QED  BY <3>1, SlotFacts DEF Live, NewTree, Root
  <2>2. NewTree.free = IF 1 < Nodes THEN 1 ELSE Nil
    BY SlotFacts DEF NewTree
  <2>3. \A s \in Slots : s >= 1 => NewTree.next[s] = Follow(s)
    BY DEF NewTree, Root, Slots, Follow
  <2>4. NewTree.generation = [s \in Slots |-> 1]
    BY DEF NewTree
  <2>5. Holding(NewTree, 1)
    BY <2>1, <2>2, <2>3, <2>4, NewTreeLinked DEF Holding
  <2> QED  BY <1>1, <2>5
<1>3. ASSUME NEW n \in Nat, n \in M
      PROVE  n + 1 \in M
  <2> DEFINE m == n + 1
             t == g[m]
             p == Document[m + 1].parent
             u == Grown(t, p)
  <2> SUFFICES ASSUME m + 1 <= Nodes PROVE Holding(g[m + 1], m + 1)
    OBVIOUS
  <2>1. m \in 1..(Nodes - 1) /\ m < Nodes /\ m <= Nodes /\ m + 1 \in 1..Nodes /\ m \in Slots /\ m \in Nat
    BY SlotFacts DEF Slots
  <2>2. g[m + 1] = u
    BY <1>1, <2>1
  <2>3. Holding(t, m)
    BY <1>3, <2>1
  <2>4. p \in 0..(m - 1)
    <3>1. m + 1 \in DOMAIN Document /\ m + 1 > 1 /\ m + 1 - 2 = m - 1
      BY <2>1, DocumentAssumption
    <3> QED  BY <3>1, DocumentAssumption
  <2> HIDE DEF p, t, m
  <2>5. Holding(u, m + 1)
    <3> HIDE DEF u, m, M
    <3>1. m \in Nat /\ m > 0 /\ m < Nodes
      BY <2>1 DEF m
    <3> QED  BY <2>3, <2>4, <3>1, HoldingGrows DEF u
  <2> QED  BY <2>2, <2>5
<1> HIDE DEF M
<1>4. Nat \subseteq M
  BY <1>2, <1>3, Induction
<1>5. Holding(Loaded, Nodes)
  <2>1. Nodes - 1 \in Nat /\ Nodes - 1 + 1 = Nodes /\ Nodes <= Nodes
    BY SlotFacts
  <2>2. Nodes - 1 \in M
    BY <1>4, <2>1
  <2> QED  BY <1>1, <2>1, <2>2 DEF M
<1> QED  BY <1>5 DEF Slots, Holding

(* Two sequences that name no slot twice and share none, one after the other. *)
LEMMA Joined ==
  ASSUME NEW q \in Seq(Slots), NEW r \in Seq(Slots), IsInjective(q), IsInjective(r),
         ToSet(q) \cap ToSet(r) = {}
  PROVE  /\ q \o r \in Seq(Slots) /\ Len(q \o r) = Len(q) + Len(r)
         /\ IsInjective(q \o r) /\ ToSet(q \o r) = ToSet(q) \cup ToSet(r)
         /\ \A i \in 1..Len(q) : (q \o r)[i] = q[i]
         /\ \A i \in 1..Len(q \o r) : i > Len(q) => (q \o r)[i] \in ToSet(r)
<1> DEFINE s == q \o r
<1>1. /\ s \in Seq(Slots) /\ Len(s) = Len(q) + Len(r)
      /\ \A i \in 1..Len(s) : s[i] = IF i <= Len(q) THEN q[i] ELSE r[i - Len(q)]
  BY ConcatProperties
<1>2. /\ Len(q) \in Nat /\ Len(r) \in Nat /\ Len(s) \in Nat
      /\ DOMAIN q = 1..Len(q) /\ DOMAIN r = 1..Len(r) /\ DOMAIN s = 1..Len(s)
  BY <1>1
<1> HIDE DEF s
<1>3. \A i \in 1..Len(q) : i \in 1..Len(s) /\ s[i] = q[i] /\ q[i] \in ToSet(q)
  BY <1>1, <1>2 DEF ToSet
<1>4. \A i \in 1..Len(r) : r[i] \in ToSet(r)
  BY <1>2 DEF ToSet
<1>5. ASSUME NEW i \in 1..Len(r)
      PROVE  i + Len(q) \in 1..Len(s) /\ s[i + Len(q)] = r[i] /\ r[i] \in ToSet(r)
  <2>1. i + Len(q) \in 1..Len(s) /\ ~(i + Len(q) <= Len(q)) /\ i + Len(q) - Len(q) = i
    BY <1>1, <1>2
  <2>2. s[i + Len(q)] = r[i]
    BY <1>1, <2>1
  <2> QED  BY <1>4, <2>1, <2>2
<1>6. ASSUME NEW i \in 1..Len(s), i > Len(q)
      PROVE  /\ i - Len(q) \in 1..Len(r) /\ s[i] = r[i - Len(q)]
             /\ r[i - Len(q)] \in ToSet(r)
  <2>1. i - Len(q) \in 1..Len(r) /\ ~(i <= Len(q))
    BY <1>1, <1>2, <1>6
  <2>2. s[i] = r[i - Len(q)]
    BY <1>1, <2>1
  <2> QED  BY <1>4, <2>1, <2>2
<1>7. \A i \in 1..Len(s) : i \in 1..Len(q) \/ i > Len(q)
  BY <1>2
<1>8. IsInjective(s)
  <2> SUFFICES ASSUME NEW i \in 1..Len(s), NEW j \in 1..Len(s), s[i] = s[j]
               PROVE  i = j
    BY <1>2 DEF IsInjective
  <2>1. CASE i \in 1..Len(q) /\ j \in 1..Len(q)
    BY <1>2, <1>3, <2>1 DEF IsInjective
  <2>2. CASE i > Len(q) /\ j > Len(q)
    <3>1. i - Len(q) = j - Len(q)
      BY <1>2, <1>6, <2>2 DEF IsInjective
    <3> QED  BY <1>2, <3>1
  <2>3. CASE i \in 1..Len(q) /\ j > Len(q)
    BY <1>3, <1>6, <2>3
  <2>4. CASE i > Len(q) /\ j \in 1..Len(q)
    BY <1>3, <1>6, <2>4
  <2> QED  BY <1>7, <2>1, <2>2, <2>3, <2>4
<1>9. ToSet(s) = ToSet(q) \cup ToSet(r)
  <2>1. \A x : x \in ToSet(s) <=> \E i \in 1..Len(s) : s[i] = x
    BY <1>2 DEF ToSet
  <2>2. \A x : x \in ToSet(q) <=> \E i \in 1..Len(q) : q[i] = x
    BY <1>2 DEF ToSet
  <2>3. \A x : x \in ToSet(r) <=> \E i \in 1..Len(r) : r[i] = x
    BY <1>2 DEF ToSet
  <2>4. ASSUME NEW x \in ToSet(s) PROVE x \in ToSet(q) \cup ToSet(r)
    BY <1>3, <1>6, <1>7, <2>1
  <2>5. ASSUME NEW x \in ToSet(q) PROVE x \in ToSet(s)
    <3>1. PICK i \in 1..Len(q) : q[i] = x
      BY <2>2
    <3>2. i \in 1..Len(s) /\ s[i] = x
      BY <1>3, <3>1
    <3> QED  BY <2>1, <3>2
  <2>6. ASSUME NEW x \in ToSet(r) PROVE x \in ToSet(s)
    <3>1. PICK i \in 1..Len(r) : r[i] = x
      BY <2>3
    <3>2. i + Len(q) \in 1..Len(s) /\ s[i + Len(q)] = x
      BY <1>5, <3>1
    <3> QED  BY <2>1, <3>2
  <2> QED  BY <2>4, <2>5, <2>6
<1>10. \A i \in 1..Len(s) : i > Len(q) => s[i] \in ToSet(r)
  BY <1>6
<1>11. \A i \in 1..Len(q) : s[i] = q[i]
  BY <1>3
<1> QED  BY <1>1, <1>8, <1>9, <1>10, <1>11 DEF s

(* The children of a node, all of them, each once, in the order of the links. *)
LEMMA KidsInOrder ==
  ASSUME NEW t, TreeInv(t), NEW u \in Live(t)
  PROVE  InOrder(t, Kids(t, Live(t), u), u, ChildrenOf(t, u))
<1> DEFINE A == Live(t)
<1>1. /\ t \in Trees /\ t.parent[Root] = Nil /\ Siblings(t, A \ {}, u)
      /\ \E rank : Aged(t, A \ {}, rank)
  BY DEF TreeInv, Linked
<1>2. A \ {} = A /\ A \subseteq Slots /\ u \in Slots
  BY LiveFinite
<1>3. PICK rank : Aged(t, A, rank)
  BY <1>1, <1>2
<1>4. Root \notin Kids(t, A, u)
  BY <1>1, <1>2, SlotFacts DEF Kids
<1>5. Siblings(t, A, u)
  BY <1>1, <1>2
<1> HIDE DEF A
<1>6. InOrder(t, Kids(t, A, u), u, ChildrenOf(t, u))
  BY <1>1, <1>2, <1>3, <1>4, <1>5, ChildrenAre
<1> QED  BY <1>6 DEF A

Walks == [met : Seq(Slots), at : Nat]
FirstWalk == [met |-> <<Root>>, at |-> 1]

(* A visit leaves a walk.                                                 *)
LEMMA VisitType ==
  ASSUME NEW t \in Trees, NEW walk \in Walks, walk.at > 0
  PROVE  Visit(t, walk) \in Walks /\ Visit(t, walk).at > 0
<1>1. walk.met \in Seq(Slots) /\ walk.at \in Nat
  BY DEF Walks
<1>2. CASE walk.at > Len(walk.met)
  BY <1>2 DEF Visit
<1>3. CASE ~(walk.at > Len(walk.met))
  <2> DEFINE s == walk.met[walk.at]
             kids == ChildrenOf(t, s)
  <2>1. walk.at \in 1..Len(walk.met)
    BY <1>1, <1>3
  <2>2. s \in Slots
    BY <1>1, <2>1
  <2> HIDE DEF s
  <2>3. kids \in Seq(Slots)
    BY <2>2, ChildrenType
  <2> HIDE DEF kids
  <2>4. walk.met \o kids \in Seq(Slots)
    BY <1>1, <2>3, ConcatProperties
  <2> DEFINE joined == walk.met \o kids
  <2>5. Visit(t, walk) = [met |-> joined, at |-> walk.at + 1]
    BY <1>3 DEF Visit, kids, s
  <2>6. joined \in Seq(Slots) /\ walk.at + 1 \in Nat /\ walk.at + 1 > 0
    BY <1>1, <2>4
  <2> HIDE DEF joined
  <2> QED  BY <2>5, <2>6 DEF Walks
<1> QED  BY <1>2, <1>3

Started == {walk \in Walks : walk.at > 0}

(* The turns of the walk over the levels. *)
VisitWalk(g, t) ==
  g = [n \in 0..Nodes |-> IF n = 0 THEN FirstWalk ELSE Visit(t, g[n - 1])]

(* A walk over the levels takes as many turns as there are slots.         *)
LEMMA VisitIs ==
  ASSUME NEW t \in Trees
  PROVE  \E g \in [0..Nodes -> Started] :
           /\ g[0] = FirstWalk
           /\ \A n \in 0..(Nodes - 1) : g[n + 1] = Visit(t, g[n])
           /\ Order(t) = g[Nodes].met
<1> DEFINE S == Started
           none == FirstWalk
           f == [from \in S |-> Visit(t, from)]
           g == CHOOSE h : VisitWalk(h, t)
<1>1. Order(t) = g[Nodes].met
  BY Zenon DEF Order, FirstWalk, Repeated, VisitWalk
<1>2. f \in [S -> S] /\ none \in S /\ Nodes \in Nat
  <2>1. FirstWalk \in Started
    <3>1. <<Root>> \in Seq(Slots)
      BY SlotFacts
    <3> QED  BY <3>1 DEF FirstWalk, Started, Walks
  <2>2. ASSUME NEW walk \in Started PROVE Visit(t, walk) \in Started
    <3>1. walk \in Walks /\ walk.at > 0
      BY DEF Started
    <3> QED  BY <3>1, VisitType DEF Started
  <2> QED  BY <2>1, <2>2, SlotFacts
<1>3. \E h : VisitWalk(h, t)
  <2> HIDE DEF f, S, none
  <2>1. PICK h \in [0..Nodes -> S] : Turns(h, f, none, Nodes)
    <3>1. f \in [S -> S] /\ none \in S /\ Nodes \in Nat
      BY <1>2
    <3> QED  BY <3>1, Repetition
  <2> DEFINE k == [n \in 0..Nodes |-> IF n = 0 THEN none ELSE Visit(t, h[n - 1])]
  <2>2. ASSUME NEW n \in 0..Nodes
        PROVE  h[n] = k[n]
    <3>1. n # 0 => n - 1 \in 0..Nodes
      BY SlotFacts
    <3>2. n # 0 => h[n - 1] \in S
      BY <3>1
    <3>3. n # 0 => f[h[n - 1]] = Visit(t, h[n - 1])
      BY <3>2 DEF f
    <3> QED  BY <2>1, <3>3 DEF Turns
  <2>3. h = [n \in 0..Nodes |-> h[n]]
    OBVIOUS
  <2>4. h = k
    BY <2>2, <2>3
  <2> QED  BY <2>4 DEF VisitWalk, none
<1>4. VisitWalk(g, t)
  BY <1>3, Zenon
<1> HIDE DEF g
<1>5. ASSUME NEW m \in 0..Nodes
      PROVE  g[m] = IF m = 0 THEN none ELSE Visit(t, g[m - 1])
  BY <1>4, Zenon DEF VisitWalk
<1>6. g[0] = none
  <2>1. 0 \in 0..Nodes
    BY SlotFacts
  <2> HIDE DEF none
  <2> QED  BY <2>1, <1>5
<1>7. ASSUME NEW n \in 0..(Nodes - 1)
      PROVE  g[n + 1] = Visit(t, g[n])
  <2>1. n + 1 \in 0..Nodes /\ n + 1 # 0 /\ n + 1 - 1 = n
    BY SlotFacts
  <2> HIDE DEF none
  <2> QED  BY <2>1, <1>5
<1>8. g \in [0..Nodes -> S]
  <2> DEFINE M == {n \in Nat : n <= Nodes => g[n] \in S}
  <2>1. 0 \in M
    BY <1>2, <1>6
  <2>2. ASSUME NEW n \in Nat, n \in M
        PROVE  n + 1 \in M
    <3>1. CASE n + 1 <= Nodes
      <4>1. n \in 0..(Nodes - 1) /\ n <= Nodes /\ n + 1 \in Nat
        BY <3>1, SlotFacts
      <4>2. g[n] \in S
        BY <2>2, <4>1
      <4>3. f[g[n]] \in S /\ f[g[n]] = Visit(t, g[n])
        <5> HIDE DEF S, none
        <5> QED  BY <1>2, <4>2 DEF f
      <4>4. g[n + 1] \in S
        BY <1>7, <4>1, <4>3
      <4> QED  BY <4>1, <4>4
    <3>2. CASE ~(n + 1 <= Nodes)
      BY <3>2
    <3> QED  BY <3>1, <3>2
  <2> HIDE DEF M
  <2>3. Nat \subseteq M
    BY <2>1, <2>2, Induction
  <2>4. \A n \in 0..Nodes : g[n] \in S
    BY <2>3, SlotFacts DEF M
  <2>5. g = [n \in 0..Nodes |-> g[n]]
    BY <1>4 DEF VisitWalk
  <2> QED  BY <2>4, <2>5
<1> QED  BY <1>1, <1>6, <1>7, <1>8

(* A walk from the root: what it met is live, once each; the children of   *)
(* those it is done with are among them, and nobody else was met.          *)
Walking(t, w) ==
  /\ w \in Started
  /\ IsInjective(w.met) /\ ToSet(w.met) \subseteq Live(t) /\ Root \in ToSet(w.met)
  /\ \A j \in 1..Len(w.met) : j < w.at => Kids(t, Live(t), w.met[j]) \subseteq ToSet(w.met)
  /\ \A c \in ToSet(w.met) :
       c # Root => \E j \in 1..Len(w.met) : j < w.at /\ t.parent[c] = w.met[j]

(* The walk that has met only the root.                                   *)
LEMMA FirstWalking ==
  ASSUME NEW t, TreeInv(t)
  PROVE  Walking(t, FirstWalk)
<1>1. <<Root>> \in Seq(Slots) /\ Len(<<Root>>) = 1 /\ <<Root>>[1] = Root
  BY SlotFacts
<1>2. ToSet(<<Root>>) = {Root}
  BY DEF ToSet
<1>3. IsInjective(<<Root>>)
  BY DEF IsInjective
<1>4. Root \in Live(t)
  BY DEF TreeInv, Linked
<1> DEFINE q == <<Root>>
<1>5. FirstWalk = [met |-> q, at |-> 1] /\ q \in Seq(Slots) /\ ToSet(q) = {Root} /\ IsInjective(q)
      /\ Len(q) = 1
  BY <1>1, <1>2, <1>3 DEF FirstWalk
<1> HIDE DEF q
<1>6. FirstWalk \in Started
  BY <1>5 DEF Started, Walks
<1>7. FirstWalk.met = q /\ FirstWalk.at = 1
  BY <1>5
<1> QED  BY <1>4, <1>5, <1>6, <1>7 DEF Walking

(* A visit adds the children of the node it is at, all of them new.       *)
LEMMA VisitGoesOn ==
  ASSUME NEW t, TreeInv(t), NEW w, Walking(t, w), w.at <= Len(w.met)
  PROVE  Walking(t, Visit(t, w)) /\ Visit(t, w).at = w.at + 1
<1> DEFINE q == w.met
           s == q[w.at]
           r == ChildrenOf(t, s)
           v == Visit(t, w)
<1>1. /\ t \in Trees /\ w \in Started /\ IsInjective(q)
      /\ ToSet(q) \subseteq Live(t) /\ Root \in ToSet(q)
      /\ \A j \in 1..Len(q) : j < w.at => Kids(t, Live(t), q[j]) \subseteq ToSet(q)
      /\ \A c \in ToSet(q) : c # Root => \E j \in 1..Len(q) : j < w.at /\ t.parent[c] = q[j]
  BY DEF Walking, TreeInv, Linked
<1>2. q \in Seq(Slots) /\ w.at \in Nat /\ w.at > 0 /\ Len(q) \in Nat /\ DOMAIN q = 1..Len(q)
  BY <1>1 DEF Started, Walks
<1>3. w.at \in 1..Len(q) /\ s \in ToSet(q) /\ s \in Live(t)
  <2>1. w.at \in DOMAIN q
    BY <1>2
  <2> QED  BY <1>1, <1>2, <2>1 DEF ToSet
<1>4. v = [met |-> q \o r, at |-> w.at + 1]
  BY <1>2 DEF Visit
<1>5. v \in Started
  BY <1>1, VisitType DEF Started
<1> HIDE DEF r, v
<1> DEFINE K == Kids(t, Live(t), s)
<1>6. InOrder(t, K, s, r)
  BY <1>3, KidsInOrder DEF r
<1>7. r \in Seq(Slots) /\ IsInjective(r) /\ ToSet(r) = K
  BY <1>6 DEF InOrder
<1>8. ASSUME NEW c \in K
      PROVE  c \in Live(t) /\ t.parent[c] = s /\ c # Root /\ c \notin ToSet(q)
  <2>1. c \in Live(t) /\ t.parent[c] = s
    BY DEF Kids
  <2>2. t.parent[Root] = Nil /\ s \in Slots
    BY <1>3, LiveFinite DEF TreeInv, Linked
  <2>3. c # Root
    BY <2>1, <2>2, SlotFacts
  <2>4. c \notin ToSet(q)
    <3> SUFFICES ASSUME c \in ToSet(q) PROVE FALSE
      OBVIOUS
    <3>1. PICK j \in 1..Len(q) : j < w.at /\ t.parent[c] = q[j]
      BY <1>1, <2>3
    <3>2. q[j] = q[w.at]
      BY <2>1, <3>1
    <3>3. j = w.at
      BY <1>1, <1>2, <1>3, <3>2 DEF IsInjective
    <3> QED  BY <1>2, <3>1, <3>3
  <2> QED  BY <2>1, <2>3, <2>4
<1>9. ToSet(q) \cap ToSet(r) = {}
  BY <1>7, <1>8
<1> DEFINE z == q \o r
<1>10. /\ z \in Seq(Slots) /\ Len(z) = Len(q) + Len(r)
       /\ IsInjective(z) /\ ToSet(z) = ToSet(q) \cup ToSet(r)
       /\ \A i \in 1..Len(q) : z[i] = q[i]
  BY <1>1, <1>2, <1>7, <1>9, Joined
<1>11. v.met = z /\ v.at = w.at + 1
  BY <1>4
<1> HIDE DEF z, K, s, q
<1>12. Len(r) \in Nat /\ Len(z) \in Nat /\ \A i \in 1..Len(q) : i \in 1..Len(z)
  BY <1>2, <1>7, <1>10
<1>13. ToSet(z) \subseteq Live(t) /\ Root \in ToSet(z)
  BY <1>1, <1>7, <1>8, <1>10
<1>14. ASSUME NEW j \in 1..Len(z), j < w.at + 1
       PROVE  Kids(t, Live(t), z[j]) \subseteq ToSet(z)
  <2>1. j \in 1..Len(q) /\ z[j] = q[j]
    BY <1>2, <1>3, <1>10, <1>12, <1>14
  <2>2. CASE j < w.at
    BY <1>1, <1>10, <2>1, <2>2
  <2>3. CASE ~(j < w.at)
    <3>1. j = w.at
      BY <1>2, <1>14, <2>1, <2>3
    <3>2. z[j] = s
      BY <2>1, <3>1 DEF s
    <3> QED  BY <1>7, <1>10, <3>2 DEF K
  <2> QED  BY <2>2, <2>3
<1>15. ASSUME NEW c \in ToSet(z), c # Root
       PROVE  \E j \in 1..Len(z) : j < w.at + 1 /\ t.parent[c] = z[j]
  <2>1. CASE c \in ToSet(q)
    <3>1. PICK j \in 1..Len(q) : j < w.at /\ t.parent[c] = q[j]
      BY <1>1, <1>15, <2>1
    <3>2. j \in 1..Len(z) /\ z[j] = q[j] /\ j < w.at + 1
      BY <1>2, <1>10, <1>12, <3>1
    <3> QED  BY <3>1, <3>2
  <2>2. CASE c \in ToSet(r)
    <3>1. t.parent[c] = s
      BY <1>7, <1>8, <2>2
    <3>2. w.at \in 1..Len(z) /\ z[w.at] = s /\ w.at < w.at + 1
      BY <1>2, <1>3, <1>10, <1>12 DEF s
    <3> QED  BY <3>1, <3>2
  <2> QED  BY <1>10, <2>1, <2>2
<1>16. Walking(t, v)
  BY <1>5, <1>10, <1>11, <1>13, <1>14, <1>15 DEF Walking
<1> QED  BY <1>11, <1>16 DEF v

(* The walk by levels meets every live node, once each. *)
LEMMA OrderIs ==
  ASSUME NEW t, TreeInv(t)
  PROVE  /\ Order(t) \in Seq(Slots) /\ IsInjective(Order(t))
         /\ ToSet(Order(t)) = Live(t)
<1>1. t \in Trees
  BY DEF TreeInv, Linked
<1>2. PICK g \in [0..Nodes -> Started] :
           /\ g[0] = FirstWalk
           /\ \A n \in 0..(Nodes - 1) : g[n + 1] = Visit(t, g[n])
           /\ Order(t) = g[Nodes].met
  BY <1>1, VisitIs
<1> DEFINE M == {n \in Nat : n <= Nodes =>
                   /\ Walking(t, g[n])
                   /\ g[n].at = n + 1 \/ g[n].at > Len(g[n].met)}
<1>3. 0 \in M
  <2>1. FirstWalk.at = 0 + 1
    BY DEF FirstWalk
  <2> QED  BY <1>2, <2>1, FirstWalking
<1>4. ASSUME NEW n \in Nat, n \in M
      PROVE  n + 1 \in M
  <2> SUFFICES ASSUME n + 1 <= Nodes
               PROVE  /\ Walking(t, g[n + 1])
                      /\ g[n + 1].at = n + 1 + 1 \/ g[n + 1].at > Len(g[n + 1].met)
    OBVIOUS
  <2> DEFINE w == g[n]
  <2>1. n \in 0..(Nodes - 1) /\ n <= Nodes
    BY SlotFacts
  <2>2. g[n + 1] = Visit(t, w)
    BY <1>2, <2>1
  <2>3. Walking(t, w) /\ (w.at = n + 1 \/ w.at > Len(w.met))
    BY <1>4, <2>1
  <2> HIDE DEF w, M
  <2>4. w.at \in Nat /\ Len(w.met) \in Nat
    BY <2>3 DEF Walking, Started, Walks
  <2>5. CASE w.at > Len(w.met)
    <3>1. Visit(t, w) = w
      BY <2>5 DEF Visit
    <3> QED  BY <2>2, <2>3, <2>5, <3>1
  <2>6. CASE ~(w.at > Len(w.met))
    <3>1. w.at <= Len(w.met)
      BY <2>4, <2>6
    <3>2. Walking(t, Visit(t, w)) /\ Visit(t, w).at = w.at + 1
      BY <2>3, <3>1, VisitGoesOn
    <3> QED  BY <2>2, <2>3, <2>6, <3>2
  <2> QED  BY <2>5, <2>6
<1> HIDE DEF M
<1>5. Nat \subseteq M
  BY <1>3, <1>4, Induction
<1> DEFINE w == g[Nodes]
           q == w.met
<1>6. Walking(t, w) /\ (w.at = Nodes + 1 \/ w.at > Len(q))
  <2>1. Nodes \in M
    BY <1>5, SlotFacts
  <2> QED  BY <2>1, SlotFacts DEF M
<1>7. /\ q \in Seq(Slots) /\ IsInjective(q) /\ w.at \in Nat
      /\ ToSet(q) \subseteq Live(t) /\ Root \in ToSet(q)
      /\ \A j \in 1..Len(q) : j < w.at => Kids(t, Live(t), q[j]) \subseteq ToSet(q)
  <2> HIDE DEF w
  <2> QED  BY <1>6 DEF Walking, Started, Walks
<1>8. Order(t) = q
  BY <1>2
<1> HIDE DEF w, q
<1>9. Len(q) <= Nodes /\ Len(q) \in Nat
  BY <1>7, InjectiveLength
<1>10. ASSUME NEW c \in ToSet(q)
       PROVE  Kids(t, Live(t), c) \subseteq ToSet(q)
  <2>1. PICK j \in 1..Len(q) : q[j] = c
    BY <1>7 DEF ToSet
  <2>2. j < w.at
    BY <1>6, <1>7, <1>9, <2>1, SlotFacts
  <2> QED  BY <1>7, <2>1, <2>2
<1>11. Live(t) \subseteq ToSet(q)
  <2> DEFINE T == Live(t) \ ToSet(q)
  <2> SUFFICES ASSUME T # {} PROVE FALSE
    OBVIOUS
  <2>1. PICK rank : Aged(t, Live(t) \ {}, rank)
    BY DEF TreeInv, Linked
  <2>2. rank \in [Slots -> Nat] /\ \A c \in Live(t) : c # Root => rank[t.parent[c]] < rank[c]
    BY <2>1 DEF Aged
  <2>3. \A x \in T : rank[x] \in Nat
    BY <2>2, LiveFinite
  <2>4. PICK c \in T : \A y \in T : rank[c] <= rank[y]
    <3> HIDE DEF T
    <3> QED  BY <2>3, Least
  <2>5. c \in Live(t) /\ c \notin ToSet(q) /\ c # Root
    BY <1>7
  <2>6. t.parent[c] \in Live(t)
    BY <2>5 DEF TreeInv, Linked
  <2>7. t.parent[c] \in ToSet(q)
    <3>1. rank[t.parent[c]] < rank[c] /\ rank[t.parent[c]] \in Nat /\ rank[c] \in Nat
      BY <2>2, <2>5, <2>6, LiveFinite
    <3>2. t.parent[c] \notin T
      <4> HIDE DEF T
      <4> QED  BY <2>4, <3>1
    <3> QED  BY <2>6, <3>2
  <2>8. c \in Kids(t, Live(t), t.parent[c])
    BY <2>5 DEF Kids
  <2> QED  BY <1>10, <2>5, <2>7, <2>8
<1> QED  BY <1>7, <1>8, <1>11

(* An arena that satisfies the invariant is sound. *)
THEOREM TreeInvSound ==
  ASSUME NEW t, TreeInv(t)
  PROVE  Sound(t)
<1> DEFINE order == Order(t)
           unused == Chain(t.next, t.free)
<1>1. order \in Seq(Slots) /\ IsInjective(order) /\ ToSet(order) = Live(t)
  BY OrderIs
<1>2. t \in Trees /\ t.count = Cardinality(Live(t))
  BY DEF TreeInv, Linked
<1>3. PICK stack : Stacked(t.next, t.free, stack) /\ ToSet(stack) = Slots \ Live(t)
  BY DEF TreeInv, Linked
<1>4. IsInjective(unused) /\ ToSet(unused) = Slots \ Live(t)
  <2>1. t.next \in [Slots -> Links] /\ t.free \in Links
    BY <1>2 DEF Trees
  <2> QED  BY <1>3, <2>1, StackChain
<1>5. t.count = Len(order)
  <2> HIDE DEF order
  <2> QED  BY <1>1, <1>2, InjectiveLength
<1>6. ASSUME NEW s \in ToSet(order)
      PROVE  LET children == ChildrenOf(t, s)
             IN /\ t.last[s] = IF children = <<>> THEN Nil ELSE Last(children)
                /\ \A i \in DOMAIN children :
                     /\ t.parent[children[i]] = s
                     /\ t.prev[children[i]] = IF i = 1 THEN Nil ELSE children[i - 1]
  <2> DEFINE K == Kids(t, Live(t), s)
             kids == ChildrenOf(t, s)
  <2>1. InOrder(t, K, s, kids)
    BY <1>1, <1>6, KidsInOrder
  <2> HIDE DEF kids, K
  <2>2. /\ kids \in Seq(Slots) /\ ToSet(kids) = K
        /\ t.last[s] = IF kids = <<>> THEN Nil ELSE kids[Len(kids)]
        /\ \A i \in 1..Len(kids) : t.prev[kids[i]] = IF i = 1 THEN Nil ELSE kids[i - 1]
    BY <2>1 DEF InOrder
  <2>3. t.last[s] = IF kids = <<>> THEN Nil ELSE Last(kids)
    BY <2>2 DEF Last
  <2>4. ASSUME NEW i \in DOMAIN kids
        PROVE  /\ t.parent[kids[i]] = s
               /\ t.prev[kids[i]] = IF i = 1 THEN Nil ELSE kids[i - 1]
    <3>1. i \in 1..Len(kids)
      BY <2>2
    <3>2. kids[i] \in K
      BY <2>2 DEF ToSet
    <3>3. t.parent[kids[i]] = s
      BY <3>2 DEF K, Kids
    <3> QED  BY <2>2, <3>1, <3>3
  <2> QED  BY <2>3, <2>4 DEF kids
<1>7. Slots \ Live(t) = {s \in Slots : ~t.live[s]} /\ Live(t) = {s \in Slots : t.live[s]}
  <2>1. \A s \in Slots : t.live[s] \in BOOLEAN
    BY <1>2 DEF Trees
  <2> QED  BY <2>1 DEF Live
<1> HIDE DEF order, unused
<1>8. /\ IsInjective(order) /\ IsInjective(unused)
      /\ ToSet(order) = {s \in Slots : t.live[s]}
      /\ ToSet(unused) = {s \in Slots : ~t.live[s]}
      /\ t.count = Len(order)
  BY <1>1, <1>4, <1>5, <1>7
<1> QED  BY <1>6, <1>8 DEF Sound, order, unused

(* What a step does to the arena. *)
TreeSteps ==
  \/ tree' = tree
  \/ \E p \in Live(tree) : tree.free # Nil /\ tree' = Grown(tree, p)
  \/ \E s \in Live(tree) : s # Root /\ tree' = Pruned(tree, s)

(* Every step leaves the arena, inserts a node, or removes a subtree.     *)
LEMMA StepsOfTree == [Next]_vars => TreeSteps
<1> SUFFICES ASSUME [Next]_vars PROVE TreeSteps
  OBVIOUS
<1>1. CASE UNCHANGED vars
  BY <1>1 DEF vars, program, TreeSteps
<1>2. CASE PointerMoved \/ PointerPressed \/ PointerReleased \/ TextEntered \/ Edit
  <2>1. \E a, b, c : Hear(a, b, c)
    BY <1>2 DEF PointerMoved, PointerPressed, PointerReleased, TextEntered, Edit
  <2>2. tree' = tree
    BY <2>1 DEF Hear
  <2> QED  BY <2>2 DEF TreeSteps
<1>3. CASE \E view \in Views : Solve(view)
  BY <1>3 DEF Solve, TreeSteps
<1>4. CASE Authoring
  <2>1. CASE \E s \in Slots : Insert(s)
    BY <2>1 DEF Insert, TreeSteps, Live
  <2>2. CASE \E s \in Slots : RemoveSubtree(s)
    BY <2>2 DEF RemoveSubtree, TreeSteps, Live
  <2>3. CASE \E s \in Slots : MakeField(s)
    BY <2>3 DEF MakeField, TreeSteps
  <2>4. CASE \E s \in Slots : \E new \in Styles : SetStyle(s, new)
    BY <2>4 DEF SetStyle, TreeSteps
  <2>5. CASE \E s \in Slots : \E table \in Tables : SetStateTable(s, table)
    BY <2>5 DEF SetStateTable, TreeSteps
  <2>6. CASE \E pool \in Pools : SetPatchPool(pool)
    BY <2>6 DEF SetPatchPool, TreeSteps
  <2> QED  BY <1>4, <2>1, <2>2, <2>3, <2>4, <2>5, <2>6 DEF Authoring
<1> QED  BY <1>1, <1>2, <1>3, <1>4 DEF Next

(* A step keeps the arena, and an id that names a live node either names   *)
(* it after the step or is a generation behind.                            *)
LEMMA TreeStepKeeps ==
  ASSUME TreeInv(tree), TreeSteps
  PROVE  /\ TreeInv(tree')
         /\ \A s \in Slots : tree'.generation[s] = IF s \in Live(tree) \ Live(tree')
                                                   THEN tree.generation[s] + 1
                                                   ELSE tree.generation[s]
<1>1. CASE tree' = tree
  BY <1>1
<1>2. ASSUME NEW p \in Live(tree), tree.free # Nil, tree' = Grown(tree, p)
      PROVE  /\ TreeInv(tree')
             /\ \A s \in Slots : tree'.generation[s] = IF s \in Live(tree) \ Live(tree')
                                                       THEN tree.generation[s] + 1
                                                       ELSE tree.generation[s]
  <2>1. /\ TreeInv(Grown(tree, p))
        /\ Live(Grown(tree, p)) = Live(tree) \cup {tree.free}
        /\ Grown(tree, p).generation = tree.generation
    BY <1>2, GrownKeepsTree
  <2> QED  BY <1>2, <2>1
<1>3. ASSUME NEW s \in Live(tree), s # Root, tree' = Pruned(tree, s)
      PROVE  /\ TreeInv(tree')
             /\ \A n \in Slots : tree'.generation[n] = IF n \in Live(tree) \ Live(tree')
                                                       THEN tree.generation[n] + 1
                                                       ELSE tree.generation[n]
  BY <1>3, PrunedKeepsTree
<1> QED  BY <1>1, <1>2, <1>3 DEF TreeSteps

(* The arena's invariant holds of every reachable state. *)
THEOREM ArenaHolds == Spec => []TreeInv(tree)
<1>1. Init => TreeInv(tree)
  BY LoadedTree DEF Init
<1>2. TreeInv(tree) /\ [Next]_vars => TreeInv(tree)'
  <2> SUFFICES ASSUME TreeInv(tree), [Next]_vars PROVE TreeInv(tree')
    OBVIOUS
  <2> QED  BY StepsOfTree, TreeStepKeeps
<1> QED  BY <1>1, <1>2, PTL DEF Spec

(* Whatever is inserted and removed, the links stay a tree of the live     *)
(* nodes, and the free list threads the others (insert, unlink,            *)
(* free_subtree).                                                          *)
THEOREM TreeIsSound == Spec => []TreeSound
<1>1. TreeInv(tree) => TreeSound
  BY TreeInvSound DEF TreeSound
<1> QED  BY <1>1, ArenaHolds, PTL

(* The deepest nodes as far as a walk of some turns sees: live from live. *)
Deepest(t) == {from \in [Slots -> Slots] : \A s \in Live(t) : from[s] \in Live(t)}

(* The latest child under a point is a child, or there is none.           *)
LEMMA TopmostIs ==
  ASSUME NEW t \in Trees, NEW r, NEW x, NEW s \in Slots
  PROVE  /\ Topmost(t, r, x, s) \in Links
         /\ Topmost(t, r, x, s) # Nil => Topmost(t, r, x, s) \in ToSet(ChildrenOf(t, s))
<1> DEFINE kids == ChildrenOf(t, s)
           over == {i \in DOMAIN kids : Covers(r[kids[i]], x)}
           top == CHOOSE i \in over : \A j \in over : j <= i
<1>1. kids \in Seq(Slots)
  BY ChildrenType
<1>2. Topmost(t, r, x, s) = IF over = {} THEN Nil ELSE kids[top]
  BY DEF Topmost
<1>3. CASE over = {}
  BY <1>2, <1>3, SlotFacts
<1>4. CASE over # {}
  <2> HIDE DEF kids
  <2>1. over \subseteq 1..Len(kids) /\ Len(kids) \in Nat
    BY <1>1
  <2> DEFINE down == [i \in over |-> Len(kids) - i]
  <2>2. \A i \in over : down[i] \in Nat /\ down[i] = Len(kids) - i
    BY <2>1
  <2>3. PICK i \in over : \A j \in over : down[i] <= down[j]
    <3>1. \A i \in over : down[i] \in Nat
      BY <2>2
    <3> HIDE DEF down, over
    <3> QED  BY <1>4, <3>1, Least
  <2>4. \A j \in over : j <= i
    <3> HIDE DEF down, over
    <3> QED  BY <2>1, <2>2, <2>3
  <2>5. top \in over
    <3> HIDE DEF over
    <3> QED  BY <2>4
  <2> HIDE DEF top
  <2>6. top \in 1..Len(kids)
    BY <2>1, <2>5
  <2>7. kids[top] \in Slots /\ kids[top] \in ToSet(kids)
    BY <1>1, <2>6 DEF ToSet
  <2> QED  BY <1>2, <1>4, <2>7, SlotFacts DEF kids
<1> QED  BY <1>3, <1>4

(* One more turn of the hit test still leads from live nodes to live nodes. *)
LEMMA DeeperType ==
  ASSUME NEW t, TreeInv(t), NEW r, NEW x, NEW from \in Deepest(t)
  PROVE  Deeper(t, r, x, from) \in Deepest(t)
<1>1. t \in Trees
  BY DEF TreeInv, Linked
<1>2. from \in [Slots -> Slots] /\ \A s \in Live(t) : from[s] \in Live(t)
  BY DEF Deepest
<1> DEFINE D == Deeper(t, r, x, from)
<1>3. /\ D = [s \in Slots |-> D[s]]
      /\ \A s \in Slots : D[s] = IF Topmost(t, r, x, s) = Nil THEN s ELSE from[Topmost(t, r, x, s)]
  BY DEF Deeper
<1> HIDE DEF D
<1>4. ASSUME NEW s \in Slots
      PROVE  D[s] \in Slots
  <2>1. Topmost(t, r, x, s) \in Links
    BY <1>1, TopmostIs
  <2> QED  BY <1>2, <1>3, <2>1 DEF Links
<1>5. ASSUME NEW s \in Live(t)
      PROVE  D[s] \in Live(t)
  <2>1. s \in Slots
    BY LiveFinite
  <2>2. CASE Topmost(t, r, x, s) = Nil
    BY <1>3, <2>1, <2>2
  <2>3. CASE Topmost(t, r, x, s) # Nil
    <3>1. Topmost(t, r, x, s) \in ToSet(ChildrenOf(t, s))
      BY <1>1, <2>1, <2>3, TopmostIs
    <3>2. InOrder(t, Kids(t, Live(t), s), s, ChildrenOf(t, s))
      BY KidsInOrder
    <3>3. ToSet(ChildrenOf(t, s)) \subseteq Live(t)
      BY <3>2 DEF InOrder, Kids
    <3>4. Topmost(t, r, x, s) \in Live(t)
      BY <3>1, <3>3
    <3> QED  BY <1>2, <1>3, <2>1, <2>3, <3>4
  <2> QED  BY <2>2, <2>3
<1>6. D \in [Slots -> Slots]
  BY <1>3, <1>4
<1> QED  BY <1>5, <1>6 DEF Deepest, D

(* The turns of the hit test. *)
HitWalk(g, t, r, x) ==
  g = [n \in 0..Nodes |-> IF n = 0 THEN [at \in Slots |-> at] ELSE Deeper(t, r, x, g[n - 1])]

(* The hit test takes as many turns as there are slots.                   *)
LEMMA HitIs ==
  ASSUME NEW t, TreeInv(t), NEW r, NEW x
  PROVE  \E g \in [0..Nodes -> Deepest(t)] :
           /\ g[0] = [at \in Slots |-> at]
           /\ \A n \in 0..(Nodes - 1) : g[n + 1] = Deeper(t, r, x, g[n])
           /\ HitTest(t, r, x) = IF Covers(r[Root], x) THEN g[Nodes][Root] ELSE Nil
<1> DEFINE S == Deepest(t)
           none == [at \in Slots |-> at]
           f == [from \in S |-> Deeper(t, r, x, from)]
           g == CHOOSE h : HitWalk(h, t, r, x)
<1>1. HitTest(t, r, x) = IF Covers(r[Root], x) THEN g[Nodes][Root] ELSE Nil
  BY Zenon DEF HitTest, Repeated, HitWalk
<1>2. f \in [S -> S] /\ none \in S /\ Nodes \in Nat
  <2>1. none \in S
    <3>1. \A s \in Live(t) : s \in Slots
      BY LiveFinite
    <3> QED  BY <3>1 DEF Deepest
  <2>2. \A from \in S : Deeper(t, r, x, from) \in S
    BY DeeperType
  <2> HIDE DEF S, none
  <2> QED  BY <2>1, <2>2, SlotFacts
<1>3. \E h : HitWalk(h, t, r, x)
  <2> HIDE DEF f, S, none
  <2>1. PICK h \in [0..Nodes -> S] : Turns(h, f, none, Nodes)
    <3>1. f \in [S -> S] /\ none \in S /\ Nodes \in Nat
      BY <1>2
    <3> QED  BY <3>1, Repetition
  <2> DEFINE k == [n \in 0..Nodes |-> IF n = 0 THEN none ELSE Deeper(t, r, x, h[n - 1])]
  <2>2. ASSUME NEW n \in 0..Nodes
        PROVE  h[n] = k[n]
    <3>1. n # 0 => n - 1 \in 0..Nodes
      BY SlotFacts
    <3>2. n # 0 => h[n - 1] \in S
      BY <3>1
    <3>3. n # 0 => f[h[n - 1]] = Deeper(t, r, x, h[n - 1])
      BY <3>2 DEF f
    <3> QED  BY <2>1, <3>3 DEF Turns
  <2>3. h = [n \in 0..Nodes |-> h[n]]
    OBVIOUS
  <2>4. h = k
    BY <2>2, <2>3
  <2> QED  BY <2>4 DEF HitWalk, none
<1>4. HitWalk(g, t, r, x)
  BY <1>3, Zenon
<1> HIDE DEF g
<1>5. ASSUME NEW m \in 0..Nodes
      PROVE  g[m] = IF m = 0 THEN none ELSE Deeper(t, r, x, g[m - 1])
  BY <1>4, Zenon DEF HitWalk
<1>6. g[0] = none
  <2>1. 0 \in 0..Nodes
    BY SlotFacts
  <2> HIDE DEF none
  <2> QED  BY <2>1, <1>5
<1>7. ASSUME NEW n \in 0..(Nodes - 1)
      PROVE  g[n + 1] = Deeper(t, r, x, g[n])
  <2>1. n + 1 \in 0..Nodes /\ n + 1 # 0 /\ n + 1 - 1 = n
    BY SlotFacts
  <2> HIDE DEF none
  <2> QED  BY <2>1, <1>5
<1>8. g \in [0..Nodes -> S]
  <2> DEFINE M == {n \in Nat : n <= Nodes => g[n] \in S}
  <2>1. 0 \in M
    BY <1>2, <1>6
  <2>2. ASSUME NEW n \in Nat, n \in M
        PROVE  n + 1 \in M
    <3>1. CASE n + 1 <= Nodes
      <4>1. n \in 0..(Nodes - 1) /\ n <= Nodes /\ n + 1 \in Nat
        BY <3>1, SlotFacts
      <4>2. g[n] \in S
        BY <2>2, <4>1
      <4>3. f[g[n]] \in S /\ f[g[n]] = Deeper(t, r, x, g[n])
        <5> HIDE DEF S, none
        <5> QED  BY <1>2, <4>2 DEF f
      <4>4. g[n + 1] \in S
        BY <1>7, <4>1, <4>3
      <4> QED  BY <4>1, <4>4
    <3>2. CASE ~(n + 1 <= Nodes)
      BY <3>2
    <3> QED  BY <3>1, <3>2
  <2> HIDE DEF M
  <2>3. Nat \subseteq M
    BY <2>1, <2>2, Induction
  <2>4. \A n \in 0..Nodes : g[n] \in S
    BY <2>3, SlotFacts DEF M
  <2>5. g = [n \in 0..Nodes |-> g[n]]
    BY <1>4 DEF HitWalk
  <2> QED  BY <2>4, <2>5
<1> QED  BY <1>1, <1>6, <1>7, <1>8

(* The hit test finds a live node, or none. *)
LEMMA HitIsLive ==
  ASSUME NEW t, TreeInv(t), NEW r, NEW x
  PROVE  HitTest(t, r, x) # Nil => HitTest(t, r, x) \in Live(t)
<1>1. PICK g \in [0..Nodes -> Deepest(t)] :
           HitTest(t, r, x) = IF Covers(r[Root], x) THEN g[Nodes][Root] ELSE Nil
  BY HitIs
<1>2. Root \in Live(t) /\ Nodes \in 0..Nodes
  BY SlotFacts DEF TreeInv, Linked
<1>3. g[Nodes] \in Deepest(t)
  BY <1>1, <1>2
<1>4. g[Nodes][Root] \in Live(t)
  BY <1>2, <1>3 DEF Deepest
<1> QED  BY <1>1, <1>4

IdSet == [slot : Slots, generation : Nat]

(* An id is not ahead of its slot, and one that is not behind names a node. *)
Known(t, id) ==
  id # None => /\ id \in IdSet
               /\ id.generation <= t.generation[id.slot]
               /\ id.generation = t.generation[id.slot] => id.slot \in Live(t)

(* A live node's id names it.                                             *)
LEMMA IdIsKnown ==
  ASSUME NEW t, TreeInv(t), NEW s \in Live(t)
  PROVE  /\ IdAt(t, s) \in IdSet /\ IdAt(t, s) # None /\ Known(t, IdAt(t, s))
         /\ IdAt(t, s).slot = s /\ IsLive(t, IdAt(t, s))
<1>1. t \in Trees /\ s \in Slots
  BY LiveFinite DEF TreeInv, Linked
<1>2. t.generation[s] \in Nat /\ t.live[s]
  BY <1>1 DEF Trees, Live
<1> DEFINE id == IdAt(t, s)
<1>3. id = [slot |-> s, generation |-> t.generation[s]]
  BY DEF IdAt
<1>4. id \in IdSet /\ id.slot = s /\ id.generation = t.generation[s]
  BY <1>1, <1>2, <1>3 DEF IdSet
<1>5. id # None
  BY <1>4, NoneAssumption DEF IdSet
<1> HIDE DEF id
<1>6. Known(t, id)
  BY <1>2, <1>4 DEF Known
<1>7. IsLive(t, id)
  BY <1>2, <1>4 DEF IsLive
<1> QED  BY <1>4, <1>5, <1>6, <1>7 DEF id

(* Two ids of the same slot and generation are the same. *)
LEMMA IdAtSlot ==
  ASSUME NEW t, TreeInv(t), NEW id, id \in IdSet, id.generation = t.generation[id.slot]
  PROVE  id = IdAt(t, id.slot)
BY DEF IdSet, IdAt

(* A known id stays known, and never names a node it did not name before. *)
LEMMA KnownStays ==
  ASSUME TreeInv(tree), TreeSteps, NEW id, Known(tree, id)
  PROVE  /\ Known(tree', id)
         /\ id # None /\ IsLive(tree', id) => IsLive(tree, id)
<1> SUFFICES ASSUME id # None
             PROVE  Known(tree', id) /\ (IsLive(tree', id) => IsLive(tree, id))
  BY DEF Known
<1> DEFINE s == id.slot
<1>1. /\ id \in IdSet /\ s \in Slots /\ id.generation \in Nat
      /\ id.generation <= tree.generation[s]
      /\ id.generation = tree.generation[s] => s \in Live(tree)
  BY DEF Known, IdSet
<1>2. tree'.generation[s] = IF s \in Live(tree) \ Live(tree') THEN tree.generation[s] + 1
                            ELSE tree.generation[s]
  BY <1>1, TreeStepKeeps
<1>3. tree \in Trees /\ tree' \in Trees
  BY TreeStepKeeps DEF TreeInv, Linked
<1>4. tree.generation[s] \in Nat
  BY <1>1, <1>3 DEF Trees
<1> HIDE DEF s
<1>5. id.generation <= tree'.generation[s]
  BY <1>1, <1>2, <1>4
<1>6. ASSUME id.generation = tree'.generation[s]
      PROVE  s \in Live(tree) /\ s \in Live(tree') /\ id.generation = tree.generation[s]
  BY <1>1, <1>2, <1>4, <1>6
<1>7. Known(tree', id)
  BY <1>1, <1>5, <1>6 DEF Known, s
<1>8. ASSUME IsLive(tree', id)
      PROVE  IsLive(tree, id)
  <2>1. id.generation = tree'.generation[s]
    BY <1>8 DEF IsLive, s
  <2>2. s \in Live(tree) /\ id.generation = tree.generation[s]
    BY <1>6, <2>1
  <2>3. tree.live[s]
    BY <2>2 DEF Live
  <2> QED  BY <2>2, <2>3 DEF IsLive, s
<1> QED  BY <1>7, <1>8

(* What an event finds under a point is a live node's id, or none. *)
LEMMA HitIdIs ==
  ASSUME TreeInv(tree), NEW point
  PROVE  /\ Known(tree, HitId(point))
         /\ HitId(point) # None =>
              /\ HitTest(tree, rect, point) \in Live(tree)
              /\ HitId(point) = IdAt(tree, HitTest(tree, rect, point))
<1> DEFINE s == HitTest(tree, rect, point)
<1>1. HitId(point) = IF s = Nil THEN None ELSE IdAt(tree, s)
  BY DEF HitId
<1>2. s # Nil => s \in Live(tree)
  BY HitIsLive
<1> HIDE DEF s
<1>3. CASE s = Nil
  BY <1>1, <1>3 DEF Known
<1>4. CASE s # Nil
  <2>1. s \in Live(tree)
    BY <1>2, <1>4
  <2>2. Known(tree, IdAt(tree, s))
    BY <2>1, IdIsKnown
  <2> QED  BY <1>1, <1>4, <2>1, <2>2 DEF s
<1> QED  BY <1>3, <1>4

-----------------------------------------------------------------------------
(* The press *)

PressInv ==
  /\ TreeInv(tree)
  /\ Known(tree, pressed) /\ Known(tree, focus)
  /\ serial = [s \in Slots |-> serial[s]]
  /\ Names(pressed) => press_on = serial[pressed.slot]

(* An event: the pressed node and the focus become what a press or a       *)
(* release makes them.                                                     *)
EventSteps ==
  \/ /\ UNCHANGED <<pressed, focus, press_on>>
  \/ /\ UNCHANGED focus
     /\ pressed' = HitId(pointer)
     /\ press_on' = IF HitId(pointer) = None THEN None ELSE serial[HitId(pointer).slot]
  \/ /\ pressed' = None /\ press_on' = None
     /\ focus' = IF Clicks(HitId(pointer)) THEN pressed ELSE focus

(* What each event does to the press and the focus.                       *)
LEMMA EventStepsIs ==
  ASSUME PointerMoved \/ PointerPressed \/ PointerReleased \/ TextEntered \/ Edit
  PROVE  EventSteps /\ UNCHANGED <<tree, serial>>
<1>1. CASE PointerMoved
  BY <1>1 DEF PointerMoved, Hear, EventSteps
<1>2. CASE PointerPressed
  BY <1>2 DEF PointerPressed, Hear, EventSteps
<1>3. CASE PointerReleased
  BY <1>3 DEF PointerReleased, Hear, EventSteps
<1>4. CASE TextEntered
  BY <1>4 DEF TextEntered, InFocusedField, Hear, EventSteps
<1>5. CASE Edit
  BY <1>5 DEF Edit, InFocusedField, Hear, EventSteps
<1> QED  BY <1>1, <1>2, <1>3, <1>4, <1>5

(* A step that is no event leaves the press and the focus; a newcomer's    *)
(* number is given to the free slot.                                       *)
HostSteps ==
  /\ UNCHANGED <<pressed, focus, press_on>>
  /\ \/ UNCHANGED serial
     \/ \E p \in Live(tree) : \E n :
          tree.free # Nil /\ tree' = Grown(tree, p) /\ serial' = [serial EXCEPT ![tree.free] = n]

(* What each other step does to them, and to the numbers.                 *)
LEMMA HostStepsIs ==
  ASSUME Authoring \/ (\E view \in Views : Solve(view)) \/ UNCHANGED vars
  PROVE  HostSteps
<1>1. CASE UNCHANGED vars
  BY <1>1 DEF vars, program, history, HostSteps
<1>2. CASE \E view \in Views : Solve(view)
  BY <1>2 DEF Solve, HostSteps
<1>3. CASE Authoring
  <2>1. CASE \E s \in Slots : Insert(s)
    <3>1. PICK s \in Slots : Insert(s)
      BY <2>1
    <3>2. s \in Live(tree) /\ tree.free # Nil /\ tree' = Grown(tree, s)
          /\ UNCHANGED <<pressed, focus, press_on>>
      BY <3>1 DEF Insert, Edits, Live
    <3>3. \E n : serial' = [serial EXCEPT ![tree.free] = n]
      BY <3>1 DEF Insert
    <3> QED  BY <3>2, <3>3 DEF HostSteps
  <2>2. CASE \E s \in Slots : RemoveSubtree(s)
    BY <2>2 DEF RemoveSubtree, Edits, HostSteps
  <2>3. CASE \E s \in Slots : MakeField(s)
    BY <2>3 DEF MakeField, Edits, HostSteps
  <2>4. CASE \E s \in Slots : \E new \in Styles : SetStyle(s, new)
    BY <2>4 DEF SetStyle, Edits, HostSteps
  <2>5. CASE \E s \in Slots : \E table \in Tables : SetStateTable(s, table)
    BY <2>5 DEF SetStateTable, Edits, HostSteps
  <2>6. CASE \E pool \in Pools : SetPatchPool(pool)
    BY <2>6 DEF SetPatchPool, Edits, HostSteps
  <2> QED  BY <1>3, <2>1, <2>2, <2>3, <2>4, <2>5, <2>6 DEF Authoring
<1> QED  BY <1>1, <1>2, <1>3

(* The number of a slot whose node lives does not change. *)
LEMMA SerialStays ==
  ASSUME TreeInv(tree), HostSteps, TreeSteps, serial = [s \in Slots |-> serial[s]]
  PROVE  /\ serial' = [s \in Slots |-> serial'[s]]
         /\ \A s \in Live(tree) : serial'[s] = serial[s]
<1>1. CASE UNCHANGED serial
  BY <1>1, LiveFinite
<1>2. ASSUME NEW p \in Live(tree), NEW n,
             tree.free # Nil, serial' = [serial EXCEPT ![tree.free] = n]
      PROVE  /\ serial' = [s \in Slots |-> serial'[s]]
             /\ \A s \in Live(tree) : serial'[s] = serial[s]
  <2>1. tree.free \in Slots \ Live(tree)
    BY <1>2, GrownKeepsTree
  <2> QED  BY <1>2, <2>1, LiveFinite
<1> QED  BY <1>1, <1>2 DEF HostSteps

(* The press is known by the id of its node and by the node's number. *)
THEOREM PressHolds == Spec => []PressInv
<1>1. Init => PressInv
  <2> SUFFICES ASSUME Init PROVE PressInv
    OBVIOUS
  <2>1. TreeInv(tree)
    BY LoadedTree DEF Init
  <2> QED  BY <2>1 DEF Init, PressInv, Known, Names
<1>2. PressInv /\ [Next]_vars => PressInv'
  <2> SUFFICES ASSUME PressInv, [Next]_vars PROVE PressInv'
    OBVIOUS
  <2>1. /\ TreeInv(tree) /\ Known(tree, pressed) /\ Known(tree, focus)
        /\ serial = [s \in Slots |-> serial[s]]
        /\ Names(pressed) => press_on = serial[pressed.slot]
    BY DEF PressInv
  <2>2. TreeSteps /\ TreeInv(tree')
    BY <2>1, StepsOfTree, TreeStepKeeps
  <2>3. CASE PointerMoved \/ PointerPressed \/ PointerReleased \/ TextEntered \/ Edit
    <3>1. EventSteps /\ UNCHANGED <<tree, serial>>
      BY <2>3, EventStepsIs
    <3>2. Known(tree, HitId(pointer))
      BY <2>1, HitIdIs
    <3>3. CASE UNCHANGED <<pressed, focus, press_on>>
      BY <2>1, <3>1, <3>3 DEF PressInv, Names
    <3>4. CASE /\ UNCHANGED focus
               /\ pressed' = HitId(pointer)
               /\ press_on' = IF HitId(pointer) = None THEN None ELSE serial[HitId(pointer).slot]
      <4>1. Names(pressed)' => press_on' = serial'[pressed'.slot]
        BY <3>1, <3>4 DEF Names
      <4> QED  BY <2>1, <3>1, <3>2, <3>4, <4>1 DEF PressInv
    <3>5. CASE /\ pressed' = None /\ press_on' = None
               /\ focus' = IF Clicks(HitId(pointer)) THEN pressed ELSE focus
      <4>1. Known(tree', pressed') /\ Known(tree', focus')
        BY <2>1, <3>1, <3>5 DEF Known
      <4>2. ~Names(pressed)'
        BY <3>5 DEF Names
      <4> QED  BY <2>1, <3>1, <4>1, <4>2 DEF PressInv
    <3> QED  BY <3>1, <3>3, <3>4, <3>5 DEF EventSteps
  <2>4. CASE Authoring \/ (\E view \in Views : Solve(view)) \/ UNCHANGED vars
    <3>1. HostSteps /\ UNCHANGED <<pressed, focus, press_on>>
      BY <2>4, HostStepsIs DEF HostSteps
    <3>2. /\ serial' = [s \in Slots |-> serial'[s]]
          /\ \A s \in Live(tree) : serial'[s] = serial[s]
      BY <2>1, <2>2, <3>1, SerialStays
    <3>3. Known(tree', pressed') /\ Known(tree', focus')
      BY <2>1, <2>2, <3>1, KnownStays
    <3>4. ASSUME Names(pressed)'
          PROVE  press_on' = serial'[pressed'.slot]
      <4>1. pressed # None /\ IsLive(tree', pressed)
        BY <3>1, <3>4 DEF Names
      <4>2. IsLive(tree, pressed)
        BY <2>1, <2>2, <4>1, KnownStays
      <4>3. Names(pressed)
        BY <4>1, <4>2 DEF Names
      <4>4. pressed.slot \in Live(tree)
        BY <2>1, <4>1, <4>2 DEF Known, IsLive
      <4> QED  BY <2>1, <3>1, <3>2, <4>3, <4>4
    <3> QED  BY <2>2, <3>2, <3>3, <3>4 DEF PressInv
  <2> QED  BY <2>3, <2>4 DEF Next
<1> QED  BY <1>1, <1>2, PTL DEF Spec

(* A decision, and the focus that goes with it, is about the node under    *)
(* the pointer now, and the press fell on that very node, not on an        *)
(* earlier tenant of its slot (handle, PointerReleased).                   *)
THEOREM ClicksAreOneNode == Spec => ClickIsOneNode
<1>1. PressInv /\ [Next]_vars =>
        [focus' # focus =>
           LET s == HitTest(tree, rect, pointer)
           IN s # Nil /\ serial[s] = press_on /\ focus' = IdAt(tree, s)]_vars
  <2> SUFFICES ASSUME PressInv, [Next]_vars, focus' # focus
               PROVE  LET s == HitTest(tree, rect, pointer)
                      IN s # Nil /\ serial[s] = press_on /\ focus' = IdAt(tree, s)
    OBVIOUS
  <2>1. TreeInv(tree) /\ (Names(pressed) => press_on = serial[pressed.slot])
    BY DEF PressInv
  <2>2. CASE PointerMoved \/ PointerPressed \/ PointerReleased \/ TextEntered \/ Edit
    <3>1. Clicks(HitId(pointer)) /\ focus' = pressed
      BY <2>2, EventStepsIs DEF EventSteps
    <3>2. HitId(pointer) # None /\ HitId(pointer) = pressed
      BY <3>1 DEF Clicks
    <3> DEFINE s == HitTest(tree, rect, pointer)
    <3>3. s \in Live(tree) /\ pressed = IdAt(tree, s)
      BY <2>1, <3>2, HitIdIs
    <3> HIDE DEF s
    <3>4. IsLive(tree, pressed) /\ pressed.slot = s
      BY <2>1, <3>3, IdIsKnown
    <3>5. press_on = serial[s]
      BY <2>1, <3>2, <3>4 DEF Names
    <3>6. s # Nil
      BY <3>3, LiveFinite, SlotFacts
    <3> QED  BY <3>1, <3>3, <3>5, <3>6 DEF s
  <2>3. CASE Authoring \/ (\E view \in Views : Solve(view)) \/ UNCHANGED vars
    BY <2>3, HostStepsIs DEF HostSteps
  <2> QED  BY <2>2, <2>3 DEF Next
<1> QED  BY <1>1, PressHolds, PTL DEF Spec, ClickIsOneNode

(* A state whose table the pool can serve, dressed for its bits. *)
Fits(pool, state) ==
  /\ state = [table |-> state.table, base |-> state.base,
              applied |-> state.applied, bits |-> state.bits]
  /\ state.bits \in Bits /\ InPool(state.table, pool)
  /\ state.applied = Entry(state, state.bits)

(* The plain table names no patch.                                        *)
LEMMA PlainEntry == \A bits \in Bits : TableOf[Plain][bits] = NoPatch
BY TableAssumption

(* A state that is the default but for its base fits any pool.            *)
LEMMA DefaultFits ==
  ASSUME NEW pool, NEW base
  PROVE  LET state == [DefaultState EXCEPT !.base = base]
         IN /\ Fits(pool, state) /\ state.applied = NoPatch /\ state.base = base
            /\ state.bits = {} /\ state.table = Plain
<1> DEFINE state == [DefaultState EXCEPT !.base = base]
<1>1. state = [table |-> Plain, base |-> base, applied |-> NoPatch, bits |-> {}]
  BY DEF DefaultState
<1> HIDE DEF state
<1>2. /\ state.table = Plain /\ state.base = base /\ state.applied = NoPatch /\ state.bits = {}
      /\ state = [table |-> state.table, base |-> state.base,
                  applied |-> state.applied, bits |-> state.bits]
  BY <1>1
<1>3. {} \in Bits
  BY DEF Bits
<1>4. InPool(Plain, pool)
  BY PlainEntry DEF InPool
<1>5. Entry(state, {}) = NoPatch
  BY <1>2, <1>3, PlainEntry DEF Entry
<1>6. Fits(pool, state)
  BY <1>2, <1>3, <1>4, <1>5 DEF Fits
<1> QED  BY <1>2, <1>6 DEF state

(* The default state fits any pool.                                       *)
LEMMA DefaultStateFits ==
  ASSUME NEW pool
  PROVE  /\ Fits(pool, DefaultState) /\ DefaultState.applied = NoPatch
         /\ DefaultState.base = DefaultStyle /\ DefaultState.bits = {}
         /\ DefaultState.table = Plain
         /\ DefaultState = [DefaultState EXCEPT !.base = DefaultStyle]
<1>1. DefaultState = [DefaultState EXCEPT !.base = DefaultStyle]
  BY DEF DefaultState
<1> QED  BY <1>1, DefaultFits

(* wear keeps the table and the base, and dresses for the bits.           *)
LEMMA WornFits ==
  ASSUME NEW pool, NEW state, Fits(pool, state), NEW bits \in Bits
  PROVE  LET worn == WornState(state, bits)
         IN /\ Fits(pool, worn) /\ worn.table = state.table /\ worn.base = state.base
            /\ worn.applied = Entry(state, bits) /\ worn.bits = bits
<1> DEFINE worn == WornState(state, bits)
           entry == Entry(state, bits)
<1>1. worn = [table |-> state.table, base |-> state.base, applied |-> entry, bits |-> bits]
  <2> DEFINE a == state.table
             b == state.base
             c == state.applied
             d == state.bits
  <2>1. state = [table |-> a, base |-> b, applied |-> c, bits |-> d]
    BY DEF Fits
  <2>2. worn = [state EXCEPT !.applied = entry, !.bits = bits]
    BY DEF WornState
  <2> HIDE DEF worn, entry, a, b, c, d
  <2>3. worn = [table |-> a, base |-> b, applied |-> entry, bits |-> bits]
    BY <2>1, <2>2
  <2> QED  BY <2>3 DEF a, b
<1> HIDE DEF worn, entry
<1>2. /\ worn.table = state.table /\ worn.base = state.base
      /\ worn.applied = entry /\ worn.bits = bits
      /\ worn = [table |-> worn.table, base |-> worn.base,
                 applied |-> worn.applied, bits |-> worn.bits]
  BY <1>1
<1>3. Entry(worn, bits) = entry
  BY <1>2 DEF Entry, entry
<1>4. Fits(pool, worn)
  BY <1>2, <1>3 DEF Fits
<1> QED  BY <1>2, <1>4 DEF worn, entry

(* What a table names is a patch of the pool, or none.                    *)
LEMMA EntryKnown ==
  ASSUME NEW pool, NEW state, InPool(state.table, pool), NEW bits \in Bits
  PROVE  Entry(state, bits) = NoPatch \/ Entry(state, bits) \in DOMAIN pool
BY DEF InPool, Entry

(* Three bits have at most three holders.                                 *)
LEMMA ThreeAtMost ==
  ASSUME NEW a, NEW b, NEW c, NEW S, S \subseteq {a, b, c}
  PROVE  IsFiniteSet(S) /\ Cardinality(S) <= 3
<1>1. IsFiniteSet({a}) /\ Cardinality({a}) = 1
  BY FS_Singleton
<1>2. IsFiniteSet({a} \cup {b}) /\ Cardinality({a} \cup {b}) \in {1, 2}
  BY <1>1, FS_AddElement
<1>3. IsFiniteSet(({a} \cup {b}) \cup {c}) /\ Cardinality(({a} \cup {b}) \cup {c}) \in {1, 2, 3}
  BY <1>2, FS_AddElement
<1>4. ({a} \cup {b}) \cup {c} = {a, b, c}
  OBVIOUS
<1>5. IsFiniteSet({a, b, c}) /\ Cardinality({a, b, c}) <= 3 /\ Cardinality({a, b, c}) \in Nat
  BY <1>3, <1>4
<1>6. IsFiniteSet(S) /\ Cardinality(S) <= Cardinality({a, b, c})
  BY <1>5, FS_Subset
<1>7. Cardinality(S) \in Nat
  BY <1>6, FS_CardinalityType
<1> QED  BY <1>5, <1>6, <1>7

(* Who holds a bit is live, and is named by whoever gave it. *)
LEMMA BitsOfIs ==
  ASSUME TreeInv(tree), NEW hover, NEW down, NEW focused,
         Known(tree, hover), Known(tree, down), Known(tree, focused), NEW s \in Slots
  PROVE  LET bits == BitsOf(s, hover, down, focused)
         IN /\ bits \in Bits
            /\ bits # {} => /\ s \in Live(tree)
                            /\ \E x \in {hover, down, focused} : Names(x) /\ x.slot = s
<1> DEFINE holder == [hover |-> hover, pressed |-> down, focus |-> focused]
           bits == BitsOf(s, hover, down, focused)
           id == IdAt(tree, s)
<1>1. bits = {bit \in {"hover", "pressed", "focus"} : holder[bit] = id}
  BY DEF BitsOf
<1>2. bits \in Bits
  BY <1>1 DEF Bits
<1>3. holder["hover"] = hover /\ holder["pressed"] = down /\ holder["focus"] = focused
  OBVIOUS
<1>4. ASSUME NEW x \in {hover, down, focused}, x = id
      PROVE  s \in Live(tree) /\ Names(x) /\ x.slot = s
  <2>1. Known(tree, x)
    OBVIOUS
  <2>2. x = [slot |-> s, generation |-> tree.generation[s]]
    BY <1>4 DEF IdAt
  <2>3. x.slot = s /\ x.generation = tree.generation[s]
    BY <2>2
  <2>4. tree \in Trees
    BY DEF TreeInv, Linked
  <2>5. x \in IdSet
    BY <2>2, <2>4 DEF IdSet, Trees
  <2>6. x # None
    BY <2>5, NoneAssumption DEF IdSet
  <2>7. s \in Live(tree)
    BY <2>1, <2>3, <2>6 DEF Known
  <2> QED  BY <2>3, <2>6, <2>7 DEF Names, IsLive, Live
<1>5. ASSUME NEW bit \in bits
      PROVE  \E x \in {hover, down, focused} : x = id
  <2> HIDE DEF holder, id, bits
  <2> QED  BY <1>1, <1>3, <1>5
<1> HIDE DEF bits, id
<1>6. bits # {} => \E x \in {hover, down, focused} : x = id
  BY <1>5
<1> QED  BY <1>2, <1>4, <1>6 DEF bits

(* A slot that wears nothing and holds no bit goes on wearing nothing.    *)
LEMMA WornDefault == WornState(DefaultState, {}) = DefaultState
<1>1. Entry(DefaultState, {}) = NoPatch
  <2>1. {} \in Bits /\ DefaultState.table = Plain
    BY DEF Bits, DefaultState
  <2> QED  BY <2>1, PlainEntry DEF Entry
<1>2. WornState(DefaultState, {}) = [DefaultState EXCEPT !.applied = NoPatch, !.bits = {}]
  BY <1>1 DEF WornState
<1> QED  BY <1>2 DEF DefaultState

(* What one slot wears. *)
Dressed(s) ==
  /\ Fits(patches, states[s])
  /\ states[s].bits # {} => s \in stated
  /\ s \in Live(tree) => style[s] = StyleFor(patches, states[s].applied, states[s].base)
  /\ s \notin Live(tree) => states[s] = DefaultState
  /\ (heard /\ s \in Live(tree)) =>
       states[s].applied = Entry(states[s], BitsOf(s, HitId(pointer), pressed, focus))

DressInv ==
  /\ patches \in Pools \cup {DocumentPool}
  /\ style = [s \in Slots |-> style[s]] /\ states = [s \in Slots |-> states[s]]
  /\ IsFiniteSet(stated) /\ Cardinality(stated) <= 3
  /\ \A s \in Slots : Dressed(s)

(* Nobody is few enough.                                                  *)
LEMMA NothingStated == IsFiniteSet({}) /\ Cardinality({}) <= 3
BY FS_EmptySet

(* The default state with another table and base, as a record.            *)
LEMMA BareIs ==
  ASSUME NEW table, NEW base
  PROVE  [DefaultState EXCEPT !.table = table, !.base = base]
           = [table |-> table, base |-> base, applied |-> NoPatch, bits |-> {}]
<1> DEFINE d == [table |-> Plain, base |-> DefaultStyle, applied |-> NoPatch, bits |-> {}]
           e == [d EXCEPT !.table = table]
           f == [e EXCEPT !.base = base]
<1>1. e = [table |-> table, base |-> DefaultStyle, applied |-> NoPatch, bits |-> {}]
  OBVIOUS
<1> HIDE DEF e
<1>2. f = [table |-> table, base |-> base, applied |-> NoPatch, bits |-> {}]
  BY <1>1
<1> QED  BY <1>2, Zenon DEF DefaultState, d, e

(* A document's node is dressed for no bits.                              *)
LEMMA LoadedFits ==
  ASSUME NEW s \in Slots
  PROVE  Fits(DocumentPool, LoadedState(s))
<1> DEFINE node == Document[s + 1]
           table == node.table
           base == node.style
           bare == [DefaultState EXCEPT !.table = table, !.base = base]
           state == LoadedState(s)
           entry == TableOf[table][{}]
<1>1. s + 1 \in DOMAIN Document
  BY DocumentAssumption, SlotFacts DEF Slots
<1>2. InPool(table, DocumentPool)
  BY <1>1, DocumentAssumption
<1>3. state = WornState(bare, {})
  BY DEF LoadedState
<1> HIDE DEF node, table, base, state
<1>4. bare = [table |-> table, base |-> base, applied |-> NoPatch, bits |-> {}]
  BY BareIs
<1> HIDE DEF bare
<1>5. Entry(bare, {}) = entry
  BY <1>4 DEF Entry
<1>6. state = [bare EXCEPT !.applied = entry, !.bits = {}]
  BY <1>3, <1>5 DEF WornState
<1> HIDE DEF entry
<1>7. state = [table |-> table, base |-> base, applied |-> entry, bits |-> {}]
  BY <1>4, <1>6
<1>8. /\ state.table = table /\ state.base = base /\ state.applied = entry /\ state.bits = {}
      /\ state = [table |-> state.table, base |-> state.base,
                  applied |-> state.applied, bits |-> state.bits]
  BY <1>7
<1>9. Entry(state, {}) = entry
  BY <1>8 DEF Entry, entry
<1>10. {} \in Bits
  BY DEF Bits
<1>11. Fits(DocumentPool, state)
  BY <1>2, <1>8, <1>9, <1>10 DEF Fits
<1> QED  BY <1>11 DEF state

(* A loaded document is dressed.                                          *)
LEMMA InitDressed == Init => DressInv
<1> SUFFICES ASSUME Init PROVE DressInv
  OBVIOUS
<1>1. /\ patches = DocumentPool /\ stated = {} /\ heard = FALSE /\ tree = Loaded
      /\ states = [s \in Slots |-> LoadedState(s)]
      /\ style = [s \in Slots |-> StyleFor(patches, states[s].applied, states[s].base)]
  BY DEF Init
<1>2. Live(tree) = Slots
  BY <1>1, LoadedTree
<1>3. ASSUME NEW s \in Slots
      PROVE  Dressed(s)
  <2>1. states[s] = LoadedState(s)
    BY <1>1
  <2>2. Fits(patches, states[s])
    BY <1>1, <2>1, LoadedFits
  <2>3. style[s] = StyleFor(patches, states[s].applied, states[s].base)
    BY <1>1
  <2>4. states[s].bits = {}
    <3> DEFINE bare == [DefaultState EXCEPT !.table = Document[s + 1].table,
                                            !.base = Document[s + 1].style]
    <3>1. bare = [table |-> Document[s + 1].table, base |-> Document[s + 1].style,
                  applied |-> NoPatch, bits |-> {}]
      BY BareIs
    <3>2. LoadedState(s) = [bare EXCEPT !.applied = Entry(bare, {}), !.bits = {}]
      BY DEF LoadedState, WornState
    <3> HIDE DEF bare
    <3> QED  BY <2>1, <3>1, <3>2
  <2> QED  BY <1>1, <1>2, <2>2, <2>3, <2>4 DEF Dressed
<1> QED  BY <1>1, <1>3, NothingStated DEF DressInv

(* The style after wear is that of the patch worn, or the base.           *)
LEMMA WornStyleIs ==
  ASSUME NEW state, NEW bits, NEW worn, worn = StyleFor(patches, state.applied, state.base)
  PROVE  WornStyle(state, bits, worn) = StyleFor(patches, Entry(state, bits), state.base)
BY DEF WornStyle

(* An event dresses anew whoever wore bits and whoever holds one. *)
LEMMA HearKeepsDress ==
  ASSUME PressInv, PressInv', DressInv, NEW point, NEW down, NEW focused,
         Hear(point, down, focused)
  PROVE  DressInv'
<1> DEFINE hover == HitId(point)
           holders == {id.slot : id \in {x \in {hover, down, focused} : Names(x)}}
           bits == [s \in Slots |-> BitsOf(s, hover, down, focused)]
           again == Redressed(holders)
<1>1. /\ pointer' = point /\ pressed' = down /\ focus' = focused
      /\ states' = [s \in Slots |-> IF s \in again THEN WornState(states[s], bits[s])
                                    ELSE states[s]]
      /\ style' = [s \in Slots |-> IF s \in again THEN WornStyle(states[s], bits[s], style[s])
                                   ELSE style[s]]
      /\ stated' = {s \in holders : bits[s] # {}}
      /\ heard' = TRUE
      /\ UNCHANGED <<tree, rect, patches>>
  BY DEF Hear
<1>2. TreeInv(tree) /\ Known(tree, down) /\ Known(tree, focused) /\ Known(tree, hover)
  BY <1>1, HitIdIs DEF PressInv
<1>3. \A s \in Slots : Dressed(s)
  BY DEF DressInv
<1>4. HitId(pointer)' = hover
  BY <1>1 DEF HitId
<1> HIDE DEF hover
<1>5. again = stated \cup holders
  BY DEF Redressed
<1>6. ASSUME NEW s \in Slots
      PROVE  /\ bits[s] = BitsOf(s, hover, down, focused) /\ bits[s] \in Bits
             /\ bits[s] # {} => s \in Live(tree) /\ s \in holders
             /\ BitsOf(s, HitId(pointer), pressed, focus)' = bits[s]
  <2>1. bits[s] = BitsOf(s, hover, down, focused)
    OBVIOUS
  <2>2. /\ bits[s] \in Bits
        /\ bits[s] # {} => /\ s \in Live(tree)
                           /\ \E x \in {hover, down, focused} : Names(x) /\ x.slot = s
    <3> HIDE DEF bits
    <3> QED  BY <1>2, <2>1, BitsOfIs
  <2>3. (\E x \in {hover, down, focused} : Names(x) /\ x.slot = s) => s \in holders
    OBVIOUS
  <2>4. BitsOf(s, HitId(pointer), pressed, focus)' = BitsOf(s, hover, down, focused)
    BY <1>1, <1>4 DEF BitsOf
  <2> HIDE DEF bits, holders
  <2> QED  BY <2>1, <2>2, <2>3, <2>4
<1>7. holders \subseteq {hover.slot, down.slot, focused.slot}
  OBVIOUS
<1> HIDE DEF holders, bits, again
<1>8. IsFiniteSet(stated') /\ Cardinality(stated') <= 3
  <2>1. stated' \subseteq {hover.slot, down.slot, focused.slot}
    BY <1>1, <1>7
  <2> QED  BY <2>1, ThreeAtMost
<1>9. ASSUME NEW s \in Slots
      PROVE  Dressed(s)'
  <2>1. /\ Fits(patches, states[s])
        /\ states[s].bits # {} => s \in stated
        /\ s \in Live(tree) => style[s] = StyleFor(patches, states[s].applied, states[s].base)
        /\ s \notin Live(tree) => states[s] = DefaultState
    BY <1>3 DEF Dressed
  <2>2. CASE s \in again
    <3>1. /\ states'[s] = WornState(states[s], bits[s])
          /\ style'[s] = WornStyle(states[s], bits[s], style[s])
      BY <1>1, <2>2
    <3>2. /\ Fits(patches, states'[s])
          /\ states'[s].table = states[s].table /\ states'[s].base = states[s].base
          /\ states'[s].applied = Entry(states[s], bits[s]) /\ states'[s].bits = bits[s]
      BY <1>6, <2>1, <3>1, WornFits
    <3>3. s \in Live(tree) => style'[s] = StyleFor(patches, states'[s].applied, states'[s].base)
      BY <2>1, <3>1, <3>2, WornStyleIs
    <3>4. s \notin Live(tree) => states'[s] = DefaultState
      BY <1>6, <2>1, <3>1, WornDefault
    <3>5. states'[s].bits # {} => s \in stated'
      BY <1>1, <1>6, <3>2
    <3>6. states'[s].applied = Entry(states'[s], bits[s])
      BY <3>2 DEF Entry
    <3> QED  BY <1>1, <1>6, <3>2, <3>3, <3>4, <3>5, <3>6 DEF Dressed
  <2>3. CASE s \notin again
    <3>1. states'[s] = states[s] /\ style'[s] = style[s]
      BY <1>1, <2>3
    <3>2. bits[s] = {} /\ states[s].bits = {}
      BY <1>5, <1>6, <2>1, <2>3
    <3>3. states[s].applied = Entry(states[s], bits[s])
      BY <2>1, <3>2 DEF Fits
    <3> QED  BY <1>1, <1>6, <2>1, <3>1, <3>2, <3>3 DEF Dressed
  <2> QED  BY <2>2, <2>3
<1>10. /\ patches' \in Pools \cup {DocumentPool}
       /\ style' = [s \in Slots |-> style'[s]] /\ states' = [s \in Slots |-> states'[s]]
  BY <1>1 DEF DressInv
<1> QED  BY <1>8, <1>9, <1>10 DEF DressInv

(* What is dressed stays dressed when nothing about it changes. *)
LEMMA StaysDressed ==
  ASSUME NEW s \in Slots, Dressed(s), UNCHANGED <<patches, stated>>, heard' = FALSE,
         states'[s] = states[s], style'[s] = style[s],
         s \in Live(tree') <=> s \in Live(tree)
  PROVE  Dressed(s)'
<1>1. s \in Live(tree)' <=> s \in Live(tree)
  OBVIOUS
<1> QED  BY <1>1 DEF Dressed

(* insert: the newcomer wears nothing.                                    *)
LEMMA InsertKeepsDress ==
  ASSUME TreeInv(tree), DressInv, NEW p \in Slots, Insert(p)
  PROVE  DressInv'
<1> DEFINE f == tree.free
<1>1. /\ p \in Live(tree) /\ f # Nil /\ tree' = Grown(tree, p)
      /\ style' = [style EXCEPT ![f] = DefaultStyle]
      /\ states' = [states EXCEPT ![f] = DefaultState]
      /\ heard' = FALSE /\ UNCHANGED <<patches, stated>>
  BY DEF Insert, Live
<1>2. f \in Slots \ Live(tree) /\ Live(tree') = Live(tree) \cup {f}
  BY <1>1, GrownKeepsTree
<1> HIDE DEF f
<1>3. /\ patches \in Pools \cup {DocumentPool} /\ \A s \in Slots : Dressed(s)
      /\ style = [s \in Slots |-> style[s]] /\ states = [s \in Slots |-> states[s]]
      /\ IsFiniteSet(stated) /\ Cardinality(stated) <= 3
  BY DEF DressInv
<1>4. /\ style' = [s \in Slots |-> style'[s]] /\ states' = [s \in Slots |-> states'[s]]
      /\ \A s \in Slots : style'[s] = IF s = f THEN DefaultStyle ELSE style[s]
      /\ \A s \in Slots : states'[s] = IF s = f THEN DefaultState ELSE states[s]
  BY <1>1, <1>3
<1>5. ASSUME NEW s \in Slots
      PROVE  Dressed(s)'
  <2>1. CASE s = f
    <3>1. states'[s] = DefaultState /\ style'[s] = DefaultStyle
      BY <1>4, <2>1
    <3>2. Fits(patches', states'[s])
      BY <3>1, DefaultStateFits
    <3>3. NoPatch \notin DOMAIN patches'
      BY <1>1, <1>3, PoolAssumption
    <3>4. StyleFor(patches', DefaultState.applied, DefaultState.base) = DefaultStyle
      BY <3>3, DefaultStateFits DEF StyleFor
    <3>5. DefaultState.bits = {}
      BY DefaultStateFits
    <3> QED  BY <1>1, <3>1, <3>2, <3>4, <3>5 DEF Dressed
  <2>2. CASE s # f
    <3>1. s \in Live(tree') <=> s \in Live(tree)
      BY <1>2, <2>2
    <3>2. states'[s] = states[s] /\ style'[s] = style[s]
      BY <1>4, <2>2
    <3> QED  BY <1>1, <1>3, <3>1, <3>2, StaysDressed
  <2> QED  BY <2>1, <2>2
<1> QED  BY <1>1, <1>3, <1>4, <1>5 DEF DressInv

(* remove: those that go wear nothing any more.                           *)
LEMMA RemoveKeepsDress ==
  ASSUME TreeInv(tree), DressInv, NEW r \in Slots, RemoveSubtree(r)
  PROVE  DressInv'
<1>1. /\ r \in Live(tree) /\ r # Root /\ tree' = Pruned(tree, r)
      /\ states' = [n \in Slots |-> IF tree.live[n] /\ ~tree'.live[n] THEN DefaultState
                                    ELSE states[n]]
      /\ heard' = FALSE /\ UNCHANGED <<patches, stated, style>>
  BY DEF RemoveSubtree, Live
<1>2. Live(tree') \subseteq Live(tree)
  BY <1>1, PrunedKeepsTree
<1>3. /\ patches \in Pools \cup {DocumentPool} /\ \A s \in Slots : Dressed(s)
      /\ style = [s \in Slots |-> style[s]] /\ states = [s \in Slots |-> states[s]]
      /\ IsFiniteSet(stated) /\ Cardinality(stated) <= 3
  BY DEF DressInv
<1>4. ASSUME NEW s \in Slots
      PROVE  states'[s] = IF s \in Live(tree) /\ s \notin Live(tree') THEN DefaultState
                          ELSE states[s]
  BY <1>1 DEF Live
<1>5. ASSUME NEW s \in Slots
      PROVE  Dressed(s)'
  <2>1. CASE s \in Live(tree) /\ s \notin Live(tree')
    <3>1. states'[s] = DefaultState
      BY <1>4, <2>1
    <3>2. Fits(patches', states'[s]) /\ DefaultState.bits = {}
      BY <3>1, DefaultStateFits
    <3> QED  BY <1>1, <2>1, <3>1, <3>2 DEF Dressed
  <2>2. CASE ~(s \in Live(tree) /\ s \notin Live(tree'))
    <3>1. s \in Live(tree') <=> s \in Live(tree)
      BY <1>2, <2>2
    <3>2. states'[s] = states[s]
      BY <1>4, <2>2
    <3> QED  BY <1>1, <1>3, <3>1, <3>2, StaysDressed
  <2> QED  BY <2>1, <2>2
<1>6. states' = [s \in Slots |-> states'[s]] /\ style' = [s \in Slots |-> style'[s]]
  BY <1>1, <1>3
<1> QED  BY <1>1, <1>3, <1>5, <1>6 DEF DressInv

(* Another base changes nothing else.                                     *)
LEMMA BaseFits ==
  ASSUME NEW pool, NEW state, Fits(pool, state), NEW base
  PROVE  LET new == [state EXCEPT !.base = base]
         IN /\ Fits(pool, new) /\ new.table = state.table /\ new.base = base
            /\ new.applied = state.applied /\ new.bits = state.bits
<1> DEFINE new == [state EXCEPT !.base = base]
           a == state.table
           b == state.base
           c == state.applied
           d == state.bits
<1>1. state = [table |-> a, base |-> b, applied |-> c, bits |-> d]
  BY DEF Fits
<1>2. d \in Bits /\ InPool(a, pool) /\ c = TableOf[a][d]
  BY DEF Fits, Entry
<1> HIDE DEF a, b, c, d
<1>3. new = [table |-> a, base |-> base, applied |-> c, bits |-> d]
  BY <1>1
<1> HIDE DEF new
<1>4. /\ new.table = a /\ new.base = base /\ new.applied = c /\ new.bits = d
      /\ new = [table |-> new.table, base |-> new.base,
                applied |-> new.applied, bits |-> new.bits]
  BY <1>3
<1>5. Fits(pool, new)
  BY <1>2, <1>4 DEF Fits, Entry
<1> QED  BY <1>4, <1>5 DEF new, a, b, c, d

(* set_style: a base under a patch stays out of sight.                    *)
LEMMA SetStyleKeepsDress ==
  ASSUME TreeInv(tree), DressInv, NEW r \in Slots, NEW new, SetStyle(r, new)
  PROVE  DressInv'
<1>1. /\ states' = [states EXCEPT ![r].base = new]
      /\ style' = IF states[r].applied = NoPatch THEN [style EXCEPT ![r] = new] ELSE style
      /\ heard' = FALSE /\ UNCHANGED <<patches, stated, tree>>
  BY DEF SetStyle
<1>2. /\ patches \in Pools \cup {DocumentPool} /\ \A s \in Slots : Dressed(s)
      /\ style = [s \in Slots |-> style[s]] /\ states = [s \in Slots |-> states[s]]
      /\ IsFiniteSet(stated) /\ Cardinality(stated) <= 3
  BY DEF DressInv
<1>3. /\ style' = [s \in Slots |-> style'[s]] /\ states' = [s \in Slots |-> states'[s]]
      /\ \A s \in Slots : s # r => style'[s] = style[s] /\ states'[s] = states[s]
      /\ style'[r] = IF states[r].applied = NoPatch THEN new ELSE style[r]
      /\ states'[r] = [states[r] EXCEPT !.base = new]
  BY <1>1, <1>2
<1>4. ASSUME NEW s \in Slots
      PROVE  Dressed(s)'
  <2>1. CASE s = r
    <3>1. /\ Fits(patches, states[s])
          /\ states[s].bits # {} => s \in stated
          /\ s \in Live(tree) => style[s] = StyleFor(patches, states[s].applied, states[s].base)
      BY <1>2 DEF Dressed
    <3>2. /\ Fits(patches, states'[s]) /\ states'[s].base = new
          /\ states'[s].applied = states[s].applied /\ states'[s].bits = states[s].bits
      <4> DEFINE d == [states[s] EXCEPT !.base = new]
      <4>1. states'[s] = d
        BY <1>3, <2>1
      <4>2. Fits(patches, states[s])
        BY <3>1
      <4>3. /\ Fits(patches, d) /\ d.base = new
            /\ d.applied = states[s].applied /\ d.bits = states[s].bits
        BY <4>2, BaseFits
      <4> HIDE DEF d
      <4> QED  BY <4>1, <4>3
    <3>3. s \in Live(tree)
      BY <2>1 DEF SetStyle, Live
    <3>4. style'[s] = StyleFor(patches, states'[s].applied, states'[s].base)
      <4>1. NoPatch \notin DOMAIN patches
        BY <1>2, PoolAssumption
      <4>2. CASE states[s].applied = NoPatch
        BY <1>3, <2>1, <3>2, <4>1, <4>2 DEF StyleFor
      <4>3. CASE states[s].applied # NoPatch
        <5>1. states[s].applied \in DOMAIN patches
          BY <3>1, <4>3, EntryKnown DEF Fits
        <5> QED  BY <1>3, <2>1, <3>1, <3>2, <3>3, <4>3, <5>1 DEF StyleFor
      <4> QED  BY <4>2, <4>3
    <3> QED  BY <1>1, <3>1, <3>2, <3>3, <3>4 DEF Dressed
  <2>2. CASE s # r
    BY <1>1, <1>2, <1>3, <2>2, StaysDressed
  <2> QED  BY <2>1, <2>2
<1> QED  BY <1>1, <1>2, <1>3, <1>4 DEF DressInv

(* Another table, worn for the bits held.                                 *)
LEMMA TableFits ==
  ASSUME NEW pool, NEW state, Fits(pool, state), NEW table, InPool(table, pool)
  PROVE  LET bare == [state EXCEPT !.table = table]
             worn == WornState(bare, bare.bits)
         IN /\ Fits(pool, worn) /\ worn.table = table /\ worn.base = state.base
            /\ worn.applied = Entry(bare, bare.bits) /\ worn.bits = state.bits
            /\ bare.base = state.base /\ bare.applied = state.applied
            /\ bare.bits = state.bits /\ bare.table = table
<1> DEFINE bare == [state EXCEPT !.table = table]
           worn == WornState(bare, bare.bits)
           a == state.table
           b == state.base
           c == state.applied
           d == state.bits
           entry == TableOf[table][d]
<1>1. state = [table |-> a, base |-> b, applied |-> c, bits |-> d]
  BY DEF Fits
<1>2. d \in Bits
  BY DEF Fits
<1> HIDE DEF a, b, c, d
<1>3. bare = [table |-> table, base |-> b, applied |-> c, bits |-> d]
  BY <1>1
<1> HIDE DEF bare
<1>4. bare.table = table /\ bare.base = b /\ bare.applied = c /\ bare.bits = d
  BY <1>3
<1>5. Entry(bare, bare.bits) = entry
  BY <1>4 DEF Entry
<1>6. worn = [bare EXCEPT !.applied = entry, !.bits = d]
  BY <1>4, <1>5 DEF WornState
<1> HIDE DEF entry, worn
<1>7. worn = [table |-> table, base |-> b, applied |-> entry, bits |-> d]
  BY <1>3, <1>6
<1>8. /\ worn.table = table /\ worn.base = b /\ worn.applied = entry /\ worn.bits = d
      /\ worn = [table |-> worn.table, base |-> worn.base,
                 applied |-> worn.applied, bits |-> worn.bits]
  BY <1>7
<1>9. Entry(worn, d) = entry
  BY <1>8 DEF Entry, entry
<1>10. Fits(pool, worn)
  BY <1>2, <1>8, <1>9 DEF Fits
<1> QED  BY <1>4, <1>5, <1>8, <1>10 DEF worn, bare, a, b, c, d

(* set_state_table: the node is dressed by its new table.                 *)
LEMMA SetTableKeepsDress ==
  ASSUME TreeInv(tree), DressInv, NEW r \in Slots, NEW table, SetStateTable(r, table)
  PROVE  DressInv'
<1> DEFINE bare == [states[r] EXCEPT !.table = table]
           worn == WornState(bare, bare.bits)
<1>1. /\ states' = [states EXCEPT ![r] = worn]
      /\ style' = [style EXCEPT ![r] = WornStyle(bare, bare.bits, style[r])]
      /\ heard' = FALSE /\ UNCHANGED <<patches, stated, tree>>
      /\ InPool(table, patches) /\ r \in Live(tree)
  BY DEF SetStateTable, Live
<1>2. /\ patches \in Pools \cup {DocumentPool} /\ \A s \in Slots : Dressed(s)
      /\ style = [s \in Slots |-> style[s]] /\ states = [s \in Slots |-> states[s]]
      /\ IsFiniteSet(stated) /\ Cardinality(stated) <= 3
  BY DEF DressInv
<1>3. /\ Fits(patches, states[r]) /\ (states[r].bits # {} => r \in stated)
      /\ style[r] = StyleFor(patches, states[r].applied, states[r].base)
  BY <1>1, <1>2 DEF Dressed
<1>4. /\ Fits(patches, worn) /\ worn.base = states[r].base
      /\ worn.applied = Entry(bare, bare.bits) /\ worn.bits = states[r].bits
      /\ bare.base = states[r].base /\ bare.applied = states[r].applied
  BY <1>1, <1>3, TableFits
<1> HIDE DEF bare, worn
<1>5. /\ style' = [s \in Slots |-> style'[s]] /\ states' = [s \in Slots |-> states'[s]]
      /\ \A s \in Slots : s # r => style'[s] = style[s] /\ states'[s] = states[s]
      /\ style'[r] = WornStyle(bare, bare.bits, style[r]) /\ states'[r] = worn
  BY <1>1, <1>2
<1>6. ASSUME NEW s \in Slots
      PROVE  Dressed(s)'
  <2>1. CASE s = r
    <3>1. style'[s] = StyleFor(patches, worn.applied, worn.base)
      <4>1. style[r] = StyleFor(patches, bare.applied, bare.base)
        BY <1>3, <1>4
      <4>2. WornStyle(bare, bare.bits, style[r]) = StyleFor(patches, Entry(bare, bare.bits), bare.base)
        BY <4>1, WornStyleIs
      <4> QED  BY <1>4, <1>5, <2>1, <4>2
    <3> QED  BY <1>1, <1>3, <1>4, <1>5, <2>1, <3>1 DEF Dressed
  <2>2. CASE s # r
    BY <1>1, <1>2, <1>5, <2>2, StaysDressed
  <2> QED  BY <2>1, <2>2
<1> QED  BY <1>1, <1>2, <1>5, <1>6 DEF DressInv

(* set_patch_pool: everything is taken off.                               *)
LEMMA SetPoolKeepsDress ==
  ASSUME TreeInv(tree), DressInv, NEW pool \in Pools, SetPatchPool(pool)
  PROVE  DressInv'
<1> DEFINE wearing == {s \in Slots : states[s].applied # NoPatch}
<1>1. /\ patches' = pool /\ stated' = {} /\ heard' = FALSE /\ UNCHANGED tree
      /\ states' = [s \in Slots |-> [DefaultState EXCEPT !.base = states[s].base]]
      /\ style' = [s \in Slots |-> IF s \in wearing THEN states[s].base ELSE style[s]]
  BY DEF SetPatchPool
<1>2. /\ patches \in Pools \cup {DocumentPool} /\ \A s \in Slots : Dressed(s)
  BY DEF DressInv
<1>3. NoPatch \notin DOMAIN patches /\ NoPatch \notin DOMAIN pool
  BY <1>2, PoolAssumption
<1>4. ASSUME NEW s \in Slots
      PROVE  Dressed(s)'
  <2> DEFINE new == [DefaultState EXCEPT !.base = states[s].base]
  <2>1. states'[s] = new /\ style'[s] = IF states[s].applied # NoPatch THEN states[s].base ELSE style[s]
    BY <1>1
  <2>2. Fits(pool, new) /\ new.applied = NoPatch /\ new.base = states[s].base /\ new.bits = {}
    BY DefaultFits
  <2>3. /\ s \in Live(tree) => style[s] = StyleFor(patches, states[s].applied, states[s].base)
        /\ s \notin Live(tree) => states[s] = DefaultState
    BY <1>2 DEF Dressed
  <2>4. s \notin Live(tree) => new = DefaultState
    <3>1. states[s] = DefaultState => states[s].base = DefaultStyle
      BY DefaultStateFits
    <3> QED  BY <2>3, <3>1, DefaultStateFits
  <2> HIDE DEF new
  <2>5. s \in Live(tree) => style'[s] = StyleFor(pool, new.applied, new.base)
    BY <1>3, <2>1, <2>2, <2>3 DEF StyleFor
  <2> QED  BY <1>1, <2>1, <2>2, <2>4, <2>5 DEF Dressed
<1>5. style' = [s \in Slots |-> style'[s]] /\ states' = [s \in Slots |-> states'[s]]
  BY <1>1
<1> QED  BY <1>1, <1>4, <1>5, NothingStated DEF DressInv

(* Steps that touch nothing that is worn.                                 *)
LEMMA StillDressed ==
  ASSUME DressInv, UNCHANGED <<tree, style, patches, states, stated>>,
         heard' = FALSE \/ UNCHANGED <<rect, pointer, pressed, focus, heard>>
  PROVE  DressInv'
<1>1. \A s \in Slots : Dressed(s)
  BY DEF DressInv
<1>2. ASSUME NEW s \in Slots
      PROVE  Dressed(s)'
  <2>1. CASE heard' = FALSE
    BY <1>1, <2>1 DEF Dressed
  <2>2. CASE UNCHANGED <<rect, pointer, pressed, focus, heard>>
    <3>1. HitId(pointer)' = HitId(pointer)
      BY <2>2 DEF HitId
    <3>2. BitsOf(s, HitId(pointer), pressed, focus)' = BitsOf(s, HitId(pointer), pressed, focus)
      BY <2>2, <3>1 DEF BitsOf
    <3> QED  BY <1>1, <2>2, <3>2 DEF Dressed
  <2> QED  BY <2>1, <2>2
<1> QED  BY <1>2 DEF DressInv

(* Every node wears what its table says of its bits.                       *)
THEOREM DressHolds == Spec => []DressInv
<1>1. PressInv /\ PressInv' /\ DressInv /\ [Next]_vars => DressInv'
  <2> SUFFICES ASSUME PressInv, PressInv', DressInv, [Next]_vars PROVE DressInv'
    OBVIOUS
  <2>1. TreeInv(tree)
    BY DEF PressInv
  <2>2. CASE UNCHANGED vars
    BY <2>2, StillDressed DEF vars, program, history
  <2>3. CASE PointerMoved \/ PointerPressed \/ PointerReleased \/ TextEntered \/ Edit
    <3>1. \E a, b, c : Hear(a, b, c)
      BY <2>3 DEF PointerMoved, PointerPressed, PointerReleased, TextEntered, Edit
    <3> QED  BY <3>1, HearKeepsDress
  <2>4. CASE \E view \in Views : Solve(view)
    BY <2>4, StillDressed DEF Solve
  <2>5. CASE Authoring
    <3>1. CASE \E s \in Slots : Insert(s)
      BY <2>1, <3>1, InsertKeepsDress
    <3>2. CASE \E s \in Slots : RemoveSubtree(s)
      BY <2>1, <3>2, RemoveKeepsDress
    <3>3. CASE \E s \in Slots : MakeField(s)
      <4>1. UNCHANGED <<tree, style, rect, patches, states, stated, heard, pointer, pressed, focus>>
        BY <3>3 DEF MakeField, Edits
      <4> QED  BY <4>1, StillDressed
    <3>4. CASE \E s \in Slots : \E new \in Styles : SetStyle(s, new)
      BY <2>1, <3>4, SetStyleKeepsDress
    <3>5. CASE \E s \in Slots : \E table \in Tables : SetStateTable(s, table)
      BY <2>1, <3>5, SetTableKeepsDress
    <3>6. CASE \E pool \in Pools : SetPatchPool(pool)
      BY <2>1, <3>6, SetPoolKeepsDress
    <3> QED  BY <2>5, <3>1, <3>2, <3>3, <3>4, <3>5, <3>6 DEF Authoring
  <2> QED  BY <2>2, <2>3, <2>4, <2>5 DEF Next
<1> QED  BY <1>1, InitDressed, PressHolds, PTL DEF Spec

(* After an event every live node wears what its table says of the bits    *)
(* that are its own now, and whoever wears bits will be found when it      *)
(* loses them; a dead slot wears nothing; and the style in force is that   *)
(* of the patch, or the base (refresh_states, wear, reset_state_slot).     *)
THEOREM DressIsFollowed == Spec => []DressFollows
<1>1. DressInv => DressFollows
  <2> SUFFICES ASSUME DressInv PROVE DressFollows
    OBVIOUS
  <2>1. Cardinality(stated) <= 3 /\ \A s \in Slots : Dressed(s)
    BY DEF DressInv
  <2>2. ASSUME NEW s \in Slots
        PROVE  IF tree.live[s]
               THEN /\ style[s] = StyleFor(patches, states[s].applied, states[s].base)
                    /\ states[s].bits # {} => s \in stated
                    /\ heard => states[s].applied =
                                  Entry(states[s], BitsOf(s, HitId(pointer), pressed, focus))
               ELSE states[s] = DefaultState
    BY <2>1 DEF Dressed, Live
  <2> QED  BY <2>1, <2>2 DEF DressFollows
<1> QED  BY <1>1, DressHolds, PTL

(* The solver sees nothing of the styles but the sizes. *)
LEMMA SolvedBySizes ==
  ASSUME NEW t, NEW a, NEW b, Sizes(a) = Sizes(b), NEW r, NEW w
  PROVE  Solved(t, a, r, w) = Solved(t, b, r, w)
BY Zenon DEF Solved

(* Solving again changes nothing. *)
LEMMA SolvedTwice ==
  ASSUME NEW t, NEW a, NEW r, NEW w
  PROVE  Solved(t, a, Solved(t, a, r, w), w) = Solved(t, a, r, w)
<1> DEFINE wanted == Wanted(t, Sizes(a))
           left == CHOOSE f : f = [s \in Slots |->
                     IF s = Root THEN 0
                     ELSE IF t.prev[s] = Nil THEN f[t.parent[s]]
                     ELSE f[t.prev[s]] + wanted[t.prev[s]]]
           Place(s) == [x |-> left[s], width |-> IF s = Root THEN w ELSE wanted[s]]
           new == Solved(t, a, r, w)
           again == Solved(t, a, new, w)
<1>1. new = [s \in Slots |-> IF t.live[s] THEN Place(s) ELSE r[s]]
  BY Zenon DEF Solved
<1> HIDE DEF new
<1>2. again = [s \in Slots |-> IF t.live[s] THEN Place(s) ELSE new[s]]
  BY Zenon DEF Solved
<1> HIDE DEF again, Place, left, wanted
<1>3. \A s \in Slots : new[s] = again[s]
  BY <1>1, <1>2
<1>4. new = [s \in Slots |-> new[s]] /\ again = [s \in Slots |-> again[s]]
  BY <1>1, <1>2
<1>5. new = again
  BY <1>3, <1>4
<1> QED  BY <1>5 DEF new, again

(* A patch that does not touch the layout leaves its wearer's size. *)
LEMMA QuietSize ==
  ASSUME NoPatch \notin DOMAIN patches, NEW base, NEW table, Resolved(base, table, patches),
         NEW bits \in Bits, ~Touches(TableOf[table][bits])
  PROVE  StyleFor(patches, TableOf[table][bits], base).size = base.size
<1> DEFINE patch == TableOf[table][bits]
<1>1. (patch # NoPatch /\ MovesGeometry(base, patches[patch].style)) => patches[patch].touches_layout
  BY DEF Resolved
<1> HIDE DEF patch
<1>2. CASE patch \in DOMAIN patches
  <2>1. patch # NoPatch
    BY <1>2
  <2>2. ~patches[patch].touches_layout
    BY <1>2 DEF Touches, patch
  <2>3. base.size = patches[patch].style.size
    BY <1>1, <2>1, <2>2 DEF MovesGeometry
  <2> QED  BY <1>2, <2>3 DEF StyleFor, patch
<1>3. CASE patch \notin DOMAIN patches
  BY <1>3 DEF StyleFor, patch
<1> QED  BY <1>2, <1>3

RectsInv ==
  /\ dirty \in BOOLEAN
  /\ \A s \in Slots : Resolved(states[s].base, states[s].table, patches)
  /\ ~dirty => rect = Solved(tree, style, rect, solved_for)

(* A table that names no patch is true of every base.                     *)
LEMMA PlainResolved ==
  ASSUME NEW base, NEW pool
  PROVE  Resolved(base, Plain, pool)
BY PlainEntry DEF Resolved

(* A state with a new table, worn anew without a move, is no other size. *)
LEMMA QuietSwap ==
  ASSUME NoPatch \notin DOMAIN patches, NEW state, NEW old, NEW bits \in Bits, NEW was \in Bits,
         Resolved(state.base, state.table, patches), Resolved(state.base, old, patches),
         state.applied = TableOf[old][was], ~Moves(state, bits),
         NEW worn, worn = StyleFor(patches, state.applied, state.base)
  PROVE  WornStyle(state, bits, worn).size = worn.size
<1>1. CASE Entry(state, bits) = state.applied
  BY <1>1 DEF WornStyle
<1>2. CASE Entry(state, bits) # state.applied
  <2>1. ~Touches(state.applied) /\ ~Touches(Entry(state, bits))
    BY <1>2 DEF Moves
  <2>2. worn.size = state.base.size
    BY <2>1, QuietSize
  <2>3. StyleFor(patches, Entry(state, bits), state.base).size = state.base.size
    BY <2>1, QuietSize DEF Entry
  <2> QED  BY <1>2, <2>2, <2>3 DEF WornStyle
<1> QED  BY <1>1, <1>2

(* Styles of equal sizes look alike to the solver.                        *)
LEMMA SameSizes ==
  ASSUME NEW a, NEW b, \A s \in Slots : a[s].size = b[s].size
  PROVE  Sizes(a) = Sizes(b)
BY DEF Sizes

(* An event that moves no size needs no solving; one that does is noticed. *)
LEMMA HearKeepsRects ==
  ASSUME PressInv, PressInv', DressInv, RectsInv, NEW point, NEW down, NEW focused,
         Hear(point, down, focused)
  PROVE  RectsInv'
<1> DEFINE hover == HitId(point)
           holders == {id.slot : id \in {x \in {hover, down, focused} : Names(x)}}
           bits == [s \in Slots |-> BitsOf(s, hover, down, focused)]
           again == Redressed(holders)
<1>1. /\ pressed' = down /\ focus' = focused
      /\ states' = [s \in Slots |-> IF s \in again THEN WornState(states[s], bits[s])
                                    ELSE states[s]]
      /\ style' = [s \in Slots |-> IF s \in again THEN WornStyle(states[s], bits[s], style[s])
                                   ELSE style[s]]
      /\ dirty' = (dirty \/ \E s \in again : Moves(states[s], bits[s]))
      /\ UNCHANGED <<tree, rect, patches, solved_for>>
  BY DEF Hear
<1>2. TreeInv(tree) /\ Known(tree, down) /\ Known(tree, focused) /\ Known(tree, hover)
  BY <1>1, HitIdIs DEF PressInv
<1>3. /\ \A s \in Slots : Dressed(s)
      /\ NoPatch \notin DOMAIN patches
  BY PoolAssumption DEF DressInv
<1>4. /\ dirty \in BOOLEAN
      /\ \A s \in Slots : Resolved(states[s].base, states[s].table, patches)
      /\ ~dirty => rect = Solved(tree, style, rect, solved_for)
  BY DEF RectsInv
<1> HIDE DEF hover
<1>5. ASSUME NEW s \in Slots
      PROVE  bits[s] \in Bits /\ (bits[s] # {} => s \in Live(tree))
  <2>1. bits[s] = BitsOf(s, hover, down, focused)
    OBVIOUS
  <2> HIDE DEF bits
  <2> QED  BY <1>2, <2>1, BitsOfIs
<1> HIDE DEF holders, bits, again
<1>6. ASSUME NEW s \in Slots
      PROVE  Resolved(states'[s].base, states'[s].table, patches)
  <2>1. Fits(patches, states[s])
    BY <1>3 DEF Dressed
  <2>2. WornState(states[s], bits[s]).table = states[s].table
        /\ WornState(states[s], bits[s]).base = states[s].base
    BY <1>5, <2>1, WornFits
  <2>3. states'[s].table = states[s].table /\ states'[s].base = states[s].base
    BY <1>1, <2>2
  <2> QED  BY <1>4, <2>3
<1>7. ASSUME ~dirty', NEW s \in Slots
      PROVE  style'[s].size = style[s].size
  <2>1. CASE s \notin again
    BY <1>1, <2>1
  <2>2. CASE s \in again
    <3>1. ~Moves(states[s], bits[s])
      BY <1>1, <1>7, <2>2
    <3>2. style'[s] = WornStyle(states[s], bits[s], style[s])
      BY <1>1, <2>2
    <3>3. /\ states[s].applied = Entry(states[s], states[s].bits) /\ states[s].bits \in Bits
          /\ s \in Live(tree) => style[s] = StyleFor(patches, states[s].applied, states[s].base)
          /\ s \notin Live(tree) => states[s] = DefaultState
      BY <1>3 DEF Dressed, Fits
    <3>4. CASE s \in Live(tree)
      <4>1. states[s].applied = TableOf[states[s].table][states[s].bits]
        BY <3>3 DEF Entry
      <4>2. Resolved(states[s].base, states[s].table, patches)
        BY <1>4
      <4>3. style[s] = StyleFor(patches, states[s].applied, states[s].base)
        BY <3>3, <3>4
      <4>4. bits[s] \in Bits /\ states[s].bits \in Bits
        BY <1>5, <3>3
      <4>5. WornStyle(states[s], bits[s], style[s]).size = style[s].size
        BY <1>3, <3>1, <4>1, <4>2, <4>3, <4>4, QuietSwap
      <4> QED  BY <3>2, <4>5
    <3>5. CASE s \notin Live(tree)
      <4>1. bits[s] = {} /\ states[s] = DefaultState /\ states[s].bits = {}
        BY <1>5, <3>3, <3>5, DefaultStateFits
      <4>2. Entry(states[s], bits[s]) = states[s].applied
        BY <3>3, <4>1
      <4> QED  BY <3>2, <4>2 DEF WornStyle
    <3> QED  BY <3>4, <3>5
  <2> QED  BY <2>1, <2>2
<1>8. ASSUME ~dirty'
      PROVE  rect' = Solved(tree', style', rect', solved_for')
  <2>1. ~dirty
    BY <1>1, <1>8
  <2>2. Sizes(style') = Sizes(style)
    BY <1>7, <1>8, SameSizes
  <2>3. Solved(tree, style', rect, solved_for) = Solved(tree, style, rect, solved_for)
    BY <2>2, SolvedBySizes
  <2> QED  BY <1>1, <1>4, <2>1, <2>3
<1>9. dirty' \in BOOLEAN
  BY <1>1, <1>4
<1> QED  BY <1>1, <1>6, <1>8, <1>9 DEF RectsInv

(* A loaded document is dirty, and its flags are true.                    *)
LEMMA InitRects == Init => RectsInv
<1> SUFFICES ASSUME Init PROVE RectsInv
  OBVIOUS
<1>1. /\ patches = DocumentPool /\ dirty = TRUE
      /\ states = [s \in Slots |-> LoadedState(s)]
  BY DEF Init
<1>2. ASSUME NEW s \in Slots
      PROVE  Resolved(states[s].base, states[s].table, patches)
  <2> DEFINE node == Document[s + 1]
             table == node.table
             base == node.style
             bare == [DefaultState EXCEPT !.table = table, !.base = base]
             entry == Entry(bare, {})
  <2>1. s + 1 \in DOMAIN Document
    BY DocumentAssumption, SlotFacts DEF Slots
  <2>2. Resolved(base, table, DocumentPool)
    BY <2>1, DocumentAssumption
  <2>3. states[s] = [bare EXCEPT !.applied = entry, !.bits = {}]
    BY <1>1 DEF LoadedState, WornState
  <2>4. bare = [table |-> table, base |-> base, applied |-> NoPatch, bits |-> {}]
    <3> HIDE DEF node, table, base
    <3> QED  BY BareIs
  <2> HIDE DEF node, table, base, bare, entry
  <2>5. states[s].table = table /\ states[s].base = base
    BY <2>3, <2>4
  <2> QED  BY <1>1, <2>2, <2>5
<1> QED  BY <1>1, <1>2 DEF RectsInv

(* insert dirties the layout.                                             *)
LEMMA InsertKeepsRects ==
  ASSUME TreeInv(tree), DressInv, RectsInv, NEW p \in Slots, Insert(p)
  PROVE  RectsInv'
<1>1. /\ states' = [states EXCEPT ![tree.free] = DefaultState]
      /\ dirty' = TRUE /\ UNCHANGED patches
  BY DEF Insert
<1>2. states = [s \in Slots |-> states[s]]
  BY DEF DressInv
<1>3. ASSUME NEW s \in Slots
      PROVE  Resolved(states'[s].base, states'[s].table, patches)
  <2>1. CASE s = tree.free
    <3>1. states'[s] = DefaultState
      BY <1>1, <1>2, <2>1
    <3> QED  BY <3>1, DefaultStateFits, PlainResolved
  <2>2. CASE s # tree.free
    <3>1. states'[s] = states[s]
      BY <1>1, <1>2, <2>2
    <3> QED  BY <3>1 DEF RectsInv
  <2> QED  BY <2>1, <2>2
<1> QED  BY <1>1, <1>3 DEF RectsInv

(* remove dirties the layout.                                             *)
LEMMA RemoveKeepsRects ==
  ASSUME RectsInv, NEW r \in Slots, RemoveSubtree(r)
  PROVE  RectsInv'
<1>1. /\ states' = [n \in Slots |-> IF tree.live[n] /\ ~tree'.live[n] THEN DefaultState
                                    ELSE states[n]]
      /\ dirty' = TRUE /\ UNCHANGED patches
  BY DEF RemoveSubtree
<1>2. ASSUME NEW s \in Slots
      PROVE  Resolved(states'[s].base, states'[s].table, patches)
  <2>1. states'[s] = DefaultState \/ states'[s] = states[s]
    BY <1>1
  <2>2. Resolved(DefaultState.base, DefaultState.table, patches)
    BY DefaultStateFits, PlainResolved
  <2> QED  BY <2>1, <2>2 DEF RectsInv
<1> QED  BY <1>1, <1>2 DEF RectsInv

(* set_style dirties the layout, and keeps the flags true.                *)
LEMMA SetStyleKeepsRects ==
  ASSUME ~MayReshape, DressInv, RectsInv, NEW r \in Slots, NEW new, SetStyle(r, new)
  PROVE  RectsInv'
<1>1. /\ states' = [states EXCEPT ![r].base = new]
      /\ dirty' = TRUE /\ UNCHANGED patches /\ Resolved(new, states[r].table, patches)
  BY DEF SetStyle
<1>2. states = [s \in Slots |-> states[s]] /\ Fits(patches, states[r])
  BY DEF DressInv, Dressed
<1>3. ASSUME NEW s \in Slots
      PROVE  Resolved(states'[s].base, states'[s].table, patches)
  <2>1. CASE s = r
    <3> DEFINE d == [states[r] EXCEPT !.base = new]
    <3>1. states'[s] = d
      BY <1>1, <1>2, <2>1
    <3>2. d.base = new /\ d.table = states[r].table
      BY <1>2, BaseFits
    <3> HIDE DEF d
    <3> QED  BY <1>1, <3>1, <3>2
  <2>2. CASE s # r
    <3>1. states'[s] = states[s]
      BY <1>1, <1>2, <2>2
    <3> QED  BY <3>1 DEF RectsInv
  <2> QED  BY <2>1, <2>2
<1> QED  BY <1>1, <1>3 DEF RectsInv

(* set_state_table: a swap that moves no size needs no solving.           *)
LEMMA SetTableKeepsRects ==
  ASSUME DressInv, RectsInv, NEW r \in Slots, NEW table, SetStateTable(r, table)
  PROVE  RectsInv'
<1> DEFINE bare == [states[r] EXCEPT !.table = table]
           worn == WornState(bare, bare.bits)
<1>1. /\ states' = [states EXCEPT ![r] = worn]
      /\ style' = [style EXCEPT ![r] = WornStyle(bare, bare.bits, style[r])]
      /\ dirty' = (dirty \/ Moves(bare, bare.bits))
      /\ UNCHANGED <<patches, tree, rect, solved_for>>
      /\ InPool(table, patches) /\ r \in Live(tree)
      /\ Resolved(states[r].base, table, patches)
  BY DEF SetStateTable, Edits, Live
<1>2. /\ NoPatch \notin DOMAIN patches
      /\ style = [s \in Slots |-> style[s]] /\ states = [s \in Slots |-> states[s]]
  BY PoolAssumption DEF DressInv
<1>3. /\ Fits(patches, states[r])
      /\ style[r] = StyleFor(patches, states[r].applied, states[r].base)
  BY <1>1 DEF DressInv, Dressed
<1>4. /\ worn.base = states[r].base /\ worn.table = table
      /\ bare.base = states[r].base /\ bare.applied = states[r].applied
      /\ bare.bits = states[r].bits /\ bare.table = table
  BY <1>1, <1>3, TableFits
<1> HIDE DEF bare, worn
<1>5. /\ states'[r] = worn /\ style'[r] = WornStyle(bare, bare.bits, style[r])
      /\ \A s \in Slots : s # r => states'[s] = states[s] /\ style'[s] = style[s]
  BY <1>1, <1>2
<1>6. ASSUME NEW s \in Slots
      PROVE  Resolved(states'[s].base, states'[s].table, patches)
  <2>1. CASE s = r
    BY <1>1, <1>4, <1>5, <2>1
  <2>2. CASE s # r
    BY <1>5, <2>2 DEF RectsInv
  <2> QED  BY <2>1, <2>2
<1>7. ASSUME ~dirty'
      PROVE  rect' = Solved(tree', style', rect', solved_for')
  <2>1. dirty \in BOOLEAN /\ (~dirty => rect = Solved(tree, style, rect, solved_for))
    BY DEF RectsInv
  <2>2. ~dirty /\ ~Moves(bare, bare.bits)
    BY <1>1, <1>7, <2>1
  <2>3. style'[r].size = style[r].size
    <3>1. bare.bits \in Bits /\ bare.applied = TableOf[states[r].table][bare.bits]
      BY <1>3, <1>4 DEF Fits, Entry
    <3>2. Resolved(bare.base, bare.table, patches) /\ Resolved(bare.base, states[r].table, patches)
      BY <1>1, <1>4 DEF RectsInv
    <3>3. style[r] = StyleFor(patches, bare.applied, bare.base)
      BY <1>3, <1>4
    <3>4. WornStyle(bare, bare.bits, style[r]).size = style[r].size
      BY <1>2, <2>2, <3>1, <3>2, <3>3, QuietSwap
    <3> QED  BY <1>5, <3>4
  <2>4. \A s \in Slots : style'[s].size = style[s].size
    BY <1>5, <2>3
  <2>5. Sizes(style') = Sizes(style)
    BY <2>4, SameSizes
  <2>6. Solved(tree, style', rect, solved_for) = Solved(tree, style, rect, solved_for)
    BY <2>5, SolvedBySizes
  <2> QED  BY <1>1, <2>1, <2>2, <2>6
<1>8. dirty' \in BOOLEAN
  BY <1>1 DEF RectsInv
<1> QED  BY <1>1, <1>6, <1>7, <1>8 DEF RectsInv

(* set_patch_pool: with nothing to take off, no size moves.               *)
LEMMA SetPoolKeepsRects ==
  ASSUME DressInv, RectsInv, NEW pool \in Pools, SetPatchPool(pool)
  PROVE  RectsInv'
<1> DEFINE wearing == {s \in Slots : states[s].applied # NoPatch}
<1>1. /\ patches' = pool
      /\ states' = [s \in Slots |-> [DefaultState EXCEPT !.base = states[s].base]]
      /\ style' = [s \in Slots |-> IF s \in wearing THEN states[s].base ELSE style[s]]
      /\ dirty' = (dirty \/ wearing # {})
      /\ UNCHANGED <<tree, rect, solved_for>>
  BY DEF SetPatchPool, Edits
<1> HIDE DEF wearing
<1>2. ASSUME NEW s \in Slots
      PROVE  Resolved(states'[s].base, states'[s].table, patches')
  <2> DEFINE new == [DefaultState EXCEPT !.base = states[s].base]
  <2>1. states'[s] = new
    BY <1>1
  <2>2. new.table = Plain
    BY DefaultFits
  <2> HIDE DEF new
  <2> QED  BY <2>1, <2>2, PlainResolved
<1>3. ASSUME ~dirty'
      PROVE  rect' = Solved(tree', style', rect', solved_for')
  <2>1. dirty \in BOOLEAN /\ (~dirty => rect = Solved(tree, style, rect, solved_for))
    BY DEF RectsInv
  <2>2. ~dirty /\ wearing = {}
    BY <1>1, <1>3, <2>1
  <2>3. \A s \in Slots : style'[s].size = style[s].size
    BY <1>1, <2>2
  <2>4. Sizes(style') = Sizes(style)
    BY <2>3, SameSizes
  <2>5. Solved(tree, style', rect, solved_for) = Solved(tree, style, rect, solved_for)
    BY <2>4, SolvedBySizes
  <2> QED  BY <1>1, <2>1, <2>2, <2>5
<1>4. dirty' \in BOOLEAN
  BY <1>1 DEF RectsInv
<1> QED  BY <1>2, <1>3, <1>4 DEF RectsInv

(* solve: the rectangles are those of the styles in force.                *)
LEMMA SolveKeepsRects ==
  ASSUME RectsInv, NEW view, Solve(view)
  PROVE  RectsInv'
<1>1. /\ rect' = Solved(tree, style, rect, view) /\ dirty' = FALSE /\ solved_for' = view
      /\ UNCHANGED <<tree, style, patches, states>>
  BY DEF Solve
<1>2. rect' = Solved(tree', style', rect', solved_for')
  BY <1>1, SolvedTwice
<1> QED  BY <1>1, <1>2 DEF RectsInv

(* The rectangles are those of the styles in force, or layout is dirty, as *)
(* long as nobody restyles a node away from what its patches know.         *)
THEOREM RectsHold ==
  ASSUME ~MayReshape
  PROVE  Spec => []RectsInv
<1>1. PressInv /\ PressInv' /\ DressInv /\ RectsInv /\ [Next]_vars => RectsInv'
  <2> SUFFICES ASSUME PressInv, PressInv', DressInv, RectsInv, [Next]_vars PROVE RectsInv'
    OBVIOUS
  <2>1. TreeInv(tree)
    BY DEF PressInv
  <2>2. CASE UNCHANGED vars
    BY <2>2 DEF vars, program, history, RectsInv
  <2>3. CASE PointerMoved \/ PointerPressed \/ PointerReleased \/ TextEntered \/ Edit
    <3>1. \E a, b, c : Hear(a, b, c)
      BY <2>3 DEF PointerMoved, PointerPressed, PointerReleased, TextEntered, Edit
    <3> QED  BY <3>1, HearKeepsRects
  <2>4. CASE \E view \in Views : Solve(view)
    BY <2>4, SolveKeepsRects
  <2>5. CASE Authoring
    <3>1. CASE \E s \in Slots : Insert(s)
      BY <2>1, <3>1, InsertKeepsRects
    <3>2. CASE \E s \in Slots : RemoveSubtree(s)
      BY <3>2, RemoveKeepsRects
    <3>3. CASE \E s \in Slots : MakeField(s)
      <4>1. UNCHANGED <<tree, style, rect, patches, states, dirty, solved_for>>
        BY <3>3 DEF MakeField, Edits
      <4> QED  BY <4>1 DEF RectsInv
    <3>4. CASE \E s \in Slots : \E new \in Styles : SetStyle(s, new)
      BY <3>4, SetStyleKeepsRects
    <3>5. CASE \E s \in Slots : \E table \in Tables : SetStateTable(s, table)
      BY <3>5, SetTableKeepsRects
    <3>6. CASE \E pool \in Pools : SetPatchPool(pool)
      BY <3>6, SetPoolKeepsRects
    <3> QED  BY <2>5, <3>1, <3>2, <3>3, <3>4, <3>5, <3>6 DEF Authoring
  <2> QED  BY <2>2, <2>3, <2>4, <2>5 DEF Next
<1> QED  BY <1>1, InitRects, PressHolds, DressHolds, PTL DEF Spec

(* When nothing is left to solve, the rectangles events are decided on are *)
(* those of the styles in force, as long as nobody restyles a node away    *)
(* from what its patches know (lib.rs dirty, set_style, wear).             *)
THEOREM RectsAreCurrent ==
  ASSUME ~MayReshape
  PROVE  Spec => []RectsCurrent
<1>1. RectsInv => RectsCurrent
  BY DEF RectsInv, RectsCurrent
<1> QED  BY <1>1, RectsHold, PTL

(* Characters that bear one node's number. *)
Chars(n) == [width : 1..4, by : {n}]

Holds(field, n) == field \in Field({field.owner}, Chars(n)) /\ FieldOK(field)

(* Characters have one to four bytes.                                     *)
LEMMA CharsNarrow == \A n : Narrow(Chars(n))
BY DEF Narrow, Chars

(* Every byte of a field is of a character that bears its node's number.  *)
LEMMA HeldBytes ==
  ASSUME NEW field, NEW n, Holds(field, n), NEW i \in DOMAIN field.bytes
  PROVE  field.bytes[i].char.by = n
<1> DEFINE Byte == [char : Chars(n), place : 1..4]
           bytes == field.bytes
<1>1. bytes \in Seq(Byte)
  BY DEF Holds, Field
<1> HIDE DEF Byte
<1>2. bytes[i] \in Byte
  <2>1. i \in DOMAIN bytes
    OBVIOUS
  <2> HIDE DEF bytes
  <2> QED  BY <1>1, <2>1
<1>3. bytes[i].char \in Chars(n)
  BY <1>2 DEF Byte
<1> QED  BY <1>3 DEF Chars

(* A new field holds no text.                                             *)
LEMMA EmptyHolds ==
  ASSUME NEW owner, NEW n
  PROVE  LET field == [EmptyField EXCEPT !.owner = owner]
         IN Holds(field, n) /\ field.owner = owner
<1> DEFINE field == [EmptyField EXCEPT !.owner = owner]
           Byte == [char : Chars(n), place : 1..4]
<1>1. field = [owner |-> owner, bytes |-> <<>>, cursor |-> 0]
  BY DEF EmptyField
<1> HIDE DEF field, Byte
<1>2. <<>> \in Seq(Byte)
  OBVIOUS
<1>3. field.owner = owner /\ field.bytes = <<>> /\ field.cursor = 0
  BY <1>1
<1>4. field \in [owner : {owner}, bytes : Seq(Byte), cursor : Nat]
  BY <1>1, <1>2
<1>5. FieldOK(field)
  BY <1>3, MaxBytesAssumption DEF FieldOK, IsText, OnBoundary
<1> QED  BY <1>3, <1>4, <1>5 DEF Holds, Field, field, Byte

(* A vacant field holds no text.                                          *)
LEMMA EmptyFieldHolds ==
  ASSUME NEW n
  PROVE  Holds(EmptyField, n) /\ EmptyField.owner = None
<1>1. EmptyField = [EmptyField EXCEPT !.owner = None] /\ EmptyField.owner = None
  BY DEF EmptyField
<1> QED  BY <1>1, EmptyHolds

FieldsInv ==
  /\ fields = [k \in 1..MaxFields |-> fields[k]]
  /\ \A k \in 1..MaxFields :
       /\ Known(tree, fields[k].owner)
       /\ \E n : /\ Holds(fields[k], n)
                 /\ Names(fields[k].owner) => n = serial[fields[k].owner.slot]
  /\ \A j, k \in 1..MaxFields :
       (Names(fields[j].owner) /\ fields[k].owner = fields[j].owner) => j = k

(* The fields the host makes of a loaded document.                        *)
LEMMA InitFields == Init => FieldsInv
<1> SUFFICES ASSUME Init PROVE FieldsInv
  OBVIOUS
<1>1. /\ tree = Loaded /\ serial = [s \in Slots |-> s]
      /\ fields = [k \in 1..MaxFields |->
                     IF k \in DOMAIN FieldNodes
                     THEN [EmptyField EXCEPT !.owner = IdAt(Loaded, FieldNodes[k])]
                     ELSE EmptyField]
  BY DEF Init
<1>2. TreeInv(tree) /\ Live(tree) = Slots
  BY <1>1, LoadedTree
<1>3. \A k \in DOMAIN FieldNodes : FieldNodes[k] \in Live(tree)
  BY <1>2, FieldsAssumption DEF ToSet
<1>4. ASSUME NEW k \in 1..MaxFields
      PROVE  /\ \A n : Holds(fields[k], n)
             /\ fields[k].owner = IF k \in DOMAIN FieldNodes THEN IdAt(tree, FieldNodes[k])
                                  ELSE None
  <2>1. CASE k \in DOMAIN FieldNodes
    <3> DEFINE id == IdAt(tree, FieldNodes[k])
               field == [EmptyField EXCEPT !.owner = id]
    <3>1. fields[k] = field
      BY <1>1, <2>1
    <3> HIDE DEF id
    <3>2. \A n : Holds(field, n) /\ field.owner = id
      BY EmptyHolds
    <3> QED  BY <2>1, <3>1, <3>2 DEF id
  <2>2. CASE k \notin DOMAIN FieldNodes
    <3>1. fields[k] = EmptyField
      BY <1>1, <2>2
    <3> QED  BY <2>2, <3>1, EmptyFieldHolds
  <2> QED  BY <2>1, <2>2
<1>5. ASSUME NEW k \in 1..MaxFields
      PROVE  /\ Known(tree, fields[k].owner)
             /\ \E n : /\ Holds(fields[k], n)
                       /\ Names(fields[k].owner) => n = serial[fields[k].owner.slot]
  <2>1. CASE k \in DOMAIN FieldNodes
    BY <1>2, <1>3, <1>4, <2>1, IdIsKnown
  <2>2. CASE k \notin DOMAIN FieldNodes
    BY <1>4, <2>2 DEF Known
  <2> QED  BY <2>1, <2>2, <1>4
<1>6. ASSUME NEW j \in 1..MaxFields, NEW k \in 1..MaxFields,
             Names(fields[j].owner), fields[k].owner = fields[j].owner
      PROVE  j = k
  <2>1. fields[j].owner # None
    BY <1>6 DEF Names
  <2>2. j \in DOMAIN FieldNodes /\ k \in DOMAIN FieldNodes
    BY <1>4, <1>6, <2>1
  <2>3. IdAt(tree, FieldNodes[j]) = IdAt(tree, FieldNodes[k])
    BY <1>4, <1>6, <2>2
  <2>4. FieldNodes[j] = FieldNodes[k]
    BY <1>2, <1>3, <2>2, <2>3, IdIsKnown
  <2> QED  BY <2>2, <2>4, FieldsAssumption DEF IsInjective
<1>7. fields = [k \in 1..MaxFields |-> fields[k]]
  BY <1>1
<1> QED  BY <1>5, <1>6, <1>7 DEF FieldsInv

(* Fields that keep their owner, and hold what they held or what they are  *)
(* given of the same node.                                                 *)
LEMMA FieldsChanged ==
  ASSUME FieldsInv, UNCHANGED <<tree, serial>>,
         fields' = [k \in 1..MaxFields |-> fields'[k]],
         \A k \in 1..MaxFields : fields'[k].owner = fields[k].owner,
         \A k \in 1..MaxFields : \A n :
           (Holds(fields[k], n) /\ (Names(fields[k].owner) => n = serial[fields[k].owner.slot]))
             => Holds(fields'[k], n)
  PROVE  FieldsInv'
<1>1. ASSUME NEW k \in 1..MaxFields
      PROVE  /\ Known(tree', fields'[k].owner)
             /\ Names(fields[k].owner)' <=> Names(fields[k].owner)
             /\ \E n : /\ Holds(fields'[k], n)
                       /\ Names(fields[k].owner)' => n = serial'[fields'[k].owner.slot]
  <2>1. Known(tree, fields[k].owner)
    BY DEF FieldsInv
  <2>2. PICK n : /\ Holds(fields[k], n)
                 /\ Names(fields[k].owner) => n = serial[fields[k].owner.slot]
    BY DEF FieldsInv
  <2>3. Holds(fields'[k], n)
    BY <2>2
  <2>4. Names(fields[k].owner)' <=> Names(fields[k].owner)
    BY DEF Names
  <2> QED  BY <2>1, <2>2, <2>3, <2>4
<1>2. ASSUME NEW j \in 1..MaxFields, NEW k \in 1..MaxFields,
             Names(fields[j].owner)', fields'[k].owner = fields'[j].owner
      PROVE  j = k
  BY <1>1, <1>2 DEF FieldsInv
<1> QED  BY <1>1, <1>2 DEF FieldsInv

(* A character goes into the field of the focused node.                   *)
LEMMA TypingKeepsFields ==
  ASSUME FieldsInv, TextEntered
  PROVE  FieldsInv'
<1>1. PICK width \in Widths :
        InFocusedField(LAMBDA field : Typed(field, [width |-> width, by |-> serial[focus.slot]]))
  BY DEF TextEntered
<1> DEFINE ch == [width |-> width, by |-> serial[focus.slot]]
<1>2. fields' = [k \in DOMAIN fields |-> IF k \in Owned(focus) THEN Typed(fields[k], ch)
                                         ELSE fields[k]]
  BY <1>1 DEF InFocusedField
<1>3. UNCHANGED <<tree, serial>>
  BY DEF TextEntered, Hear
<1>4. fields = [k \in 1..MaxFields |-> fields[k]]
  BY DEF FieldsInv
<1>5. ch \in Chars(serial[focus.slot])
  BY WidthAssumption DEF Chars
<1> HIDE DEF ch
<1>6. /\ fields' = [k \in 1..MaxFields |-> fields'[k]]
      /\ \A k \in 1..MaxFields : fields'[k] = IF k \in Owned(focus) THEN Typed(fields[k], ch)
                                              ELSE fields[k]
  BY <1>2, <1>4
<1>7. ASSUME NEW k \in 1..MaxFields, NEW n, Holds(fields[k], n),
             Names(fields[k].owner) => n = serial[fields[k].owner.slot]
      PROVE  Holds(fields'[k], n) /\ fields'[k].owner = fields[k].owner
  <2>1. CASE k \in Owned(focus)
    <3> DEFINE f == fields[k]
               o == f.owner
    <3>1. Names(focus) /\ o = focus
      BY <2>1 DEF Owned
    <3>2. n = serial[focus.slot]
      BY <1>7, <3>1
    <3>3. ch \in Chars(n) /\ Narrow(Chars(n))
      BY <1>5, <3>2, CharsNarrow
    <3>4. f \in Field({o}, Chars(n)) /\ FieldOK(f)
      BY <1>7 DEF Holds
    <3>5. fields'[k] = Typed(f, ch)
      BY <1>6, <2>1
    <3> HIDE DEF f, o
    <3>6. Typed(f, ch) \in Field({o}, Chars(n)) /\ FieldOK(Typed(f, ch))
      BY <3>3, <3>4, TypingKeepsText
    <3>7. Typed(f, ch).owner = o
      BY <3>6 DEF Field
    <3> QED  BY <3>5, <3>6, <3>7 DEF Holds, o, f
  <2>2. CASE k \notin Owned(focus)
    BY <1>6, <1>7, <2>2
  <2> QED  BY <2>1, <2>2
<1>8. \A k \in 1..MaxFields : fields'[k].owner = fields[k].owner
  BY <1>7 DEF FieldsInv
<1> QED  BY <1>3, <1>6, <1>7, <1>8, FieldsChanged

(* An edit reaches the field of the focused node.                         *)
LEMMA EditingKeepsFields ==
  ASSUME FieldsInv, Edit
  PROVE  FieldsInv'
<1>1. PICK op \in EditOps : InFocusedField(LAMBDA field : Edited(field, op))
  BY DEF Edit
<1>2. fields' = [k \in DOMAIN fields |-> IF k \in Owned(focus) THEN Edited(fields[k], op)
                                         ELSE fields[k]]
  BY <1>1 DEF InFocusedField
<1>3. UNCHANGED <<tree, serial>>
  BY DEF Edit, Hear
<1>4. fields = [k \in 1..MaxFields |-> fields[k]]
  BY DEF FieldsInv
<1>5. /\ fields' = [k \in 1..MaxFields |-> fields'[k]]
      /\ \A k \in 1..MaxFields : fields'[k] = IF k \in Owned(focus) THEN Edited(fields[k], op)
                                              ELSE fields[k]
  BY <1>2, <1>4
<1>6. ASSUME NEW k \in 1..MaxFields, NEW n, Holds(fields[k], n)
      PROVE  Holds(fields'[k], n) /\ fields'[k].owner = fields[k].owner
  <2>1. CASE k \in Owned(focus)
    <3> DEFINE f == fields[k]
               o == f.owner
    <3>1. Narrow(Chars(n))
      BY CharsNarrow
    <3>2. f \in Field({o}, Chars(n)) /\ FieldOK(f)
      BY <1>6 DEF Holds
    <3>3. fields'[k] = Edited(f, op)
      BY <1>5, <2>1
    <3> HIDE DEF f, o
    <3>4. Edited(f, op) \in Field({o}, Chars(n)) /\ FieldOK(Edited(f, op))
      BY <3>1, <3>2, EditingKeepsText
    <3>5. Edited(f, op).owner = o
      BY <3>4 DEF Field
    <3> QED  BY <3>3, <3>4, <3>5 DEF Holds, o, f
  <2>2. CASE k \notin Owned(focus)
    BY <1>5, <1>6, <2>2
  <2> QED  BY <2>1, <2>2
<1>7. \A k \in 1..MaxFields : fields'[k].owner = fields[k].owner
  BY <1>6 DEF FieldsInv
<1> QED  BY <1>3, <1>5, <1>6, <1>7, FieldsChanged

(* Fields that nobody touches while the arena changes. *)
LEMMA FieldsStay ==
  ASSUME TreeInv(tree), serial = [s \in Slots |-> serial[s]], FieldsInv,
         TreeSteps, HostSteps, UNCHANGED fields
  PROVE  FieldsInv'
<1>1. \A s \in Live(tree) : serial'[s] = serial[s]
  BY SerialStays
<1>2. ASSUME NEW k \in 1..MaxFields
      PROVE  /\ Known(tree', fields'[k].owner)
             /\ Names(fields[k].owner)' => /\ Names(fields[k].owner)
                                           /\ fields[k].owner.slot \in Live(tree)
  <2> DEFINE id == fields[k].owner
  <2>1. Known(tree, id)
    BY DEF FieldsInv
  <2>2. fields'[k].owner = id
    OBVIOUS
  <2> HIDE DEF id
  <2>3. Known(tree', id) /\ ((id # None /\ IsLive(tree', id)) => IsLive(tree, id))
    BY <2>1, KnownStays
  <2>4. ASSUME id # None, IsLive(tree', id)
        PROVE  Names(id) /\ id.slot \in Live(tree)
    <3>1. IsLive(tree, id)
      BY <2>3, <2>4
    <3>2. id.slot \in Live(tree)
      BY <2>1, <2>4, <3>1 DEF Known, IsLive
    <3> QED  BY <2>4, <3>1, <3>2 DEF Names
  <2>5. Names(fields[k].owner)' => id # None /\ IsLive(tree', id)
    BY <2>2 DEF Names
  <2> QED  BY <2>2, <2>3, <2>4, <2>5 DEF id
<1>3. ASSUME NEW k \in 1..MaxFields
      PROVE  \E n : /\ Holds(fields'[k], n)
                    /\ Names(fields[k].owner)' => n = serial'[fields'[k].owner.slot]
  <2>1. PICK n : /\ Holds(fields[k], n)
                 /\ Names(fields[k].owner) => n = serial[fields[k].owner.slot]
    BY DEF FieldsInv
  <2>2. Names(fields[k].owner)' => n = serial'[fields'[k].owner.slot]
    BY <1>1, <1>2, <2>1
  <2> QED  BY <2>1, <2>2
<1>4. ASSUME NEW j \in 1..MaxFields, NEW k \in 1..MaxFields,
             Names(fields[j].owner)', fields'[k].owner = fields'[j].owner
      PROVE  j = k
  BY <1>2, <1>4 DEF FieldsInv
<1>5. fields' = [k \in 1..MaxFields |-> fields'[k]]
  BY DEF FieldsInv
<1> QED  BY <1>2, <1>3, <1>4, <1>5 DEF FieldsInv

(* make_field reclaims the fields of nodes that are gone, then takes one. *)
LEMMA MakingKeepsFields ==
  ASSUME TreeInv(tree), FieldsInv, NEW s \in Slots, MakeField(s)
  PROVE  FieldsInv'
<1> DEFINE id == IdAt(tree, s)
           pool == Reclaimed(fields)
<1>1. PICK k \in Vacant(pool) : fields' = [pool EXCEPT ![k].owner = id]
  BY DEF MakeField
<1>2. s \in Live(tree) /\ Owned(id) = {} /\ UNCHANGED <<tree, serial>>
  BY DEF MakeField, Live
<1>3. fields = [j \in 1..MaxFields |-> fields[j]]
  BY DEF FieldsInv
<1>4. /\ pool = [j \in 1..MaxFields |-> pool[j]]
      /\ \A j \in 1..MaxFields : pool[j] = IF Names(fields[j].owner) THEN fields[j]
                                           ELSE EmptyField
  BY <1>3 DEF Reclaimed
<1> HIDE DEF pool
<1>5. k \in 1..MaxFields /\ pool[k].owner = None
  BY <1>1, <1>4 DEF Vacant
<1>6. pool[k] = EmptyField
  BY <1>4, <1>5 DEF Names
<1> DEFINE new == [EmptyField EXCEPT !.owner = id]
<1>7. \A n : Holds(new, n) /\ new.owner = id
  <2> HIDE DEF id
  <2> QED  BY EmptyHolds
<1>8. /\ id # None /\ Known(tree, id) /\ id.slot = s /\ IsLive(tree, id)
  BY <1>2, IdIsKnown
<1>9. Names(id)
  BY <1>8 DEF Names
<1> HIDE DEF id
<1>10. /\ fields' = [j \in 1..MaxFields |-> fields'[j]]
       /\ fields'[k] = new
       /\ \A j \in 1..MaxFields : j # k => fields'[j] = pool[j]
  BY <1>1, <1>4, <1>5, <1>6
<1> HIDE DEF new
<1>11. ASSUME NEW j \in 1..MaxFields, j # k
       PROVE  \/ Names(fields[j].owner) /\ fields'[j] = fields[j] /\ fields[j].owner # id
              \/ fields'[j] = EmptyField
  <2>1. Names(fields[j].owner) => fields[j].owner # id
    BY <1>2, <1>3, <1>9 DEF Owned
  <2> QED  BY <1>4, <1>10, <1>11, <2>1
<1>12. ASSUME NEW x PROVE Names(x)' <=> Names(x)
  BY <1>2 DEF Names
<1>13. ~Names(None)
  BY DEF Names
<1>14. ASSUME NEW j \in 1..MaxFields
       PROVE  /\ Known(tree', fields'[j].owner)
              /\ \E n : /\ Holds(fields'[j], n)
                        /\ Names(fields[j].owner)' => n = serial'[fields'[j].owner.slot]
  <2>1. CASE j = k
    <3>1. fields'[j].owner = id /\ \A n : Holds(fields'[j], n)
      BY <1>7, <1>10, <2>1
    <3> QED  BY <1>2, <1>8, <3>1
  <2>2. CASE j # k /\ Names(fields[j].owner) /\ fields'[j] = fields[j]
    <3>1. /\ Known(tree, fields[j].owner)
          /\ \E n : /\ Holds(fields[j], n)
                    /\ Names(fields[j].owner) => n = serial[fields[j].owner.slot]
      BY DEF FieldsInv
    <3> QED  BY <1>2, <2>2, <3>1
  <2>3. CASE fields'[j] = EmptyField
    <3>1. fields'[j].owner = None /\ \A n : Holds(fields'[j], n)
      BY <2>3, EmptyFieldHolds
    <3> QED  BY <3>1 DEF Known
  <2> QED  BY <1>11, <2>1, <2>2, <2>3
<1>15. ASSUME NEW i \in 1..MaxFields, NEW j \in 1..MaxFields,
              Names(fields[i].owner)', fields'[j].owner = fields'[i].owner
       PROVE  i = j
  <2>1. fields'[i].owner # None
    BY <1>15 DEF Names
  <2>2. fields'[i] # EmptyField /\ fields'[j] # EmptyField
    BY <1>15, <2>1, EmptyFieldHolds
  <2>3. CASE i = k
    <3>1. fields'[i].owner = id
      BY <1>7, <1>10, <2>3
    <3> QED  BY <1>11, <1>15, <2>2, <2>3, <3>1
  <2>4. CASE i # k /\ j = k
    <3>1. fields'[j].owner = id
      BY <1>7, <1>10, <2>4
    <3> QED  BY <1>11, <1>15, <2>2, <2>4, <3>1
  <2>5. CASE i # k /\ j # k
    <3>1. /\ Names(fields[i].owner) /\ fields'[i] = fields[i]
          /\ fields'[j] = fields[j]
      BY <1>11, <2>2, <2>5
    <3> QED  BY <1>15, <3>1 DEF FieldsInv
  <2> QED  BY <2>3, <2>4, <2>5
<1> QED  BY <1>10, <1>14, <1>15 DEF FieldsInv

(* The pool of fields, whatever is typed, edited, inserted and removed. *)
THEOREM FieldsKept == Spec => []FieldsInv
<1>1. PressInv /\ FieldsInv /\ [Next]_vars => FieldsInv'
  <2> SUFFICES ASSUME PressInv, FieldsInv, [Next]_vars PROVE FieldsInv'
    OBVIOUS
  <2>1. TreeInv(tree) /\ serial = [s \in Slots |-> serial[s]]
    BY DEF PressInv
  <2>2. TreeSteps
    BY StepsOfTree
  <2>3. CASE UNCHANGED vars
    <3>1. HostSteps /\ UNCHANGED fields
      BY <2>3, HostStepsIs DEF vars, program
    <3> QED  BY <2>1, <2>2, <3>1, FieldsStay
  <2>4. CASE PointerMoved \/ PointerPressed \/ PointerReleased
    <3>1. UNCHANGED <<tree, serial, fields>>
      BY <2>4 DEF PointerMoved, PointerPressed, PointerReleased, Hear
    <3>2. fields' = [k \in 1..MaxFields |-> fields'[k]]
      BY <3>1 DEF FieldsInv
    <3> QED  BY <3>1, <3>2, FieldsChanged
  <2>5. CASE TextEntered
    BY <2>5, TypingKeepsFields
  <2>6. CASE Edit
    BY <2>6, EditingKeepsFields
  <2>7. CASE \E view \in Views : Solve(view)
    <3>1. HostSteps /\ UNCHANGED fields
      BY <2>7, HostStepsIs DEF Solve
    <3> QED  BY <2>1, <2>2, <3>1, FieldsStay
  <2>8. CASE Authoring
    <3>1. HostSteps
      BY <2>8, HostStepsIs
    <3>2. CASE \E s \in Slots : MakeField(s)
      BY <2>1, <3>2, MakingKeepsFields
    <3>3. CASE UNCHANGED fields
      BY <2>1, <2>2, <3>1, <3>3, FieldsStay
    <3>4. UNCHANGED fields \/ \E s \in Slots : MakeField(s)
      BY <2>8 DEF Authoring, Insert, RemoveSubtree, SetStyle, SetStateTable, SetPatchPool
    <3> QED  BY <3>2, <3>3, <3>4
  <2> QED  BY <2>3, <2>4, <2>5, <2>6, <2>7, <2>8 DEF Next
<1> QED  BY <1>1, InitFields, PressHolds, PTL DEF Spec

(* A field holds whole characters, all of them typed into the node that    *)
(* owns it, with the cursor between two, and no node owns two (edit_field, *)
(* make_field).                                                            *)
THEOREM FieldsAreHeld == Spec => []FieldsHold
<1>1. FieldsInv => FieldsHold
  <2> SUFFICES ASSUME FieldsInv, NEW k \in DOMAIN fields
               PROVE  /\ FieldOK(fields[k])
                      /\ Names(fields[k].owner) =>
                           /\ Owned(fields[k].owner) = {k}
                           /\ \A i \in DOMAIN fields[k].bytes :
                                fields[k].bytes[i].char.by = serial[fields[k].owner.slot]
    BY DEF FieldsHold
  <2>1. DOMAIN fields = 1..MaxFields
    BY DEF FieldsInv
  <2>2. PICK n : /\ Holds(fields[k], n)
                 /\ Names(fields[k].owner) => n = serial[fields[k].owner.slot]
    BY <2>1 DEF FieldsInv
  <2>3. FieldOK(fields[k])
    BY <2>2 DEF Holds
  <2>4. Names(fields[k].owner) => Owned(fields[k].owner) = {k}
    BY <2>1 DEF FieldsInv, Owned
  <2> QED  BY <2>2, <2>3, <2>4, HeldBytes
<1> QED  BY <1>1, FieldsKept, PTL
=============================================================================
