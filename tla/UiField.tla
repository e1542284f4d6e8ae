------------------------------ MODULE UiField ------------------------------
(***************************************************************************)
(* One text field of crates/ui/src/field.rs.  A character is a record with *)
(* a width in bytes; a byte names its character and its place in it, so    *)
(* that a continuation byte is one whose place is not the first.           *)
(***************************************************************************)
EXTENDS Integers, Sequences

CONSTANTS
  MaxBytes,   \* MAX_FIELD_BYTES, 64
  None

ASSUME MaxBytesAssumption == MaxBytes \in Nat

EditOps == {"Backspace", "Delete", "Left", "Right", "Home", "End"}

EmptyField == [owner |-> None, bytes |-> <<>>, cursor |-> 0]

Encoded(ch) == [i \in 1..ch.width |-> [char |-> ch, place |-> i]]

(* insert: a character that does not fit is refused whole *)
Typed(field, ch) ==
  LET at == field.cursor
      len == Len(field.bytes)
  IN IF len + ch.width > MaxBytes THEN field
     ELSE [field EXCEPT
             !.bytes = SubSeq(@, 1, at) \o Encoded(ch) \o SubSeq(@, at + 1, len),
             !.cursor = at + ch.width]

IsContinuation(bytes, index) == bytes[index + 1].place > 1

(* The nearest index before the cursor, and after it, that starts a        *)
(* character; indices count from 0, as in the code.                        *)
StepBack(field) ==
  CHOOSE i \in 0..(field.cursor - 1) :
    /\ i = 0 \/ ~IsContinuation(field.bytes, i)
    /\ \A j \in (i + 1)..(field.cursor - 1) : IsContinuation(field.bytes, j)

StepForward(field) ==
  CHOOSE i \in (field.cursor + 1)..Len(field.bytes) :
    /\ i = Len(field.bytes) \/ ~IsContinuation(field.bytes, i)
    /\ \A j \in (field.cursor + 1)..(i - 1) : IsContinuation(field.bytes, j)

(* remove: the bytes from..to - 1 go, and the tail closes up *)
Cut(bytes, from, to) == SubSeq(bytes, 1, from) \o SubSeq(bytes, to + 1, Len(bytes))

Backspaced(field) ==
  IF field.cursor = 0 THEN field
  ELSE [field EXCEPT !.bytes = Cut(@, StepBack(field), field.cursor),
                     !.cursor = StepBack(field)]

Deleted(field) ==
  IF field.cursor >= Len(field.bytes) THEN field
  ELSE [field EXCEPT !.bytes = Cut(@, field.cursor, StepForward(field))]

SteppedLeft(field) ==
  IF field.cursor = 0 THEN field ELSE [field EXCEPT !.cursor = StepBack(field)]

SteppedRight(field) ==
  IF field.cursor >= Len(field.bytes) THEN field
  ELSE [field EXCEPT !.cursor = StepForward(field)]

Edited(field, op) ==
  CASE op = "Backspace" -> Backspaced(field)
    [] op = "Delete" -> Deleted(field)
    [] op = "Left" -> SteppedLeft(field)
    [] op = "Right" -> SteppedRight(field)
    [] op = "Home" -> [field EXCEPT !.cursor = 0]
    [] op = "End" -> [field EXCEPT !.cursor = Len(field.bytes)]

-----------------------------------------------------------------------------

(* Whole characters only, each with all its bytes in order. *)
IsText(bytes) ==
  \A i \in DOMAIN bytes :
    LET char == bytes[i].char  place == bytes[i].place
    IN /\ place \in 1..char.width
       /\ place > 1 => i > 1 /\ bytes[i - 1] = [char |-> char, place |-> place - 1]
       /\ place < char.width =>
            i < Len(bytes) /\ bytes[i + 1] = [char |-> char, place |-> place + 1]

OnBoundary(bytes, index) ==
  /\ index \in 0..Len(bytes)
  /\ index < Len(bytes) => bytes[index + 1].place = 1

(* What the accessors promise of a field: text, never longer than the      *)
(* field, with the cursor between characters.                              *)
FieldOK(field) ==
  /\ IsText(field.bytes)
  /\ Len(field.bytes) <= MaxBytes
  /\ OnBoundary(field.bytes, field.cursor)
=============================================================================
