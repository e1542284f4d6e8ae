----------------------------- MODULE Snapshots -----------------------------
(***************************************************************************)
(* crates/snapshot: two captures of one slot space and the blend between   *)
(* them. A capture is [entries, order, refused]; refused is TRUE when one  *)
(* of put's two assertions would have stopped the program.                 *)
(***************************************************************************)
EXTENDS Naturals, Sequences

Living == "Living"
Newborn == "Newborn"
Dying == "Dying"

EmptyBuffer(slots) ==
  [entries |-> [s \in slots |-> [present |-> FALSE, generation |-> 0, value |-> 0]],
   order   |-> <<>>,
   refused |-> FALSE]

NewPair(slots) == [previous |-> EmptyBuffer(slots), current |-> EmptyBuffer(slots)]

(* The older buffer is opened again: only the slots it wrote are reset.    *)
Opened(pair) ==
  LET stale == pair.previous
      written == {stale.order[i] : i \in DOMAIN stale.order}
  IN  [previous |-> pair.current,
       current  |-> [stale EXCEPT
                       !.entries = [s \in DOMAIN @ |->
                          IF s \in written THEN [@[s] EXCEPT !.present = FALSE] ELSE @[s]],
                       !.order = <<>>]]

(* A put is [slot, generation, value].                                     *)
Put(buffer, put) ==
  IF put.slot \notin DOMAIN buffer.entries \/ buffer.entries[put.slot].present
  THEN [buffer EXCEPT !.refused = TRUE]
  ELSE [buffer EXCEPT
          !.entries[put.slot] =
             [present |-> TRUE, generation |-> put.generation, value |-> put.value],
          !.order = Append(@, put.slot)]

Filled(buffer, puts) ==
  LET filled[n \in 0..Len(puts)] ==
        IF n = 0 THEN buffer ELSE Put(filled[n - 1], puts[n])
  IN  filled[Len(puts)]

(* One step's capture, its puts in the order they are made.                *)
Captured(pair, puts) ==
  LET opened == Opened(pair)
  IN  [opened EXCEPT !.current = Filled(@, puts)]

(* What one frame draws, before the blend: from and to are the ends of the *)
(* interval, equal where there is only one known tick.                     *)
Old(pair, s) == pair.previous.entries[s]
Now(pair, s) == pair.current.entries[s]

Gone(pair, s) == ~(Now(pair, s).present /\ Now(pair, s).generation = Old(pair, s).generation)
Stays(pair, s) == Old(pair, s).present /\ Old(pair, s).generation = Now(pair, s).generation

(* The slots of the older capture that the newer one does not go on with.  *)
Departed(pair) ==
  LET order == pair.previous.order
      gone[n \in 0..Len(order)] ==
        IF n = 0 THEN <<>>
        ELSE IF Gone(pair, order[n]) THEN Append(gone[n - 1], order[n]) ELSE gone[n - 1]
  IN  gone[Len(order)]

Ghosts(pair) ==
  LET dying == Departed(pair)
  IN  [i \in DOMAIN dying |->
         LET s == dying[i]
         IN  [slot |-> s, generation |-> Old(pair, s).generation, fate |-> Dying,
              from |-> Old(pair, s).value, to |-> Old(pair, s).value]]

Present(pair) ==
  LET order == pair.current.order
  IN  [i \in DOMAIN order |->
         LET s == order[i]
         IN  [slot |-> s, generation |-> Now(pair, s).generation,
              fate |-> IF Stays(pair, s) THEN Living ELSE Newborn,
              from |-> IF Stays(pair, s) THEN Old(pair, s).value ELSE Now(pair, s).value,
              to   |-> Now(pair, s).value]]

Pairs(pair) == Ghosts(pair) \o Present(pair)
=============================================================================
