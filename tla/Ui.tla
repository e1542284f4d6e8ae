--------------------------------- MODULE Ui ---------------------------------
(***************************************************************************)
(* The retained widget tree of crates/ui: the arena, its solved            *)
(* rectangles, the interaction state, the dress each node wears for its    *)
(* state bits, and the pool of text fields.  The host edits the tree,      *)
(* solves it and feeds it events, in any order.                            *)
(*                                                                         *)
(* A tree begins as a loaded document, which fills it.  The digest and its *)
(* folds decide nothing, and the queue of decisions is PauseMenu's: both   *)
(* are left out.                                                           *)
(* A call with a stale id changes nothing and is not an action.            *)
(***************************************************************************)
EXTENDS UiLayout, UiField

CONSTANTS
  Document,    \* a sequence of nodes, parents first: parent, style, table
  FieldNodes,  \* the slots the host makes fields of when it has loaded it
  DocumentPool,           \* the document's patches
  TableOf,                \* the state tables there are, by name
  Plain,                  \* the table that names no patch
  Styles, Pools, Tables,  \* what the host may author at run time
  MayReshape,  \* whether it restyles a node away from what its patches know
  Points,      \* pointer positions
  Views,       \* viewport widths
  Widths,      \* the widths of the characters typed, in bytes
  MaxFields,   \* MAX_FIELDS, 8
  Plans        \* bound: the kinds of edits the host makes, in order

VARIABLES
  tree, style, rect, dirty, solved_for,       \* arena and layout
  pointer, pressed, focus,                    \* interaction
  patches, states, stated,                    \* state styling
  fields,                                     \* the field pool
  (* the edits still to come; and history: the number of each slot's last  *)
  (* newcomer, the number of the node under the press, and whether no edit *)
  (* or solve came since the last event                                    *)
  plan, serial, press_on, heard

history == <<plan, serial, press_on, heard>>
program == <<tree, style, rect, dirty, solved_for, pointer, pressed, focus,
             patches, states, stated, fields>>
vars == <<program, history>>

NoPatch == 0
Bits == SUBSET {"hover", "pressed", "focus"}
DefaultState == [table |-> Plain, base |-> DefaultStyle, applied |-> NoPatch, bits |-> {}]

InPool(table, pool) == \A bits \in Bits : TableOf[table][bits] \in {NoPatch} \cup DOMAIN pool

(* The flags of the patches a table names are true of a base. *)
Resolved(base, table, pool) ==
  \A bits \in Bits :
    LET patch == TableOf[table][bits]
    IN (patch # NoPatch /\ MovesGeometry(base, pool[patch].style))
         => pool[patch].touches_layout

ASSUME DocumentAssumption ==
  /\ DOMAIN Document = 1..Nodes
  /\ \A i \in DOMAIN Document :
       /\ i > 1 => Document[i].parent \in 0..(i - 2)
       /\ InPool(Document[i].table, DocumentPool)
       /\ Resolved(Document[i].style, Document[i].table, DocumentPool)
ASSUME FieldsAssumption ==
  /\ MaxFields \in Nat /\ Len(FieldNodes) <= MaxFields /\ IsInjective(FieldNodes)
  /\ ToSet(FieldNodes) \subseteq Slots
ASSUME TableAssumption ==
  /\ Tables \subseteq DOMAIN TableOf
  /\ \A table \in DOMAIN TableOf : DOMAIN TableOf[table] = Bits
  /\ TableOf[Plain] = [bits \in Bits |-> NoPatch]
ASSUME PoolAssumption == \A pool \in Pools \cup {DocumentPool} : NoPatch \notin DOMAIN pool
ASSUME WidthAssumption == Widths \subseteq 1..4
ASSUME NoneAssumption == None \notin [slot : Slots, generation : Nat]

-----------------------------------------------------------------------------
(* Dress *)

StyleFor(pool, patch, base) == IF patch \in DOMAIN pool THEN pool[patch].style ELSE base

Touches(patch) == patch \in DOMAIN patches /\ patches[patch].touches_layout

Entry(state, bits) == TableOf[state.table][bits]

(* wear, of one slot: its state, its style, and whether layout is dirtied, *)
(* which is when one side of the swap moves geometry                       *)
WornState(state, bits) == [state EXCEPT !.applied = Entry(state, bits), !.bits = bits]

WornStyle(state, bits, worn) ==
  IF Entry(state, bits) = state.applied THEN worn
  ELSE StyleFor(patches, Entry(state, bits), state.base)

(* Mutant: shedding a patch that moves geometry goes unnoticed *)
MovesOn(state, bits) == Entry(state, bits) # state.applied /\ Touches(Entry(state, bits))

Moves(state, bits) ==
  /\ Entry(state, bits) # state.applied
  /\ Touches(state.applied) \/ Touches(Entry(state, bits))

-----------------------------------------------------------------------------
(* Document::tree, and the fields its host makes *)

Loaded ==
  LET grown[n \in 1..Nodes] ==
        IF n = 1 THEN NewTree ELSE Grown(grown[n - 1], Document[n].parent)
  IN grown[Nodes]

LoadedState(s) ==
  LET node == Document[s + 1]
  IN WornState([DefaultState EXCEPT !.table = node.table, !.base = node.style], {})

Init ==
  /\ tree = Loaded
  /\ patches = DocumentPool
  /\ states = [s \in Slots |-> LoadedState(s)]
  /\ style = [s \in Slots |-> StyleFor(patches, states[s].applied, states[s].base)]
  /\ rect = [s \in Slots |-> NoRect]
  /\ dirty = TRUE /\ solved_for = 0
  /\ pointer = 0 /\ pressed = None /\ focus = None
  /\ stated = {}
  /\ fields = [k \in 1..MaxFields |->
                 IF k \in DOMAIN FieldNodes
                 THEN [EmptyField EXCEPT !.owner = IdAt(Loaded, FieldNodes[k])]
                 ELSE EmptyField]
  /\ plan \in Plans /\ serial = [s \in Slots |-> s] /\ press_on = None /\ heard = FALSE

-----------------------------------------------------------------------------
(* Events *)

Names(id) == id # None /\ IsLive(tree, id)

HitId(point) ==
  LET hit == HitTest(tree, rect, point)
  IN IF hit = Nil THEN None ELSE IdAt(tree, hit)

BitsOf(s, hover, down, focused) ==
  LET holder == [hover |-> hover, pressed |-> down, focus |-> focused]
  IN {bit \in DOMAIN holder : holder[bit] = IdAt(tree, s)}

(* Mutant: only those who hold a bit now are dressed anew *)
RedressedHolders(holders) == holders

Redressed(holders) == stated \cup holders

(* Every event ends in refresh_states: whoever wore bits and whoever holds *)
(* one now has its bits derived anew and wears what its table says.        *)
Hear(point, down, focused) ==
  LET hover == HitId(point)
      holders == {id.slot : id \in {x \in {hover, down, focused} : Names(x)}}
      bits == [s \in Slots |-> BitsOf(s, hover, down, focused)]
      again == Redressed(holders)
  IN /\ pointer' = point /\ pressed' = down /\ focus' = focused
     /\ states' = [s \in Slots |-> IF s \in again THEN WornState(states[s], bits[s])
                                   ELSE states[s]]
     /\ style' = [s \in Slots |-> IF s \in again THEN WornStyle(states[s], bits[s], style[s])
                                  ELSE style[s]]
     /\ dirty' = (dirty \/ \E s \in again : Moves(states[s], bits[s]))
     /\ stated' = {s \in holders : bits[s] # {}}
     /\ heard' = TRUE
     /\ UNCHANGED <<tree, rect, solved_for, patches, plan, serial>>

PointerMoved ==
  /\ \E point \in Points : Hear(point, pressed, focus)
  /\ UNCHANGED <<fields, press_on>>

PointerPressed ==
  LET hit == HitId(pointer)
  IN /\ Hear(pointer, hit, focus)
     /\ press_on' = IF hit = None THEN None ELSE serial[hit.slot]
     /\ UNCHANGED fields

(* Mutant: the slot alone is compared *)
ClicksSlot(hit) == pressed # None /\ hit # None /\ hit.slot = pressed.slot

Clicks(hit) == pressed # None /\ hit = pressed

(* A release on the node the press landed on activates and focuses it. *)
PointerReleased ==
  /\ Hear(pointer, None, IF Clicks(HitId(pointer)) THEN pressed ELSE focus)
  /\ press_on' = None
  /\ UNCHANGED fields

Owned(id) == {k \in DOMAIN fields : Names(id) /\ fields[k].owner = id}

InFocusedField(Change(_)) ==
  /\ fields' = [k \in DOMAIN fields |-> IF k \in Owned(focus) THEN Change(fields[k])
                                        ELSE fields[k]]
  /\ UNCHANGED press_on

(* A character bears the number of the node it is typed into. *)
TextEntered ==
  /\ Hear(pointer, pressed, focus)
  /\ \E width \in Widths :
       InFocusedField(LAMBDA field :
                        Typed(field, [width |-> width, by |-> serial[focus.slot]]))

Edit ==
  /\ Hear(pointer, pressed, focus)
  /\ \E op \in EditOps : InFocusedField(LAMBDA field : Edited(field, op))

-----------------------------------------------------------------------------
(* The host's edits *)

Edits(kind) ==
  /\ plan # <<>> /\ Head(plan) = kind
  /\ plan' = Tail(plan)
  /\ UNCHANGED <<solved_for, pointer, pressed, focus, press_on>>

Insert(parent) ==
  LET s == tree.free
  IN /\ Edits("insert")
     /\ tree.live[parent] /\ s # Nil
     /\ tree' = Grown(tree, parent)
     /\ style' = [style EXCEPT ![s] = DefaultStyle]
     /\ rect' = [rect EXCEPT ![s] = NoRect]
     /\ states' = [states EXCEPT ![s] = DefaultState]
     /\ dirty' = TRUE
     /\ serial' = [serial EXCEPT ![s] = Nodes + Len(plan)]
     /\ heard' = FALSE
     /\ UNCHANGED <<patches, stated, fields>>

RemoveSubtree(s) ==
  /\ Edits("remove")
  /\ s # Root /\ tree.live[s]
  /\ tree' = Pruned(tree, s)
  /\ states' = [n \in Slots |-> IF tree.live[n] /\ ~tree'.live[n] THEN DefaultState
                                ELSE states[n]]
  /\ dirty' = TRUE
  /\ heard' = FALSE
  /\ UNCHANGED <<style, rect, patches, stated, fields, serial>>

SetStyle(s, new) ==
  /\ Edits("style")
  /\ tree.live[s]
  /\ MayReshape \/ Resolved(new, states[s].table, patches)
  /\ states' = [states EXCEPT ![s].base = new]
  /\ style' = IF states[s].applied = NoPatch THEN [style EXCEPT ![s] = new] ELSE style
  /\ dirty' = TRUE
  /\ heard' = FALSE
  /\ UNCHANGED <<tree, rect, patches, stated, fields, serial>>

(* A new pool takes every table and every patch off. *)
SetPatchPool(pool) ==
  LET wearing == {s \in Slots : states[s].applied # NoPatch}
  IN /\ Edits("pool")
     /\ patches' = pool
     /\ states' = [s \in Slots |-> [DefaultState EXCEPT !.base = states[s].base]]
     /\ style' = [s \in Slots |-> IF s \in wearing THEN states[s].base ELSE style[s]]
     /\ dirty' = (dirty \/ wearing # {})
     /\ stated' = {}
     /\ heard' = FALSE
     /\ UNCHANGED <<tree, rect, fields, serial>>

SetStateTable(s, table) ==
  LET state == [states[s] EXCEPT !.table = table]
  IN /\ Edits("table")
     /\ tree.live[s] /\ InPool(table, patches)
     /\ Resolved(states[s].base, table, patches)
     /\ states' = [states EXCEPT ![s] = WornState(state, state.bits)]
     /\ style' = [style EXCEPT ![s] = WornStyle(state, state.bits, @)]
     /\ dirty' = (dirty \/ Moves(state, state.bits))
     /\ heard' = FALSE
     /\ UNCHANGED <<tree, rect, patches, stated, fields, serial>>

(* Mutant: the slot of a node that is gone changes hands as it is *)
ReclaimedAsIs(pool) == [k \in DOMAIN pool |-> IF Names(pool[k].owner) THEN pool[k]
                                              ELSE [pool[k] EXCEPT !.owner = None]]

Reclaimed(pool) == [k \in DOMAIN pool |-> IF Names(pool[k].owner) THEN pool[k] ELSE EmptyField]

Vacant(pool) == {k \in DOMAIN pool : pool[k].owner = None}

MakeField(s) ==
  /\ Edits("field")
  /\ tree.live[s] /\ Owned(IdAt(tree, s)) = {}
  /\ \E k \in Vacant(Reclaimed(fields)) :
       /\ \A other \in Vacant(Reclaimed(fields)) : k <= other
       /\ fields' = [Reclaimed(fields) EXCEPT ![k].owner = IdAt(tree, s)]
  /\ UNCHANGED <<tree, style, rect, dirty, patches, states, stated, serial, heard>>

Solve(view) ==
  /\ dirty \/ solved_for # view
  /\ rect' = Solved(tree, style, rect, view)
  /\ dirty' = FALSE
  /\ solved_for' = view
  /\ heard' = FALSE
  /\ UNCHANGED <<tree, style, pointer, pressed, focus, patches, states, stated,
                 fields, plan, serial, press_on>>

Authoring ==
  \/ \E s \in Slots :
       \/ Insert(s) \/ RemoveSubtree(s) \/ MakeField(s)
       \/ \E new \in Styles : SetStyle(s, new)
       \/ \E table \in Tables : SetStateTable(s, table)
  \/ \E pool \in Pools : SetPatchPool(pool)

Next ==
  \/ PointerMoved \/ PointerPressed \/ PointerReleased \/ TextEntered \/ Edit
  \/ \E view \in Views : Solve(view)
  \/ Authoring

Spec == Init /\ [][Next]_vars

-----------------------------------------------------------------------------
(* Properties *)

(* Whatever is inserted and removed, every live node hangs off the root    *)
(* once, parents, children and neighbours agree about it, and the free     *)
(* list threads the other slots (insert, unlink, free_subtree).            *)
TreeSound == Sound(tree)

(* A decision, and the focus that goes with it, is about the node under    *)
(* the pointer now, and the press fell on that very node, not on an        *)
(* earlier tenant of its slot (handle, PointerReleased).                   *)
ClickIsOneNode ==
  [][focus' # focus =>
       LET s == HitTest(tree, rect, pointer)
       IN s # Nil /\ serial[s] = press_on /\ focus' = IdAt(tree, s)]_vars

(* After an event every live node wears what its table says of the bits    *)
(* that are its own now, and whoever wears bits will be found when it      *)
(* loses them; a dead slot wears nothing; and the style in force is that   *)
(* of the patch, or the base (refresh_states, wear, reset_state_slot).     *)
DressFollows ==
  /\ LET hover == HitId(pointer) IN \A s \in Slots :
       IF tree.live[s]
       THEN /\ style[s] = StyleFor(patches, states[s].applied, states[s].base)
            /\ states[s].bits # {} => s \in stated
            /\ heard => states[s].applied =
                          Entry(states[s], BitsOf(s, hover, pressed, focus))
       ELSE states[s] = DefaultState
  /\ Cardinality(stated) <= 3

(* When nothing is left to solve, the rectangles events are decided on are *)
(* those of the styles in force: the flag says "whether anything changed   *)
(* since the last solve -- structure, style, or viewport" (lib.rs dirty).  *)
RectsCurrent ==
  ~dirty => rect = Solved(tree, style, rect, solved_for)

(* A field holds whole characters, all of them typed into the node that    *)
(* owns it, with the cursor between two, and no node owns two (edit_field, *)
(* make_field).                                                            *)
FieldsHold ==
  \A k \in DOMAIN fields :
    /\ FieldOK(fields[k])
    /\ Names(fields[k].owner) =>
         /\ Owned(fields[k].owner) = {k}
         /\ \A i \in DOMAIN fields[k].bytes :
              fields[k].bytes[i].char.by = serial[fields[k].owner.slot]
=============================================================================
