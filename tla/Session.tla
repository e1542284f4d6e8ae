------------------------------ MODULE Session ------------------------------
(***************************************************************************)
(* The lockstep session of crates/net/src/session.rs: every peer of the    *)
(* roster runs one Session, fed by a driver that submits an input when     *)
(* wants_local says so, pumps datagrams out, delivers datagrams in, and    *)
(* runs the ticks that advance hands out.                                  *)
(*                                                                         *)
(* The transport is outside the crate: it may lose, duplicate, delay and   *)
(* reorder datagrams, and tells truly who sent one.  In Spec a datagram,   *)
(* once sent, stays in net: delivering it again is a duplicate, delivering *)
(* it late is a delay, never delivering it is a loss.  FairSpec makes the  *)
(* losses explicit and bounds them by fairness.                            *)
(*                                                                         *)
(* A peer's input for tick t is named by the number t, so that an input    *)
(* taken for another tick's is seen.  A world is the inputs it was built   *)
(* from and the peer whose simulation ran them wrongly, if it did; fork    *)
(* remembers at which tick.                                                *)
(***************************************************************************)
EXTENDS Integers, Sequences, FiniteSets

CONSTANTS
  Peer,         (* the roster                                              *)
  InputDelay,   (* SessionParams::input_delay                              *)
  Redundancy,   (* INPUT_REDUNDANCY, 8                                     *)
  Window,       (* INPUT_WINDOW, 64                                        *)
  History,      (* DIGEST_HISTORY, 16                                      *)
  DigestPeriod, (* SessionParams::digest_period                            *)
  MaxTick,      (* bound: ticks a peer submits inputs for                  *)
  MayDiffer,    (* peers that may have been given parameters of their own  *)
  MayFork,      (* peers whose simulation may depart from the others'      *)
  MayLeave,     (* peers whose driver may call leave                       *)
  None

ASSUME PeerAssumption == IsFiniteSet(Peer) /\ Peer # {}
ASSUME RosterAssumption == \A p \in Peer : \E q \in Peer : q # p  \* MIN_PEERS, 2
ASSUME NoneAssumption == None \notin Peer /\ None \notin Nat
ASSUME SubsetAssumption ==
  MayDiffer \subseteq Peer /\ MayFork \subseteq Peer /\ MayLeave \subseteq Peer
ASSUME ParamsAssumption ==
  /\ Window \in Nat \ {0} /\ InputDelay \in Nat /\ InputDelay < Window
  /\ Redundancy \in Nat \ {0} /\ History \in Nat \ {0}
  /\ DigestPeriod \in Nat \ {0} /\ MaxTick \in Nat

VARIABLES
  phase, outcome,
  (* the ring of inputs: what each seat submitted for the tick of a slot   *)
  frames, present, slot_tick,
  pending, local_next,
  (* the input sets folded into input_digest                               *)
  folded,
  (* fingerprints: this peer's, the others', the one to publish            *)
  mine, theirs, owed_digest,
  hello_seen, playing_seen,
  uncommitted,
  emit,
  (* SessionParams::agreement_digest                                       *)
  agreement,
  (* not in the session: the driver's world, and the datagrams sent        *)
  fork, net

ring == <<frames, present, slot_tick>>
digests == <<mine, theirs, owed_digest>>
seen == <<hello_seen, playing_seen>>
vars == <<phase, outcome, ring, pending, local_next, folded, digests, seen,
          uncommitted, emit, agreement, fork, net>>

Tick == 0..(MaxTick - 1)
Slots == 0..(Window - 1)
DigestSlots == 0..(History - 1)
Slot(t) == t % Window
DigestSlot(t) == t % History
Remotes(p) == Peer \ {p}

InputSet == [Peer -> Tick]
World == [inputs : Seq(InputSet), fork : Peer \cup {None}]
Fingerprint == [tick : Tick, state : World]
Outcome == [kind : {"Desynced", "LeftLocally"}, tick : Nat]
             \cup [kind : {"PeerLeft"}, peer : Peer, tick : Nat]
Datagram ==
  [kind : {"Hello"}, src : Peer, dst : Peer, agreement : Peer \cup {None}]
    \cup [kind : {"Inputs"}, src : Peer, dst : Peer, run : [Tick -> Tick \cup {None}]]
    \cup [kind : {"Digest"}, src : Peer, dst : Peer, print : Fingerprint]
    \cup [kind : {"Bye"}, src : Peer, dst : Peer, tick : Nat]

TypeOK ==
  /\ phase \in [Peer -> {"Joining", "Playing", "Over"}]
  /\ outcome \in [Peer -> Outcome \cup {None}]
  /\ frames \in [Peer -> [Peer -> [Slots -> Tick \cup {None}]]]
  /\ present \in [Peer -> [Slots -> SUBSET Peer]]
  /\ slot_tick \in [Peer -> [Slots -> Tick \cup {None}]]
  /\ pending \in [Peer -> 0..MaxTick]
  /\ local_next \in [Peer -> 0..MaxTick]
  /\ folded \in [Peer -> Seq(InputSet)]
  /\ mine \in [Peer -> [DigestSlots -> Fingerprint \cup {None}]]
  /\ theirs \in [Peer -> [Peer -> [DigestSlots -> Fingerprint \cup {None}]]]
  /\ owed_digest \in [Peer -> Fingerprint \cup {None}]
  /\ hello_seen \in [Peer -> SUBSET Peer]
  /\ playing_seen \in [Peer -> SUBSET Peer]
  /\ uncommitted \in [Peer -> Tick \cup {None}]
  /\ emit \in [Peer -> {"Hello", "Inputs", "Bye"}]
  /\ agreement \in [Peer -> Peer \cup {None}]
  /\ fork \in [Peer -> Tick \cup {None}]
  /\ net \subseteq Datagram

Init ==
  /\ phase = [p \in Peer |-> "Joining"]
  /\ outcome = [p \in Peer |-> None]
  /\ frames = [p \in Peer |-> [q \in Peer |-> [s \in Slots |-> None]]]
  /\ present = [p \in Peer |-> [s \in Slots |-> {}]]
  /\ slot_tick = [p \in Peer |-> [s \in Slots |-> None]]
  /\ pending = [p \in Peer |-> 0]
  /\ local_next = [p \in Peer |-> 0]
  /\ folded = [p \in Peer |-> << >>]
  /\ mine = [p \in Peer |-> [s \in DigestSlots |-> None]]
  /\ theirs = [p \in Peer |-> [q \in Peer |-> [s \in DigestSlots |-> None]]]
  /\ owed_digest = [p \in Peer |-> None]
  /\ hello_seen = [p \in Peer |-> {p}]
  /\ playing_seen = [p \in Peer |-> {}]
  /\ uncommitted = [p \in Peer |-> None]
  /\ emit = [p \in Peer |-> "Hello"]
  /\ \E odd \in SUBSET MayDiffer :
       agreement = [p \in Peer |-> IF p \in odd THEN p ELSE None]
  /\ fork = [p \in Peer |-> None]
  /\ net = {}

-----------------------------------------------------------------------------
(* The ring of inputs *)

(* Mutant: a slot is believed whatever tick it holds *)
HeldStale(p, t) == present[p][Slot(t)]

HeldBy(p, t) ==
  IF slot_tick[p][Slot(t)] = t THEN present[p][Slot(t)] ELSE {}

(* Who is present in t's slot once it is claimed for t *)
Claimed(p, t) == IF slot_tick[p][Slot(t)] = t THEN present[p][Slot(t)] ELSE {}

(* write_frame for every tick of content, a function from ticks to inputs; *)
(* the ticks of one call lie in one window, so no two share a slot         *)
WriteFrames(p, q, content) ==
  LET ticks == DOMAIN content
      hit == {Slot(t) : t \in ticks}
      At(s) == CHOOSE t \in ticks : Slot(t) = s
  IN /\ frames' = [frames EXCEPT ![p][q] =
           [s \in Slots |-> IF s \in hit THEN content[At(s)] ELSE @[s]]]
     /\ slot_tick' = [slot_tick EXCEPT ![p] =
           [s \in Slots |-> IF s \in hit THEN At(s) ELSE @[s]]]
     /\ present' = [present EXCEPT ![p] =
           [s \in Slots |-> IF s \in hit THEN Claimed(p, At(s)) \cup {q} ELSE @[s]]]

-----------------------------------------------------------------------------
(* Submitting and starting *)

(* Mutant: one tick further than the agreed delay *)
WantsLocalLate(p) ==
  /\ phase[p] # "Over"
  /\ local_next[p] <= pending[p] + InputDelay + 1
  /\ local_next[p] - pending[p] < Window

WantsLocal(p) ==
  /\ phase[p] # "Over"
  /\ local_next[p] <= pending[p] + InputDelay
  /\ local_next[p] - pending[p] < Window

Started(p, heard, next) ==
  IF phase[p] = "Joining" /\ heard = Peer /\ next > InputDelay
  THEN "Playing" ELSE phase[p]

Submit(p) ==
  /\ local_next[p] < MaxTick
  /\ outcome[p] = None
  /\ WantsLocal(p)
  /\ WriteFrames(p, p, [t \in {local_next[p]} |-> t])
  /\ local_next' = [local_next EXCEPT ![p] = @ + 1]
  /\ phase' = [phase EXCEPT ![p] = Started(p, hello_seen[p], local_next[p] + 1)]
  /\ UNCHANGED <<outcome, pending, folded, digests, seen, uncommitted, emit,
                 agreement, fork, net>>

-----------------------------------------------------------------------------
(* Delivering: what Session::deliver does with a datagram for peer m.dst.  *)
(* A session that is over absorbs nothing, and a refusal changes nothing.  *)

Ended(p, result) ==
  /\ outcome' = [outcome EXCEPT ![p] = IF @ = None THEN result ELSE @]
  /\ phase' = [phase EXCEPT ![p] = IF outcome[p] = None THEN "Over" ELSE @]

Agrees(p, m) == m.agreement = agreement[p]

AbsorbHello(m) ==
  LET p == m.dst
  IN /\ m.kind = "Hello"
     /\ outcome[p] = None
     /\ Agrees(p, m)
     /\ hello_seen' = [hello_seen EXCEPT ![p] = @ \cup {m.src}]
     /\ phase' = [phase EXCEPT ![p] =
                    Started(p, hello_seen[p] \cup {m.src}, local_next[p])]
     /\ UNCHANGED <<outcome, ring, pending, local_next, folded, digests,
                    playing_seen, uncommitted, emit, agreement, fork>>

(* The ticks a run of frames is for; it has None for the others *)
Carried(run) == {t \in Tick : run[t] # None}

(* Mutant: a frame one past the window is taken *)
InWindowAndOne(p, t) == pending[p] <= t /\ t - pending[p] <= Window

InWindow(p, t) == pending[p] <= t /\ t - pending[p] < Window

(* A frame already held is a repeat or a contradiction: kept as it is *)
AbsorbInputs(m) ==
  LET p == m.dst
      fresh == {t \in Carried(m.run) : InWindow(p, t) /\ m.src \notin HeldBy(p, t)}
  IN /\ m.kind = "Inputs"
     /\ outcome[p] = None
     /\ playing_seen' = [playing_seen EXCEPT ![p] = @ \cup {m.src}]
     /\ WriteFrames(p, m.src, [t \in fresh |-> m.run[t]])
     /\ UNCHANGED <<phase, outcome, pending, local_next, folded, digests,
                    hello_seen, uncommitted, emit, agreement, fork>>

(* Mutant: fingerprints of different ticks are compared *)
DissentsStale(own, print, t) == own # None /\ print # None /\ print.state # own.state

(* Mutant: only the inputs are compared *)
DissentsByInputs(own, print, t) ==
  /\ own # None /\ own.tick = t
  /\ print # None /\ print.tick = t
  /\ print.state.inputs # own.state.inputs

Dissents(own, print, t) ==
  /\ own # None /\ own.tick = t
  /\ print # None /\ print.tick = t
  /\ print.state # own.state

Judge(p, t, own, heard) ==
  LET s == DigestSlot(t)
  IN IF \E q \in Remotes(p) : Dissents(own[s], heard[q][s], t)
     THEN Ended(p, [kind |-> "Desynced", tick |-> t])
     ELSE UNCHANGED <<phase, outcome>>

AbsorbDigest(m) ==
  LET p == m.dst
      s == DigestSlot(m.print.tick)
      held == theirs[p][m.src][s]
  IN /\ m.kind = "Digest"
     /\ outcome[p] = None
     /\ playing_seen' = [playing_seen EXCEPT ![p] = @ \cup {m.src}]
     /\ IF held # None /\ held.tick = m.print.tick
        THEN UNCHANGED <<theirs, phase, outcome>>
        ELSE /\ theirs' = [theirs EXCEPT ![p][m.src][s] = m.print]
             /\ Judge(p, m.print.tick, mine[p], theirs'[p])
     /\ UNCHANGED <<ring, pending, local_next, folded, mine, owed_digest,
                    hello_seen, uncommitted, emit, agreement, fork>>

AbsorbBye(m) ==
  /\ m.kind = "Bye"
  /\ outcome[m.dst] = None
  /\ Ended(m.dst, [kind |-> "PeerLeft", peer |-> m.src, tick |-> m.tick])
  /\ UNCHANGED <<ring, pending, local_next, folded, digests, seen,
                 uncommitted, emit, agreement, fork>>

Absorb(m) == AbsorbHello(m) \/ AbsorbInputs(m) \/ AbsorbDigest(m) \/ AbsorbBye(m)

Deliver(m) ==
  /\ m \in net
  /\ Absorb(m)
  /\ UNCHANGED net

-----------------------------------------------------------------------------
(* Advancing and committing *)

IsDesync(result) == result # None /\ result.kind = "Desynced"

(* Mutant: a desynced session drains like any other *)
MayStepAlways(p) == phase[p] = "Playing" \/ outcome[p] # None

(* A departure drains what is held, a desync does not *)
MayStep(p) ==
  \/ phase[p] = "Playing"
  \/ outcome[p] # None /\ ~IsDesync(outcome[p])

Advance(p) ==
  LET tick == pending[p]
  IN /\ uncommitted[p] = None
     /\ MayStep(p)
     /\ HeldBy(p, tick) = Peer
     /\ folded' = [folded EXCEPT ![p] =
                     Append(@, [q \in Peer |-> frames[p][q][Slot(tick)]])]
     /\ uncommitted' = [uncommitted EXCEPT ![p] = tick]
     /\ UNCHANGED <<phase, outcome, ring, pending, local_next, digests, seen,
                    emit, agreement, fork, net>>

(* The driver has run the tick, rightly or not, and says so *)
Commit(p) ==
  LET tick == uncommitted[p]
      forked == IF fork'[p] = None THEN None ELSE p
      own == [tick |-> tick, state |-> [inputs |-> folded[p], fork |-> forked]]
  IN /\ tick # None
     /\ \/ UNCHANGED fork
        \/ p \in MayFork /\ fork[p] = None /\ fork' = [fork EXCEPT ![p] = tick]
     /\ uncommitted' = [uncommitted EXCEPT ![p] = None]
     /\ pending' = [pending EXCEPT ![p] = @ + 1]
     /\ IF tick % DigestPeriod = 0
        THEN /\ mine' = [mine EXCEPT ![p][DigestSlot(tick)] = own]
             /\ owed_digest' = [owed_digest EXCEPT ![p] = own]
             /\ Judge(p, tick, mine'[p], theirs[p])
        ELSE UNCHANGED <<mine, owed_digest, phase, outcome>>
     /\ UNCHANGED <<ring, local_next, folded, theirs, seen, emit, agreement, net>>

Leave(p) ==
  /\ p \in MayLeave
  /\ outcome[p] = None
  /\ Ended(p, [kind |-> "LeftLocally",
               tick |-> IF pending[p] = 0 THEN 0 ELSE pending[p] - 1])
  /\ emit' = [emit EXCEPT ![p] = "Bye"]
  /\ UNCHANGED <<ring, pending, local_next, folded, digests, seen, uncommitted,
                 agreement, fork, net>>

-----------------------------------------------------------------------------
(* Pumping: next_outbound, called until it returns None *)

(* The newest frames of this peer, back to the first gap in its ring *)
InRun(p, t) ==
  LET newest == local_next[p] - 1
  IN /\ t <= newest
     /\ newest - t < Redundancy
     /\ \A u \in t..newest : p \in HeldBy(p, u)

Run(p) == [t \in Tick |-> IF InRun(p, t) THEN frames[p][p][Slot(t)] ELSE None]

(* Mutant: hellos stop as soon as this peer plays *)
HelloOwedJoining(p) == phase[p] = "Joining"

HelloOwed(p) == phase[p] # "Over" /\ playing_seen[p] # Remotes(p)

(* Mutant: a pump is left where it ended *)
FirstEmitDone(p) ==
  IF phase[p] = "Over" THEN "Done"
  ELSE IF HelloOwed(p) \/ phase[p] = "Joining" THEN "Hello" ELSE "Inputs"

FirstEmit(p) ==
  IF phase[p] = "Over" THEN "Bye"
  ELSE IF HelloOwed(p) \/ phase[p] = "Joining" THEN "Hello" ELSE "Inputs"

(* The kinds one pump walks through, from the one it was left at *)
Emits(p, kind) ==
  LET running == \/ emit[p] = "Inputs"
                 \/ emit[p] = "Hello" /\ phase[p] = "Playing"
  IN CASE kind = "Hello"  -> emit[p] = "Hello"
       [] kind = "Inputs" -> running /\ Carried(Run(p)) # {}
       [] kind = "Digest" -> running /\ owed_digest[p] # None
       [] kind = "Bye"    -> emit[p] = "Bye"

Outbound(p, q) ==
  {m \in {[kind |-> "Hello", src |-> p, dst |-> q, agreement |-> agreement[p]],
          [kind |-> "Inputs", src |-> p, dst |-> q, run |-> Run(p)],
          [kind |-> "Digest", src |-> p, dst |-> q, print |-> owed_digest[p]],
          [kind |-> "Bye", src |-> p, dst |-> q,
           tick |-> IF pending[p] = 0 THEN 0 ELSE pending[p] - 1]}
     : Emits(p, m.kind)}

Pump(p) ==
  /\ net' = net \cup UNION {Outbound(p, q) : q \in Remotes(p)}
  /\ emit' = [emit EXCEPT ![p] = FirstEmit(p)]
  /\ UNCHANGED <<phase, outcome, ring, pending, local_next, folded, digests,
                 seen, uncommitted, agreement, fork>>

-----------------------------------------------------------------------------

Local(p) == Submit(p) \/ Advance(p) \/ Commit(p) \/ Leave(p)

Next ==
  \/ \E p \in Peer : Local(p) \/ Pump(p)
  \/ \E m \in net : Deliver(m)

Spec == Init /\ [][Next]_vars

(* The same peers on a fair lossy network: a datagram is taken out when it *)
(* is delivered, and is lost when its sender pumps again before that; what *)
(* is sent to a session that is over is never absorbed and not kept.  The  *)
(* drivers keep looping, and the network delivers, again and again, what   *)
(* is sent again and again.                                                *)
Repump(p) ==
  /\ net' = {m \in net : m.src # p}
              \cup {m \in UNION {Outbound(p, q) : q \in Remotes(p)} :
                     outcome[m.dst] = None}
  /\ emit' = [emit EXCEPT ![p] = FirstEmit(p)]
  /\ UNCHANGED <<phase, outcome, ring, pending, local_next, folded, digests,
                 seen, uncommitted, agreement, fork>>

Take(m) ==
  /\ m \in net
  /\ Absorb(m)
  /\ net' = net \ {m}

TakeFrom(p, q, kinds) ==
  \E m \in net : m.src = p /\ m.dst = q /\ m.kind \in kinds /\ Take(m)

LossyNext ==
  \/ \E p \in Peer : Local(p) \/ Repump(p)
  \/ \E m \in net : Take(m)

(* What a turn of the driver's loop does when it can *)
Work(p) == Submit(p) \/ Advance(p) \/ Commit(p)

(* Of each peer's frames one is delivered again and again while it sends     *)
(* them, and of its other datagrams one, whichever: a network that always    *)
(* delivered hellos and no digest while both are sent would be fair too.     *)
Fairness ==
  /\ \A p \in Peer : WF_vars(Work(p)) /\ WF_vars(Repump(p))
  /\ \A p \in Peer : \A q \in Remotes(p) :
       \A kinds \in {{"Hello", "Digest", "Bye"}, {"Inputs"}} :
         SF_vars(TakeFrom(p, q, kinds))

FairSpec == Init /\ [][LossyNext]_vars /\ Fairness

-----------------------------------------------------------------------------
(* Properties *)

(* Every confirmed tick ran, on every peer, with the input each seat       *)
(* submitted for that very tick: no slot of the ring is read for another   *)
(* tick's input, whatever the network did (advance, write_frame, held_by). *)
ConfirmedAgree ==
  \A p \in Peer : \A i \in 1..Len(folded[p]) :
    folded[p][i] = [q \in Peer |-> i - 1]

(* Seeing a peer play proves that it heard this peer's hello: the          *)
(* handshake's only acknowledgement (playing_seen).                        *)
HandshakeProof ==
  \A p \in Peer : \A q \in playing_seen[p] : p \in hello_seen[q]

(* Nobody plays in a roster whose parameters do not all agree.             *)
ParametersAgree ==
  \A p, q \in Peer : phase[p] = "Playing" => agreement[p] = agreement[q]

(* No peer confirms more than the delay window and one tick beyond another.*)
LockstepSkew ==
  \A p, q \in Peer : pending[p] <= pending[q] + InputDelay + 1

(* The frame a peer is stalled on is in the next run its author will send, *)
(* so that losing any number of earlier datagrams loses nothing            *)
(* (render_inputs).                                                        *)
RunCoversNeed ==
  \A p, q \in Peer :
    (pending[q] < local_next[p] /\ p \notin HeldBy(q, pending[q]))
      => pending[q] \in Carried(Run(p))

(* A frame accepted for a tick not yet run stays until it is run: no other *)
(* tick's frame takes its slot and nobody rewrites it (absorb_inputs).     *)
KeepsFrames ==
  \A p, q \in Peer : \A t \in Tick :
    (q \in HeldBy(p, t) /\ pending'[p] <= t)
      => /\ q \in HeldBy(p, t)'
         /\ frames'[p][q][Slot(t)] = frames[p][q][Slot(t)]

NeverForgets == [][KeepsFrames]_vars

(* last_agreed_before: the earlier ticks at which no digest held disagrees *)
(* with this peer's own; a digest that is not held is none that disagrees  *)
AgreedBefore(p, tick) ==
  {t \in Tick : /\ t < tick
                /\ mine[p][DigestSlot(t)] # None /\ mine[p][DigestSlot(t)].tick = t
                /\ \A q \in Remotes(p) :
                     ~Dissents(mine[p][DigestSlot(t)], theirs[p][q][DigestSlot(t)], t)}

DigestsHeld(p, t) ==
  \A q \in Remotes(p) : /\ theirs[p][q][DigestSlot(t)] # None
                        /\ theirs[p][q][DigestSlot(t)].tick = t

(* A session reports a desync at a tick only if some simulation really had *)
(* departed by that tick, and after every earlier tick it counts as agreed *)
(* and has everyone's digest of (judge, last_agreed_before).               *)
DesyncIsReal ==
  \A p \in Peer : IsDesync(outcome[p]) =>
    \E q \in Peer :
      /\ fork[q] # None /\ fork[q] <= outcome[p].tick
      /\ \A t \in AgreedBefore(p, outcome[p].tick) : DigestsHeld(p, t) => t < fork[q]

(* What the session promises is the abstract lockstep of Lockstep.tla.     *)
Promise == INSTANCE Lockstep WITH
  Input <- Tick,
  script <- [p \in Peer |-> [n \in 1..local_next[p] |-> n - 1]],
  ran <- folded,
  stopped <- {p \in Peer : IsDesync(outcome[p])}

(* Every step of a session is a step of lockstep play: a tick is run only  *)
(* once all have submitted for it, on what they submitted, and never after *)
(* a desync.                                                               *)
ImplementsLockstep == Promise!Spec

(* Under a network that loses, duplicates and reorders but delivers again  *)
(* and again what is sent again and again, every tick is run by everyone,  *)
(* unless a session ends first.                                            *)
EveryTickConfirms ==
  <>(\A p \in Peer : pending[p] = MaxTick \/ outcome[p] # None)

(* When one session ends, every session ends, and one that was only left   *)
(* has run every tick it holds all the frames of (deliver, advance).       *)
EndsTogether ==
  (\E p \in Peer : outcome[p] # None)
    ~> (\A p \in Peer : /\ outcome[p] # None
                        /\ IsDesync(outcome[p]) \/ HeldBy(p, pending[p]) # Peer)

(* A simulation that departs no later than the last tick a digest is due   *)
(* at is found out, unless its peer or another leaves.                     *)
DepartsInTime(p) ==
  fork[p] # None /\ \E t \in Tick : fork[p] <= t /\ t % DigestPeriod = 0

ForkIsFound ==
  (\E p \in Peer : DepartsInTime(p))
    ~> (\E p \in Peer : outcome[p] # None /\ outcome[p].kind # "PeerLeft")

-----------------------------------------------------------------------------
(* What the documentation claims and the code does not do                  *)

(* inputs_agree of report_at, which reads the slot of the tick in mine     *)
(* whatever tick it holds                                                  *)
InputsAgree(p, t) ==
  LET s == DigestSlot(t)
  IN \A q \in Remotes(p) :
       (theirs[p][q][s] # None /\ theirs[p][q][s].tick = t)
         => theirs[p][q][s].state.inputs = mine[p][s].state.inputs

(* Peers that ran the same inputs are not reported to have run different   *)
(* ones (DesyncReport::inputs_agree: "`false` - the peers ran different    *)
(* inputs").                                                               *)
ReportIsTrue ==
  \A p \in Peer : IsDesync(outcome[p]) => InputsAgree(p, outcome[p].tick)

=============================================================================
