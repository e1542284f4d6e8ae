------------------------------- MODULE Lobby -------------------------------
(***************************************************************************)
(* The agreement handshake of crates/net/src/lobby.rs, before a session    *)
(* exists: a host seats whoever asks, answers every question with one      *)
(* roster, says go for a bounded run of pumps; a joiner asks until it has  *)
(* heard the go of the roster it holds.                                    *)
(*                                                                         *)
(* A joiner is named by its endpoint, which the transport tells truly.     *)
(* Everything the host's parameters fix is one token, the session number:  *)
(* an agreement digest is that number and the size of the roster.  A       *)
(* joiner in Odd runs other content.  The driver may build a new Lobby at  *)
(* an endpoint at any time, a host's with the next session number.         *)
(*                                                                         *)
(* A datagram once sent may be delivered at any time, any number of times  *)
(* or never.                                                               *)
(***************************************************************************)
EXTENDS Integers, Sequences, FiniteSets

CONSTANTS
  Joiner,        (* endpoints                                              *)
  Odd,           (* joiners that run other content                         *)
  MayRestart,    (* joiners whose program may start over                   *)
  MaxPeers,      (* MAX_PEERS, 8                                           *)
  RosterCredit,  (* ROSTER_CREDIT, 1                                       *)
  StartRepeats,  (* START_REPEATS, 8                                       *)
  MaxSessions,   (* bound: the lobbies a host opens                        *)
  Host, None

ASSUME JoinerAssumption ==
  /\ IsFiniteSet(Joiner) /\ Odd \subseteq Joiner /\ MayRestart \subseteq Joiner
  /\ Host \notin Joiner /\ None \notin Joiner \cup {Host}
ASSUME BoundAssumption ==
  /\ MaxPeers \in Nat /\ MaxPeers >= 2
  /\ RosterCredit \in Nat \ {0} /\ StartRepeats \in Nat /\ MaxSessions \in Nat \ {0}

MinPeers == 2

VARIABLES
  (* the host: its session, the joiners in seats 1, 2, ..., the rosters it *)
  (* owes each seat, the pumps of its go that are left, what it agreed to  *)
  session, h_state, table, credit, start_repeats, h_agreed,
  (* each joiner: its state, the roster it holds, what it agreed to        *)
  j_state, held, agreed,
  (* the network, and the joiners with a question unanswered               *)
  net, asking

host == <<session, h_state, table, credit, start_repeats, h_agreed>>
joiner == <<j_state, held, agreed>>
vars == <<host, joiner, net, asking>>

Seats == 1..(MaxPeers - 1)
Sessions == 1..MaxSessions
Agreement == [session : Sessions, count : MinPeers..MaxPeers]
Held == [session : Sessions, seat : Seats,
         table : Seq(Joiner \cup {Host, None})]
Datagram == [kind : {"Join"}, src : Joiner]
  \cup [kind : {"Roster"}, dst : Joiner, session : Sessions, seat : Seats,
        endpoints : Seq(Joiner)]
  \cup [kind : {"Start"}, dst : Joiner, agreement : Agreement]

TypeOK ==
  /\ session \in Sessions
  /\ h_state \in {"Hosting", "Started"}
  /\ table \in Seq(Joiner) /\ Len(table) < MaxPeers
  /\ credit \in [Seats -> 0..RosterCredit]
  /\ start_repeats \in 0..StartRepeats
  /\ h_agreed \in Agreement \cup {None}
  /\ j_state \in [Joiner -> {"Joining", "Seated", "Started"}]
  /\ held \in [Joiner -> Held \cup {None}]
  /\ agreed \in [Joiner -> Held \cup {None}]
  /\ net \subseteq Datagram
  /\ asking \subseteq Joiner

HostOpens(number) ==
  /\ session' = number
  /\ h_state' = "Hosting"
  /\ table' = << >>
  /\ credit' = [k \in Seats |-> 0]
  /\ start_repeats' = 0
  /\ h_agreed' = None

Init ==
  /\ session = 1 /\ h_state = "Hosting" /\ table = << >>
  /\ credit = [k \in Seats |-> 0] /\ start_repeats = 0 /\ h_agreed = None
  /\ j_state = [j \in Joiner |-> "Joining"]
  /\ held = [j \in Joiner |-> None]
  /\ agreed = [j \in Joiner |-> None]
  /\ net = {} /\ asking = {}

Seated == 1..Len(table)
Count(roster) == Len(roster) + 1

-----------------------------------------------------------------------------
(* The host *)

Start ==
  /\ h_state = "Hosting"
  /\ Count(table) >= MinPeers
  /\ h_state' = "Started"
  /\ h_agreed' = [session |-> session, count |-> Count(table)]
  /\ start_repeats' = StartRepeats
  /\ UNCHANGED <<session, table, credit, joiner, net, asking>>

SeatsOf(j) == {k \in Seated : table[k] = j}

Grant(k) == [credit EXCEPT ![k] = RosterCredit]

AbsorbJoin(m) ==
  /\ m.kind = "Join"
  /\ h_state = "Hosting"
  /\ m.src \notin Odd
  /\ \/ \E k \in SeatsOf(m.src) : credit' = Grant(k) /\ UNCHANGED table
     \/ /\ SeatsOf(m.src) = {}
        /\ Count(table) < MaxPeers
        /\ credit' = Grant(Count(table))
        /\ table' = Append(table, m.src)
  /\ asking' = asking \cup {m.src}
  /\ UNCHANGED <<session, h_state, start_repeats, h_agreed, joiner>>

(* Mutant: answering costs nothing *)
SpendNothing(owed) == owed

Spend(owed) == [k \in Seats |-> IF owed[k] = 0 THEN 0 ELSE owed[k] - 1]

Rosters == {[kind |-> "Roster", dst |-> table[k], session |-> session, seat |-> k,
             endpoints |-> table] : k \in {s \in Seated : credit[s] > 0}}

Starts == IF h_state = "Started"
          THEN {[kind |-> "Start", dst |-> table[k], agreement |-> h_agreed] : k \in Seated}
          ELSE {}

(* Call next_outbound until it returns None *)
HostPump ==
  /\ h_state = "Started" => start_repeats > 0
  /\ net' = net \cup Rosters \cup Starts
  /\ credit' = Spend(credit)
  /\ start_repeats' = IF h_state = "Started" THEN start_repeats - 1 ELSE start_repeats
  /\ asking' = asking \ {m.dst : m \in Rosters}
  /\ UNCHANGED <<session, h_state, table, h_agreed, joiner>>

HostRestarts ==
  /\ session < MaxSessions
  /\ HostOpens(session + 1)
  /\ UNCHANGED <<joiner, net, asking>>

-----------------------------------------------------------------------------
(* A joiner *)

(* The endpoints a joiner keeps: seat 0's is where the roster came from,   *)
(* its own is blank                                                        *)
Mesh(seat, endpoints) ==
  <<Host>> \o [k \in 1..Len(endpoints) |-> IF k = seat THEN None ELSE endpoints[k]]

MayHold(current, m) ==
  current # None => /\ current.session = m.session
                    /\ current.seat = m.seat
                    /\ Len(current.table) <= Count(m.endpoints)

AbsorbRoster(m) ==
  LET j == m.dst
  IN /\ m.kind = "Roster"
     /\ j_state[j] # "Started"
     /\ j \notin Odd
     /\ MayHold(held[j], m)
     /\ held' = [held EXCEPT ![j] = [session |-> m.session, seat |-> m.seat,
                                     table |-> Mesh(m.seat, m.endpoints)]]
     /\ j_state' = [j_state EXCEPT ![j] = "Seated"]
     /\ UNCHANGED <<host, agreed, asking>>

(* Mutant: a go for any roster of the session is taken *)
AgreesLoosely(current, m) == current.session = m.agreement.session

Agrees(current, m) ==
  /\ current.session = m.agreement.session
  /\ Len(current.table) = m.agreement.count

AbsorbStart(m) ==
  LET j == m.dst
  IN /\ m.kind = "Start"
     /\ j_state[j] # "Started"
     /\ held[j] # None
     /\ Agrees(held[j], m)
     /\ agreed' = [agreed EXCEPT ![j] = held[j]]
     /\ j_state' = [j_state EXCEPT ![j] = "Started"]
     /\ UNCHANGED <<host, held, asking>>

JoinerPump(j) ==
  /\ j_state[j] # "Started"
  /\ net' = net \cup {[kind |-> "Join", src |-> j]}
  /\ UNCHANGED <<host, joiner, asking>>

JoinerRestarts(j) ==
  /\ j \in MayRestart
  /\ j_state' = [j_state EXCEPT ![j] = "Joining"]
  /\ held' = [held EXCEPT ![j] = None]
  /\ agreed' = [agreed EXCEPT ![j] = None]
  /\ UNCHANGED <<host, net, asking>>

-----------------------------------------------------------------------------

Absorb(m) == AbsorbJoin(m) \/ AbsorbRoster(m) \/ AbsorbStart(m)

Deliver(m) ==
  /\ m \in net
  /\ Absorb(m)
  /\ UNCHANGED net

Next ==
  \/ Start \/ HostPump \/ HostRestarts
  \/ \E j \in Joiner : JoinerPump(j) \/ JoinerRestarts(j)
  \/ \E m \in net : Deliver(m)

Spec == Init /\ [][Next]_vars

-----------------------------------------------------------------------------
(* Properties *)

(* No endpoint holds two seats, however often it asks and though its       *)
(* program starts over (seat_of); and peers that agreed to one session     *)
(* agreed to the same roster: as many seats, no seat twice, and each knows *)
(* at which endpoint the other's seat is.  The host of that session agreed *)
(* to it too.                                                              *)
MeshAgrees ==
  /\ TypeOK
  /\ \A k, l \in Seated : table[k] = table[l] => k = l
  /\ \A i \in Joiner : agreed[i] # None =>
      /\ agreed[i].session = session =>
           /\ h_agreed = [session |-> session, count |-> Len(agreed[i].table)]
           /\ table[agreed[i].seat] = i
      /\ \A j \in Joiner \ {i} :
           (agreed[j] # None /\ agreed[j].session = agreed[i].session) =>
             /\ Len(agreed[i].table) = Len(agreed[j].table)
             /\ agreed[i].seat # agreed[j].seat
             /\ agreed[i].table[agreed[j].seat + 1] = j

(* The host owes a roster to exactly those seated endpoints that asked     *)
(* since the last one they were sent: it sends no more than it was asked   *)
(* for, and one that was lost is sent again on the next question           *)
(* (ROSTER_CREDIT).                                                        *)
RostersAreAnswers == {m.dst : m \in Rosters} = {table[k] : k \in Seated} \cap asking

=============================================================================
