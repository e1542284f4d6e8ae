---------------------------- MODULE Lobby_proofs ----------------------------
(***************************************************************************)
(* That the handshake of Lobby agrees, for every set of joiners, every     *)
(* number of seats and every network that loses, repeats and reorders.     *)
(* MeshAgrees is not inductive.  What keeps it is that nothing a joiner    *)
(* holds is older than what it came from: behind each roster held and each *)
(* go heard there is a datagram, the rosters of one session are prefixes   *)
(* of one table, and a session says one go.                                *)
(***************************************************************************)
EXTENDS Lobby, SequenceTheorems, TLAPS

USE JoinerAssumption, BoundAssumption

HostType ==
  /\ session \in Sessions
  /\ h_state \in {"Hosting", "Started"}
  /\ table \in Seq(Joiner) /\ Len(table) < MaxPeers
  /\ credit \in [Seats -> 0..RosterCredit]
  /\ start_repeats \in 0..StartRepeats
  /\ h_agreed \in Agreement \cup {None}
  /\ asking \subseteq Joiner
JoinerType ==
  /\ j_state \in [Joiner -> {"Joining", "Seated", "Started"}]
  /\ held \in [Joiner -> Held \cup {None}]
  /\ agreed \in [Joiner -> Held \cup {None}]
NetType == net \subseteq Datagram

Injective(roster) == \A k, l \in 1..Len(roster) : roster[k] = roster[l] => k = l

(* Two rosters are equal wherever both have a seat                         *)
Extend(one, other) ==
  \A k \in 1..Len(one) : k <= Len(other) => one[k] = other[k]

NoSeatTwice == Injective(table)

(* A host that said go agreed to the table it has                          *)
GoIsTable ==
  h_state = "Started" => h_agreed = [session |-> session, count |-> Count(table)]

(* What is said of a roster on its way                                     *)
RosterOf(m) ==
  /\ m.session <= session
  /\ m.seat <= Len(m.endpoints) /\ m.endpoints[m.seat] = m.dst
  /\ Injective(m.endpoints)
  /\ Len(m.endpoints) < MaxPeers
  /\ m.session = session => Len(m.endpoints) <= Len(table) /\ Extend(m.endpoints, table)
RostersSound == \A m \in net : m.kind = "Roster" => RosterOf(m)
RostersExtend ==
  \A m, n \in net :
    (m.kind = "Roster" /\ n.kind = "Roster" /\ m.session = n.session) =>
      Extend(m.endpoints, n.endpoints)

(* A go is of this session and the host's own, or of an older one; and one *)
(* session says one                                                        *)
GoOf(m) ==
  /\ m.agreement.session <= session
  /\ m.agreement.session = session => h_state = "Started" /\ m.agreement = h_agreed
StartsSound == \A m \in net : m.kind = "Start" => GoOf(m)
StartsAgree ==
  \A m, n \in net :
    (m.kind = "Start" /\ n.kind = "Start" /\ m.agreement.session = n.agreement.session) =>
      m.agreement = n.agreement

(* Behind what a joiner holds, or agreed to, there are datagrams           *)
Answers(holding, j, m) ==
  /\ m.kind = "Roster" /\ m.dst = j
  /\ holding = [session |-> m.session, seat |-> m.seat, table |-> Mesh(m.seat, m.endpoints)]
HeldCame == \A j \in Joiner : held[j] # None => \E m \in net : Answers(held[j], j, m)
AgreedCame ==
  \A j \in Joiner : agreed[j] # None =>
    /\ \E m \in net : Answers(agreed[j], j, m)
    /\ \E m \in net : m.kind = "Start" /\ Agrees(agreed[j], m)

MeshInv ==
  /\ HostType /\ JoinerType /\ NetType /\ NoSeatTwice /\ GoIsTable
  /\ RostersSound /\ RostersExtend /\ StartsSound /\ StartsAgree /\ HeldCame /\ AgreedCame

(* A seat is owed a roster exactly while its endpoint asks                 *)
CreditIsAsking == \A k \in Seated : credit[k] > 0 <=> table[k] \in asking

-----------------------------------------------------------------------------
(* What a step is.                                                         *)
LEMMA Actions ==
  ASSUME [Next]_vars
  PROVE  \/ Start
         \/ HostPump
         \/ HostRestarts
         \/ \E j \in Joiner : JoinerPump(j)
         \/ \E j \in Joiner : JoinerRestarts(j)
         \/ \E m \in net : AbsorbJoin(m) /\ UNCHANGED net
         \/ \E m \in net : AbsorbRoster(m) /\ UNCHANGED net
         \/ \E m \in net : AbsorbStart(m) /\ UNCHANGED net
         \/ UNCHANGED vars
BY DEF Next, Deliver, Absorb

(* A datagram of each kind.                                                *)
LEMMA Kinds ==
  ASSUME NetType, NEW m \in net
  PROVE  /\ m.kind = "Join" => m.src \in Joiner
         /\ m.kind = "Roster" => /\ m.dst \in Joiner /\ m.session \in Sessions
                                 /\ m.seat \in Seats /\ m.endpoints \in Seq(Joiner)
         /\ m.kind = "Start" => m.dst \in Joiner /\ m.agreement \in Agreement
BY DEF NetType, Datagram

(* The table a joiner keeps is the roster behind a seat for the host, with *)
(* its own seat blank.                                                     *)
LEMMA MeshIs ==
  ASSUME NEW seat, NEW roster \in Seq(Joiner)
  PROVE  /\ Mesh(seat, roster) \in Seq(Joiner \cup {Host, None})
         /\ Len(Mesh(seat, roster)) = Len(roster) + 1
         /\ \A k \in 1..Len(roster) :
              Mesh(seat, roster)[k + 1] = IF k = seat THEN None ELSE roster[k]
<1> DEFINE All == Joiner \cup {Host, None}
           rest == [k \in 1..Len(roster) |-> IF k = seat THEN None ELSE roster[k]]
<1>1. Len(roster) \in Nat
  OBVIOUS
<1>2. rest \in Seq(All) /\ Len(rest) = Len(roster)
  <2>1. \A k \in 1..Len(roster) : rest[k] \in All
    OBVIOUS
  <2>2. rest \in [1..Len(roster) -> All]
    BY <2>1
  <2> QED  BY <1>1, <2>2
<1>3. <<Host>> \in Seq(All) /\ Len(<<Host>>) = 1
  OBVIOUS
<1>4. \A k \in 1..Len(roster) : rest[k] = IF k = seat THEN None ELSE roster[k]
  OBVIOUS
<1> HIDE DEF rest, All
<1>5. /\ <<Host>> \o rest \in Seq(All) /\ Len(<<Host>> \o rest) = 1 + Len(rest)
      /\ \A k \in 1..Len(rest) : (<<Host>> \o rest)[k + 1] = rest[k]
  BY <1>1, <1>2, <1>3
<1> QED  BY <1>1, <1>2, <1>4, <1>5 DEF Mesh, rest, All

(* Another seat at the end of a table.                                     *)
LEMMA AppendIs ==
  ASSUME NEW roster \in Seq(Joiner), NEW j \in Joiner
  PROVE  /\ Append(roster, j) \in Seq(Joiner)
         /\ Len(Append(roster, j)) = Len(roster) + 1
         /\ \A k \in 1..Len(roster) : Append(roster, j)[k] = roster[k]
         /\ Append(roster, j)[Len(roster) + 1] = j
OBVIOUS

-----------------------------------------------------------------------------
(* The types *)

LEMMA HostTypeStep ==
  ASSUME HostType, NetType, [Next]_vars
  PROVE  HostType'
<1> USE DEF HostType
<1>0. Len(table) \in Nat /\ RosterCredit \in Nat \ {0}
  OBVIOUS
<1>1. CASE Start
  <2>1. Count(table) \in MinPeers..MaxPeers
    BY <1>0, <1>1 DEF Start, Count, MinPeers
  <2> QED  BY <1>1, <2>1 DEF Start, Agreement
<1>2. CASE HostPump
  <2>1. credit' \in [Seats -> 0..RosterCredit]
    BY <1>2, <1>0 DEF HostPump, Spend
  <2>2. start_repeats' \in 0..StartRepeats
    <3>1. CASE h_state = "Started"
      BY <3>1, <1>2 DEF HostPump
    <3>2. CASE h_state # "Started"
      BY <3>2, <1>2 DEF HostPump
    <3> QED  BY <3>1, <3>2
  <2> QED  BY <1>2, <2>1, <2>2 DEF HostPump
<1>3. CASE HostRestarts
  BY <1>3 DEF HostRestarts, HostOpens, Sessions
<1>4. CASE \E j \in Joiner : JoinerPump(j)
  BY <1>4 DEF JoinerPump, host
<1>5. CASE \E j \in Joiner : JoinerRestarts(j)
  BY <1>5 DEF JoinerRestarts, host
<1>6. CASE \E m \in net : AbsorbJoin(m) /\ UNCHANGED net
  <2>1. PICK m \in net : AbsorbJoin(m)
    BY <1>6
  <2>2. m.src \in Joiner
    BY <2>1, Kinds DEF AbsorbJoin
  <2>3. credit' \in [Seats -> 0..RosterCredit]
    BY <2>1, <1>0 DEF AbsorbJoin, Grant
  <2>4. table' \in Seq(Joiner) /\ Len(table') < MaxPeers
    <3>1. CASE UNCHANGED table
      BY <3>1
    <3>2. CASE Count(table) < MaxPeers /\ table' = Append(table, m.src)
      BY <3>2, <2>2, AppendIs DEF Count
    <3> QED  BY <3>1, <3>2, <2>1 DEF AbsorbJoin
  <2> QED  BY <2>1, <2>2, <2>3, <2>4 DEF AbsorbJoin
<1>7. CASE \E m \in net : AbsorbRoster(m) /\ UNCHANGED net
  BY <1>7 DEF AbsorbRoster, host
<1>8. CASE \E m \in net : AbsorbStart(m) /\ UNCHANGED net
  BY <1>8 DEF AbsorbStart, host
<1>9. CASE UNCHANGED vars
  BY <1>9 DEF vars, host
<1> QED  BY <1>1, <1>2, <1>3, <1>4, <1>5, <1>6, <1>7, <1>8, <1>9, Actions

LEMMA JoinerTypeStep ==
  ASSUME JoinerType, NetType, [Next]_vars
  PROVE  JoinerType'
<1> USE DEF JoinerType
<1>1. CASE Start
  BY <1>1 DEF Start, joiner
<1>2. CASE HostPump
  BY <1>2 DEF HostPump, joiner
<1>3. CASE HostRestarts
  BY <1>3 DEF HostRestarts, joiner
<1>4. CASE \E j \in Joiner : JoinerPump(j)
  BY <1>4 DEF JoinerPump, joiner
<1>5. CASE \E j \in Joiner : JoinerRestarts(j)
  BY <1>5 DEF JoinerRestarts
<1>6. CASE \E m \in net : AbsorbJoin(m) /\ UNCHANGED net
  BY <1>6 DEF AbsorbJoin, joiner
<1>7. CASE \E m \in net : AbsorbRoster(m) /\ UNCHANGED net
  <2>1. PICK m \in net : AbsorbRoster(m)
    BY <1>7
  <2>2. /\ m.dst \in Joiner /\ m.session \in Sessions
        /\ m.seat \in Seats /\ m.endpoints \in Seq(Joiner)
    BY <2>1, Kinds DEF AbsorbRoster
  <2>3. Mesh(m.seat, m.endpoints) \in Seq(Joiner \cup {Host, None})
    BY <2>2, MeshIs
  <2>4. [session |-> m.session, seat |-> m.seat, table |-> Mesh(m.seat, m.endpoints)] \in Held
    BY <2>2, <2>3 DEF Held
  <2> QED  BY <2>1, <2>2, <2>4 DEF AbsorbRoster
<1>8. CASE \E m \in net : AbsorbStart(m) /\ UNCHANGED net
  <2>1. PICK m \in net : AbsorbStart(m)
    BY <1>8
  <2>2. m.dst \in Joiner
    BY <2>1, Kinds DEF AbsorbStart
  <2> QED  BY <2>1, <2>2 DEF AbsorbStart
<1>9. CASE UNCHANGED vars
  BY <1>9 DEF vars, joiner
<1> QED  BY <1>1, <1>2, <1>3, <1>4, <1>5, <1>6, <1>7, <1>8, <1>9, Actions

(* What the host puts on the network.                                      *)
LEMMA NewRosters ==
  ASSUME HostType, NEW m \in Rosters
  PROVE  /\ m \in Datagram /\ m.kind = "Roster"
         /\ m.session = session /\ m.endpoints = table
         /\ m.seat \in Seated /\ m.dst = table[m.seat] /\ credit[m.seat] > 0
<1>1. PICK k \in Seated : /\ credit[k] > 0
                          /\ m = [kind |-> "Roster", dst |-> table[k], session |-> session,
                                  seat |-> k, endpoints |-> table]
  BY DEF Rosters
<1>2. table[k] \in Joiner /\ k \in Seats
  BY DEF HostType, Seated, Seats
<1>3. m \in [kind : {"Roster"}, dst : Joiner, session : Sessions, seat : Seats,
             endpoints : Seq(Joiner)]
  BY <1>1, <1>2 DEF HostType
<1> QED  BY <1>1, <1>3 DEF Datagram

LEMMA NewStarts ==
  ASSUME HostType, GoIsTable, NEW m \in Starts
  PROVE  /\ m \in Datagram /\ m.kind = "Start" /\ h_state = "Started"
         /\ m.agreement = h_agreed /\ m.agreement.session = session
<1>1. PICK k \in Seated : /\ h_state = "Started"
                          /\ m = [kind |-> "Start", dst |-> table[k], agreement |-> h_agreed]
  BY DEF Starts
<1>2. table[k] \in Joiner
  BY DEF HostType, Seated
<1>3. h_agreed = [session |-> session, count |-> Count(table)]
  BY <1>1 DEF GoIsTable
<1>4. h_agreed \in Agreement
  <2>1. Count(table) \in MinPeers..MaxPeers
    BY DEF HostType, Seated, Count, MinPeers
  <2> QED  BY <2>1, <1>3 DEF HostType, Agreement
<1> QED  BY <1>1, <1>2, <1>3, <1>4 DEF Datagram

(* The network only grows, by rosters and goes of the host and by          *)
(* questions of the joiners.                                               *)
LEMMA NetGrows ==
  ASSUME [Next]_vars
  PROVE  /\ net \subseteq net'
         /\ \A m \in net' \ net :
              \/ HostPump /\ m \in Rosters
              \/ HostPump /\ m \in Starts
              \/ \E j \in Joiner : m = [kind |-> "Join", src |-> j]
<1>1. CASE HostPump
  BY <1>1 DEF HostPump
<1>2. CASE \E j \in Joiner : JoinerPump(j)
  BY <1>2 DEF JoinerPump
<1>3. CASE UNCHANGED net
  BY <1>3
<1> QED  BY <1>1, <1>2, <1>3, Actions DEF Start, HostRestarts, JoinerRestarts, vars

LEMMA NetTypeStep ==
  ASSUME HostType, GoIsTable, NetType, [Next]_vars
  PROVE  NetType'
<1> SUFFICES ASSUME NEW m \in net' \ net PROVE m \in Datagram
  BY DEF NetType
<1>1. CASE m \in Rosters
  BY <1>1, NewRosters
<1>2. CASE m \in Starts
  BY <1>2, NewStarts
<1>3. CASE \E j \in Joiner : m = [kind |-> "Join", src |-> j]
  BY <1>3 DEF Datagram
<1> QED  BY <1>1, <1>2, <1>3, NetGrows

-----------------------------------------------------------------------------
(* The rosters of a session *)

(* How the table of the host changes.                                      *)
LEMMA TableStep ==
  ASSUME HostType, NetType, [Next]_vars
  PROVE  \/ UNCHANGED <<session, table>>
         \/ \E j \in Joiner :
              /\ h_state = "Hosting" /\ UNCHANGED <<session, h_state, h_agreed>>
              /\ SeatsOf(j) = {}
              /\ table' = Append(table, j)
         \/ HostRestarts
<1>1. CASE Start
  BY <1>1 DEF Start
<1>2. CASE HostPump
  BY <1>2 DEF HostPump
<1>3. CASE \E m \in net : AbsorbJoin(m) /\ UNCHANGED net
  BY <1>3, Kinds DEF AbsorbJoin
<1>4. CASE UNCHANGED host
  BY <1>4 DEF host
<1> QED  BY <1>1, <1>2, <1>3, <1>4, Actions
         DEF JoinerPump, JoinerRestarts, AbsorbRoster, AbsorbStart, vars

LEMMA SeatStep ==
  ASSUME HostType, NetType, NoSeatTwice, [Next]_vars
  PROVE  NoSeatTwice'
<1>1. CASE UNCHANGED <<session, table>>
  BY <1>1 DEF NoSeatTwice, Injective
<1>2. ASSUME NEW j \in Joiner, SeatsOf(j) = {}, table' = Append(table, j)
      PROVE  NoSeatTwice'
  <2>1. /\ Len(table') = Len(table) + 1 /\ table'[Len(table) + 1] = j
        /\ \A k \in 1..Len(table) : table'[k] = table[k]
    BY <1>2, AppendIs DEF HostType
  <2>2. \A k \in 1..Len(table) : table[k] # j
    BY <1>2 DEF SeatsOf, Seated
  <2>3. Len(table) \in Nat
    BY DEF HostType
  <2> QED  BY <2>1, <2>2, <2>3 DEF NoSeatTwice, Injective
<1>3. CASE HostRestarts
  BY <1>3 DEF HostRestarts, HostOpens, NoSeatTwice, Injective
<1> QED  BY <1>1, <1>2, <1>3, TableStep

LEMMA GoStep ==
  ASSUME HostType, NetType, GoIsTable, [Next]_vars
  PROVE  GoIsTable'
<1> USE DEF GoIsTable
<1>1. CASE Start
  BY <1>1 DEF Start, Count
<1>2. CASE HostPump
  BY <1>2 DEF HostPump, Count
<1>3. CASE HostRestarts
  BY <1>3 DEF HostRestarts, HostOpens
<1>4. CASE \E m \in net : AbsorbJoin(m) /\ UNCHANGED net
  BY <1>4 DEF AbsorbJoin
<1>5. CASE UNCHANGED host
  BY <1>5 DEF host, Count
<1> QED  BY <1>1, <1>2, <1>3, <1>4, <1>5, Actions
         DEF JoinerPump, JoinerRestarts, AbsorbRoster, AbsorbStart, vars

(* A roster stays what it was when the host goes on.                       *)
LEMMA RosterStays ==
  ASSUME HostType, NetType, [Next]_vars, NEW m \in net, m.kind = "Roster", RosterOf(m)
  PROVE  RosterOf(m)'
<1>0. /\ Len(table) \in Nat /\ m.endpoints \in Seq(Joiner) /\ Len(m.endpoints) \in Nat
      /\ session \in Nat /\ m.session \in Nat
  BY Kinds DEF HostType, Sessions
<1>1. CASE UNCHANGED <<session, table>>
  BY <1>1 DEF RosterOf, Extend
<1>2. ASSUME NEW j \in Joiner, UNCHANGED session, table' = Append(table, j)
      PROVE  RosterOf(m)'
  <2>1. /\ Len(table') = Len(table) + 1
        /\ \A k \in 1..Len(table) : table'[k] = table[k]
    BY <1>2, AppendIs DEF HostType
  <2>2. m.session = session =>
          Len(m.endpoints) <= Len(table') /\ Extend(m.endpoints, table')
    BY <2>1, <1>0 DEF RosterOf, Extend
  <2> QED  BY <2>2, <1>2 DEF RosterOf
<1>3. CASE HostRestarts
  <2>1. session' = session + 1
    BY <1>3 DEF HostRestarts, HostOpens
  <2>2. m.session <= session' /\ m.session # session'
    BY <2>1, <1>0 DEF RosterOf
  <2> QED  BY <2>2 DEF RosterOf
<1> QED  BY <1>1, <1>2, <1>3, TableStep

(* And a roster the host sends is so.                                      *)
LEMMA RosterSent ==
  ASSUME HostType, NoSeatTwice, HostPump, NEW m \in Rosters
  PROVE  RosterOf(m)'
<1>1. /\ m.session = session /\ m.endpoints = table
      /\ m.seat \in Seated /\ m.dst = table[m.seat]
  BY NewRosters
<1>2. session' = session /\ table' = table
  BY DEF HostPump
<1>3. Len(table) \in Nat /\ session \in Nat /\ Len(table) < MaxPeers
  BY DEF HostType, Sessions
<1>4. Extend(table, table) /\ Injective(table)
  BY DEF Extend, NoSeatTwice
<1> QED  BY <1>1, <1>2, <1>3, <1>4 DEF RosterOf, Seated

LEMMA RostersStep ==
  ASSUME HostType, NetType, NoSeatTwice, RostersSound, [Next]_vars
  PROVE  RostersSound'
<1> SUFFICES ASSUME NEW m \in net', m.kind = "Roster"
             PROVE  RosterOf(m)'
  BY DEF RostersSound
<1>1. CASE m \in net
  BY <1>1, RosterStays DEF RostersSound
<1>2. CASE m \notin net
  <2>1. m \notin Starts
    BY DEF Starts
  <2>2. HostPump /\ m \in Rosters
    BY <1>2, <2>1, NetGrows
  <2> QED  BY <2>2, RosterSent
<1> QED  BY <1>1, <1>2

LEMMA ExtendStep ==
  ASSUME HostType, NetType, RostersSound, RostersExtend, [Next]_vars
  PROVE  RostersExtend'
<1> SUFFICES ASSUME NEW m \in net', NEW n \in net', m.kind = "Roster", n.kind = "Roster",
                    m.session = n.session
             PROVE  Extend(m.endpoints, n.endpoints)
  BY DEF RostersExtend
<1>1. ASSUME NEW a \in net', a.kind = "Roster", a \notin net
      PROVE  a.session = session /\ a.endpoints = table
  <2>1. a \notin Starts
    BY <1>1 DEF Starts
  <2> QED  BY <1>1, <2>1, NetGrows, NewRosters
<1>2. CASE m \in net /\ n \in net
  BY <1>2 DEF RostersExtend
<1>3. CASE m \in net /\ n \notin net
  <2>1. n.endpoints = table /\ m.session = session
    BY <1>3, <1>1
  <2> QED  BY <1>3, <2>1 DEF RostersSound, RosterOf
<1>4. CASE m \notin net /\ n \in net
  <2>1. m.endpoints = table /\ n.session = session
    BY <1>4, <1>1
  <2>2. Extend(n.endpoints, table)
    BY <1>4, <2>1 DEF RostersSound, RosterOf
  <2>3. Len(n.endpoints) \in Nat
    BY <1>4, Kinds
  <2> QED  BY <2>1, <2>2, <2>3 DEF Extend, HostType
<1>5. CASE m \notin net /\ n \notin net
  <2>1. m.endpoints = table /\ n.endpoints = table
    BY <1>5, <1>1
  <2> QED  BY <2>1 DEF Extend
<1> QED  BY <1>2, <1>3, <1>4, <1>5

-----------------------------------------------------------------------------
(* The go of a session *)

(* A go stays what it was when the host goes on.                           *)
LEMMA GoStays ==
  ASSUME HostType, NetType, [Next]_vars, NEW m \in net, m.kind = "Start", GoOf(m)
  PROVE  GoOf(m)'
<1>0. session \in Nat /\ m.agreement.session \in Nat
  BY Kinds DEF HostType, Sessions, Agreement
<1>1. CASE Start
  BY <1>1 DEF Start, GoOf
<1>2. CASE HostPump
  BY <1>2 DEF HostPump, GoOf
<1>3. CASE HostRestarts
  <2>1. session' = session + 1
    BY <1>3 DEF HostRestarts, HostOpens
  <2>2. m.agreement.session <= session' /\ m.agreement.session # session'
    BY <2>1, <1>0 DEF GoOf
  <2> QED  BY <2>2 DEF GoOf
<1>4. CASE \E n \in net : AbsorbJoin(n) /\ UNCHANGED net
  BY <1>4 DEF AbsorbJoin, GoOf
<1>5. CASE UNCHANGED host
  BY <1>5 DEF host, GoOf
<1> QED  BY <1>1, <1>2, <1>3, <1>4, <1>5, Actions
         DEF JoinerPump, JoinerRestarts, AbsorbRoster, AbsorbStart, vars

(* A go that is new is the host's own.                                     *)
LEMMA GoSent ==
  ASSUME HostType, GoIsTable, [Next]_vars, NEW m \in net', m.kind = "Start", m \notin net
  PROVE  /\ HostPump /\ h_state = "Started"
         /\ m.agreement = h_agreed /\ m.agreement.session = session
<1>1. m \notin Rosters
  BY DEF Rosters
<1>2. HostPump /\ m \in Starts
  BY <1>1, NetGrows
<1> QED  BY <1>2, NewStarts

LEMMA StartsStep ==
  ASSUME HostType, NetType, GoIsTable, StartsSound, [Next]_vars
  PROVE  StartsSound'
<1> SUFFICES ASSUME NEW m \in net', m.kind = "Start"
             PROVE  GoOf(m)'
  BY DEF StartsSound
<1>1. CASE m \in net
  BY <1>1, GoStays DEF StartsSound
<1>2. CASE m \notin net
  <2>1. /\ HostPump /\ h_state = "Started"
        /\ m.agreement = h_agreed /\ m.agreement.session = session
    BY <1>2, GoSent
  <2> QED  BY <2>1 DEF GoOf, HostPump, HostType, Sessions
<1> QED  BY <1>1, <1>2

LEMMA StartsAgreeStep ==
  ASSUME HostType, NetType, GoIsTable, StartsSound, StartsAgree, [Next]_vars
  PROVE  StartsAgree'
<1> SUFFICES ASSUME NEW m \in net', NEW n \in net', m.kind = "Start", n.kind = "Start",
                    m.agreement.session = n.agreement.session
             PROVE  m.agreement = n.agreement
  BY DEF StartsAgree
<1>1. ASSUME NEW a \in net', a.kind = "Start", a \notin net
      PROVE  a.agreement = h_agreed /\ a.agreement.session = session
  BY <1>1, GoSent
<1>2. ASSUME NEW a \in net, a.kind = "Start", a.agreement.session = session
      PROVE  a.agreement = h_agreed
  BY <1>2 DEF StartsSound, GoOf
<1>3. CASE m \in net /\ n \in net
  BY <1>3 DEF StartsAgree
<1>4. CASE m \in net /\ n \notin net
  BY <1>4, <1>1, <1>2
<1>5. CASE m \notin net /\ n \in net
  BY <1>5, <1>1, <1>2
<1>6. CASE m \notin net /\ n \notin net
  BY <1>6, <1>1
<1> QED  BY <1>3, <1>4, <1>5, <1>6

-----------------------------------------------------------------------------
(* The joiners *)

LEMMA HeldStep ==
  ASSUME JoinerType, NetType, HeldCame, [Next]_vars
  PROVE  HeldCame'
<1> SUFFICES ASSUME NEW j \in Joiner, held'[j] # None
             PROVE  \E m \in net' : Answers(held'[j], j, m)
  BY DEF HeldCame, Answers
<1>1. CASE held'[j] = held[j]
  BY <1>1, NetGrows DEF HeldCame, Answers
<1>2. ASSUME NEW m \in net, AbsorbRoster(m), held'[j] # held[j]
      PROVE  Answers(held'[j], j, m)
  <2>1. j = m.dst
    BY <1>2, Kinds DEF AbsorbRoster, JoinerType
  <2> QED  BY <2>1, <1>2 DEF AbsorbRoster, Answers, JoinerType
<1>3. ASSUME NEW i \in Joiner, JoinerRestarts(i)
      PROVE  held'[j] = held[j]
  BY <1>3 DEF JoinerRestarts, JoinerType
<1> QED  BY <1>1, <1>2, <1>3, NetGrows, Actions
         DEF Start, HostPump, HostRestarts, JoinerPump, AbsorbJoin, AbsorbStart, joiner, vars

LEMMA AgreedStep ==
  ASSUME JoinerType, NetType, HeldCame, AgreedCame, [Next]_vars
  PROVE  AgreedCame'
<1> SUFFICES ASSUME NEW j \in Joiner, agreed'[j] # None
             PROVE  /\ \E m \in net' : Answers(agreed'[j], j, m)
                    /\ \E m \in net' : m.kind = "Start" /\ Agrees(agreed'[j], m)
  BY DEF AgreedCame, Answers, Agrees
<1>1. CASE agreed'[j] = agreed[j]
  BY <1>1, NetGrows DEF AgreedCame
<1>2. ASSUME NEW m \in net, AbsorbStart(m), agreed'[j] # agreed[j]
      PROVE  m.kind = "Start" /\ held[j] # None /\ agreed'[j] = held[j] /\ Agrees(held[j], m)
  <2>1. j = m.dst
    BY <1>2, Kinds DEF AbsorbStart, JoinerType
  <2> QED  BY <2>1, <1>2 DEF AbsorbStart, JoinerType
<1>3. ASSUME NEW m \in net, AbsorbStart(m), agreed'[j] # agreed[j]
      PROVE  /\ \E n \in net : Answers(agreed'[j], j, n)
             /\ \E n \in net : n.kind = "Start" /\ Agrees(agreed'[j], n)
  BY <1>2, <1>3 DEF HeldCame
<1>4. ASSUME NEW i \in Joiner, JoinerRestarts(i)
      PROVE  agreed'[j] = agreed[j]
  BY <1>4 DEF JoinerRestarts, JoinerType
<1>5. agreed'[j] = agreed[j] \/ \E m \in net : AbsorbStart(m)
  BY <1>4, Actions
     DEF Start, HostPump, HostRestarts, JoinerPump, AbsorbJoin, AbsorbRoster, joiner, vars
<1> QED  BY <1>1, <1>3, <1>5, NetGrows

-----------------------------------------------------------------------------

LEMMA InitMesh == Init => MeshInv
<1> SUFFICES ASSUME Init PROVE MeshInv
  OBVIOUS
<1>1. HostType
  BY DEF Init, HostType, Sessions
<1>2. JoinerType /\ NetType
  BY DEF Init, JoinerType, NetType
<1>3. NoSeatTwice /\ GoIsTable
  BY DEF Init, NoSeatTwice, Injective, GoIsTable
<1> QED  BY <1>1, <1>2, <1>3
         DEF Init, MeshInv, RostersSound, RostersExtend, StartsSound, StartsAgree,
             HeldCame, AgreedCame

LEMMA StepMesh == MeshInv /\ [Next]_vars => MeshInv'
<1> SUFFICES ASSUME MeshInv, [Next]_vars PROVE MeshInv'
  OBVIOUS
<1>1. /\ HostType /\ JoinerType /\ NetType /\ NoSeatTwice /\ GoIsTable
      /\ RostersSound /\ RostersExtend /\ StartsSound /\ StartsAgree
      /\ HeldCame /\ AgreedCame
  BY DEF MeshInv
<1>2. HostType' /\ JoinerType' /\ NetType'
  BY <1>1, HostTypeStep, JoinerTypeStep, NetTypeStep
<1>3. NoSeatTwice' /\ GoIsTable'
  BY <1>1, SeatStep, GoStep
<1>4. RostersSound' /\ RostersExtend'
  BY <1>1, RostersStep, ExtendStep
<1>5. StartsSound' /\ StartsAgree'
  BY <1>1, StartsStep, StartsAgreeStep
<1>6. HeldCame' /\ AgreedCame'
  BY <1>1, HeldStep, AgreedStep
<1> QED  BY <1>2, <1>3, <1>4, <1>5, <1>6 DEF MeshInv

(* The invariant that carries the handshake: see its parts above.          *)
THEOREM HandshakeInvariant == Spec => []MeshInv
BY InitMesh, StepMesh, PTL DEF Spec

(* The go behind an agreement is the one its session says, and the rosters *)
(* behind two agreements to it are one roster.                             *)
LEMMA OneRoster ==
  ASSUME MeshInv, NEW i \in Joiner, NEW j \in Joiner, agreed[i] # None, agreed[j] # None,
         agreed[i].session = agreed[j].session
  PROVE  \E m, n \in net :
           /\ Answers(agreed[i], i, m) /\ Answers(agreed[j], j, n)
           /\ m.endpoints = n.endpoints
           /\ Len(agreed[i].table) = Len(agreed[j].table)
<1>1. PICK m \in net, n \in net : Answers(agreed[i], i, m) /\ Answers(agreed[j], j, n)
  BY DEF MeshInv, AgreedCame
<1>2. PICK a \in net, b \in net : /\ a.kind = "Start" /\ Agrees(agreed[i], a)
                                  /\ b.kind = "Start" /\ Agrees(agreed[j], b)
  BY DEF MeshInv, AgreedCame
<1>3. a.agreement = b.agreement
  BY <1>2 DEF MeshInv, StartsAgree, Agrees
<1>4. Len(agreed[i].table) = Len(agreed[j].table)
  BY <1>2, <1>3 DEF Agrees
<1>5. m.endpoints \in Seq(Joiner) /\ n.endpoints \in Seq(Joiner)
  BY <1>1, Kinds DEF Answers, MeshInv
<1>6. Len(m.endpoints) = Len(n.endpoints)
  <2>1. /\ Len(agreed[i].table) = Len(m.endpoints) + 1
        /\ Len(agreed[j].table) = Len(n.endpoints) + 1
    BY <1>1, <1>5, MeshIs DEF Answers
  <2> QED  BY <2>1, <1>4, <1>5
<1>7. Extend(m.endpoints, n.endpoints)
  BY <1>1 DEF Answers, MeshInv, RostersExtend
<1>8. m.endpoints = n.endpoints
  BY <1>5, <1>6, <1>7 DEF Extend
<1> QED  BY <1>1, <1>4, <1>8

(* Whoever agreed to the session the host is in agreed to its table.       *)
LEMMA HostsRoster ==
  ASSUME MeshInv, NEW i \in Joiner, agreed[i] # None, agreed[i].session = session
  PROVE  /\ h_agreed = [session |-> session, count |-> Len(agreed[i].table)]
         /\ table[agreed[i].seat] = i
<1>1. PICK m \in net : Answers(agreed[i], i, m)
  BY DEF MeshInv, AgreedCame
<1>2. PICK a \in net : a.kind = "Start" /\ Agrees(agreed[i], a)
  BY DEF MeshInv, AgreedCame
<1>3. h_state = "Started" /\ a.agreement = h_agreed
  BY <1>2 DEF MeshInv, StartsSound, GoOf, Agrees
<1>4. h_agreed = [session |-> session, count |-> Count(table)]
  BY <1>3 DEF MeshInv, GoIsTable
<1>5. Len(agreed[i].table) = Count(table)
  BY <1>2, <1>3, <1>4 DEF Agrees
<1>6. RosterOf(m) /\ m.session = session
  BY <1>1 DEF MeshInv, RostersSound, Answers
<1>7. /\ m.endpoints \in Seq(Joiner) /\ m.seat \in Seats
  BY <1>1, Kinds DEF MeshInv, Answers
<1>8. Extend(m.endpoints, table) /\ Len(m.endpoints) <= Len(table)
  BY <1>6 DEF RosterOf
<1>9. m.endpoints[m.seat] = i /\ m.seat \in 1..Len(m.endpoints) /\ agreed[i].seat = m.seat
  BY <1>1, <1>6, <1>7 DEF RosterOf, Answers, Seats
<1>10. table[m.seat] = i
  BY <1>7, <1>8, <1>9 DEF Extend, MeshInv, HostType
<1> QED  BY <1>4, <1>5, <1>9, <1>10

(* No endpoint holds two seats, and peers that agreed to one session       *)
(* agreed to the same roster, each with a seat of its own and each knowing *)
(* the endpoint of the other; the host of that session agreed to it too.   *)
THEOREM WholeMeshAgrees == Spec => []MeshAgrees
<1>1. MeshInv => MeshAgrees
  <2> SUFFICES ASSUME MeshInv PROVE MeshAgrees
    OBVIOUS
  <2>1. TypeOK
    BY DEF MeshInv, HostType, JoinerType, NetType, TypeOK
  <2>2. \A k, l \in Seated : table[k] = table[l] => k = l
    BY DEF MeshInv, NoSeatTwice, Injective, Seated
  <2>3. ASSUME NEW i \in Joiner, agreed[i] # None, NEW j \in Joiner \ {i}, agreed[j] # None,
               agreed[j].session = agreed[i].session
        PROVE  /\ Len(agreed[i].table) = Len(agreed[j].table)
               /\ agreed[i].seat # agreed[j].seat
               /\ agreed[i].table[agreed[j].seat + 1] = j
    <3>1. PICK m \in net, n \in net :
                 /\ Answers(agreed[i], i, m) /\ Answers(agreed[j], j, n)
                 /\ m.endpoints = n.endpoints
                 /\ Len(agreed[i].table) = Len(agreed[j].table)
      BY <2>3, OneRoster
    <3>2. /\ m.endpoints \in Seq(Joiner) /\ m.seat \in Seats /\ n.seat \in Seats
      BY <3>1, Kinds DEF MeshInv, Answers
    <3>3. /\ m.endpoints[m.seat] = i /\ m.seat <= Len(m.endpoints)
          /\ n.endpoints[n.seat] = j /\ n.seat <= Len(n.endpoints)
      BY <3>1 DEF MeshInv, RostersSound, RosterOf, Answers
    <3>4. agreed[i].seat = m.seat /\ agreed[j].seat = n.seat /\ m.seat # n.seat
      BY <3>1, <3>3, <2>3 DEF Answers
    <3>5. n.seat \in 1..Len(m.endpoints) /\ n.seat # m.seat
      BY <3>1, <3>2, <3>3, <3>4 DEF Seats
    <3>6. Mesh(m.seat, m.endpoints)[n.seat + 1] = m.endpoints[n.seat]
      BY <3>2, <3>5, MeshIs
    <3>7. agreed[i].table = Mesh(m.seat, m.endpoints)
      BY <3>1 DEF Answers
    <3> QED  BY <3>1, <3>3, <3>4, <3>6, <3>7
  <2> QED  BY <2>1, <2>2, <2>3, HostsRoster DEF MeshAgrees
<1> QED  BY <1>1, HandshakeInvariant, PTL

-----------------------------------------------------------------------------
(* The rosters a host owes *)

LEMMA GrantIs ==
  ASSUME HostType, NEW k \in Seats
  PROVE  /\ Grant(k)[k] = RosterCredit
         /\ \A l \in Seats \ {k} : Grant(k)[l] = credit[l]
BY DEF Grant, HostType

LEMMA CreditStep ==
  ASSUME RosterCredit = 1, HostType, NetType, NoSeatTwice, CreditIsAsking, [Next]_vars
  PROVE  CreditIsAsking'
<1>0. Len(table) \in Nat /\ Len(table) <= MaxPeers - 1 /\ Seated \subseteq Seats
  BY DEF HostType, Seated, Seats
<1>1. CASE Start
  BY <1>1 DEF Start, CreditIsAsking, Seated
<1>2. CASE HostPump
  <2> SUFFICES ASSUME NEW k \in Seated
               PROVE  credit'[k] > 0 <=> table[k] \in asking'
    BY <1>2 DEF HostPump, CreditIsAsking, Seated
  <2>1. k \in Seats /\ credit[k] \in 0..1
    BY <1>0 DEF HostType
  <2>2. credit'[k] = 0
    BY <2>1, <1>2 DEF HostPump, Spend
  <2>3. CASE credit[k] > 0
    <3> DEFINE m == [kind |-> "Roster", dst |-> table[k], session |-> session,
                     seat |-> k, endpoints |-> table]
    <3>1. m \in Rosters
      BY <2>3 DEF Rosters
    <3>2. m.dst = table[k]
      OBVIOUS
    <3> HIDE DEF m
    <3> QED  BY <3>1, <3>2, <2>2, <1>2 DEF HostPump
  <2>4. CASE ~(credit[k] > 0)
    BY <2>4, <2>2, <1>2 DEF HostPump, CreditIsAsking
  <2> QED  BY <2>3, <2>4
<1>3. CASE HostRestarts
  BY <1>3 DEF HostRestarts, HostOpens, CreditIsAsking, Seated
<1>4. CASE \E m \in net : AbsorbJoin(m) /\ UNCHANGED net
  <2>1. PICK m \in net : AbsorbJoin(m)
    BY <1>4
  <2>2. asking' = asking \cup {m.src} /\ m.src \in Joiner
    BY <2>1, Kinds DEF AbsorbJoin
  <2>3. ASSUME NEW k \in SeatsOf(m.src), credit' = Grant(k), UNCHANGED table
        PROVE  CreditIsAsking'
    <3>1. k \in Seated /\ table[k] = m.src
      BY <2>3 DEF SeatsOf
    <3>2. \A l \in Seated \ {k} : table[l] # m.src
      BY <3>1 DEF NoSeatTwice, Injective, Seated
    <3>3. k \in Seats /\ credit'[k] = 1 /\ \A l \in Seated \ {k} : credit'[l] = credit[l]
      BY <3>1, <2>3, <1>0, GrantIs
    <3>4. Seated' = Seated
      BY <2>3 DEF Seated
    <3> QED  BY <3>1, <3>2, <3>3, <3>4, <2>2, <2>3 DEF CreditIsAsking
  <2>4. ASSUME SeatsOf(m.src) = {}, Count(table) < MaxPeers,
               credit' = Grant(Count(table)), table' = Append(table, m.src)
        PROVE  CreditIsAsking'
    <3>1. /\ Len(table') = Len(table) + 1 /\ table'[Len(table) + 1] = m.src
          /\ \A l \in Seated : table'[l] = table[l]
      BY <2>2, <2>4, AppendIs DEF HostType, Seated
    <3>2. \A l \in Seated : table[l] # m.src
      BY <2>4 DEF SeatsOf
    <3>3. Count(table) \in Seats /\ Count(table) \notin Seated /\ Count(table) = Len(table) + 1
      BY <1>0, <2>4 DEF Count, Seats, Seated
    <3>4. /\ credit'[Len(table) + 1] = 1
          /\ \A l \in Seated : credit'[l] = credit[l]
      BY <3>3, <2>4, <1>0, GrantIs
    <3>5. Seated' = Seated \cup {Len(table) + 1}
      BY <3>1, <1>0 DEF Seated
    <3> QED  BY <3>1, <3>2, <3>4, <3>5, <2>2 DEF CreditIsAsking
  <2> QED  BY <2>1, <2>3, <2>4 DEF AbsorbJoin
<1>5. CASE UNCHANGED <<host, asking>>
  BY <1>5 DEF host, CreditIsAsking, Seated
<1> QED  BY <1>1, <1>2, <1>3, <1>4, <1>5, Actions
         DEF JoinerPump, JoinerRestarts, AbsorbRoster, AbsorbStart, vars

(* With the credit of one roster the code gives, the host owes a roster to *)
(* exactly those seated endpoints that asked since the last one: it sends  *)
(* no more than it was asked for, and a lost one again on the next ask.    *)
THEOREM OwesWhoAsked ==
  ASSUME RosterCredit = 1
  PROVE  Spec => []RostersAreAnswers
<1>1. Init => CreditIsAsking
  BY DEF Init, CreditIsAsking, Seated
<1>2. MeshInv /\ CreditIsAsking /\ [Next]_vars => CreditIsAsking'
  BY CreditStep DEF MeshInv
<1>3. CreditIsAsking => RostersAreAnswers
  <2> SUFFICES ASSUME CreditIsAsking PROVE RostersAreAnswers
    OBVIOUS
  <2>1. ASSUME NEW m \in Rosters
        PROVE  m.dst \in {table[k] : k \in Seated} \cap asking
    BY DEF Rosters, CreditIsAsking
  <2>2. ASSUME NEW k \in Seated, table[k] \in asking
        PROVE  \E m \in Rosters : m.dst = table[k]
    <3> DEFINE m == [kind |-> "Roster", dst |-> table[k], session |-> session,
                     seat |-> k, endpoints |-> table]
    <3>1. m \in Rosters
      BY <2>2 DEF Rosters, CreditIsAsking
    <3>2. m.dst = table[k]
      OBVIOUS
    <3> HIDE DEF m
    <3> QED  BY <3>1, <3>2
  <2> QED  BY <2>1, <2>2 DEF RostersAreAnswers
<1> QED  BY <1>1, <1>2, <1>3, HandshakeInvariant, PTL DEF Spec

=============================================================================
