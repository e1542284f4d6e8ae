----------------------------- MODULE Gpu_proofs -----------------------------
(***************************************************************************)
(* That the barriers of FrameWalk order every access to an image, for any  *)
(* frames of any number of passes on either target; and that what queued   *)
(* work reads stays alive and unchanged, for any number of frame slots and *)
(* any failures of the driver.                                             *)
(***************************************************************************)
EXTENDS Gpu, WellFoundedInduction, TLAPS

-----------------------------------------------------------------------------
(* One pass *)

(* Between two passes: the image is in the layout the barriers left it in, *)
(* and what is open for a stage is harmless to the next access there.      *)
DeviceOK(d) ==
  /\ d \in Device /\ d.safe
  /\ d.layout = "undefined" => \A t \in Stage : d.open[t] = {}
  /\ d.layout = "attachment" => d.open["attachment"] \subseteq {"write"}
  /\ d.layout = "sampled" => d.open["fragment"] \subseteq {"read"}

(* What an image remembers is what the submitted work leaves in it         *)
Truly(kept, remembered, d) ==
  IF ~kept THEN remembered = "Undefined"
  ELSE /\ remembered \in KeptContents
       /\ remembered = "Undefined" => ~d.live
       /\ remembered = "Stored" => d.layout = "attachment" /\ d.live
       /\ remembered = "Discarded" => d.layout = "attachment"
       /\ remembered = "Sampled" => d.layout = "sampled" /\ d.live

Entry == [targeted : BOOLEAN, sampled : BOOLEAN, discarded : BOOLEAN,
          arrived : KeptContents, kept : BOOLEAN]

(* How the entry of an image tells where its walk has brought it           *)
Follows(e, d) ==
  /\ DeviceOK(d)
  /\ ~e.kept => e.arrived = "Undefined"
  /\ e.sampled => d.layout = "sampled" /\ d.live
  /\ (e.targeted /\ ~e.sampled) => d.layout = "attachment" /\ (~e.discarded => d.live)
  /\ (~e.targeted /\ ~e.sampled) => Truly(e.kept, e.arrived, d)

LEMMA UseIs ==
  ASSUME NEW u \in Use
  PROVE  \/ /\ u.as = "target" /\ u.load \in {"Clear", "Load"}
            /\ u.store \in {"Store", "Discard"}
         \/ u.as = "sample"
BY DEF Use, Target, Sample

(* A barrier that waits for everything still open and names the layout the *)
(* image is in, or none, is safe and leaves nothing open for its stages.   *)
Fits(d, src, dst, old, new) ==
  /\ d \in Device /\ d.safe
  /\ src \subseteq Stage /\ dst \subseteq Stage
  /\ old \in {"undefined", d.layout} /\ new \in Layout
  /\ \A x \in Access : (\E t \in Stage : x \in d.open[t]) =>
       StageOf(x) \cap src # {} \/ \E t \in src : x \notin d.open[t]

Clears(b, d, dst, old, new) ==
  /\ b \in Device /\ b.safe /\ b.layout = new
  /\ b.live = (d.live /\ old # "undefined")
  /\ \A t \in dst : b.open[t] = {}

LEMMA BarrierIs ==
  ASSUME NEW d, NEW src, NEW dst, NEW old, NEW new, Fits(d, src, dst, old, new)
  PROVE  Clears(Barrier(d, Masks(src, dst, old, new)), d, dst, old, new)
<1> USE DEF Fits
<1> DEFINE m == Masks(src, dst, old, new)
           late == {x \in UNION {d.open[t] : t \in Stage} : ~Ordered(d, m, x)}
           moves == m.old # m.new
           left(t) == IF t \in m.dst THEN d.open[t] \cap late
                      ELSE d.open[t] \cup (IF moves THEN {"relayout"} ELSE {})
           b == Barrier(d, m)
<1>1. m.src = src /\ m.dst = dst /\ m.old = old /\ m.new = new
  BY DEF Masks
<1>2. \A t \in Stage : d.open[t] \subseteq Access
  BY DEF Device
<1>3. late = {}
  BY <1>1, <1>2 DEF Ordered
<1>4. \A t \in Stage : left(t) \subseteq Access
  BY <1>2 DEF Access
<1> DEFINE live == d.live /\ m.old # "undefined"
           safe == d.safe /\ m.old \in {"undefined", d.layout} /\ (moves => late = {})
<1>5. b = [layout |-> m.new, live |-> live, open |-> [t \in Stage |-> left(t)], safe |-> safe]
  BY DEF Barrier
<1>6. \A t \in dst : left(t) = {}
  BY <1>1, <1>3
<1>7. live = (d.live /\ old # "undefined") /\ live \in BOOLEAN /\ safe = TRUE
  BY <1>1, <1>3
<1> HIDE DEF left, late, moves, m, live, safe, b
<1>70. /\ b.open = [t \in Stage |-> left(t)] /\ b.layout = new /\ b.live = live
       /\ b.safe = TRUE
  BY <1>1, <1>5, <1>7
<1>8. b \in Device
  BY <1>1, <1>4, <1>5, <1>7 DEF Device
<1>9. \A t \in dst : b.open[t] = {}
  BY <1>6, <1>70
<1> QED  BY <1>7, <1>70, <1>8, <1>9 DEF m, b, Clears

(* Each of the four barriers, where the walk puts it.                      *)
LEMMA FirstUseIs ==
  ASSUME NEW d, DeviceOK(d)
  PROVE  LET b == Barrier(d, PassBoundary("FirstUse"))
         IN /\ b \in Device /\ b.safe /\ b.layout = "attachment" /\ b.open["attachment"] = {}
<1>1. Fits(d, {"attachment", "fragment"}, {"attachment"}, "undefined", "attachment")
  BY DEF Fits, DeviceOK, Device, Stage, Access, StageOf, Layout
<1>2. PassBoundary("FirstUse") = Masks({"attachment", "fragment"}, {"attachment"}, "undefined", "attachment")
  BY DEF PassBoundary
<1>3. Clears(Barrier(d, PassBoundary("FirstUse")), d, {"attachment"}, "undefined", "attachment")
  BY <1>1, <1>2, BarrierIs
<1> QED  BY <1>3 DEF Clears, DeviceOK, Device

LEMMA AttachmentIs ==
  ASSUME NEW d, DeviceOK(d), d.layout = "attachment"
  PROVE  LET b == Barrier(d, PassBoundary("Attachment"))
         IN /\ b \in Device /\ b.safe /\ b.layout = "attachment" /\ b.open["attachment"] = {}
            /\ b.live = d.live
<1>1. Fits(d, {"attachment"}, {"attachment"}, "attachment", "attachment")
  BY DEF Fits, DeviceOK, Device, Stage, Access, StageOf, Layout
<1>2. PassBoundary("Attachment") = Masks({"attachment"}, {"attachment"}, "attachment", "attachment")
  BY DEF PassBoundary
<1>3. Clears(Barrier(d, PassBoundary("Attachment")), d, {"attachment"}, "attachment", "attachment")
  BY <1>1, <1>2, BarrierIs
<1> QED  BY <1>3 DEF Clears, DeviceOK, Device

LEMMA KeptFromSampledIs ==
  ASSUME NEW d, DeviceOK(d), d.layout = "sampled"
  PROVE  LET b == Barrier(d, PassBoundary("KeptFromSampled"))
         IN /\ b \in Device /\ b.safe /\ b.layout = "attachment" /\ b.open["attachment"] = {}
            /\ b.live = d.live
<1>1. Fits(d, {"attachment", "fragment"}, {"attachment"}, "sampled", "attachment")
  BY DEF Fits, DeviceOK, Device, Stage, Access, StageOf, Layout
<1>2. PassBoundary("KeptFromSampled") = Masks({"attachment", "fragment"}, {"attachment"}, "sampled", "attachment")
  BY DEF PassBoundary
<1>3. Clears(Barrier(d, PassBoundary("KeptFromSampled")), d, {"attachment"}, "sampled", "attachment")
  BY <1>1, <1>2, BarrierIs
<1> QED  BY <1>3 DEF Clears, DeviceOK, Device

LEMMA ToSampledIs ==
  ASSUME NEW d, DeviceOK(d), d.layout = "attachment"
  PROVE  LET b == Barrier(d, PassBoundary("ToSampled"))
         IN /\ b \in Device /\ b.safe /\ b.layout = "sampled" /\ b.open["fragment"] = {}
            /\ b.live = d.live
<1>1. Fits(d, {"attachment"}, {"fragment"}, "attachment", "sampled")
  BY DEF Fits, DeviceOK, Device, Stage, Access, StageOf, Layout
<1>2. PassBoundary("ToSampled") = Masks({"attachment"}, {"fragment"}, "attachment", "sampled")
  BY DEF PassBoundary
<1>3. Clears(Barrier(d, PassBoundary("ToSampled")), d, {"fragment"}, "attachment", "sampled")
  BY <1>1, <1>2, BarrierIs
<1> QED  BY <1>3 DEF Clears, DeviceOK, Device

(* A pass into an image that is ready for it, and one that samples it.     *)
LEMMA RenderIs ==
  ASSUME NEW d \in Device, d.safe, d.layout = "attachment", d.open["attachment"] = {},
         NEW u, u.store \in {"Store", "Discard"}, u.load = "Load" => d.live
  PROVE  LET r == Render(d, u)
         IN DeviceOK(r) /\ r.layout = "attachment" /\ r.live = (u.store = "Store")
<1> DEFINE r == Render(d, u)
           live == u.store = "Store"
           safe == d.safe /\ d.layout = "attachment" /\ d.open["attachment"] = {}
                     /\ (u.load = "Load" => d.live)
           open == [t \in Stage |-> d.open[t] \cup {"write"}]
<1>1. r = [layout |-> d.layout, live |-> live, open |-> open, safe |-> safe]
  BY DEF Render
<1>2. safe = TRUE /\ live \in BOOLEAN
  OBVIOUS
<1>3. open \in [Stage -> SUBSET Access] /\ open["attachment"] = {"write"}
  BY DEF Device, Stage, Access
<1> HIDE DEF r, live, safe, open
<1>4. r.layout = "attachment" /\ r.live = live /\ r.safe = TRUE /\ r.open = open
  BY <1>1, <1>2
<1>5. r \in Device
  BY <1>1, <1>2, <1>3 DEF Device
<1> QED  BY <1>3, <1>4, <1>5 DEF DeviceOK, r, live

LEMMA FetchIs ==
  ASSUME NEW d \in Device, d.safe, d.live, d.layout = "sampled",
         d.open["fragment"] \subseteq {"read"}
  PROVE  LET r == Fetch(d) IN DeviceOK(r) /\ r.layout = "sampled" /\ r.live
<1> DEFINE r == Fetch(d)
           safe == d.safe /\ d.live /\ d.layout = "sampled"
                     /\ d.open["fragment"] \subseteq {"read"}
           open == [t \in Stage |-> d.open[t] \cup {"read"}]
<1>1. r = [d EXCEPT !.open = open, !.safe = safe]
  BY DEF Fetch
<1>2. safe = TRUE
  OBVIOUS
<1>3. open \in [Stage -> SUBSET Access] /\ open["fragment"] \subseteq {"read"}
  BY DEF Device, Stage, Access
<1> HIDE DEF r, safe, open
<1>4. r.layout = "sampled" /\ r.live = d.live /\ r.safe = TRUE /\ r.open = open
  BY <1>1, <1>2 DEF Device
<1>5. r \in Device
  BY <1>1, <1>2, <1>3 DEF Device
<1> QED  BY <1>3, <1>4, <1>5 DEF DeviceOK, r

LEMMA AdvanceIs ==
  ASSUME NEW e \in Entry, NEW u \in Use
  PROVE  /\ Advance(e, u) \in Entry /\ Advance(e, u).kept = e.kept
         /\ Advance(e, u).arrived = e.arrived
         /\ u.as = "target" => /\ Advance(e, u).targeted /\ Advance(e, u).sampled = e.sampled
                               /\ Advance(e, u).discarded = (u.store = "Discard")
         /\ u.as = "sample" => Advance(e, u).sampled
BY UseIs DEF Advance, Entry

(* A pass that is not refused finds its image as the barrier supposes, and *)
(* the entry goes on telling where the image is.                           *)
LEMMA PassFollows ==
  ASSUME NEW e \in Entry, NEW d, Follows(e, d), NEW u \in Use, ~Refused(e, u)
  PROVE  Follows(Advance(e, u), Pass(e, d, u))
<1> DEFINE p == Pass(e, d, u)
           a == Advance(e, u)
<1>0. DeviceOK(d) /\ (~e.kept => e.arrived = "Undefined")
  BY DEF Follows
<1>1. CASE u.as = "target"
  <2>0. u.load \in {"Clear", "Load"} /\ u.store \in {"Store", "Discard"}
    BY <1>1, UseIs
  <2>1. ~e.sampled /\ (u.load = "Load" => Readable(e))
    BY <1>1 DEF Refused
  <2> DEFINE b == Barrier(d, PassBoundary(TargetFrom(e, u)))
  <2>2. /\ b \in Device /\ b.safe /\ b.layout = "attachment" /\ b.open["attachment"] = {}
        /\ u.load = "Load" => b.live
    <3>1. CASE TargetFrom(e, u) = "Attachment"
      <4>1. e.targeted \/ (u.load = "Load" /\ e.kept /\ e.arrived # "Undefined" /\ e.arrived # "Sampled")
        BY <3>1 DEF TargetFrom
      <4>2. d.layout = "attachment" /\ (u.load = "Load" => d.live)
        BY <2>1, <4>1 DEF Follows, Truly, Readable, KeptLive, KeptContents
      <4> QED  BY <1>0, <3>1, <4>2, AttachmentIs
    <3>2. CASE TargetFrom(e, u) = "KeptFromSampled"
      <4>1. ~e.targeted /\ u.load = "Load" /\ e.kept /\ e.arrived = "Sampled"
        BY <3>2 DEF TargetFrom
      <4>2. d.layout = "sampled" /\ d.live
        BY <2>1, <4>1 DEF Follows, Truly
      <4> QED  BY <1>0, <3>2, <4>2, KeptFromSampledIs
    <3>3. CASE TargetFrom(e, u) = "FirstUse"
      <4>1. u.load # "Load"
        BY <2>1, <3>3 DEF TargetFrom, Readable, KeptLive
      <4> QED  BY <1>0, <3>3, <4>1, FirstUseIs
    <3> QED  BY <3>1, <3>2, <3>3 DEF TargetFrom
  <2>3. p = Render(b, u)
    BY <1>1 DEF Pass
  <2>4. DeviceOK(p) /\ p.layout = "attachment" /\ p.live = (u.store = "Store")
    BY <2>0, <2>2, <2>3, RenderIs
  <2>5. /\ a.targeted /\ ~a.sampled /\ a.discarded = (u.store = "Discard")
        /\ a.kept = e.kept /\ a.arrived = e.arrived
    BY <1>1, <2>1, AdvanceIs
  <2> QED  BY <1>0, <2>0, <2>4, <2>5 DEF Follows
<1>2. CASE u.as = "sample"
  <2>1. Readable(e) /\ p = IF Crosses(e) THEN Fetch(Barrier(d, PassBoundary("ToSampled")))
                           ELSE Fetch(d)
    BY <1>2 DEF Pass, Refused
  <2>2. DeviceOK(p) /\ p.layout = "sampled" /\ p.live
    <3>1. CASE Crosses(e)
      <4>1. d.layout = "attachment" /\ d.live
        BY <2>1, <3>1 DEF Crosses, Follows, Truly, Readable, KeptLive, KeptContents
      <4> DEFINE b == Barrier(d, PassBoundary("ToSampled"))
      <4>2. b \in Device /\ b.safe /\ b.layout = "sampled" /\ b.open["fragment"] = {} /\ b.live
        BY <1>0, <4>1, ToSampledIs
      <4> HIDE DEF b
      <4>3. b.open["fragment"] \subseteq {"read"}
        BY <4>2
      <4> QED  BY <2>1, <3>1, <4>2, <4>3, FetchIs DEF b
    <3>2. CASE ~Crosses(e)
      <4>1. d.layout = "sampled" /\ d.live
        BY <2>1, <3>2 DEF Crosses, Follows, Truly, Readable, KeptLive, KeptContents
      <4>2. d \in Device /\ d.safe /\ d.open["fragment"] \subseteq {"read"}
        BY <1>0, <4>1 DEF DeviceOK
      <4> QED  BY <2>1, <3>2, <4>1, <4>2, FetchIs
    <3> QED  BY <3>1, <3>2
  <2>3. a.sampled /\ a.kept = e.kept /\ a.arrived = e.arrived
    BY <1>2, AdvanceIs
  <2> QED  BY <1>0, <2>2, <2>3 DEF Follows
<1> QED  BY <1>1, <1>2, UseIs

LEMMA SettleIs ==
  ASSUME NEW e \in Entry, NEW d, Follows(e, d)
  PROVE  Truly(e.kept, Settle(e), d)
BY DEF Settle, Follows, Truly, Entry, KeptContents

-----------------------------------------------------------------------------
(* The walk of a whole frame *)

(* Induction on numbers, of a set.                                         *)
LEMMA Induction ==
  ASSUME NEW S, 0 \in S, \A n \in Nat : n \in S => n + 1 \in S
  PROVE  Nat \subseteq S
<1> DEFINE T == Nat \ S
           R == OpToRel(<, Nat)
<1>1. IsWellFoundedOn(R, Nat)
  BY NatLessThanWellFounded
<1>2. ASSUME T # {} PROVE FALSE
  <2>1. T \subseteq Nat
    OBVIOUS
  <2> HIDE DEF R, T
  <2>2. PICK x \in T : \A y \in T : <<y, x>> \notin R
    BY <1>1, <1>2, <2>1, WFMin
  <2>3. x \in Nat /\ x \notin S /\ x # 0
    BY DEF T
  <2>4. x - 1 \in Nat /\ x - 1 + 1 = x
    BY <2>3
  <2>5. x - 1 \notin S
    BY <2>3, <2>4
  <2>6. <<x - 1, x>> \in R
    BY <2>3, <2>4 DEF R, OpToRel
  <2> QED  BY <2>2, <2>4, <2>5, <2>6 DEF T
<1> QED  BY <1>2

Walks(g, n, start, uses) ==
  g = [m \in 0..n |-> IF m = 0 THEN start ELSE Step(g[m - 1], uses[m])]

(* There is a walk of any number of passes.                                *)
LEMMA WalkExists ==
  ASSUME NEW start, NEW uses
  PROVE  \A n \in Nat : \E g : Walks(g, n, start, uses)
<1> DEFINE S == {n \in Nat : \E g : Walks(g, n, start, uses)}
<1>1. 0 \in S
  <2>1. Walks([m \in 0..0 |-> start], 0, start, uses)
    BY DEF Walks
  <2> QED  BY <2>1
<1>2. ASSUME NEW n \in Nat, n \in S
      PROVE  n + 1 \in S
  <2>1. PICK g : Walks(g, n, start, uses)
    BY <1>2
  <2> DEFINE h == [m \in 0..(n + 1) |-> IF m = n + 1 THEN Step(g[n], uses[n + 1]) ELSE g[m]]
             k == [m \in 0..(n + 1) |-> IF m = 0 THEN start ELSE Step(h[m - 1], uses[m])]
  <2>2. ASSUME NEW m \in 0..(n + 1)
        PROVE  h[m] = k[m]
    <3>1. CASE m = n + 1
      <4>1. m # 0 /\ m - 1 = n /\ n \in 0..(n + 1) /\ n # n + 1
        BY <3>1
      <4> QED  BY <3>1, <4>1
    <3>2. CASE m # n + 1
      <4>1. m \in 0..n
        BY <3>2
      <4>2. g[m] = IF m = 0 THEN start ELSE Step(g[m - 1], uses[m])
        BY <2>1, <4>1 DEF Walks
      <4>3. m # 0 => m - 1 \in 0..(n + 1) /\ m - 1 # n + 1
        BY <4>1
      <4> QED  BY <3>2, <4>2, <4>3
    <3> QED  BY <3>1, <3>2
  <2>3. h = k
    BY <2>2
  <2> HIDE DEF h
  <2>4. Walks(h, n + 1, start, uses)
    BY <2>3 DEF Walks
  <2> QED  BY <2>4
<1> HIDE DEF S
<1>3. Nat \subseteq S
  BY <1>1, <1>2, Induction
<1> QED  BY <1>3 DEF S

(* The frame that Walk takes through an image, pass by pass.               *)
LEMMA WalkIs ==
  ASSUME NEW kept, NEW contents0, NEW device0, NEW uses \in Seq(Use)
  PROVE  \E g : /\ g[0] = [entry |-> NewEntry(kept, contents0), device |-> device0,
                           refused |-> FALSE]
                /\ \A n \in 0..(Len(uses) - 1) : g[n + 1] = Step(g[n], uses[n + 1])
                /\ Walk(kept, contents0, device0, uses) = g[Len(uses)]
<1> DEFINE start == [entry |-> NewEntry(kept, contents0), device |-> device0, refused |-> FALSE]
           g == CHOOSE h : Walks(h, Len(uses), start, uses)
<1>1. Len(uses) \in Nat
  OBVIOUS
<1>2. Walk(kept, contents0, device0, uses) = g[Len(uses)]
  BY Zenon DEF Walk, Walks
<1>3. Walks(g, Len(uses), start, uses)
  <2> HIDE DEF start
  <2>1. \E h : Walks(h, Len(uses), start, uses)
    BY <1>1, WalkExists
  <2> QED  BY <2>1, Zenon
<1> HIDE DEF g, start
<1>4. g[0] = start
  BY <1>1, <1>3 DEF Walks
<1>5. ASSUME NEW n \in 0..(Len(uses) - 1)
      PROVE  g[n + 1] = Step(g[n], uses[n + 1])
  <2>1. n + 1 \in 0..Len(uses) /\ n + 1 # 0 /\ n + 1 - 1 = n
    BY <1>1
  <2> QED  BY <1>3, <2>1 DEF Walks
<1> QED  BY <1>2, <1>4, <1>5 DEF start

(* A frame that no pass refuses leaves the image safe, and its entry tells *)
(* what an image that is kept is to remember.                              *)
LEMMA WalkFollows ==
  ASSUME NEW kept \in BOOLEAN, NEW contents0, NEW device0, NEW uses \in Seq(Use),
         DeviceOK(device0), Truly(kept, contents0, device0),
         ~Walk(kept, contents0, device0, uses).refused
  PROVE  LET w == Walk(kept, contents0, device0, uses)
         IN DeviceOK(w.device) /\ Truly(kept, Settle(w.entry), w.device)
<1> DEFINE w == Walk(kept, contents0, device0, uses)
           Good(v) == v.entry \in Entry /\ v.entry.kept = kept /\ Follows(v.entry, v.device)
<1>0. PICK g : /\ g[0] = [entry |-> NewEntry(kept, contents0), device |-> device0,
                          refused |-> FALSE]
               /\ \A n \in 0..(Len(uses) - 1) : g[n + 1] = Step(g[n], uses[n + 1])
               /\ w = g[Len(uses)]
  BY WalkIs
<1> DEFINE S == {n \in Nat : n <= Len(uses) => (~g[n].refused => Good(g[n]))}
<1>00. Len(uses) \in Nat
  OBVIOUS
<1>1. 0 \in S
  <2>1. contents0 \in KeptContents
    BY DEF Truly, KeptContents
  <2>2. /\ NewEntry(kept, contents0) \in Entry /\ NewEntry(kept, contents0).kept = kept
        /\ Follows(NewEntry(kept, contents0), device0)
    BY <2>1 DEF NewEntry, Entry, Follows, Truly
  <2> QED  BY <1>0, <2>2
<1>2. ASSUME NEW n \in Nat, n \in S
      PROVE  n + 1 \in S
  <2> SUFFICES ASSUME n + 1 <= Len(uses), ~g[n + 1].refused
               PROVE  Good(g[n + 1])
    OBVIOUS
  <2>1. n \in 0..(Len(uses) - 1) /\ n + 1 \in 1..Len(uses) /\ n <= Len(uses)
    BY <1>00
  <2> DEFINE e == g[n].entry
             u == uses[n + 1]
  <2>2. u \in Use
    BY <2>1
  <2>3. g[n + 1] = Step(g[n], u)
    BY <1>0, <2>1
  <2>4. ~g[n].refused /\ ~Refused(e, u)
    <3>1. g[n + 1].refused = (g[n].refused \/ Refused(e, u))
      BY <2>3 DEF Step
    <3> HIDE DEF e, u
    <3> QED  BY <3>1, Zenon
  <2>5. e \in Entry /\ e.kept = kept /\ Follows(e, g[n].device)
    BY <1>2, <2>1, <2>4
  <2>6. g[n + 1].entry = Advance(e, u) /\ g[n + 1].device = Pass(e, g[n].device, u)
    BY <2>3 DEF Step
  <2>7. Advance(e, u) \in Entry /\ Advance(e, u).kept = kept
    BY <2>2, <2>5, AdvanceIs
  <2>8. Follows(Advance(e, u), Pass(e, g[n].device, u))
    BY <2>2, <2>4, <2>5, PassFollows
  <2> QED  BY <2>6, <2>7, <2>8
<1>3. Nat \subseteq S
  <2> HIDE DEF S
  <2> QED  BY <1>1, <1>2, Induction
<1>4. Good(w)
  BY <1>0, <1>00, <1>3
<1> HIDE DEF w
<1>5. DeviceOK(w.device) /\ Truly(kept, Settle(w.entry), w.device)
  BY <1>4, SettleIs DEF Follows
<1> QED  BY <1>5 DEF w

-----------------------------------------------------------------------------
(* The images of the two targets *)

(* What TypeOK says but for the contents of the images, and that a call is *)
(* a place and a frame                                                     *)
GpuType ==
  /\ held \subseteq Resource
  /\ queue \in Seq(Work) /\ {lost, poisoned, chain, offFence} \subseteq BOOLEAN
  /\ call = [at |-> call.at, frame |-> call.frame]
  /\ call.at \in Place /\ call.frame.needs \subseteq Resource
  /\ window \in {"none", "ready", "dormant"} /\ off \in {"none", "ready", "wedged"}
  /\ acquired \in [Slot -> BOOLEAN] /\ pending \in [Slot -> BOOLEAN]
  /\ fence \in [Slot -> BOOLEAN] /\ retained \in [Slot -> SUBSET Resource]
  /\ frame \in Slot /\ offRetained \subseteq Resource

(* The images, and where the frame under way will leave them               *)
ImagesFollow ==
  /\ contents \in [Image -> KeptContents]
  /\ \A i \in Image : DeviceOK(device[i]) /\ Truly(i \in Kept, contents[i], device[i])

FrameFollows ==
  call.at \in {"wait", "acquire", "record"} =>
    /\ call.frame.contents \in [Image -> KeptContents]
    /\ \A i \in Image : /\ DeviceOK(call.frame.device[i])
                        /\ Truly(i \in Kept, call.frame.contents[i], call.frame.device[i])

(* Work of a window is queued on a slot whose books say so                 *)
WindowWork ==
  \A n \in DOMAIN queue : queue[n].target = "window" =>
    /\ window # "none" /\ pending[queue[n].slot] /\ ~fence[queue[n].slot]
    /\ queue[n].needs \subseteq retained[queue[n].slot]

OffscreenWork ==
  \A n \in DOMAIN queue : queue[n].target = "offscreen" =>
    /\ off # "none" /\ ~offFence /\ queue[n].needs \subseteq offRetained
    /\ off = "ready" => call.at = "offscreen"

Stands == \A n \in DOMAIN queue : queue[n].chain /\ queue[n].bytes

(* A slot has one piece of work queued, and the offscreen target has one   *)
OneEach ==
  \A m, n \in DOMAIN queue :
    /\ queue[m].target = queue[n].target
    /\ queue[m].target = "window" => queue[m].slot = queue[n].slot
    => m = n

SlotBooks ==
  /\ \A s \in Slot : fence[s] => pending[s]
  /\ \A s \in Slot : acquired[s] =>
       \/ call.at = "record" /\ s = frame
       \/ call.at = "abort" \/ window = "dormant"

CallBooks ==
  /\ call.at \in {"wait", "acquire", "record", "present", "abort"} => window = "ready"
  /\ call.at \in {"acquire", "record"} =>
       ~pending[frame] /\ ~fence[frame] /\ retained[frame] = call.frame.needs
  /\ call.at = "offscreen" => off = "ready"
  /\ (off = "ready" /\ call.at # "offscreen") => ~offFence

BooksInv == /\ GpuType /\ WindowWork /\ OffscreenWork /\ Stands /\ OneEach
            /\ SlotBooks /\ CallBooks

-----------------------------------------------------------------------------
(* What frames do to the images *)

LEMMA TrulyKept ==
  ASSUME NEW kept, NEW remembered, NEW d, Truly(kept, remembered, d)
  PROVE  remembered \in KeptContents
BY DEF Truly, KeptContents

(* A frame the contract lets through is recorded so that all images follow.*)
LEMMA RecordingFollows ==
  ASSUME ImagesFollow, NEW f \in Frames, Legal(f)
  PROVE  /\ Recording(f).contents \in [Image -> KeptContents]
         /\ \A i \in Image : /\ DeviceOK(Recording(f).device[i])
                             /\ Truly(i \in Kept, Recording(f).contents[i], Recording(f).device[i])
<1>1. ASSUME NEW i \in Image
      PROVE  DeviceOK(WalkOf(f, i).device) /\ Truly(i \in Kept, Settle(WalkOf(f, i).entry),
                                                    WalkOf(f, i).device)
  <2> DEFINE kept == i \in Kept
             uses == f.uses[i]
  <2>1. uses \in Seq(Use)
    BY FramesAssumption
  <2>2. kept \in BOOLEAN /\ DeviceOK(device[i]) /\ Truly(kept, contents[i], device[i])
    BY DEF ImagesFollow
  <2>3. WalkOf(f, i) = Walk(kept, contents[i], device[i], uses)
    BY DEF WalkOf
  <2> HIDE DEF kept, uses
  <2>4. ~WalkOf(f, i).refused
    <3>1. CASE i \in Touched(f)
      BY <3>1 DEF Legal
    <3>2. CASE i \notin Touched(f)
      <4>1. uses = << >>
        BY <3>2 DEF Touched, uses
      <4>2. PICK g : /\ g[0] = [entry |-> NewEntry(kept, contents[i]), device |-> device[i],
                               refused |-> FALSE]
                     /\ Walk(kept, contents[i], device[i], uses) = g[Len(uses)]
        BY <2>1, WalkIs
      <4>3. Len(uses) = 0
        BY <4>1
      <4>4. WalkOf(f, i).refused = FALSE
        BY <2>3, <4>2, <4>3
      <4> QED  BY <4>4
    <3> QED  BY <3>1, <3>2
  <2>5. /\ DeviceOK(WalkOf(f, i).device)
        /\ Truly(kept, Settle(WalkOf(f, i).entry), WalkOf(f, i).device)
    BY <2>1, <2>2, <2>3, <2>4, WalkFollows
  <2> QED  BY <2>5 DEF kept
<1>2. \A i \in Image : Settle(WalkOf(f, i).entry) \in KeptContents
  BY <1>1, TrulyKept
<1> DEFINE c == [i \in Image |-> Settle(WalkOf(f, i).entry)]
           e == [i \in Image |-> WalkOf(f, i).device]
<1>3. Recording(f).contents = c /\ Recording(f).device = e
  BY DEF Recording
<1>4. c \in [Image -> KeptContents]
  BY <1>2
<1>5. ASSUME NEW i \in Image
      PROVE  DeviceOK(e[i]) /\ Truly(i \in Kept, c[i], e[i])
  BY <1>1, Zenon
<1> HIDE DEF c, e
<1> QED  BY <1>3, <1>4, <1>5

LEMMA NewImageIs ==
  DeviceOK(NewImage) /\ \A kept \in BOOLEAN : Truly(kept, "Undefined", NewImage)
<1>1. [t \in Stage |-> {}] \in [Stage -> SUBSET Access]
  OBVIOUS
<1>2. NewImage \in Device
  BY <1>1 DEF NewImage, Device, Layout
<1> QED  BY <1>2 DEF NewImage, DeviceOK, Truly, KeptContents

(* The images move only when one is created and when work is submitted.    *)
LEMMA ImagesMove ==
  ASSUME Next
  PROVE  \/ UNCHANGED <<contents, device>>
         \/ \E r \in Resource : Create(r)
         \/ At("record") /\ contents' = call.frame.contents /\ device' = call.frame.device
         \/ \E f \in Frames : Legal(f) /\ contents' = Recording(f).contents
                                       /\ device' = Recording(f).device
BY DEF Next, CallStep, Release, BeginRender, OffscreenRender, CreateWindow, DropWindow,
       BeginResize, CreateOffscreen, DropOffscreen, WaitFails, CopyIn, Acquire, RecordFails,
       Submit, Present, Abort, Resize, OffscreenWait, Complete, Lose, Enqueue, imageVars

LEMMA ImagesStep ==
  ASSUME ImagesFollow, FrameFollows, [Next]_vars
  PROVE  ImagesFollow'
<1>1. CASE UNCHANGED <<contents, device>>
  BY <1>1 DEF ImagesFollow
<1>2. ASSUME NEW r \in Resource, Create(r)
      PROVE  ImagesFollow'
  <2>1. /\ contents' = [i \in Image |-> IF i = r THEN "Undefined" ELSE contents[i]]
        /\ device' = [i \in Image |-> IF i = r THEN NewImage ELSE device[i]]
    BY <1>2 DEF Create
  <2>2. contents' \in [Image -> KeptContents]
    BY <2>1 DEF ImagesFollow, KeptContents
  <2>3. ASSUME NEW i \in Image
        PROVE  DeviceOK(device'[i]) /\ Truly(i \in Kept, contents'[i], device'[i])
    <3>1. CASE i = r
      <4>1. device'[i] = NewImage /\ contents'[i] = "Undefined"
        BY <2>1, <3>1
      <4>2. (i \in Kept) \in BOOLEAN
        OBVIOUS
      <4>3. Truly(i \in Kept, "Undefined", NewImage)
        BY <4>2, NewImageIs, Zenon
      <4> QED  BY <4>1, <4>3, NewImageIs
    <3>2. CASE i # r
      BY <2>1, <3>2 DEF ImagesFollow
    <3> QED  BY <3>1, <3>2
  <2> QED  BY <2>2, <2>3 DEF ImagesFollow
<1>3. CASE At("record") /\ contents' = call.frame.contents /\ device' = call.frame.device
  BY <1>3 DEF At, FrameFollows, ImagesFollow
<1>4. ASSUME NEW f \in Frames, Legal(f), contents' = Recording(f).contents,
             device' = Recording(f).device
      PROVE  ImagesFollow'
  BY <1>4, RecordingFollows DEF ImagesFollow
<1>5. CASE UNCHANGED vars
  BY <1>5 DEF vars, imageVars, ImagesFollow
<1> QED  BY <1>1, <1>2, <1>3, <1>4, <1>5, ImagesMove

(* A frame under way is the one that was begun.                            *)
LEMMA FrameMoves ==
  ASSUME GpuType, [Next]_vars
  PROVE  \/ call'.at \notin {"wait", "acquire", "record"}
         \/ call.at \in {"wait", "acquire", "record"} /\ call'.frame = call.frame
         \/ \E f \in Frames : Legal(f) /\ call'.frame = Recording(f)
<1>0. call = [at |-> call.at, frame |-> call.frame]
  BY DEF GpuType
<1>1. CASE UNCHANGED call
  BY <1>1
<1>2. ASSUME NEW place \in {"idle", "record", "present", "abort", "resize", "offscreen"},
             place # "record", Done(place)
      PROVE  call'.at \notin {"wait", "acquire", "record"}
  BY <1>2 DEF Done
<1>3. ASSUME NEW f \in Frames, BeginRender(f)
      PROVE  Legal(f) /\ call'.frame = Recording(f)
  BY <1>3 DEF BeginRender
<1>4. ASSUME NEW place, call.at \in {"wait", "acquire", "record"}, Goto(place)
      PROVE  call'.frame = call.frame
  BY <1>0, <1>4 DEF Goto
<1>5. CASE UNCHANGED vars
  BY <1>5 DEF vars
<1>6. Next => \/ UNCHANGED call
              \/ \E place \in {"idle", "present", "abort", "resize", "offscreen"} : Done(place)
              \/ \E f \in Frames : BeginRender(f)
              \/ \E place : call.at \in {"wait", "acquire", "record"} /\ Goto(place)
  BY Zenon
  DEF Next, CallStep, Release, Create, OffscreenRender, CreateWindow, DropWindow,
       BeginResize, CreateOffscreen, DropOffscreen, WaitFails, CopyIn, Acquire, RecordFails,
       Submit, Present, Abort, Resize, OffscreenWait, Complete, Lose, Return, At
<1> QED  BY <1>1, <1>2, <1>3, <1>4, <1>5, <1>6

LEMMA FrameStep ==
  ASSUME GpuType, ImagesFollow, FrameFollows, [Next]_vars
  PROVE  FrameFollows'
<1>1. CASE call'.at \notin {"wait", "acquire", "record"}
  BY <1>1 DEF FrameFollows
<1>2. CASE call.at \in {"wait", "acquire", "record"} /\ call'.frame = call.frame
  BY <1>2 DEF FrameFollows
<1>3. ASSUME NEW f \in Frames, Legal(f), call'.frame = Recording(f)
      PROVE  FrameFollows'
  BY <1>3, RecordingFollows DEF FrameFollows
<1> QED  BY <1>1, <1>2, <1>3, FrameMoves

-----------------------------------------------------------------------------
(* What calls do to the books *)

(* The steps of Gpu, for citation                                          *)
LEMMA Actions ==
  ASSUME Next
  PROVE  \/ \E r \in Resource : Release(r)
         \/ \E r \in Resource : Create(r)
         \/ \E f \in Frames : BeginRender(f)
         \/ \E f \in Frames : OffscreenRender(f)
         \/ CreateWindow \/ DropWindow \/ BeginResize
         \/ CreateOffscreen \/ DropOffscreen
         \/ WaitFails \/ CopyIn \/ Acquire \/ RecordFails \/ Submit \/ Present
         \/ Abort \/ Resize \/ OffscreenWait
         \/ Complete \/ Lose
BY DEF Next, CallStep

LEMMA NeedsIs ==
  ASSUME NEW f \in Frames
  PROVE  /\ Recording(f).needs \subseteq Resource /\ Recording(f).needs = Needs(f)
         /\ Needs(f) \subseteq Resource
BY DEF Recording, Needs, Touched, Resource

LEMMA FailsIs ==
  ASSUME NEW name, Fails(name), poisoned \in BOOLEAN
  PROVE  poisoned' \in BOOLEAN
BY DEF Fails

LEMMA NextSlotIs ==
  ASSUME NEW n \in Slot
  PROVE  (n + 1) % Slots \in Slot
<1>1. Slots \in Nat \ {0}
  BY SlotsAssumption
<1>2. n + 1 \in Nat
  BY <1>1 DEF Slot
<1> QED  BY <1>1, <1>2 DEF Slot

LEMMA AppendIs ==
  ASSUME NEW q \in Seq(Work), NEW x \in Work
  PROVE  /\ Append(q, x) \in Seq(Work)
         /\ DOMAIN Append(q, x) = DOMAIN q \cup {Len(q) + 1}
         /\ Len(q) + 1 \notin DOMAIN q
         /\ \A n \in DOMAIN q : Append(q, x)[n] = q[n]
         /\ Append(q, x)[Len(q) + 1] = x
OBVIOUS

LEMMA TailIs ==
  ASSUME NEW q \in Seq(Work), q # << >>
  PROVE  /\ Tail(q) \in Seq(Work) /\ Head(q) = q[1] /\ 1 \in DOMAIN q /\ q[1] \in Work
         /\ \A n \in DOMAIN Tail(q) : /\ n + 1 \in DOMAIN q /\ n + 1 # 1
                                      /\ Tail(q)[n] = q[n + 1] /\ n \in Nat
OBVIOUS

LEMMA MarkedIs ==
  ASSUME NEW w \in Work
  PROVE  [w EXCEPT !.chain = FALSE] \in Work /\ [w EXCEPT !.bytes = FALSE] \in Work
BY DEF Work

(* A queue keeps its length and its work when a chain goes or a slot's     *)
(* regions are rewritten; nothing changes where there is no such work.     *)
LEMMA UnchainedIs ==
  ASSUME GpuType
  PROVE  /\ Unchained \in Seq(Work)
         /\ (\A n \in DOMAIN queue : queue[n].target # "window") => Unchained = queue
         /\ queue = << >> => Unchained = << >>
<1>1. queue \in Seq(Work) /\ Len(queue) \in Nat /\ DOMAIN queue = 1..Len(queue)
  BY DEF GpuType
<1>2. ASSUME NEW n \in DOMAIN queue
      PROVE  (IF queue[n].target = "window" THEN [queue[n] EXCEPT !.chain = FALSE] ELSE queue[n])
               \in Work
  <2>1. queue[n] \in Work
    BY <1>1
  <2> QED  BY <2>1, MarkedIs
<1>3. Unchained \in [1..Len(queue) -> Work]
  BY <1>1, <1>2 DEF Unchained
<1>4. (\A n \in DOMAIN queue : queue[n].target # "window") => Unchained = queue
  BY <1>1 DEF Unchained
<1>5. queue = << >> => Unchained = << >>
  BY <1>4
<1> QED  BY <1>1, <1>3, <1>4, <1>5

LEMMA RewrittenIs ==
  ASSUME GpuType, NEW s \in Slot
  PROVE  /\ Rewritten(s) \in Seq(Work)
         /\ ~Queued("window", s) => Rewritten(s) = queue
<1>1. queue \in Seq(Work) /\ Len(queue) \in Nat /\ DOMAIN queue = 1..Len(queue)
  BY DEF GpuType
<1>2. ASSUME NEW n \in DOMAIN queue
      PROVE  (IF queue[n].target = "window" /\ queue[n].slot = s
              THEN [queue[n] EXCEPT !.bytes = FALSE] ELSE queue[n]) \in Work
  <2>1. queue[n] \in Work
    BY <1>1
  <2> QED  BY <2>1, MarkedIs
<1>3. Rewritten(s) \in [1..Len(queue) -> Work]
  BY <1>1, <1>2 DEF Rewritten
<1>4. ~Queued("window", s) => Rewritten(s) = queue
  BY <1>1 DEF Rewritten, Queued
<1> QED  BY <1>1, <1>3, <1>4

LEMMA RetireIs ==
  ASSUME GpuType, RetireFences
  PROVE  /\ retained' \in [Slot -> SUBSET Resource] /\ pending' \in [Slot -> BOOLEAN]
         /\ fence' \in [Slot -> BOOLEAN]
BY DEF GpuType, RetireFences

LEMMA CallIs ==
  ASSUME GpuType, NEW place \in Place
  PROVE  /\ Done(place) => /\ call' = [at |-> call'.at, frame |-> call'.frame]
                           /\ call'.at = place /\ call'.frame.needs = {}
         /\ Goto(place) => /\ call' = [at |-> call'.at, frame |-> call'.frame]
                           /\ call'.at = place /\ call'.frame = call.frame
<1>1. call = [at |-> call.at, frame |-> call.frame]
  BY DEF GpuType
<1>2. NoFrame.needs = {}
  BY DEF NoFrame
<1> QED  BY <1>1, <1>2 DEF Done, Goto

LEMMA EnqueueIs ==
  ASSUME GpuType, NEW target \in {"window", "offscreen"}, NEW s \in Slot, NEW f,
         f.needs \subseteq Resource, Enqueue(target, s, f)
  PROVE  LET work == [target |-> target, slot |-> s, needs |-> f.needs,
                      chain |-> TRUE, bytes |-> TRUE]
         IN work \in Work /\ queue' = Append(queue, work) /\ queue' \in Seq(Work)
<1> DEFINE work == [target |-> target, slot |-> s, needs |-> f.needs,
                    chain |-> TRUE, bytes |-> TRUE]
<1>1. work \in Work
  BY DEF Work
<1>2. queue' = Append(queue, work)
  BY DEF Enqueue
<1>3. queue \in Seq(Work)
  BY DEF GpuType
<1> HIDE DEF work
<1>4. queue' \in Seq(Work)
  BY <1>1, <1>2, <1>3, AppendIs
<1> QED  BY <1>1, <1>2, <1>4 DEF work

LEMMA TypeStep ==
  ASSUME GpuType, [Next]_vars
  PROVE  GpuType'
<1>0. 0 \in Slot /\ {"idle", "wait", "acquire", "record", "present", "abort", "resize", "offscreen"}
        \subseteq Place
  BY SlotsAssumption DEF Slot, Place
<1>1. ASSUME NEW r \in Resource, Release(r) PROVE GpuType'
  BY <1>1 DEF Release, GpuType, windowVars, offVars, NoFault
<1>2. ASSUME NEW r \in Resource, Create(r) PROVE GpuType'
  BY <1>2 DEF Create, GpuType, windowVars, offVars, NoFault
<1>3. ASSUME NEW f \in Frames, BeginRender(f) PROVE GpuType'
  <2>1. call'.at = "wait" /\ call'.frame = Recording(f)
        /\ call' = [at |-> call'.at, frame |-> call'.frame]
    BY <1>3 DEF BeginRender
  <2> QED  BY <1>0, <1>3, <2>1, NeedsIs DEF BeginRender, GpuType, windowVars, offVars, NoFault
<1>4. ASSUME NEW f \in Frames, OffscreenRender(f) PROVE GpuType'
  <2>1. CASE Enqueue("offscreen", 0, Recording(f)) /\ Done("offscreen") /\ NoFault
    <3>1. queue' \in Seq(Work)
      BY <1>0, <2>1, NeedsIs, EnqueueIs
    <3>2. /\ call' = [at |-> call'.at, frame |-> call'.frame]
          /\ call'.at = "offscreen" /\ call'.frame.needs = {}
      BY <1>0, <2>1, CallIs
    <3> QED  BY <1>0, <1>4, <2>1, <3>1, <3>2, NeedsIs
             DEF OffscreenRender, GpuType, windowVars, NoFault
  <2>2. CASE /\ (Fault("record") /\ UNCHANGED poisoned) \/ Fails("submit")
             /\ UNCHANGED <<queue, imageVars, call>>
    BY <1>4, <2>2, FailsIs, NeedsIs DEF OffscreenRender, GpuType, windowVars
  <2> QED  BY <1>4, <2>1, <2>2 DEF OffscreenRender
<1>5. CASE CreateWindow
  BY <1>0, <1>5 DEF CreateWindow, GpuType, offVars, NoFault
<1>6. CASE DropWindow
  BY <1>6, RetireIs, UnchainedIs DEF DropWindow, DestroyChain, GpuType, offVars, NoFault
<1>7. CASE BeginResize
  BY <1>0, <1>7, CallIs DEF BeginResize, GpuType, windowVars, offVars, NoFault
<1>8. CASE CreateOffscreen
  BY <1>8 DEF CreateOffscreen, GpuType, windowVars, NoFault
<1>9. CASE DropOffscreen
  BY <1>9 DEF DropOffscreen, GpuType, windowVars, NoFault
<1>10. CASE WaitFails
  <2>1. poisoned' \in BOOLEAN
    BY <1>10, FailsIs DEF WaitFails, GpuType
  <2> QED  BY <1>0, <1>10, <2>1, CallIs DEF WaitFails, Return, GpuType, windowVars, offVars
<1>11. CASE CopyIn
  <2>1. /\ fence' \in [Slot -> BOOLEAN] /\ pending' \in [Slot -> BOOLEAN]
        /\ UNCHANGED <<held, lost, poisoned, window, chain, acquired, frame, off, offRetained, offFence>>
    BY <1>11 DEF CopyIn, GpuType, offVars, NoFault
  <2>2. CASE chain
    <3>1. /\ retained' = [retained EXCEPT ![frame] = call.frame.needs]
          /\ queue' = IF call.frame.data THEN Rewritten(frame) ELSE queue
          /\ Goto("acquire")
      BY <1>11, <2>2 DEF CopyIn
    <3>2. queue' \in Seq(Work) /\ retained' \in [Slot -> SUBSET Resource]
      BY <3>1, RewrittenIs DEF GpuType
    <3> QED  BY <1>0, <2>1, <3>1, <3>2, CallIs DEF GpuType
  <2>3. CASE ~chain
    <3>1. /\ retained' = [retained EXCEPT ![frame] = IF pending[frame] THEN {} ELSE @]
          /\ Return /\ UNCHANGED queue
      BY <1>11, <2>3 DEF CopyIn
    <3>2. retained' \in [Slot -> SUBSET Resource]
      BY <3>1 DEF GpuType
    <3> QED  BY <1>0, <2>1, <3>1, <3>2, CallIs DEF GpuType, Return
  <2> QED  BY <2>2, <2>3
<1>12. CASE Acquire
  <2>1. poisoned' \in BOOLEAN /\ acquired' \in [Slot -> BOOLEAN]
    BY <1>12, FailsIs DEF Acquire, GpuType, NoFault
  <2> QED  BY <1>0, <1>12, <2>1, CallIs DEF Acquire, Return, GpuType, offVars
<1>13. CASE RecordFails
  <2>1. poisoned' \in BOOLEAN
    BY <1>13, FailsIs DEF RecordFails, GpuType
  <2> QED  BY <1>0, <1>13, <2>1, CallIs DEF RecordFails, GpuType, windowVars, offVars
<1>14. CASE Submit
  <2>1. queue' \in Seq(Work)
    BY <1>14, EnqueueIs DEF Submit, GpuType
  <2>2. frame' \in Slot
    BY <1>14, NextSlotIs DEF Submit, NextSlot, GpuType
  <2> QED  BY <1>0, <1>14, <2>1, <2>2, CallIs DEF Submit, GpuType, offVars, NoFault
<1>15. CASE Present
  <2>1. poisoned' \in BOOLEAN
    BY <1>15, FailsIs DEF Present, GpuType, NoFault
  <2> QED  BY <1>0, <1>15, <2>1, CallIs DEF Present, Return, GpuType, windowVars, offVars
<1>16. CASE Abort
  <2>1. CASE Idle /\ RetireFences /\ DestroyChain /\ UNCHANGED window
    BY <1>0, <1>16, <2>1, RetireIs, UnchainedIs, CallIs
    DEF Abort, Idle, DestroyChain, Return, GpuType, offVars
  <2>2. CASE /\ ~lost /\ Fault("idle") /\ window' = "dormant"
             /\ UNCHANGED <<queue, poisoned, chain, acquired, pending, fence, retained>>
    BY <1>0, <1>16, <2>2, CallIs DEF Abort, Return, GpuType, offVars
  <2> QED  BY <1>16, <2>1, <2>2 DEF Abort
<1>17. CASE Resize
  <2>1. CASE /\ ~lost /\ Idle /\ RetireFences
             /\ window' = Reborn /\ chain' \in BOOLEAN /\ queue' = Unchained
             /\ acquired' = [s \in Slot |-> FALSE]
    BY <1>0, <1>17, <2>1, RetireIs, UnchainedIs, CallIs
    DEF Resize, Idle, Reborn, Return, GpuType, offVars
  <2>2. CASE Fails("idle") /\ UNCHANGED <<queue, window, chain, acquired, pending, fence, retained>>
    BY <1>0, <1>17, <2>2, FailsIs, CallIs DEF Resize, Return, GpuType, offVars
  <2> QED  BY <1>17, <2>1, <2>2 DEF Resize
<1>18. CASE OffscreenWait
  <2>1. poisoned' \in BOOLEAN /\ offFence' \in BOOLEAN /\ off' \in {"none", "ready", "wedged"}
    BY <1>18, FailsIs DEF OffscreenWait, GpuType, NoFault
  <2> QED  BY <1>0, <1>18, <2>1, CallIs DEF OffscreenWait, Return, GpuType, windowVars
<1>19. CASE Complete
  <2>1. queue' \in Seq(Work) /\ Head(queue) \in Work
    BY <1>19, TailIs DEF Complete, GpuType
  <2>2. fence' \in [Slot -> BOOLEAN] /\ offFence' \in BOOLEAN
    BY <1>19, <2>1 DEF Complete, GpuType, Work
  <2> QED  BY <1>19, <2>1, <2>2 DEF Complete, GpuType
<1>20. CASE Lose
  BY <1>20 DEF Lose, GpuType, windowVars, offVars, NoFault
<1>21. CASE UNCHANGED vars
  BY <1>21 DEF vars, GpuType, windowVars, offVars
<1> QED
  BY <1>1, <1>2, <1>3, <1>4, <1>5, <1>6, <1>7, <1>8, <1>9, <1>10, <1>11, <1>12, <1>13, <1>14,
     <1>15, <1>16, <1>17, <1>18, <1>19, <1>20, <1>21, Actions

(* The driver resets the fence of work that has ended, and the wait at a   *)
(* teardown does wait: retire_fence_after_idle and the drops ignore what   *)
(* these answer.                                                           *)
Trusted == "retire" \notin MayFail /\ "drop" \notin MayFail

QueueBooks == WindowWork /\ OffscreenWork /\ Stands /\ OneEach

LEMMA EmptyBooks ==
  ASSUME queue' = << >>
  PROVE  QueueBooks'
<1>1. \A n \in DOMAIN queue' : FALSE
  OBVIOUS
<1> QED  BY <1>1 DEF QueueBooks, WindowWork, OffscreenWork, Stands, OneEach

(* Once the device is idle every slot is as new.                           *)
LEMMA RetiredIs ==
  ASSUME Trusted, GpuType, SlotBooks, RetireFences
  PROVE  \A s \in Slot : ~pending'[s] /\ ~fence'[s]
BY DEF Trusted, GpuType, SlotBooks, RetireFences

(* Work of either target that is queued, by its slot.                      *)
LEMMA QueuedIs ==
  ASSUME BooksInv
  PROVE  /\ \A s \in Slot : Queued("window", s) => pending[s] /\ ~fence[s] /\ window # "none"
         /\ \A n \in DOMAIN queue : queue[n] \in Work
         /\ (off = "none" \/ (off = "ready" /\ call.at # "offscreen")) =>
              \A n \in DOMAIN queue : queue[n].target # "offscreen"
BY DEF BooksInv, GpuType, WindowWork, OffscreenWork, Queued

(* A submit on a slot with no work queued, whose books are those of its    *)
(* own frame.                                                              *)
LEMMA SubmitKeeps ==
  ASSUME BooksInv, NEW work \in Work, queue' = Append(queue, work),
         work.chain, work.bytes,
         UNCHANGED <<window, fence, retained, offFence>>, off' = off,
         \A n \in DOMAIN queue : queue[n].target = work.target =>
           work.target = "window" /\ queue[n].slot # work.slot,
         work.target = "window" => /\ window # "none" /\ ~fence[work.slot]
                                   /\ work.needs \subseteq retained[work.slot]
                                   /\ pending' = [pending EXCEPT ![work.slot] = TRUE]
                                   /\ offRetained' = offRetained,
         work.target = "offscreen" => /\ off = "ready" /\ ~offFence /\ call'.at = "offscreen"
                                      /\ work.needs \subseteq offRetained' /\ pending' = pending,
         work.target = "window" => call.at # "offscreen"
  PROVE  QueueBooks'
<1>0. GpuType /\ queue \in Seq(Work)
  BY DEF BooksInv, GpuType
<1> DEFINE last == Len(queue) + 1
<1>1. /\ DOMAIN queue' = DOMAIN queue \cup {last} /\ last \notin DOMAIN queue
      /\ \A n \in DOMAIN queue : queue'[n] = queue[n]
      /\ queue'[last] = work
  BY <1>0, AppendIs
<1> HIDE DEF last
<1>2. work.target \in {"window", "offscreen"} /\ work.slot \in Slot
  BY DEF Work
<1>3. \A n \in DOMAIN queue : queue[n] \in Work
  BY QueuedIs
<1>4. \A n \in DOMAIN queue : queue[n].target \in {"window", "offscreen"} /\ queue[n].slot \in Slot
  BY <1>3 DEF Work
<1>5. OneEach'
  <2>1. ASSUME NEW m \in DOMAIN queue', NEW n \in DOMAIN queue', m # n,
               queue'[m].target = queue'[n].target,
               queue'[m].target = "window" => queue'[m].slot = queue'[n].slot
        PROVE  FALSE
    <3>1. CASE m \in DOMAIN queue /\ n \in DOMAIN queue
      BY <1>1, <2>1, <3>1 DEF BooksInv, OneEach
    <3>2. CASE m = last /\ n \in DOMAIN queue
      BY <1>1, <2>1, <3>2
    <3>3. CASE m \in DOMAIN queue /\ n = last
      BY <1>1, <2>1, <3>3
    <3> QED  BY <1>1, <2>1, <3>1, <3>2, <3>3
  <2> QED  BY <2>1 DEF OneEach
<1>6. Stands'
  BY <1>1 DEF BooksInv, Stands
<1>7. WindowWork'
  <2>1. ASSUME NEW n \in DOMAIN queue', queue'[n].target = "window"
        PROVE  /\ window' # "none" /\ pending'[queue'[n].slot] /\ ~fence'[queue'[n].slot]
               /\ queue'[n].needs \subseteq retained'[queue'[n].slot]
    <3>1. CASE n \in DOMAIN queue
      <4>1. /\ window # "none" /\ pending[queue[n].slot] /\ ~fence[queue[n].slot]
            /\ queue[n].needs \subseteq retained[queue[n].slot]
        BY <1>1, <2>1, <3>1 DEF BooksInv, WindowWork
      <4>2. pending'[queue[n].slot]
        BY <1>0, <1>2, <1>4, <3>1, <4>1 DEF GpuType
      <4> QED  BY <1>1, <3>1, <4>1, <4>2
    <3>2. CASE n = last
      BY <1>0, <1>1, <1>2, <2>1, <3>2 DEF GpuType
    <3> QED  BY <1>1, <2>1, <3>1, <3>2
  <2> QED  BY <2>1 DEF WindowWork
<1>8. OffscreenWork'
  <2>1. ASSUME NEW n \in DOMAIN queue', queue'[n].target = "offscreen"
        PROVE  /\ off' # "none" /\ ~offFence' /\ queue'[n].needs \subseteq offRetained'
               /\ off' = "ready" => call'.at = "offscreen"
    <3>1. CASE n = last
      BY <1>1, <2>1, <3>1
    <3>2. CASE n \in DOMAIN queue
      <4>1. work.target = "window"
        BY <1>1, <1>2, <2>1, <3>2
      <4>2. /\ off # "none" /\ ~offFence /\ queue[n].needs \subseteq offRetained
            /\ off # "ready"
        BY <1>1, <2>1, <3>2, <4>1 DEF BooksInv, OffscreenWork
      <4> QED  BY <1>1, <3>2, <4>1, <4>2
    <3> QED  BY <1>1, <2>1, <3>1, <3>2
  <2> QED  BY <2>1 DEF OffscreenWork
<1> QED  BY <1>5, <1>6, <1>7, <1>8 DEF QueueBooks

(* Work that ends takes its own slot out of the queue, and no other.       *)
LEMMA CompleteKeeps ==
  ASSUME BooksInv, Complete
  PROVE  QueueBooks' /\ SlotBooks' /\ CallBooks'
<1>0. GpuType /\ queue \in Seq(Work) /\ queue # << >>
  BY DEF BooksInv, GpuType, Complete
<1> DEFINE done == queue[1]
<1>1. /\ queue' = Tail(queue) /\ Head(queue) = done /\ 1 \in DOMAIN queue /\ done \in Work
      /\ \A n \in DOMAIN queue' : /\ n + 1 \in DOMAIN queue /\ n + 1 # 1
                                  /\ queue'[n] = queue[n + 1] /\ n \in Nat
  BY <1>0, TailIs DEF Complete
<1>2. UNCHANGED <<window, call, pending, retained, acquired, frame, off, offRetained>>
  BY DEF Complete
<1>3. done.target \in {"window", "offscreen"} /\ done.slot \in Slot
  BY <1>1 DEF Work
<1>4. done.target = "window" => /\ fence' = [fence EXCEPT ![done.slot] = TRUE]
                                /\ offFence' = offFence
                                /\ pending[done.slot]
  BY <1>1 DEF Complete, BooksInv, WindowWork
<1>5. done.target = "offscreen" => /\ fence' = fence /\ offFence'
                                   /\ off = "ready" => call.at = "offscreen"
  BY <1>1 DEF Complete, BooksInv, OffscreenWork
<1>6. \A n \in DOMAIN queue' : queue'[n] \in Work
  BY <1>1, QueuedIs
<1>7. \A n \in DOMAIN queue' :
        /\ queue'[n].target \in {"window", "offscreen"} /\ queue'[n].slot \in Slot
        /\ queue'[n].target = done.target =>
             done.target = "window" /\ queue'[n].slot # done.slot
  <2>1. ASSUME NEW n \in DOMAIN queue', queue'[n].target = done.target
        PROVE  done.target = "window" /\ queue'[n].slot # done.slot
    BY <1>1, <1>3, <2>1 DEF BooksInv, OneEach
  <2> QED  BY <1>6, <2>1 DEF Work
<1> HIDE DEF done
<1>8. Stands'
  BY <1>1 DEF BooksInv, Stands
<1>9. OneEach'
  <2>1. ASSUME NEW m \in DOMAIN queue', NEW n \in DOMAIN queue',
               queue'[m].target = queue'[n].target,
               queue'[m].target = "window" => queue'[m].slot = queue'[n].slot
        PROVE  m = n
    <3>1. m + 1 = n + 1
      BY <1>1, <2>1 DEF BooksInv, OneEach
    <3> QED  BY <1>1, <3>1
  <2> QED  BY <2>1 DEF OneEach
<1>10. WindowWork'
  <2>1. ASSUME NEW n \in DOMAIN queue', queue'[n].target = "window"
        PROVE  /\ window # "none" /\ pending[queue'[n].slot] /\ ~fence'[queue'[n].slot]
               /\ queue'[n].needs \subseteq retained[queue'[n].slot]
    <3>1. /\ window # "none" /\ pending[queue'[n].slot] /\ ~fence[queue'[n].slot]
          /\ queue'[n].needs \subseteq retained[queue'[n].slot]
      BY <1>1, <2>1 DEF BooksInv, WindowWork
    <3>2. fence'[queue'[n].slot] = fence[queue'[n].slot]
      BY <1>0, <1>3, <1>4, <1>5, <1>7, <2>1 DEF GpuType
    <3> QED  BY <3>1, <3>2
  <2> QED  BY <1>2, <2>1 DEF WindowWork
<1>11. OffscreenWork'
  <2>1. ASSUME NEW n \in DOMAIN queue', queue'[n].target = "offscreen"
        PROVE  /\ off # "none" /\ ~offFence' /\ queue'[n].needs \subseteq offRetained
               /\ off = "ready" => call.at = "offscreen"
    BY <1>1, <1>3, <1>4, <1>7, <2>1 DEF BooksInv, OffscreenWork
  <2> QED  BY <1>2, <2>1 DEF OffscreenWork
<1>12. SlotBooks'
  BY <1>0, <1>2, <1>3, <1>4, <1>5 DEF BooksInv, SlotBooks, GpuType
<1>13. CallBooks'
  <2>1. call.at \in {"acquire", "record"} => ~fence'[frame]
    BY <1>0, <1>3, <1>4, <1>5 DEF BooksInv, CallBooks, GpuType
  <2>2. (off = "ready" /\ call.at # "offscreen") => ~offFence'
    BY <1>3, <1>4, <1>5 DEF BooksInv, CallBooks
  <2> QED  BY <1>2, <2>1, <2>2 DEF BooksInv, CallBooks
<1> QED  BY <1>8, <1>9, <1>10, <1>11, <1>12, <1>13 DEF QueueBooks

(* A step that neither moves work nor touches what it reads.               *)
LEMMA QueueStays ==
  ASSUME BooksInv, queue' = queue,
         UNCHANGED <<window, pending, fence, retained, off, offFence, offRetained>>,
         (off = "ready" /\ call.at = "offscreen") => call'.at = "offscreen"
  PROVE  QueueBooks'
<1>1. WindowWork'
  BY DEF BooksInv, WindowWork
<1>2. OffscreenWork'
  BY DEF BooksInv, OffscreenWork
<1>3. Stands' /\ OneEach'
  BY DEF BooksInv, Stands, OneEach
<1> QED  BY <1>1, <1>2, <1>3 DEF QueueBooks

LEMMA BooksStep ==
  ASSUME Trusted, BooksInv, [Next]_vars
  PROVE  BooksInv'
<1>0. GpuType /\ SlotBooks /\ CallBooks /\ GpuType' /\ 0 \in Slot /\ frame \in Slot
  BY TypeStep, SlotsAssumption DEF BooksInv, Slot, GpuType
<1> SUFFICES QueueBooks' /\ SlotBooks' /\ CallBooks'
  BY <1>0 DEF BooksInv, QueueBooks
<1>1. ASSUME NEW r \in Resource, Release(r) PROVE QueueBooks' /\ SlotBooks' /\ CallBooks'
  BY <1>0, <1>1, QueueStays DEF Release, windowVars, offVars, SlotBooks, CallBooks
<1>2. ASSUME NEW r \in Resource, Create(r) PROVE QueueBooks' /\ SlotBooks' /\ CallBooks'
  BY <1>0, <1>2, QueueStays DEF Create, windowVars, offVars, SlotBooks, CallBooks
<1>3. ASSUME NEW f \in Frames, BeginRender(f) PROVE QueueBooks' /\ SlotBooks' /\ CallBooks'
  <2>1. call.at = "idle" /\ call'.at = "wait" /\ window = "ready"
    BY <1>3 DEF BeginRender, At
  <2>2. /\ UNCHANGED <<queue, window, chain, acquired, pending, fence, retained, frame>>
        /\ UNCHANGED <<off, offRetained, offFence>>
    BY <1>3 DEF BeginRender, windowVars, offVars
  <2>3. QueueBooks'
    BY <2>1, <2>2, QueueStays
  <2> QED  BY <1>0, <2>1, <2>2, <2>3 DEF SlotBooks, CallBooks
<1>4. ASSUME NEW f \in Frames, OffscreenRender(f) PROVE QueueBooks' /\ SlotBooks' /\ CallBooks'
  <2>0. /\ call.at = "idle" /\ off = "ready" /\ offRetained' = Needs(f)
        /\ UNCHANGED <<window, chain, acquired, pending, fence, retained, frame, off, offFence>>
    BY <1>4 DEF OffscreenRender, At, windowVars
  <2>1. \A n \in DOMAIN queue : queue[n].target # "offscreen"
    BY <2>0, QueuedIs
  <2>2. ~offFence
    BY <1>0, <2>0 DEF CallBooks
  <2>3. CASE Enqueue("offscreen", 0, Recording(f)) /\ Done("offscreen")
    <3>1. call'.at = "offscreen"
      BY <2>3 DEF Done
    <3> DEFINE work == [target |-> "offscreen", slot |-> 0, needs |-> Recording(f).needs,
                        chain |-> TRUE, bytes |-> TRUE]
    <3>2. work \in Work /\ queue' = Append(queue, work)
      BY <1>0, <2>3, NeedsIs, EnqueueIs
    <3>3. /\ work.target = "offscreen" /\ work.chain /\ work.bytes
          /\ work.needs \subseteq offRetained'
      BY <2>0, NeedsIs
    <3> HIDE DEF work
    <3>4. QueueBooks'
      BY <2>0, <2>1, <2>2, <3>1, <3>2, <3>3, SubmitKeeps
    <3> QED  BY <1>0, <2>0, <3>1, <3>4 DEF SlotBooks, CallBooks
  <2>4. CASE UNCHANGED <<queue, imageVars, call>>
    <3>1. QueueBooks'
      BY <2>0, <2>1, <2>4 DEF BooksInv, QueueBooks, WindowWork, OffscreenWork, Stands, OneEach
    <3> QED  BY <1>0, <2>0, <2>4, <3>1 DEF SlotBooks, CallBooks
  <2> QED  BY <1>4, <2>3, <2>4 DEF OffscreenRender
<1>5. CASE CreateWindow
  <2>1. /\ call'.at = "idle" /\ window = "none" /\ window' = "ready"
        /\ \A s \in Slot : ~acquired'[s] /\ ~pending'[s] /\ ~fence'[s]
        /\ UNCHANGED <<queue, off, offRetained, offFence>> /\ call' = call
    BY <1>5 DEF CreateWindow, offVars, At
  <2>2. \A n \in DOMAIN queue : queue[n].target # "window"
    BY <2>1 DEF BooksInv, WindowWork
  <2>3. QueueBooks'
    BY <2>1, <2>2 DEF BooksInv, QueueBooks, WindowWork, OffscreenWork, Stands, OneEach
  <2> QED  BY <1>0, <2>1, <2>3 DEF SlotBooks, CallBooks
<1>6. CASE DropWindow
  <2>1. /\ queue = << >> /\ RetireFences /\ call' = call /\ call.at = "idle"
        /\ \A s \in Slot : ~acquired'[s]
        /\ UNCHANGED <<off, offRetained, offFence>> /\ queue' = Unchained
    BY <1>6 DEF DropWindow, DestroyChain, Trusted, TeardownWait, offVars, At
  <2>2. QueueBooks'
    BY <1>0, <2>1, UnchainedIs, EmptyBooks
  <2> QED  BY <1>0, <2>1, <2>2, RetiredIs DEF SlotBooks, CallBooks
<1>7. CASE BeginResize
  <2>1. call.at = "idle" /\ call'.at = "resize"
    BY <1>7 DEF BeginResize, At, Done
  <2>2. /\ UNCHANGED <<queue, window, chain, acquired, pending, fence, retained, frame>>
        /\ UNCHANGED <<off, offRetained, offFence>>
    BY <1>7 DEF BeginResize, windowVars, offVars
  <2>3. QueueBooks'
    BY <2>1, <2>2, QueueStays
  <2> QED  BY <1>0, <2>1, <2>2, <2>3 DEF SlotBooks, CallBooks
<1>8. CASE CreateOffscreen
  <2>1. /\ off = "none" /\ off' = "ready" /\ ~offFence' /\ call' = call /\ call.at = "idle"
        /\ UNCHANGED <<queue, window, chain, acquired, pending, fence, retained, frame>>
    BY <1>8 DEF CreateOffscreen, windowVars, At
  <2>2. \A n \in DOMAIN queue : queue[n].target # "offscreen"
    BY <2>1, QueuedIs
  <2>3. QueueBooks'
    BY <2>1, <2>2 DEF BooksInv, QueueBooks, WindowWork, OffscreenWork, Stands, OneEach
  <2> QED  BY <1>0, <2>1, <2>3 DEF SlotBooks, CallBooks
<1>9. CASE DropOffscreen
  <2>1. /\ queue = << >> /\ queue' = queue /\ call' = call /\ off' = "none"
        /\ UNCHANGED <<window, chain, acquired, pending, fence, retained, frame>>
        /\ call.at = "idle"
    BY <1>9 DEF DropOffscreen, Trusted, TeardownWait, windowVars, At
  <2>2. QueueBooks'
    BY <2>1, EmptyBooks
  <2> QED  BY <1>0, <2>1, <2>2 DEF SlotBooks, CallBooks
<1>10. CASE WaitFails
  <2>1. call.at = "wait" /\ call'.at = "idle"
    BY <1>10 DEF WaitFails, At, Return, Done
  <2>2. /\ UNCHANGED <<queue, window, chain, acquired, pending, fence, retained, frame>>
        /\ UNCHANGED <<off, offRetained, offFence>>
    BY <1>10 DEF WaitFails, windowVars, offVars
  <2>3. QueueBooks'
    BY <2>1, <2>2, QueueStays
  <2> QED  BY <1>0, <2>1, <2>2, <2>3 DEF SlotBooks, CallBooks
<1>11. CASE CopyIn
  <2>0. /\ call.at = "wait" /\ (pending[frame] => fence[frame])
        /\ fence' = [fence EXCEPT ![frame] = @ /\ ~pending[frame]]
        /\ pending' = [pending EXCEPT ![frame] = FALSE]
        /\ UNCHANGED <<window, chain, acquired, frame, off, offRetained, offFence>>
    BY <1>11 DEF CopyIn, At, WorkEnded, offVars
  <2>1. ~Queued("window", frame)
    BY <1>0, <2>0, QueuedIs
  <2>2. /\ queue' = queue
        /\ \/ /\ call'.at = "acquire" /\ call'.frame = call.frame
              /\ retained' = [retained EXCEPT ![frame] = call.frame.needs]
           \/ /\ call'.at = "idle"
              /\ retained' = [retained EXCEPT ![frame] = IF pending[frame] THEN {} ELSE @]
    <3>1. CASE chain
      BY <1>0, <1>11, <2>1, <3>1, RewrittenIs, CallIs DEF CopyIn, Place
    <3>2. CASE ~chain
      BY <1>11, <3>2 DEF CopyIn, Return, Done
    <3> QED  BY <3>1, <3>2
  <2>3. /\ ~pending'[frame] /\ ~fence'[frame]
        /\ \A s \in Slot : s # frame => /\ pending'[s] = pending[s] /\ fence'[s] = fence[s]
                                        /\ retained'[s] = retained[s]
    BY <1>0, <2>0, <2>2 DEF GpuType, SlotBooks
  <2>4. call'.at = "acquire" => retained'[frame] = call'.frame.needs
    BY <1>0, <2>2 DEF GpuType
  <2>5. WindowWork'
    <3>1. ASSUME NEW n \in DOMAIN queue, queue[n].target = "window"
          PROVE  /\ window # "none" /\ pending'[queue[n].slot] /\ ~fence'[queue[n].slot]
                 /\ queue[n].needs \subseteq retained'[queue[n].slot]
      <4>1. queue[n].slot # frame
        BY <2>1, <3>1 DEF Queued
      <4>2. queue[n].slot \in Slot
        BY QueuedIs DEF Work
      <4> QED  BY <2>3, <3>1, <4>1, <4>2 DEF BooksInv, WindowWork
    <3> QED  BY <2>0, <2>2, <3>1 DEF WindowWork
  <2>6. OffscreenWork' /\ Stands' /\ OneEach'
    BY <2>0, <2>2 DEF BooksInv, OffscreenWork, Stands, OneEach
  <2>7. SlotBooks'
    <3>1. \A s \in Slot : fence'[s] => pending'[s]
      BY <1>0, <2>3 DEF SlotBooks
    <3> QED  BY <1>0, <2>0, <3>1 DEF SlotBooks, CallBooks
  <2>8. CallBooks'
    BY <1>0, <2>0, <2>2, <2>3, <2>4 DEF CallBooks
  <2> QED  BY <2>5, <2>6, <2>7, <2>8 DEF QueueBooks
<1>12. CASE Acquire
  <2>1. /\ call.at = "acquire"
        /\ \/ /\ call'.at = "record" /\ call'.frame = call.frame
              /\ acquired' = [acquired EXCEPT ![frame] = TRUE]
           \/ call'.at = "idle" /\ acquired' = acquired
    BY <1>0, <1>12, CallIs DEF Acquire, At, Return, Done, Place
  <2>2. UNCHANGED <<queue, window, chain, pending, fence, retained, frame, off, offRetained, offFence>>
    BY <1>12 DEF Acquire, offVars
  <2>3. QueueBooks'
    BY <2>1, <2>2, QueueStays
  <2> QED  BY <1>0, <2>1, <2>2, <2>3 DEF SlotBooks, CallBooks, GpuType
<1>13. CASE RecordFails
  <2>1. call.at = "record" /\ call'.at = "abort"
    BY <1>13 DEF RecordFails, At, Done
  <2>2. /\ UNCHANGED <<queue, window, chain, acquired, pending, fence, retained, frame>>
        /\ UNCHANGED <<off, offRetained, offFence>>
    BY <1>13 DEF RecordFails, windowVars, offVars
  <2>3. QueueBooks'
    BY <2>1, <2>2, QueueStays
  <2> QED  BY <1>0, <2>1, <2>2, <2>3 DEF SlotBooks, CallBooks
<1>14. CASE Submit
  <2>1. /\ call.at = "record" /\ call'.at = "present" /\ Enqueue("window", frame, call.frame)
        /\ acquired' = [acquired EXCEPT ![frame] = FALSE]
        /\ pending' = [pending EXCEPT ![frame] = TRUE]
        /\ UNCHANGED <<window, chain, fence, retained, off, offRetained, offFence>>
    BY <1>14 DEF Submit, At, Done, offVars
  <2>2. /\ ~pending[frame] /\ ~fence[frame] /\ retained[frame] = call.frame.needs
        /\ window = "ready"
    BY <1>0, <2>1 DEF CallBooks
  <2> DEFINE work == [target |-> "window", slot |-> frame, needs |-> call.frame.needs,
                      chain |-> TRUE, bytes |-> TRUE]
  <2>3. work \in Work /\ queue' = Append(queue, work)
    <3>1. call.frame.needs \subseteq Resource
      BY <1>0 DEF GpuType
    <3> QED  BY <1>0, <2>1, <3>1, EnqueueIs
  <2>4. /\ work.target = "window" /\ work.chain /\ work.bytes /\ work.slot = frame
        /\ work.needs \subseteq retained[frame]
    BY <2>2
  <2>5. \A n \in DOMAIN queue : queue[n].target = "window" => queue[n].slot # frame
    BY <2>2 DEF BooksInv, WindowWork
  <2> HIDE DEF work
  <2>6. QueueBooks'
    BY <2>1, <2>2, <2>3, <2>4, <2>5, SubmitKeeps
  <2>7. SlotBooks'
    BY <1>0, <2>1 DEF SlotBooks, CallBooks, GpuType
  <2> QED  BY <1>0, <2>1, <2>6, <2>7 DEF CallBooks
<1>15. CASE Present
  <2>1. call.at = "present" /\ call'.at \in {"idle", "abort"}
    BY <1>15 DEF Present, At, Done, Return
  <2>2. /\ UNCHANGED <<queue, window, chain, acquired, pending, fence, retained, frame>>
        /\ UNCHANGED <<off, offRetained, offFence>>
    BY <1>15 DEF Present, windowVars, offVars
  <2>3. QueueBooks'
    BY <2>1, <2>2, QueueStays
  <2> QED  BY <1>0, <2>1, <2>2, <2>3 DEF SlotBooks, CallBooks
<1>16. CASE Abort
  <2>0. call.at = "abort" /\ call'.at = "idle" /\ UNCHANGED <<frame, off, offRetained, offFence>>
    BY <1>16 DEF Abort, At, Return, Done, offVars
  <2>1. CASE Idle /\ RetireFences /\ DestroyChain /\ UNCHANGED window
    <3>1. queue = << >> /\ queue' = Unchained /\ \A s \in Slot : ~acquired'[s]
      BY <2>1 DEF Idle, DestroyChain
    <3>2. QueueBooks'
      BY <1>0, <3>1, UnchainedIs, EmptyBooks
    <3> QED  BY <1>0, <2>0, <2>1, <3>1, <3>2, RetiredIs DEF SlotBooks, CallBooks
  <2>2. CASE /\ window' = "dormant"
             /\ UNCHANGED <<queue, chain, acquired, pending, fence, retained>>
    <3>1. QueueBooks'
      BY <2>0, <2>2 DEF BooksInv, QueueBooks, WindowWork, OffscreenWork, Stands, OneEach
    <3> QED  BY <1>0, <2>0, <2>2, <3>1 DEF SlotBooks, CallBooks
  <2> QED  BY <1>16, <2>1, <2>2 DEF Abort
<1>17. CASE Resize
  <2>0. call.at = "resize" /\ call'.at = "idle" /\ UNCHANGED <<frame, off, offRetained, offFence>>
    BY <1>17 DEF Resize, At, Return, Done, offVars
  <2>1. CASE /\ Idle /\ RetireFences /\ queue' = Unchained
             /\ acquired' = [s \in Slot |-> FALSE]
    <3>1. queue = << >> /\ queue' = Unchained /\ \A s \in Slot : ~acquired'[s]
      BY <2>1 DEF Idle
    <3>2. QueueBooks'
      BY <1>0, <3>1, UnchainedIs, EmptyBooks
    <3> QED  BY <1>0, <2>0, <2>1, <3>1, <3>2, RetiredIs DEF SlotBooks, CallBooks
  <2>2. CASE UNCHANGED <<queue, window, chain, acquired, pending, fence, retained>>
    <3>1. QueueBooks'
      BY <2>0, <2>2, QueueStays
    <3> QED  BY <1>0, <2>0, <2>2, <3>1 DEF SlotBooks, CallBooks
  <2> QED  BY <1>17, <2>1, <2>2 DEF Resize
<1>18. CASE OffscreenWait
  <2>0. /\ call.at = "offscreen" /\ call'.at = "idle" /\ queue' = queue
        /\ UNCHANGED <<window, chain, acquired, pending, fence, retained, frame, offRetained>>
    BY <1>18 DEF OffscreenWait, At, Return, Done, windowVars
  <2>1. WindowWork' /\ Stands' /\ OneEach' /\ SlotBooks'
    BY <1>0, <2>0 DEF BooksInv, WindowWork, Stands, OneEach, SlotBooks
  <2>2. CASE offFence /\ offFence' = FALSE /\ UNCHANGED off
    <3>1. OffscreenWork'
      BY <2>0, <2>2 DEF BooksInv, OffscreenWork
    <3> QED  BY <1>0, <2>0, <2>1, <2>2, <3>1 DEF QueueBooks, CallBooks
  <2>3. CASE off' = "wedged" /\ UNCHANGED offFence
    <3>1. OffscreenWork'
      BY <2>0, <2>3 DEF BooksInv, OffscreenWork
    <3> QED  BY <1>0, <2>0, <2>1, <2>3, <3>1 DEF QueueBooks, CallBooks
  <2> QED  BY <1>18, <2>2, <2>3 DEF OffscreenWait
<1>19. CASE Complete
  BY <1>19, CompleteKeeps
<1>20. CASE Lose
  <2>1. QueueBooks'
    BY <1>20, EmptyBooks DEF Lose
  <2> QED  BY <1>0, <1>20, <2>1 DEF Lose, windowVars, offVars, SlotBooks, CallBooks
<1>21. CASE UNCHANGED vars
  BY <1>0, <1>21, QueueStays DEF vars, windowVars, offVars, SlotBooks, CallBooks
<1> QED
  BY <1>1, <1>2, <1>3, <1>4, <1>5, <1>6, <1>7, <1>8, <1>9, <1>10, <1>11, <1>12, <1>13, <1>14,
     <1>15, <1>16, <1>17, <1>18, <1>19, <1>20, <1>21, Actions

-----------------------------------------------------------------------------
(* The theorems *)

LEMMA GpuInit ==
  ASSUME Init
  PROVE  BooksInv /\ ImagesFollow /\ FrameFollows
<1>1. GpuType
  <2>1. 0 \in Slot /\ "idle" \in Place
    BY SlotsAssumption DEF Slot, Place
  <2> QED  BY <2>1 DEF Init, GpuType, NoFrame
<1>2. \A n \in DOMAIN queue : FALSE
  BY DEF Init
<1>3. WindowWork /\ OffscreenWork /\ Stands /\ OneEach
  BY <1>2 DEF WindowWork, OffscreenWork, Stands, OneEach
<1>4. SlotBooks /\ CallBooks
  BY DEF Init, SlotBooks, CallBooks
<1>5. ImagesFollow
  <2>1. ASSUME NEW i \in Image
        PROVE  DeviceOK(device[i]) /\ Truly(i \in Kept, contents[i], device[i])
    <3>1. device[i] = NewImage /\ contents[i] = "Undefined"
      BY DEF Init
    <3>2. (i \in Kept) \in BOOLEAN
      OBVIOUS
    <3>3. Truly(i \in Kept, "Undefined", NewImage)
      BY <3>2, NewImageIs, Zenon
    <3> QED  BY <3>1, <3>3, NewImageIs
  <2> QED  BY <2>1 DEF ImagesFollow, Init, KeptContents
<1>6. FrameFollows
  BY DEF Init, FrameFollows
<1> QED  BY <1>1, <1>3, <1>4, <1>5, <1>6 DEF BooksInv

ImageInv == GpuType /\ ImagesFollow /\ FrameFollows

(* The inductive invariant of the images: each is where its memory and the *)
(* frame under way say.                                                    *)
THEOREM ImageInvariant == Spec => []ImageInv
<1>1. Init => ImageInv
  BY GpuInit DEF BooksInv, ImageInv
<1>2. ImageInv /\ [Next]_vars => ImageInv'
  BY TypeStep, ImagesStep, FrameStep DEF ImageInv
<1> QED  BY <1>1, <1>2, PTL DEF Spec

(* For any images, any frames of any number of passes and any failures,    *)
(* frames of two targets that never wait for each other do not race.       *)
THEOREM BarriersSuffice == Spec => []NoImageHazard
<1>1. ImageInv => NoImageHazard
  BY DEF ImageInv, ImagesFollow, DeviceOK, NoImageHazard
<1> QED  BY <1>1, ImageInvariant, PTL

(* What a kept image remembers is true, whichever call fails between a     *)
(* frame's recording and its submit.                                       *)
THEOREM MemoryIsTrue == Spec => []KeptIsTrue
<1>1. ASSUME ImageInv, NEW i \in Kept
      PROVE  CASE contents[i] = "Undefined" -> ~device[i].live
               [] contents[i] = "Stored" -> device[i].layout = "attachment" /\ device[i].live
               [] contents[i] = "Discarded" -> device[i].layout = "attachment"
               [] contents[i] = "Sampled" -> device[i].layout = "sampled" /\ device[i].live
  <2>1. i \in Image
    BY KeptAssumption
  <2>2. Truly(TRUE, contents[i], device[i])
    BY <1>1, <2>1 DEF ImageInv, ImagesFollow, Truly
  <2> QED  BY <2>2 DEF Truly, KeptContents
<1>2. ImageInv => KeptIsTrue
  BY <1>1 DEF KeptIsTrue
<1> QED  BY <1>2, ImageInvariant, PTL

(* The inductive invariant of the books: what is queued is on a slot that  *)
(* says so, and nothing else is.                                           *)
THEOREM BooksInvariant == ASSUME Trusted PROVE Spec => []BooksInv
<1>1. Init => BooksInv
  BY GpuInit
<1>2. BooksInv /\ [Next]_vars => BooksInv'
  BY BooksStep
<1> QED  BY <1>1, <1>2, PTL DEF Spec

(* With any number of frame slots, what queued work reads is alive and     *)
(* unchanged until the work has ended, whatever fails, is resized, dropped *)
(* or lost in between.                                                     *)
THEOREM QueuedWorkIsIntact == ASSUME Trusted PROVE Spec => []WorkIsIntact
<1>1. ASSUME BooksInv, NEW n \in DOMAIN queue
      PROVE  queue[n].needs \subseteq Alive /\ queue[n].chain /\ queue[n].bytes
  <2>1. queue[n] \in Work
    BY <1>1, QueuedIs
  <2>2. queue[n].target \in {"window", "offscreen"} /\ queue[n].slot \in Slot
    BY <2>1 DEF Work
  <2>3. queue[n].chain /\ queue[n].bytes
    BY <1>1 DEF BooksInv, Stands
  <2>4. CASE queue[n].target = "window"
    <3>1. queue[n].needs \subseteq retained[queue[n].slot]
      BY <1>1, <2>4 DEF BooksInv, WindowWork
    <3>2. retained[queue[n].slot] \subseteq UNION {retained[s] : s \in Slot}
      BY <2>2
    <3> QED  BY <2>3, <3>1, <3>2 DEF Alive
  <2>5. CASE queue[n].target = "offscreen"
    <3>1. queue[n].needs \subseteq offRetained
      BY <1>1, <2>5 DEF BooksInv, OffscreenWork
    <3> QED  BY <2>3, <3>1 DEF Alive
  <2> QED  BY <2>2, <2>4, <2>5
<1>2. BooksInv => WorkIsIntact
  BY <1>1 DEF WorkIsIntact
<1> QED  BY <1>2, BooksInvariant, PTL

(* A slot that is recorded to, and a target that may be rendered to or     *)
(* read back, is one the device does not use.                              *)
THEOREM QuietSlots == ASSUME Trusted PROVE Spec => []SlotIsQuiet
<1>1. ASSUME BooksInv, ImageInv PROVE SlotIsQuiet
  <2>1. TypeOK
    BY <1>1 DEF BooksInv, ImageInv, GpuType, ImagesFollow, TypeOK
  <2>2. At("acquire") => ~acquired[frame]
    BY <1>1 DEF BooksInv, GpuType, SlotBooks, CallBooks, At
  <2>3. (At("acquire") \/ At("record")) =>
          ~Queued("window", frame) /\ ~pending[frame] /\ ~fence[frame]
    BY <1>1 DEF BooksInv, CallBooks, WindowWork, Queued, At
  <2>4. (off = "ready" /\ At("idle")) => ~Queued("offscreen", 0) /\ ~offFence
    BY <1>1 DEF BooksInv, CallBooks, OffscreenWork, Queued, At
  <2> QED  BY <2>1, <2>2, <2>3, <2>4 DEF SlotIsQuiet
<1>2. BooksInv /\ ImageInv => SlotIsQuiet
  BY <1>1
<1> QED  BY <1>2, BooksInvariant, ImageInvariant, PTL

=============================================================================
