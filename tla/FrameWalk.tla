----------------------------- MODULE FrameWalk -----------------------------
(***************************************************************************)
(* How one frame uses one render image, and the barriers it is given.      *)
(*                                                                         *)
(* `rhi` keeps a state machine per frame (`FrameWalk` in vk/pass.rs): for  *)
(* each image the passes have touched, whether it was targeted, sampled or *)
(* discarded, and what an earlier frame left in it.  The walk refuses a    *)
(* frame that reads undefined pixels and picks the barriers              *)
(* (vk/transition.rs) put before each pass.  Images are walked             *)
(* independently, so a frame is, for one image, the sequence of its uses.  *)
(*                                                                         *)
(* The second half is what those barriers are for: the order the device    *)
(* must keep between accesses to the one physical image, which frames of   *)
(* two targets share without waiting for each other.                       *)
(***************************************************************************)
EXTENDS Naturals, FiniteSets, Sequences

(***************************************************************************)
(* The code's state.                                                       *)
(***************************************************************************)
KeptContents == {"Undefined", "Stored", "Discarded", "Sampled"}

\* A use is a pass that renders into the image or a pass that samples it.
Target(load, store) == [as |-> "target", load |-> load, store |-> store]
Sample == [as |-> "sample"]
Use == {Target(load, store) : load \in {"Clear", "Load"}, store \in {"Store", "Discard"}}
         \cup {Sample}

\* ImageEntry, minted with a snapshot of what the image arrived with.
NewEntry(kept, contents) ==
  [targeted |-> FALSE, sampled |-> FALSE, discarded |-> FALSE,
   arrived |-> contents, kept |-> kept]

\* load_refusal and sample_refusal give one answer: live kept contents.
KeptLive(e) == e.kept /\ e.arrived \in {"Stored", "Sampled"}
Readable(e) == IF e.targeted THEN ~e.discarded ELSE KeptLive(e)

Refused(e, u) ==
  IF u.as = "target" THEN e.sampled \/ (u.load = "Load" /\ ~Readable(e))
                     ELSE ~Readable(e)

\* The ImageUse a target comes from: an attachment, a sampled kept image to
\* be loaded, or a first use whose old contents are thrown away.
TargetFrom(e, u) ==
  LET keptAlive == u.load = "Load" /\ e.kept /\ e.arrived # "Undefined"
  IN IF e.targeted \/ (keptAlive /\ e.arrived # "Sampled") THEN "Attachment"
     ELSE IF keptAlive THEN "KeptFromSampled"
     ELSE "FirstUse"

\* The first sampling crosses a barrier, unless the image arrived sampled and
\* no pass of this frame wrote it.
Crosses(e) == ~e.sampled /\ (e.targeted \/ e.arrived # "Sampled")

Advance(e, u) ==
  IF u.as = "target" THEN [e EXCEPT !.targeted = TRUE, !.discarded = u.store = "Discard"]
                     ELSE [e EXCEPT !.sampled = TRUE]

\* What a submitted frame writes back into the image.
Settle(e) ==
  IF ~e.kept THEN e.arrived
  ELSE IF e.sampled THEN "Sampled"
  ELSE IF e.targeted THEN IF e.discarded THEN "Discarded" ELSE "Stored"
  ELSE e.arrived

(***************************************************************************)
(* pass_boundary: the masks of each use pair.  "attachment" stands for the *)
(* colour-output or the depth stages, by the image's kind.                 *)
(***************************************************************************)
Stage == {"attachment", "fragment"}

Masks(src, dst, old, new) == [src |-> src, dst |-> dst, old |-> old, new |-> new]
\* Mutant: a first use waits for the attachment writes only.
FirstUseBeforeReads(from) ==
  CASE from \in {"Attachment", "FirstUse"} ->
         Masks({"attachment"}, {"attachment"},
               IF from = "FirstUse" THEN "undefined" ELSE "attachment", "attachment")
    [] from = "KeptFromSampled" ->
         Masks({"attachment", "fragment"}, {"attachment"}, "sampled", "attachment")
    [] from = "ToSampled" ->
         Masks({"attachment"}, {"fragment"}, "attachment", "sampled")
PassBoundary(from) ==
  CASE from = "Attachment" ->
         Masks({"attachment"}, {"attachment"}, "attachment", "attachment")
    [] from = "FirstUse" ->
         Masks({"attachment", "fragment"}, {"attachment"}, "undefined", "attachment")
    [] from = "KeptFromSampled" ->
         Masks({"attachment", "fragment"}, {"attachment"}, "sampled", "attachment")
    [] from = "ToSampled" ->
         Masks({"attachment"}, {"fragment"}, "attachment", "sampled")

(***************************************************************************)
(* The device.  `open[t]` holds the past accesses that nothing has ordered *)
(* before stage t; a barrier closes, for its destination stages, those at  *)
(* a source stage and those already ordered before one.  Every source mask *)
(* of the code flushes the writes of its attachment stage, so an access    *)
(* that is ordered is also available.  A change of layout is itself a      *)
(* write, ordered only before the destination stages.                      *)
(***************************************************************************)
Layout == {"undefined", "attachment", "sampled"}
Access == {"write", "read", "relayout"}
StageOf(x) == CASE x = "write" -> {"attachment"} [] x = "read" -> {"fragment"}
                [] x = "relayout" -> {}

Device == [layout : Layout, live : BOOLEAN, open : [Stage -> SUBSET Access], safe : BOOLEAN]
NewImage == [layout |-> "undefined", live |-> FALSE,
             open |-> [t \in Stage |-> {}], safe |-> TRUE]

Ordered(d, m, x) == StageOf(x) \cap m.src # {} \/ \E t \in m.src : x \notin d.open[t]

Barrier(d, m) ==
  LET late == {x \in UNION {d.open[t] : t \in Stage} : ~Ordered(d, m, x)}
      moves == m.old # m.new
      left(t) == IF t \in m.dst THEN d.open[t] \cap late
                 ELSE d.open[t] \cup (IF moves THEN {"relayout"} ELSE {})
  IN [layout |-> m.new,
      live |-> d.live /\ m.old # "undefined",
      open |-> [t \in Stage |-> left(t)],
      safe |-> d.safe /\ m.old \in {"undefined", d.layout} /\ (moves => late = {})]

\* A pass writes its target, reading it first when it loads; or samples it.
Render(d, u) ==
  [layout |-> d.layout,
   live |-> u.store = "Store",
   open |-> [t \in Stage |-> d.open[t] \cup {"write"}],
   safe |-> /\ d.safe /\ d.layout = "attachment" /\ d.open["attachment"] = {}
            /\ u.load = "Load" => d.live]

Fetch(d) ==
  [d EXCEPT !.open = [t \in Stage |-> d.open[t] \cup {"read"}],
            !.safe = /\ d.safe /\ d.live /\ d.layout = "sampled"
                     /\ d.open["fragment"] \subseteq {"read"}]

(***************************************************************************)
(* One pass, and the walk of a whole frame over one image.                 *)
(***************************************************************************)
Pass(e, d, u) ==
  IF u.as = "target" THEN Render(Barrier(d, PassBoundary(TargetFrom(e, u))), u)
  ELSE IF Crosses(e) THEN Fetch(Barrier(d, PassBoundary("ToSampled")))
  ELSE Fetch(d)

Step(w, u) == [entry |-> Advance(w.entry, u), device |-> Pass(w.entry, w.device, u),
               refused |-> w.refused \/ Refused(w.entry, u)]

Walk(kept, contents, device, uses) ==
  LET walk[n \in 0..Len(uses)] ==
        IF n = 0
        THEN [entry |-> NewEntry(kept, contents), device |-> device, refused |-> FALSE]
        ELSE Step(walk[n - 1], uses[n])
  IN walk[Len(uses)]
=============================================================================
