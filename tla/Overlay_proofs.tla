---------------------------- MODULE Overlay_proofs ----------------------------
(* Theorems about what the overlays do in the game's process: about        *)
(* Compositor and GlHook, and about the two together with VoiceShm.          *)
EXTENDS MCOverlay, VoiceShm_proofs, TLAPS

-----------------------------------------------------------------------------
(* The compositor: the invariant.  Its parts are about the objects r, the   *)
(* submission w being executed and up, uploaded_sequence being current: the *)
(* ensure_ functions change these three, each keeping every part.           *)

CmpShows == CmpPanels \cup {CmpNothing}
CmpParts == {"staging", "texture", "desc", "pipe", "view"}
CmpDraws == {"texture", "desc", "pipe", "view"}

CmpStagings == [buf : BOOLEAN, mapped : BOOLEAN, size : Nat, base : {0, 1}, panel : CmpShows]

CmpObjects ==
    [staging : CmpStagings, texture : [size : Nat, panel : CmpShows], desc : BOOLEAN,
     pipe : CmpFormats \cup {0}, fmt : CmpFormats, view : {"none", "live", "stale"}]

CmpWorks ==
    [kind : {"none", "read", "write", "draw", "upload"}, uses : SUBSET CmpParts,
     lost : BOOLEAN, bound : BOOLEAN, base : {0, 1}, panel : CmpShows]

CmpMany == [res : CmpObjects, work : CmpWorks, up : BOOLEAN, ok : BOOLEAN]

(* A buffer is as large as any panel of the usual size, and has its memory *)
(* unless an allocation failed half way.  While the copy path has work for *)
(* the device, the staging memory is there.                                *)
CmpStaged(r, w) ==
    /\ r.staging.buf => r.staging.size >= CmpSmall
    /\ r.staging.buf /\ "memory" \notin world => r.staging.mapped
    /\ w.kind # "none" /\ route = "copy" /\ "grows" \notin world => r.staging.buf

(* Each submission says what it uses.                                      *)
CmpUses(w) ==
    /\ w.kind = "none" => w = NoWork
    /\ w.kind \in {"read", "write"} => route = "copy" /\ w.uses = {"staging"}
    /\ w.kind \in {"draw", "upload"} => route = "gpu" /\ CmpDraws \subseteq w.uses
    /\ w.kind = "upload" => "staging" \in w.uses

(* What is not lost is still what was submitted.                           *)
CmpCarries(r, w) ==
    ~w.lost =>
        /\ w.kind = "write" => r.staging.base = w.base /\ r.staging.panel = w.panel
        /\ w.kind = "upload" => r.staging.panel = w.panel
        /\ w.kind = "draw" => r.texture.panel = w.panel

(* uploaded_sequence is only noted for a texture that has the panel, or     *)
(* will have it when the upload being executed is done.                    *)
CmpUploaded(r, w, up) ==
    up => /\ route = "gpu" /\ r.desc /\ r.texture.size = frame.panel.size
          /\ IF w.kind = "upload" THEN r.staging.panel = frame.panel
             ELSE r.texture.panel = frame.panel

(* As long as format and handles stay, pipeline and view fit the target.   *)
CmpSteady == world \cap {"reformats", "reuses"} = {}
CmpFits(r, w) ==
    CmpSteady => /\ r.fmt = target /\ r.pipe \in {0, target} /\ r.view # "stale"
                 /\ w.kind \in {"draw", "upload"} => w.bound

CmpSpared(w) == w.lost => behind /\ (route = "gpu" \/ "grows" \in world)

CmpKeeps(r, w, up) ==
    /\ CmpStaged(r, w) /\ CmpUses(w) /\ CmpCarries(r, w) /\ CmpUploaded(r, w, up)
    /\ CmpFits(r, w) /\ CmpSpared(w)

CmpKinds ==
    /\ route \in {"copy", "gpu"} /\ behind \in BOOLEAN /\ world \in CmpWorlds
    /\ frame \in [panel : CmpShows, changed : BOOLEAN, upload : BOOLEAN, base : {0, 1}]
    /\ uploaded \in BOOLEAN /\ res \in CmpObjects /\ pending \in CmpWorks
    /\ target \in CmpFormats /\ cmpFence \in BOOLEAN
    /\ cpc \in {"idle", "ensure", "read", "blend", "draw", "finish", "crashed"}

(* Where render() is.  When it waits for its submission, none is left for   *)
(* the next frame.                                                         *)
CmpWhere ==
    /\ cmpFence => pending = NoWork
    /\ cpc \in {"idle", "ensure"} => behind \/ pending = NoWork
    /\ cpc \in {"ensure", "read", "blend", "draw"} => frame.panel \in CmpPanels
    /\ "grows" \notin world => frame.panel.size <= CmpSmall
    /\ cpc = "ensure" /\ frame.changed => ~uploaded
    /\ cpc \in {"read", "blend"} =>
         /\ route = "copy" /\ res.staging.buf
    /\ cpc = "blend" => IF pending.kind = "none" THEN res.staging.base = frame.base
                        ELSE pending.kind = "read" /\ pending.base = frame.base
    /\ cpc = "draw" =>
         /\ route = "gpu"
         /\ CmpSteady => Bound
         /\ res.texture.size = frame.panel.size /\ res.desc
         /\ IF frame.upload THEN ~uploaded /\ res.staging.panel = frame.panel ELSE uploaded
    /\ cpc = "crashed" => "memory" \in world

CmpInv ==
    /\ CmpKinds /\ CmpWhere /\ CmpKeeps(res, pending, uploaded) /\ FrameComposited
-----------------------------------------------------------------------------
(* What damages a submission.                                               *)

CmpHarm(w, v, used) ==
    /\ v \in CmpWorks
    /\ v.kind = w.kind /\ v.uses = w.uses /\ v.bound = w.bound
    /\ v.base = w.base /\ v.panel = w.panel
    /\ v.lost <=> w.lost \/ w.uses \cap used # {}
    /\ w.kind = "none" => v = w

LEMMA CmpPanelIs ==
    /\ CmpNothing \in CmpShows /\ CmpNothing.size = 0 /\ CmpNothing \notin CmpPanels
    /\ \A p \in CmpPanels : p \in CmpShows /\ p.size \in Nat \ {0}
    /\ \A p \in CmpShows : p.size \in Nat
    /\ CmpSmall \in Nat \ {0}
BY CmpAssumption DEF CmpNothing, CmpShows

LEMMA CmpNoWorkIs ==
    /\ NoWork \in CmpWorks /\ NoWork.kind = "none" /\ NoWork.uses = {} /\ ~NoWork.lost
BY CmpPanelIs DEF NoWork, CmpWorks

LEMMA CmpLoses ==
    ASSUME NEW g \in CmpMany, CmpUses(g.work), NEW used
    PROVE  /\ Lose(g, used) \in CmpMany /\ Lose(g, used).res = g.res
           /\ Lose(g, used).up = g.up /\ Lose(g, used).ok = g.ok
           /\ CmpHarm(g.work, Lose(g, used).work, used)
<1>1. g.work \in CmpWorks /\ [g.work EXCEPT !.lost = TRUE] \in CmpWorks
  BY DEF CmpMany, CmpWorks
<1>2. CASE g.work.uses \cap used = {}
  <2>1. Lose(g, used) = g
    BY <1>2 DEF Lose
  <2>2. CmpHarm(g.work, g.work, used)
    BY <1>1, <1>2 DEF CmpHarm, CmpWorks
  <2> QED BY <2>1, <2>2
<1>3. CASE g.work.uses \cap used # {}
  <2>1. g.work.kind # "none"
    BY <1>3, CmpNoWorkIs DEF CmpUses
  <2>2. /\ Lose(g, used) \in CmpMany /\ Lose(g, used).work = [g.work EXCEPT !.lost = TRUE]
        /\ Lose(g, used).res = g.res /\ Lose(g, used).up = g.up /\ Lose(g, used).ok = g.ok
    BY <1>1, <1>3 DEF Lose, CmpMany
  <2>3. CmpHarm(g.work, [g.work EXCEPT !.lost = TRUE], used)
    BY <1>1, <1>3, <2>1 DEF CmpHarm, CmpWorks
  <2> QED BY <2>2, <2>3
<1> QED BY <1>2, <1>3

-----------------------------------------------------------------------------
(* The ensure_ functions: what they are given, they keep.                   *)

(* They neither start a submission nor end one.                            *)
CmpWorking(g) == g.work.kind = pending.kind /\ (behind \/ pending.kind = "none")

CmpGood(g) ==
    /\ g \in CmpMany /\ CmpKeeps(g.res, g.work, g.up)
    /\ CmpWorking(g)

(* Where they are called.                                                   *)
CmpReady ==
    /\ CmpKinds /\ frame.panel \in CmpPanels
    /\ "grows" \notin world => frame.panel.size <= CmpSmall

LEMMA CmpFails ==
    ASSUME NEW g, CmpGood(g)
    PROVE  CmpGood(CmpFail(g)) /\ ~CmpFail(g).ok /\ CmpFail(g).up = g.up /\ CmpFail(g).res = g.res
<1>1. g \in CmpMany
  BY DEF CmpGood
<1>2. /\ CmpFail(g) \in CmpMany /\ CmpFail(g).res = g.res /\ CmpFail(g).work = g.work
      /\ CmpFail(g).up = g.up /\ CmpFail(g).ok = FALSE
  BY <1>1 DEF CmpFail, CmpMany
<1> QED BY <1>2 DEF CmpGood, CmpWorking

LEMMA CmpStagingMade ==
    ASSUME CmpReady, NEW g, CmpGood(g), ~g.up, ~StagingFits(g, frame.panel.size),
           NEW buf \in BOOLEAN, NEW mapped \in BOOLEAN,
           mapped => buf, buf => mapped \/ "memory" \in world
    PROVE  LET h == StagingMade(g, frame.panel.size, buf, mapped)
           IN  /\ CmpGood(h) /\ ~h.up /\ h.ok = mapped
               /\ h.ok => /\ h.res.staging.buf
                          /\ h.res.staging.mapped
<1> DEFINE l == Lose(g, {"staging"})
           size == IF frame.panel.size > CmpSmall THEN frame.panel.size ELSE CmpSmall
           new == [buf |-> buf, mapped |-> mapped, base |-> 0, panel |-> CmpNothing, size |-> size]
           h == StagingMade(g, frame.panel.size, buf, mapped)
<1>1. /\ g \in CmpMany /\ g.res \in CmpObjects /\ g.work \in CmpWorks
      /\ CmpKeeps(g.res, g.work, g.up) /\ CmpWorking(g)
  BY DEF CmpGood, CmpMany
<1>2. /\ l \in CmpMany /\ l.res = g.res /\ l.up = g.up /\ CmpHarm(g.work, l.work, {"staging"})
  BY <1>1, CmpLoses DEF CmpKeeps
<1>3. frame.panel.size \in Nat /\ size \in Nat /\ size >= CmpSmall
  BY CmpPanelIs DEF CmpReady
<1>4. new \in CmpStagings
  BY <1>3, CmpPanelIs DEF CmpStagings
<1>5. [g.res EXCEPT !.staging = new] \in CmpObjects
  BY <1>1, <1>4 DEF CmpObjects
<1>6. /\ h = [l EXCEPT !.res.staging = new, !.ok = mapped]
  BY DEF StagingMade
<1> HIDE DEF l
<1>7. /\ h \in CmpMany /\ h.res = [g.res EXCEPT !.staging = new] /\ h.up = g.up /\ h.work = l.work
      /\ h.ok = mapped
  <2>1. l.res \in CmpObjects
    BY <1>2 DEF CmpMany
  <2> HIDE DEF h, new
  <2> QED BY <1>2, <1>5, <1>6, <2>1 DEF CmpMany
<1>8. /\ h.res.staging = new /\ h.res.texture = g.res.texture /\ h.res.desc = g.res.desc
      /\ h.res.pipe = g.res.pipe /\ h.res.fmt = g.res.fmt /\ h.res.view = g.res.view
  <2> HIDE DEF h, new
  <2> QED BY <1>1, <1>7 DEF CmpObjects
<1>9. new.buf = buf /\ new.mapped = mapped /\ new.size = size
  OBVIOUS
<1> HIDE DEF h, new, size
<1>10. g.work.kind # "none" /\ route = "copy" => "grows" \in world
  <2> SUFFICES ASSUME g.work.kind # "none", route = "copy", "grows" \notin world PROVE FALSE
    OBVIOUS
  <2>1. g.res.staging.buf /\ g.res.staging.size >= CmpSmall /\ frame.panel.size <= CmpSmall
    BY <1>1 DEF CmpKeeps, CmpStaged, CmpReady
  <2>2. g.res.staging.size \in Nat
    BY <1>1 DEF CmpObjects, CmpStagings
  <2> QED BY <1>3, <2>1, <2>2, CmpPanelIs DEF StagingFits
<1>11. route \in {"copy", "gpu"}
  BY DEF CmpReady, CmpKinds
<1>12. CmpStaged(h.res, h.work) /\ CmpUses(h.work) /\ CmpUploaded(h.res, h.work, h.up)
  BY <1>1, <1>2, <1>3, <1>7, <1>8, <1>9, <1>10 DEF CmpStaged, CmpUses, CmpUploaded, CmpHarm, CmpKeeps
<1>13. CmpCarries(h.res, h.work) /\ CmpFits(h.res, h.work)
  BY <1>1, <1>2, <1>7, <1>8 DEF CmpCarries, CmpFits, CmpUses, CmpHarm, CmpKeeps
<1>14. CmpSpared(h.work) /\ CmpWorking(h)
  <2>1. g.work.kind = "none" => g.work.uses \cap {"staging"} = {}
    BY <1>1, CmpNoWorkIs DEF CmpKeeps, CmpUses
  <2> QED BY <1>1, <1>2, <1>7, <1>10, <1>11, <2>1 DEF CmpSpared, CmpHarm, CmpKeeps, CmpWorking
<1> QED BY <1>7, <1>8, <1>9, <1>12, <1>13, <1>14 DEF CmpGood, CmpKeeps, h

(* ensure_staging_capacity.                                                *)
LEMMA CmpStaging ==
    ASSUME CmpReady, NEW g, CmpGood(g), ~g.up, NEW h \in EnsureStaging(g, frame.panel.size)
    PROVE  /\ CmpGood(h) /\ ~h.up
           /\ h.ok => h.res.staging.buf
           /\ h.ok /\ "memory" \notin world => h.res.staging.mapped
<1>1. CASE StagingFits(g, frame.panel.size)
  <2>1. h = g
    BY <1>1 DEF EnsureStaging
  <2> QED BY <1>1, <2>1 DEF StagingFits, CmpGood, CmpKeeps, CmpStaged
<1>2. CASE ~StagingFits(g, frame.panel.size)
  <2>1. \E buf, mapped \in BOOLEAN :
            /\ h = StagingMade(g, frame.panel.size, buf, mapped)
            /\ mapped => buf
            /\ buf => mapped \/ "memory" \in world
    BY <1>2 DEF EnsureStaging
  <2> QED BY <1>2, <2>1, CmpStagingMade
<1> QED BY <1>1, <1>2

(* ensure_overlay_texture.                                                 *)
LEMMA CmpTexture ==
    ASSUME CmpReady, route = "gpu", NEW g, CmpGood(g), ~g.up, NEW h \in EnsureTexture(g)
    PROVE  /\ CmpGood(h) /\ ~h.up /\ h.res.staging = g.res.staging
           /\ h.ok => h.res.texture.size = frame.panel.size
<1>1. CASE g.res.texture.size = frame.panel.size
  BY <1>1 DEF EnsureTexture
<1>2. CASE g.res.texture.size # frame.panel.size
  <2> DEFINE l == Lose(g, {"texture"})
             bare == [size |-> 0, panel |-> CmpNothing]
             k == [l EXCEPT !.res.desc = FALSE, !.up = FALSE, !.res.texture = bare]
             m == [k EXCEPT !.res.texture.size = frame.panel.size]
  <2>1. /\ g \in CmpMany /\ g.res \in CmpObjects /\ g.work \in CmpWorks
        /\ CmpKeeps(g.res, g.work, g.up) /\ CmpWorking(g)
    BY DEF CmpGood, CmpMany
  <2>2. /\ l \in CmpMany /\ l.res = g.res /\ l.up = g.up /\ CmpHarm(g.work, l.work, {"texture"})
    BY <2>1, CmpLoses DEF CmpKeeps
  <2>3. h = CmpFail(k) \/ h = m
    BY <1>2 DEF EnsureTexture
  <2> HIDE DEF l
  <2>4. frame.panel.size \in Nat /\ CmpNothing \in CmpShows
    BY CmpPanelIs DEF CmpReady
  <2>5. \A s \in Nat : [g.res EXCEPT !.desc = FALSE, !.texture = [size |-> s, panel |-> CmpNothing]]
                         \in CmpObjects
    BY <2>1, <2>4 DEF CmpObjects
  <2>6. /\ k \in CmpMany /\ ~k.up /\ k.work = l.work
        /\ k.res = [g.res EXCEPT !.desc = FALSE, !.texture = bare]
    BY <2>1, <2>2, <2>4, <2>5 DEF CmpMany, CmpObjects
  <2>7. /\ m \in CmpMany /\ ~m.up /\ m.work = l.work /\ m.res.staging = k.res.staging
        /\ m.res.pipe = k.res.pipe /\ m.res.fmt = k.res.fmt /\ m.res.view = k.res.view
        /\ m.res.texture.size = frame.panel.size
    <3>1. k.res \in CmpObjects
      BY <2>6 DEF CmpMany
    <3> HIDE DEF k
    <3>2. m.res = [k.res EXCEPT !.texture.size = frame.panel.size] /\ m.up = k.up /\ m.work = k.work
      BY <2>6 DEF CmpMany
    <3>3. m.res \in CmpObjects
      BY <2>4, <3>1, <3>2 DEF CmpObjects
    <3>4. m \in CmpMany
      <4>1. m = [k EXCEPT !.res = m.res]
        BY <2>6, <3>2 DEF CmpMany
      <4> QED BY <2>6, <3>3, <4>1 DEF CmpMany
    <3> HIDE DEF m
    <3> QED BY <2>6, <3>1, <3>2, <3>4 DEF CmpObjects
  <2> HIDE DEF k, m
  <2>8. ASSUME NEW d, d \in {k, m} PROVE CmpGood(d) /\ d.res.staging = g.res.staging
    <3>1. /\ d \in CmpMany /\ d.work = l.work /\ ~d.up
          /\ d.res.staging = g.res.staging /\ d.res.pipe = g.res.pipe
          /\ d.res.fmt = g.res.fmt /\ d.res.view = g.res.view
      BY <2>1, <2>6, <2>7, <2>8 DEF CmpObjects
    <3>2. CmpStaged(d.res, d.work) /\ CmpUses(d.work) /\ CmpUploaded(d.res, d.work, d.up)
      BY <2>1, <2>2, <3>1 DEF CmpStaged, CmpUses, CmpUploaded, CmpHarm, CmpKeeps
    <3>3. CmpCarries(d.res, d.work) /\ CmpFits(d.res, d.work)
      BY <2>1, <2>2, <3>1 DEF CmpCarries, CmpFits, CmpUses, CmpDraws, CmpHarm, CmpKeeps
    <3>4. CmpSpared(d.work) /\ CmpWorking(d)
      <4>1. g.work.kind = "none" => g.work.uses \cap {"texture"} = {}
        BY <2>1, CmpNoWorkIs DEF CmpKeeps, CmpUses
      <4> QED BY <2>1, <2>2, <3>1, <4>1 DEF CmpSpared, CmpHarm, CmpKeeps, CmpWorking
    <3> QED BY <3>1, <3>2, <3>3, <3>4 DEF CmpGood, CmpKeeps
  <2> QED BY <2>3, <2>6, <2>7, <2>8, CmpFails
<1> QED BY <1>1, <1>2

(* ensure_descriptor_resources.                                            *)
LEMMA CmpDescriptor ==
    ASSUME CmpReady, route = "gpu", NEW g, CmpGood(g), NEW h \in EnsureDescriptor(g)
    PROVE  /\ CmpGood(h) /\ h.up = g.up
           /\ h.res.staging = g.res.staging /\ h.res.texture = g.res.texture
           /\ h.res.pipe = g.res.pipe /\ h.res.fmt = g.res.fmt /\ h.res.view = g.res.view
           /\ g.res.desc => h.res.desc
           /\ h.ok /\ g.res.texture.size # 0 => h.res.desc
<1>1. CASE h = CmpFail(g)
  BY <1>1, CmpFails
<1>2. CASE h = g /\ g.res.texture.size = 0
  BY <1>2
<1>3. CASE g.res.texture.size # 0 /\ h = [Lose(g, {"desc"}) EXCEPT !.res.desc = TRUE]
  <2> DEFINE l == Lose(g, {"desc"})
  <2>1. /\ g \in CmpMany /\ g.res \in CmpObjects /\ g.work \in CmpWorks
        /\ CmpKeeps(g.res, g.work, g.up) /\ CmpWorking(g)
    BY DEF CmpGood, CmpMany
  <2>2. /\ l \in CmpMany /\ l.res = g.res /\ l.up = g.up /\ CmpHarm(g.work, l.work, {"desc"})
    BY <2>1, CmpLoses DEF CmpKeeps
  <2>3. h = [l EXCEPT !.res.desc = TRUE]
    BY <1>3
  <2> HIDE DEF l
  <2>4. [g.res EXCEPT !.desc = TRUE] \in CmpObjects
    BY <2>1 DEF CmpObjects
  <2>5. /\ h \in CmpMany /\ h.up = g.up /\ h.work = l.work
        /\ h.res = [g.res EXCEPT !.desc = TRUE]
    BY <2>2, <2>3, <2>4 DEF CmpMany, CmpObjects
  <2>6. /\ h.res.staging = g.res.staging /\ h.res.pipe = g.res.pipe /\ h.res.desc
        /\ h.res.texture = g.res.texture
        /\ h.res.fmt = g.res.fmt /\ h.res.view = g.res.view
    BY <2>1, <2>5 DEF CmpObjects
  <2>7. CmpStaged(h.res, h.work) /\ CmpUses(h.work) /\ CmpUploaded(h.res, h.work, h.up)
    BY <2>1, <2>2, <2>5, <2>6 DEF CmpStaged, CmpUses, CmpUploaded, CmpHarm, CmpKeeps
  <2>8. CmpCarries(h.res, h.work) /\ CmpFits(h.res, h.work)
    BY <2>1, <2>2, <2>5, <2>6 DEF CmpCarries, CmpFits, CmpHarm, CmpKeeps
  <2>9. CmpSpared(h.work) /\ CmpWorking(h)
    <3>1. g.work.kind = "none" => g.work.uses \cap {"desc"} = {}
      BY <2>1, CmpNoWorkIs DEF CmpKeeps, CmpUses
    <3> QED BY <2>1, <2>2, <2>5, <3>1 DEF CmpSpared, CmpHarm, CmpKeeps, CmpWorking
  <2> QED BY <2>5, <2>6, <2>7, <2>8, <2>9 DEF CmpGood, CmpKeeps
<1> QED BY <1>1, <1>2, <1>3 DEF EnsureDescriptor

(* The memcpy into the staging memory.                                     *)
LEMMA CmpFill ==
    ASSUME CmpReady, route = "gpu", NEW g, CmpGood(g), ~g.up, NEW h \in FillStaging(g)
    PROVE  /\ CmpGood(h) /\ ~h.up /\ h.ok = g.ok
           /\ h.res.staging.panel = frame.panel /\ h.res.staging.buf = g.res.staging.buf
           /\ h.res.staging.mapped = g.res.staging.mapped
           /\ h.res.texture = g.res.texture /\ h.res.desc = g.res.desc
<1> DEFINE l == Lose(g, {"staging"})
           new == [g.res.staging EXCEPT !.panel = frame.panel]
<1>1. /\ g \in CmpMany /\ g.res \in CmpObjects /\ g.work \in CmpWorks
      /\ CmpKeeps(g.res, g.work, g.up) /\ CmpWorking(g)
  BY DEF CmpGood, CmpMany
<1>2. /\ l \in CmpMany /\ l.res = g.res /\ l.up = g.up /\ l.ok = g.ok
      /\ CmpHarm(g.work, l.work, {"staging"})
  BY <1>1, CmpLoses DEF CmpKeeps
<1>3. h = [l EXCEPT !.res.staging.panel = frame.panel]
  BY DEF FillStaging
<1> HIDE DEF l
<1>4. /\ new \in CmpStagings /\ new.buf = g.res.staging.buf /\ new.mapped = g.res.staging.mapped
      /\ new.size = g.res.staging.size /\ new.panel = frame.panel
  BY <1>1, CmpPanelIs DEF CmpObjects, CmpStagings, CmpReady
<1>5. h = [l EXCEPT !.res.staging = new]
  BY <1>1, <1>2, <1>3 DEF CmpObjects
<1> HIDE DEF new
<1>6. [g.res EXCEPT !.staging = new] \in CmpObjects
  BY <1>1, <1>4 DEF CmpObjects
<1>7. /\ h \in CmpMany /\ h.up = g.up /\ h.work = l.work /\ h.ok = g.ok
      /\ h.res = [g.res EXCEPT !.staging = new]
  BY <1>2, <1>5, <1>6 DEF CmpMany, CmpObjects
<1>8. /\ h.res.staging = new /\ h.res.pipe = g.res.pipe /\ h.res.desc = g.res.desc
      /\ h.res.texture = g.res.texture
      /\ h.res.fmt = g.res.fmt /\ h.res.view = g.res.view
  BY <1>1, <1>7 DEF CmpObjects
<1>9. CmpStaged(h.res, h.work) /\ CmpUses(h.work) /\ CmpUploaded(h.res, h.work, h.up)
  BY <1>1, <1>2, <1>4, <1>7, <1>8 DEF CmpStaged, CmpUses, CmpUploaded, CmpHarm, CmpKeeps
<1>10. CmpCarries(h.res, h.work) /\ CmpFits(h.res, h.work)
  BY <1>1, <1>2, <1>7, <1>8 DEF CmpCarries, CmpFits, CmpUses, CmpHarm, CmpKeeps
<1>11. CmpSpared(h.work) /\ CmpWorking(h)
  <2>1. g.work.kind = "none" => g.work.uses \cap {"staging"} = {}
    BY <1>1, CmpNoWorkIs DEF CmpKeeps, CmpUses
  <2> QED BY <1>1, <1>2, <1>7, <2>1 DEF CmpSpared, CmpHarm, CmpKeeps, CmpWorking
<1> QED BY <1>4, <1>7, <1>8, <1>9, <1>10, <1>11 DEF CmpGood, CmpKeeps

(* ensure_pipeline.                                                        *)
LEMMA CmpPipeline ==
    ASSUME CmpReady, route = "gpu", NEW g, CmpGood(g), NEW h \in EnsurePipeline(g)
    PROVE  /\ CmpGood(h) /\ h.up = g.up
           /\ h.res.staging = g.res.staging /\ h.res.texture = g.res.texture
           /\ g.res.desc => h.res.desc
           /\ h.ok /\ CmpSteady => h.res.pipe = target
<1>1. /\ g \in CmpMany /\ g.res \in CmpObjects /\ g.work \in CmpWorks
      /\ CmpKeeps(g.res, g.work, g.up) /\ CmpWorking(g)
  BY DEF CmpGood, CmpMany
<1>2. CASE g.res.pipe # 0 /\ g.res.fmt = target
  BY <1>1, <1>2 DEF EnsurePipeline, CmpKeeps, CmpFits
<1>3. CASE ~(g.res.pipe # 0 /\ g.res.fmt = target)
  <2> DEFINE l == Lose(g, {"view", "pipe"})
             k == [l EXCEPT !.res.view = "none", !.res.pipe = 0, !.res.fmt = target]
             Built(d) == {CmpFail(d), [d EXCEPT !.res.pipe = target]}
  <2>1. /\ l \in CmpMany /\ l.res = g.res /\ l.up = g.up
        /\ CmpHarm(g.work, l.work, {"view", "pipe"})
    BY <1>1, CmpLoses DEF CmpKeeps
  <2>2. h = CmpFail(k) \/ \E d \in EnsureDescriptor(k) : h \in IF d.ok THEN Built(d) ELSE {d}
    BY <1>3 DEF EnsurePipeline, CmpThen
  <2> HIDE DEF l
  <2>3. target \in CmpFormats
    BY DEF CmpReady, CmpKinds
  <2>4. [g.res EXCEPT !.view = "none", !.pipe = 0, !.fmt = target] \in CmpObjects
    BY <1>1, <2>3 DEF CmpObjects
  <2>5. /\ k \in CmpMany /\ k.up = g.up /\ k.work = l.work
        /\ k.res = [g.res EXCEPT !.view = "none", !.pipe = 0, !.fmt = target]
    BY <2>1, <2>4 DEF CmpMany, CmpObjects
  <2> HIDE DEF k
  <2>6. /\ k.res.staging = g.res.staging /\ k.res.pipe = 0 /\ k.res.desc = g.res.desc
        /\ k.res.texture = g.res.texture /\ k.res.fmt = target /\ k.res.view = "none"
    <3>1. k.res = [[[g.res EXCEPT !.view = "none"] EXCEPT !.pipe = 0] EXCEPT !.fmt = target]
      BY <2>5
    <3> QED BY <1>1, <3>1 DEF CmpObjects
  <2>7. CmpGood(k)
    <3>1. CmpStaged(k.res, k.work) /\ CmpUses(k.work) /\ CmpUploaded(k.res, k.work, k.up)
      BY <1>1, <2>1, <2>5, <2>6 DEF CmpStaged, CmpUses, CmpUploaded, CmpHarm, CmpKeeps
    <3>2. CmpCarries(k.res, k.work) /\ CmpFits(k.res, k.work)
      BY <1>1, <2>1, <2>5, <2>6 DEF CmpCarries, CmpFits, CmpHarm, CmpKeeps
    <3>3. CmpSpared(k.work) /\ CmpWorking(k)
      <4>1. g.work.kind = "none" => g.work.uses \cap {"view", "pipe"} = {}
        BY <1>1, CmpNoWorkIs DEF CmpKeeps, CmpUses
      <4> QED BY <1>1, <2>1, <2>5, <4>1 DEF CmpSpared, CmpHarm, CmpKeeps, CmpWorking
    <3> QED BY <2>5, <3>1, <3>2, <3>3 DEF CmpGood, CmpKeeps
  <2>8. CASE h = CmpFail(k)
    BY <2>5, <2>6, <2>7, <2>8, CmpFails
  <2>9. ASSUME NEW d \in EnsureDescriptor(k), h \in IF d.ok THEN Built(d) ELSE {d}
        PROVE  /\ CmpGood(h) /\ h.up = g.up
               /\ h.res.staging = g.res.staging /\ h.res.texture = g.res.texture
               /\ g.res.desc => h.res.desc
               /\ h.ok /\ CmpSteady => h.res.pipe = target
    <3>1. /\ CmpGood(d) /\ d.up = g.up
          /\ d.res.staging = g.res.staging /\ d.res.texture = g.res.texture
          /\ g.res.desc => d.res.desc
      <4>1. /\ CmpGood(d) /\ d.up = k.up
            /\ d.res.staging = k.res.staging /\ d.res.texture = k.res.texture
            /\ k.res.desc => d.res.desc
        BY <2>7, CmpDescriptor
      <4> QED BY <2>5, <2>6, <4>1
    <3>2. CASE ~d.ok /\ h = d
      BY <3>1, <3>2
    <3>3. CASE h = CmpFail(d)
      BY <3>1, <3>3, CmpFails
    <3>4. CASE h = [d EXCEPT !.res.pipe = target]
      <4>1. /\ d \in CmpMany /\ d.res \in CmpObjects /\ CmpKeeps(d.res, d.work, d.up)
            /\ CmpWorking(d)
        BY <3>1 DEF CmpGood, CmpMany
      <4>2. [d.res EXCEPT !.pipe = target] \in CmpObjects
        BY <2>3, <4>1 DEF CmpObjects
      <4>3. /\ h \in CmpMany /\ h.up = d.up /\ h.work = d.work
            /\ h.res = [d.res EXCEPT !.pipe = target]
        BY <3>4, <4>1, <4>2 DEF CmpMany
      <4>4. /\ h.res.staging = d.res.staging /\ h.res.pipe = target /\ h.res.desc = d.res.desc
            /\ h.res.texture = d.res.texture /\ h.res.fmt = d.res.fmt /\ h.res.view = d.res.view
        BY <4>1, <4>3 DEF CmpObjects
      <4>5. CmpKeeps(h.res, h.work, h.up)
        BY <4>1, <4>3, <4>4 DEF CmpKeeps, CmpStaged, CmpUploaded, CmpCarries, CmpFits
      <4> QED BY <3>1, <4>1, <4>3, <4>4, <4>5 DEF CmpGood, CmpWorking
    <3> QED BY <2>9, <3>2, <3>3, <3>4
  <2> QED BY <2>2, <2>8, <2>9
<1> QED BY <1>2, <1>3

(* The view of the target's image.                                         *)
LEMMA CmpView ==
    ASSUME CmpReady, route = "gpu", NEW g, CmpGood(g), NEW h \in EnsureView(g)
    PROVE  /\ CmpGood(h) /\ h.up = g.up
           /\ h.res.staging = g.res.staging /\ h.res.texture = g.res.texture
           /\ h.res.desc = g.res.desc /\ h.res.pipe = g.res.pipe
           /\ h.ok => g.ok
           /\ h.ok /\ CmpSteady => h.res.view = "live"
<1>1. /\ g \in CmpMany /\ g.res \in CmpObjects /\ CmpKeeps(g.res, g.work, g.up)
      /\ CmpWorking(g)
  BY DEF CmpGood, CmpMany
<1>2. CASE g.res.view # "none" /\ h = g
  BY <1>1, <1>2 DEF CmpKeeps, CmpFits, CmpObjects
<1>3. CASE h = CmpFail(g)
  BY <1>3, CmpFails
<1>4. CASE h = [g EXCEPT !.res.view = "live"]
  <2>1. [g.res EXCEPT !.view = "live"] \in CmpObjects
    BY <1>1 DEF CmpObjects
  <2>2. /\ h \in CmpMany /\ h.up = g.up /\ h.work = g.work /\ h.ok = g.ok
        /\ h.res = [g.res EXCEPT !.view = "live"]
    BY <1>1, <1>4, <2>1 DEF CmpMany
  <2>3. /\ h.res.staging = g.res.staging /\ h.res.pipe = g.res.pipe /\ h.res.desc = g.res.desc
        /\ h.res.texture = g.res.texture /\ h.res.fmt = g.res.fmt /\ h.res.view = "live"
    BY <1>1, <2>2 DEF CmpObjects
  <2>4. CmpKeeps(h.res, h.work, h.up)
    BY <1>1, <2>2, <2>3 DEF CmpKeeps, CmpStaged, CmpUploaded, CmpCarries, CmpFits
  <2> QED BY <1>1, <2>2, <2>3, <2>4 DEF CmpGood, CmpWorking
<1> QED BY <1>2, <1>3, <1>4 DEF EnsureView

(* The chains of them.                                                     *)
LEMMA CmpUpload ==
    ASSUME CmpReady, route = "gpu", NEW g, CmpGood(g), ~g.up, NEW h \in EnsureUpload(g)
    PROVE  /\ CmpGood(h) /\ ~h.up
           /\ h.ok => /\ h.res.staging.buf /\ h.res.staging.panel = frame.panel
                      /\ "memory" \notin world => h.res.staging.mapped
                      /\ h.res.texture.size = frame.panel.size /\ h.res.desc
<1>1. PICK s \in EnsureStaging(g, frame.panel.size) :
        \E t \in (IF s.ok THEN EnsureTexture(s) ELSE {s}) :
        \E d \in (IF t.ok THEN EnsureDescriptor(t) ELSE {t}) :
            h \in (IF d.ok THEN FillStaging(d) ELSE {d})
  BY DEF EnsureUpload, CmpThen
<1>2. PICK t \in (IF s.ok THEN EnsureTexture(s) ELSE {s}) :
        \E d \in (IF t.ok THEN EnsureDescriptor(t) ELSE {t}) :
            h \in (IF d.ok THEN FillStaging(d) ELSE {d})
  BY <1>1
<1>3. PICK d \in (IF t.ok THEN EnsureDescriptor(t) ELSE {t}) :
            h \in (IF d.ok THEN FillStaging(d) ELSE {d})
  BY <1>2
<1>4. /\ CmpGood(s) /\ ~s.up
      /\ s.ok => s.res.staging.buf
      /\ s.ok /\ "memory" \notin world => s.res.staging.mapped
  BY CmpStaging
<1>5. /\ CmpGood(t) /\ ~t.up
      /\ t.ok => /\ s.ok /\ t.res.staging = s.res.staging
                 /\ t.res.texture.size = frame.panel.size
  <2>1. CASE s.ok /\ t \in EnsureTexture(s)
    <3>1. /\ CmpGood(t) /\ ~t.up /\ t.res.staging = s.res.staging
          /\ t.ok => t.res.texture.size = frame.panel.size
      BY <1>4, <2>1, CmpTexture
    <3> QED BY <2>1, <3>1
  <2>2. CASE ~s.ok /\ t = s
    BY <1>4, <2>2
  <2> QED BY <2>1, <2>2
<1>6. /\ CmpGood(d) /\ ~d.up
      /\ d.ok => /\ t.ok /\ d.res.staging = t.res.staging /\ d.res.texture = t.res.texture
                 /\ t.res.texture.size # 0 => d.res.desc
  <2>1. CASE t.ok /\ d \in EnsureDescriptor(t)
    <3>1. /\ CmpGood(d) /\ d.up = t.up
          /\ d.res.staging = t.res.staging /\ d.res.texture = t.res.texture
          /\ d.ok /\ t.res.texture.size # 0 => d.res.desc
      BY <1>5, <2>1, CmpDescriptor
    <3> QED BY <1>5, <2>1, <3>1
  <2>2. CASE ~t.ok /\ d = t
    BY <1>5, <2>2
  <2> QED BY <2>1, <2>2
<1>7. frame.panel.size # 0
  BY CmpPanelIs DEF CmpReady
<1>8. CASE ~d.ok /\ h = d
  BY <1>6, <1>8
<1>9. CASE d.ok /\ h \in FillStaging(d)
  BY <1>4, <1>5, <1>6, <1>7, <1>9, CmpFill
<1> QED BY <1>3, <1>8, <1>9

LEMMA CmpBinds ==
    ASSUME CmpReady, route = "gpu", NEW g, CmpGood(g),
           NEW h \in CmpThen(CmpThen({g}, EnsurePipeline), EnsureView)
    PROVE  /\ CmpGood(h) /\ h.up = g.up
           /\ h.ok => /\ g.ok /\ h.res.staging = g.res.staging /\ h.res.texture = g.res.texture
                      /\ g.res.desc => h.res.desc
                      /\ CmpSteady => h.res.pipe = target /\ h.res.view = "live"
<1>1. PICK p \in (IF g.ok THEN EnsurePipeline(g) ELSE {g}) :
            h \in (IF p.ok THEN EnsureView(p) ELSE {p})
  BY DEF CmpThen
<1>2. /\ CmpGood(p) /\ p.up = g.up
      /\ p.ok => /\ g.ok /\ p.res.staging = g.res.staging /\ p.res.texture = g.res.texture
                 /\ g.res.desc => p.res.desc
                 /\ CmpSteady => p.res.pipe = target
  BY CmpPipeline
<1>3. CASE ~p.ok /\ h = p
  BY <1>2, <1>3
<1>4. CASE p.ok /\ h \in EnsureView(p)
  BY <1>2, <1>4, CmpView
<1> QED BY <1>1, <1>3, <1>4

-----------------------------------------------------------------------------
(* The steps of render(), of the device and of the game.                    *)

LEMMA CmpInitInv == CmpInit => CmpInv
<1> SUFFICES ASSUME CmpInit PROVE CmpInv
  OBVIOUS
<1>1. res \in CmpObjects /\ ~res.staging.buf /\ res.pipe = 0 /\ res.fmt = target /\ res.view = "none"
  BY CmpPanelIs DEF CmpInit, CmpObjects, CmpStagings
<1>2. CmpKinds
  BY <1>1, CmpNoWorkIs, CmpPanelIs DEF CmpInit, CmpKinds
<1>3. CmpKeeps(res, pending, uploaded)
  BY <1>1, CmpNoWorkIs DEF CmpInit, CmpKeeps, CmpStaged, CmpUses, CmpCarries, CmpUploaded,
     CmpFits, CmpSpared
<1>4. CmpWhere
  BY CmpPanelIs DEF CmpInit, CmpWhere
<1>5. FrameComposited
  BY DEF CmpInit, FrameComposited
<1> QED BY <1>2, <1>3, <1>4, <1>5 DEF CmpInv

(* What is kept does not depend on anything the steps of render() change.   *)
LEMMA CmpLater ==
    ASSUME UNCHANGED <<route, behind, world, target>>, frame'.panel = frame.panel,
           CmpKeeps(res', pending', uploaded')
    PROVE  CmpKeeps(res, pending, uploaded)'
BY DEF CmpKeeps, CmpStaged, CmpUses, CmpCarries, CmpUploaded, CmpFits, CmpSteady, CmpSpared

LEMMA CmpPrepares == ASSUME CmpInv, NEW p \in CmpPanels, CmpPrepare(p) PROVE CmpInv'
<1>1. /\ cpc = "idle" /\ cpc' = "ensure" /\ (p.size > CmpSmall => "grows" \in world)
      /\ frame' = [panel |-> p, changed |-> p # frame.panel, upload |-> FALSE, base |-> 1 - frame.base]
      /\ uploaded' = (uploaded /\ p = frame.panel)
      /\ UNCHANGED <<route, behind, world, res, target, pending, cmpFence, shown>>
  BY DEF CmpPrepare
<1>2. 1 - frame.base \in {0, 1} /\ uploaded' \in BOOLEAN
  BY <1>1 DEF CmpInv, CmpKinds
<1>3. frame' \in [panel : CmpShows, changed : BOOLEAN, upload : BOOLEAN, base : {0, 1}]
  BY <1>1, <1>2, CmpPanelIs
<1>4. frame'.panel = p /\ frame'.changed = (p # frame.panel)
  BY <1>1
<1>5. CmpKinds'
  BY <1>1, <1>2, <1>3 DEF CmpInv, CmpKinds
<1>6. CmpWhere'
  <2>1. "grows" \notin world => p.size <= CmpSmall
    BY <1>1, CmpPanelIs
  <2> QED BY <1>1, <1>4, <2>1 DEF CmpInv, CmpWhere
<1>7. CmpKeeps(res, pending, uploaded)'
  BY <1>1, <1>4 DEF CmpInv, CmpKeeps, CmpStaged, CmpUses, CmpCarries, CmpUploaded, CmpFits,
     CmpSteady, CmpSpared
<1>8. FrameComposited'
  BY <1>1 DEF CmpInv, FrameComposited
<1> QED BY <1>5, <1>6, <1>7, <1>8 DEF CmpInv

(* Before a frame is recorded, all is ready for the ensure_ functions.      *)
LEMMA CmpStarts ==
    ASSUME CmpInv, cpc = "ensure"
    PROVE  /\ CmpReady /\ CmpGood(Ensured)
           /\ Ensured.res = res /\ Ensured.work = pending /\ Ensured.up = uploaded /\ Ensured.ok
           /\ route = "gpu" => (NeedsUpload <=> ~uploaded)
<1>1. CmpReady
  BY DEF CmpInv, CmpWhere, CmpReady
<1>2. /\ Ensured.res = res /\ Ensured.work = pending /\ Ensured.up = uploaded /\ Ensured.ok
      /\ Ensured \in CmpMany
  BY DEF Ensured, CmpMany, CmpInv, CmpKinds
<1>3. CmpWorking(Ensured)
  BY <1>2, CmpNoWorkIs DEF CmpWorking, CmpInv, CmpWhere
<1>4. CmpGood(Ensured)
  BY <1>2, <1>3 DEF CmpGood, CmpInv
<1>5. NeedsUpload <=> ~uploaded
  BY DEF NeedsUpload, CmpInv, CmpWhere, CmpKeeps, CmpUploaded
<1> QED BY <1>1, <1>2, <1>4, <1>5

(* What they leave is adopted.                                              *)
LEMMA CmpAdopts ==
    ASSUME CmpInv, NEW g, CmpGood(g), Adopt(g),
           UNCHANGED <<route, behind, world, target, cmpFence, shown>>,
           frame'.panel = frame.panel
    PROVE  /\ res' \in CmpObjects /\ pending' \in CmpWorks /\ uploaded' \in BOOLEAN
           /\ CmpKeeps(res, pending, uploaded)' /\ FrameComposited'
           /\ cmpFence' => pending' = NoWork
           /\ behind \/ pending' = NoWork
<1>1. /\ res' = g.res /\ pending' = g.work /\ uploaded' = g.up
      /\ g \in CmpMany /\ CmpKeeps(g.res, g.work, g.up) /\ CmpWorking(g)
  BY DEF Adopt, CmpGood
<1>2. res' \in CmpObjects /\ pending' \in CmpWorks /\ uploaded' \in BOOLEAN
  BY <1>1 DEF CmpMany
<1>3. CmpKeeps(res, pending, uploaded)'
  BY <1>1, CmpLater
<1>4. FrameComposited'
  BY DEF CmpInv, FrameComposited
<1>5. pending.kind = "none" => pending' = NoWork
  BY <1>1 DEF CmpWorking, CmpKeeps, CmpUses
<1>6. cmpFence => pending.kind = "none"
  BY CmpNoWorkIs DEF CmpInv, CmpWhere
<1> QED BY <1>1, <1>2, <1>3, <1>4, <1>5, <1>6 DEF CmpWorking

LEMMA CmpCopyEnsures == ASSUME CmpInv, CopyEnsure PROVE CmpInv'
<1>1. /\ cpc = "ensure" /\ route = "copy"
      /\ UNCHANGED <<route, behind, world, frame, target, cmpFence, shown>>
  BY DEF CopyEnsure
<1>2. PICK g \in EnsureStaging(Ensured, frame.panel.size) :
          Adopt(g) /\ cpc' = IF g.ok THEN "read" ELSE "idle"
  BY DEF CopyEnsure
<1>3. ~uploaded
  BY <1>1 DEF CmpInv, CmpKeeps, CmpUploaded
<1>4. CmpGood(g) /\ ~g.up /\ (g.ok => g.res.staging.buf)
  BY <1>1, <1>3, CmpStarts, CmpStaging
<1>5. /\ res' \in CmpObjects /\ pending' \in CmpWorks /\ uploaded' \in BOOLEAN
      /\ CmpKeeps(res, pending, uploaded)' /\ FrameComposited'
      /\ cmpFence' => pending' = NoWork
      /\ behind \/ pending' = NoWork
  BY <1>1, <1>2, <1>4, CmpAdopts
<1>6. CmpKinds'
  BY <1>1, <1>2, <1>5 DEF CmpInv, CmpKinds
<1>7. CmpWhere'
  BY <1>1, <1>2, <1>4, <1>5 DEF CmpInv, CmpWhere, Adopt
<1> QED BY <1>5, <1>6, <1>7 DEF CmpInv

LEMMA CmpGpuEnsures == ASSUME CmpInv, GpuEnsure PROVE CmpInv'
<1>1. /\ cpc = "ensure" /\ route = "gpu"
      /\ UNCHANGED <<route, behind, world, target, cmpFence, shown>>
  BY DEF GpuEnsure
<1>2. PICK up \in (IF NeedsUpload THEN EnsureUpload(Ensured) ELSE {Ensured}) :
           IF up.ok /\ NeedsUpload /\ ~up.res.staging.mapped
           THEN cpc' = "crashed" /\ UNCHANGED <<frame, uploaded, res, pending>>
           ELSE \E g \in CmpThen(CmpThen({up}, EnsurePipeline), EnsureView) :
                   /\ Adopt(g)
                   /\ frame' = [frame EXCEPT !.upload = NeedsUpload]
                   /\ cpc' = IF g.ok THEN "draw" ELSE "idle"
  BY DEF GpuEnsure
<1>3. /\ CmpReady /\ CmpGood(Ensured) /\ (NeedsUpload <=> ~uploaded)
      /\ Ensured.res = res /\ Ensured.work = pending /\ Ensured.up = uploaded
  BY <1>1, CmpStarts
<1>4. /\ CmpGood(up) /\ up.up = uploaded
      /\ up.ok => /\ up.res.texture.size = frame.panel.size /\ up.res.desc
                  /\ ~uploaded => up.res.staging.panel = frame.panel
                  /\ ~uploaded /\ "memory" \notin world => up.res.staging.mapped
  <2>1. CASE ~uploaded /\ up \in EnsureUpload(Ensured)
    <3>1. uploaded = FALSE
      BY <2>1 DEF CmpInv, CmpKinds
    <3>2. /\ CmpGood(up) /\ ~up.up
          /\ up.ok => /\ up.res.staging.panel = frame.panel
                      /\ "memory" \notin world => up.res.staging.mapped
                      /\ up.res.texture.size = frame.panel.size /\ up.res.desc
      BY <1>1, <1>3, <2>1, CmpUpload
    <3>3. up.up = FALSE
      BY <3>2 DEF CmpGood, CmpMany
    <3> QED BY <3>1, <3>2, <3>3
  <2>2. CASE uploaded /\ up = Ensured
    BY <1>3, <2>2 DEF CmpInv, CmpKeeps, CmpUploaded
  <2> QED BY <1>2, <1>3, <2>1, <2>2
<1>5. CASE up.ok /\ NeedsUpload /\ ~up.res.staging.mapped
  <2>1. /\ "memory" \in world
        /\ cpc' = "crashed" /\ UNCHANGED <<frame, uploaded, res, pending>>
    BY <1>2, <1>3, <1>4, <1>5
  <2>2. CmpKeeps(res, pending, uploaded)'
    BY <1>1, <2>1, CmpLater DEF CmpInv
  <2>3. CmpKinds' /\ CmpWhere' /\ FrameComposited'
    BY <1>1, <2>1 DEF CmpInv, CmpKinds, CmpWhere, FrameComposited
  <2> QED BY <2>2, <2>3 DEF CmpInv
<1>6. CASE ~(up.ok /\ NeedsUpload /\ ~up.res.staging.mapped)
  <2>1. PICK g \in CmpThen(CmpThen({up}, EnsurePipeline), EnsureView) :
                   /\ Adopt(g)
                   /\ frame' = [frame EXCEPT !.upload = NeedsUpload]
                   /\ cpc' = IF g.ok THEN "draw" ELSE "idle"
    BY <1>2, <1>6
  <2>2. /\ CmpGood(g) /\ g.up = up.up
        /\ g.ok => /\ up.ok /\ g.res.staging = up.res.staging /\ g.res.texture = up.res.texture
                   /\ up.res.desc => g.res.desc
                   /\ CmpSteady => g.res.pipe = target /\ g.res.view = "live"
    BY <1>1, <1>3, <1>4, CmpBinds
  <2>3. /\ frame' \in [panel : CmpShows, changed : BOOLEAN, upload : BOOLEAN, base : {0, 1}]
        /\ frame'.panel = frame.panel /\ frame'.changed = frame.changed
        /\ frame'.base = frame.base /\ (frame'.upload <=> ~uploaded)
    <3>1. NeedsUpload \in BOOLEAN
      BY DEF NeedsUpload
    <3> QED BY <1>3, <2>1, <3>1 DEF CmpInv, CmpKinds
  <2>4. /\ res' \in CmpObjects /\ pending' \in CmpWorks /\ uploaded' \in BOOLEAN
        /\ CmpKeeps(res, pending, uploaded)' /\ FrameComposited'
        /\ cmpFence' => pending' = NoWork
        /\ behind \/ pending' = NoWork
    BY <1>1, <2>1, <2>2, <2>3, CmpAdopts
  <2>5. CmpKinds'
    BY <1>1, <2>1, <2>3, <2>4 DEF CmpInv, CmpKinds
  <2>6. res' = g.res /\ uploaded' = uploaded
    BY <1>4, <2>1, <2>2 DEF Adopt
  <2>7. CmpWhere'
    <3>1. CASE ~g.ok
      BY <1>1, <2>1, <2>3, <2>4, <3>1 DEF CmpInv, CmpWhere
    <3>2. CASE g.ok
      <4>1. /\ res'.texture.size = frame.panel.size /\ res'.desc
            /\ ~uploaded => res'.staging.panel = frame.panel
            /\ CmpSteady => res'.pipe = target /\ res'.view = "live"
        BY <1>4, <2>2, <2>6, <3>2
      <4>2. cpc' = "draw"
        BY <2>1, <3>2
      <4>3. CmpSteady' => Bound'
        BY <1>1, <2>3, <4>1 DEF Bound, CmpSteady
      <4> QED BY <1>1, <2>3, <2>4, <2>6, <4>1, <4>2, <4>3 DEF CmpInv, CmpWhere
    <3> QED BY <3>1, <3>2
  <2> QED BY <2>4, <2>5, <2>7 DEF CmpInv
<1> QED BY <1>5, <1>6

(* A submission is accepted, or nothing is executed.                        *)
LEMMA CmpSubmits ==
    ASSUME NEW w, NEW next, SubmitCmp(w, next)
    PROVE  /\ cmpFence' = FALSE
           /\ \/ pending' = w /\ cpc' = next
              \/ pending' = NoWork /\ cpc' = "idle"
BY DEF SubmitCmp

LEMMA CmpReads == ASSUME CmpInv, CopyRead PROVE CmpInv'
<1> DEFINE w == [NoWork EXCEPT !.kind = "read", !.uses = {"staging"}, !.base = frame.base]
<1>1. /\ cpc = "read" /\ cmpFence /\ SubmitCmp(w, "blend")
      /\ UNCHANGED <<route, behind, world, frame, uploaded, res, target, shown>>
  BY DEF CopyRead
<1>2. /\ w \in CmpWorks /\ w.kind = "read" /\ w.uses = {"staging"} /\ w.base = frame.base
      /\ ~w.lost
  BY CmpPanelIs DEF NoWork, CmpWorks, CmpParts, CmpInv, CmpKinds
<1> HIDE DEF w
<1>3. /\ cmpFence' = FALSE
      /\ \/ pending' = w /\ cpc' = "blend"
         \/ pending' = NoWork /\ cpc' = "idle"
  BY <1>1, CmpSubmits
<1>4. route = "copy" /\ res.staging.buf /\ ~uploaded
  BY <1>1 DEF CmpInv, CmpWhere, CmpKeeps, CmpUploaded
<1>5. CmpKinds'
  BY <1>1, <1>2, <1>3, CmpNoWorkIs DEF CmpInv, CmpKinds
<1>6. CmpWhere'
  BY <1>1, <1>2, <1>3, <1>4, CmpNoWorkIs DEF CmpInv, CmpWhere
<1>7. CmpKeeps(res, pending, uploaded)'
  <2>1. CmpKeeps(res', pending', uploaded')
    BY <1>1, <1>2, <1>3, <1>4, CmpNoWorkIs DEF CmpInv, CmpKeeps, CmpStaged, CmpUses, CmpCarries,
       CmpUploaded, CmpFits, CmpSpared
  <2> QED BY <1>1, <2>1, CmpLater
<1>8. FrameComposited'
  BY <1>1 DEF CmpInv, FrameComposited
<1> QED BY <1>5, <1>6, <1>7, <1>8 DEF CmpInv

LEMMA CmpBlends == ASSUME CmpInv, CopyBlend PROVE CmpInv'
<1>1. /\ cpc = "blend" /\ cmpFence
      /\ UNCHANGED <<route, behind, world, frame, uploaded, target, shown>>
  BY DEF CopyBlend
<1>2. /\ route = "copy" /\ res.staging.buf /\ ~uploaded /\ pending = NoWork
      /\ res.staging.base = frame.base
      /\ "memory" \notin world => res.staging.mapped
  BY <1>1, CmpNoWorkIs DEF CmpInv, CmpWhere, CmpKeeps, CmpUploaded, CmpStaged
<1>3. CASE ~res.staging.mapped /\ cpc' = "crashed" /\ UNCHANGED <<res, pending, cmpFence>>
  <2>1. CmpKeeps(res, pending, uploaded)'
    BY <1>1, <1>3, CmpLater DEF CmpInv
  <2>2. CmpKinds' /\ CmpWhere' /\ FrameComposited'
    BY <1>1, <1>2, <1>3 DEF CmpInv, CmpKinds, CmpWhere, FrameComposited
  <2> QED BY <2>1, <2>2 DEF CmpInv
<1>4. CASE /\ res' = [res EXCEPT !.staging.panel = frame.panel]
           /\ SubmitCmp([NoWork EXCEPT !.kind = "write", !.uses = {"staging"},
                                       !.base = frame.base, !.panel = frame.panel],
                        IF behind THEN "idle" ELSE "finish")
  <2> DEFINE w == [NoWork EXCEPT !.kind = "write", !.uses = {"staging"},
                                 !.base = frame.base, !.panel = frame.panel]
             new == [res.staging EXCEPT !.panel = frame.panel]
  <2>1. /\ w \in CmpWorks /\ w.kind = "write" /\ w.uses = {"staging"} /\ w.base = frame.base
        /\ w.panel = frame.panel /\ ~w.lost
    BY CmpPanelIs DEF NoWork, CmpWorks, CmpParts, CmpInv, CmpKinds
  <2> HIDE DEF w
  <2>2. /\ cmpFence' = FALSE
        /\ \/ pending' = w /\ cpc' = IF behind THEN "idle" ELSE "finish"
           \/ pending' = NoWork /\ cpc' = "idle"
    BY <1>4, CmpSubmits DEF w
  <2>3. res \in CmpObjects /\ res.staging \in CmpStagings /\ frame.panel \in CmpShows
    BY DEF CmpInv, CmpKinds, CmpObjects
  <2>4. /\ new \in CmpStagings /\ new.buf = res.staging.buf /\ new.mapped = res.staging.mapped
        /\ new.size = res.staging.size /\ new.base = frame.base /\ new.panel = frame.panel
        /\ res' = [res EXCEPT !.staging = new]
    BY <1>2, <1>4, <2>3 DEF CmpStagings
  <2> HIDE DEF new
  <2>5. /\ res' \in CmpObjects /\ res'.staging = new /\ res'.texture = res.texture
        /\ res'.fmt = res.fmt /\ res'.pipe = res.pipe /\ res'.view = res.view
        /\ res'.desc = res.desc
    BY <2>3, <2>4 DEF CmpObjects
  <2>6. CmpKinds'
    BY <1>1, <2>1, <2>2, <2>5, CmpNoWorkIs DEF CmpInv, CmpKinds
  <2>7. CmpWhere'
    BY <1>1, <1>2, <2>1, <2>2, <2>4, <2>5, CmpNoWorkIs DEF CmpInv, CmpWhere
  <2>8. CmpKeeps(res, pending, uploaded)'
    <3>1. CmpKeeps(res', pending', uploaded')
      BY <1>1, <1>2, <2>1, <2>2, <2>4, <2>5, CmpNoWorkIs DEF CmpInv, CmpKeeps, CmpStaged, CmpUses,
         CmpCarries, CmpUploaded, CmpFits, CmpSpared
    <3> QED BY <1>1, <3>1, CmpLater
  <2>9. FrameComposited'
    BY <1>1 DEF CmpInv, FrameComposited
  <2> QED BY <2>6, <2>7, <2>8, <2>9 DEF CmpInv
<1> QED BY <1>3, <1>4 DEF CopyBlend

LEMMA CmpDrawsIt == ASSUME CmpInv, GpuDraw PROVE CmpInv'
<1> DEFINE w == [kind |-> IF frame.upload THEN "upload" ELSE "draw",
                 uses |-> {"texture", "desc", "pipe", "view"}
                          \cup {s \in {"staging"} : frame.upload},
                 lost |-> FALSE, bound |-> Bound, base |-> frame.base, panel |-> frame.panel]
<1>1. /\ cpc = "draw" /\ cmpFence /\ SubmitCmp(w, IF behind THEN "idle" ELSE "finish")
      /\ uploaded' = (uploaded \/ pending' # NoWork)
      /\ UNCHANGED <<route, behind, world, frame, res, target, shown>>
  BY DEF GpuDraw
<1>2. /\ route = "gpu" /\ pending = NoWork /\ (CmpSteady => Bound)
      /\ res.texture.size = frame.panel.size /\ res.desc
      /\ IF frame.upload THEN ~uploaded /\ res.staging.panel = frame.panel ELSE uploaded
      /\ ~frame.upload => res.texture.panel = frame.panel
  BY <1>1, CmpNoWorkIs DEF CmpInv, CmpWhere, CmpKeeps, CmpUploaded
<1>3. frame \in [panel : CmpShows, changed : BOOLEAN, upload : BOOLEAN, base : {0, 1}]
  BY DEF CmpInv, CmpKinds
<1>4. /\ w.kind = (IF frame.upload THEN "upload" ELSE "draw") /\ CmpDraws \subseteq w.uses
      /\ (frame.upload => "staging" \in w.uses) /\ ~w.lost /\ (CmpSteady => w.bound)
      /\ w.panel = frame.panel
  BY <1>2 DEF CmpDraws
<1>5. w \in CmpWorks
  <2>1. Bound \in BOOLEAN
    <3>1. res.desc \in BOOLEAN
      BY DEF CmpInv, CmpKinds, CmpObjects
    <3> QED BY <3>1 DEF Bound
  <2> QED BY <1>3, <2>1 DEF CmpWorks, CmpParts
<1> HIDE DEF w
<1>6. /\ cmpFence' = FALSE
      /\ \/ pending' = w /\ cpc' = IF behind THEN "idle" ELSE "finish"
         \/ pending' = NoWork /\ cpc' = "idle"
  BY <1>1, CmpSubmits
<1>7. w # NoWork
  BY <1>4, CmpNoWorkIs
<1>8. CmpKinds'
  BY <1>1, <1>5, <1>6, CmpNoWorkIs DEF CmpInv, CmpKinds
<1>9. CmpWhere'
  BY <1>1, <1>6 DEF CmpInv, CmpWhere
<1>10. CmpKeeps(res, pending, uploaded)'
  <2>1. CmpKeeps(res', pending', uploaded')
    BY <1>1, <1>2, <1>4, <1>6, <1>7, CmpNoWorkIs DEF CmpInv, CmpKeeps, CmpStaged, CmpUses,
       CmpCarries, CmpUploaded, CmpFits, CmpSpared
  <2> QED BY <1>1, <2>1, CmpLater
<1>11. FrameComposited'
  BY <1>1 DEF CmpInv, FrameComposited
<1> QED BY <1>8, <1>9, <1>10, <1>11 DEF CmpInv

(* The device is done.                                                     *)
LEMMA CmpCompletes == ASSUME CmpInv, Complete PROVE CmpInv'
<1> DEFINE want == [base |-> pending.base, panel |-> pending.panel]
           seen == IF pending.kind = "upload" THEN res.staging.panel ELSE res.texture.panel
<1>1. /\ pending # NoWork /\ cmpFence' = TRUE /\ pending' = NoWork
      /\ UNCHANGED <<route, behind, world, frame, uploaded, target, cpc>>
  BY DEF Complete
<1>2. /\ res \in CmpObjects /\ res.staging \in CmpStagings /\ pending \in CmpWorks
      /\ res.texture \in [size : Nat, panel : CmpShows]
      /\ pending.base \in {0, 1} /\ CmpNothing \in CmpShows
  BY CmpPanelIs DEF CmpInv, CmpKinds, CmpObjects, CmpWorks
<1>3. CASE /\ pending.kind = "read" /\ UNCHANGED shown
           /\ res' = [res EXCEPT !.staging.base = pending.base, !.staging.panel = CmpNothing]
  <2> DEFINE new == [res.staging EXCEPT !.base = pending.base, !.panel = CmpNothing]
  <2>1. /\ new \in CmpStagings /\ new.buf = res.staging.buf /\ new.mapped = res.staging.mapped
        /\ new.size = res.staging.size /\ new.base = pending.base
    BY <1>2 DEF CmpStagings
  <2>2. res' = [res EXCEPT !.staging = new]
    BY <1>2, <1>3 DEF CmpObjects
  <2> HIDE DEF new
  <2>3. /\ res' \in CmpObjects /\ res'.staging = new /\ res'.texture = res.texture
        /\ res'.fmt = res.fmt /\ res'.pipe = res.pipe /\ res'.view = res.view
        /\ res'.desc = res.desc
    BY <1>2, <2>1, <2>2 DEF CmpObjects
  <2>4. route = "copy" /\ ~uploaded
    BY <1>3 DEF CmpInv, CmpKeeps, CmpUses, CmpUploaded
  <2>5. CmpKinds'
    BY <1>1, <2>3, CmpNoWorkIs DEF CmpInv, CmpKinds
  <2>6. CmpWhere'
    BY <1>1, <1>3, <2>1, <2>3, <2>4, CmpNoWorkIs DEF CmpInv, CmpWhere
  <2>7. CmpKeeps(res, pending, uploaded)'
    <3>1. CmpKeeps(res', pending', uploaded')
      BY <1>1, <2>1, <2>3, <2>4, CmpNoWorkIs DEF CmpInv, CmpKeeps, CmpStaged, CmpUses, CmpCarries,
         CmpUploaded, CmpFits, CmpSpared
    <3> QED BY <1>1, <3>1, CmpLater
  <2>8. FrameComposited'
    BY <1>3 DEF CmpInv, FrameComposited
  <2> QED BY <2>5, <2>6, <2>7, <2>8 DEF CmpInv
<1>4. CASE /\ pending.kind = "write" /\ UNCHANGED res
           /\ shown' = [got |-> [base |-> res.staging.base, panel |-> res.staging.panel],
                        want |-> want, clean |-> ~pending.lost]
  <2>1. route = "copy" /\ ~uploaded
    BY <1>4 DEF CmpInv, CmpKeeps, CmpUses, CmpUploaded
  <2>2. CmpKinds' /\ CmpWhere'
    BY <1>1, <1>4, <2>1, CmpNoWorkIs DEF CmpInv, CmpKinds, CmpWhere
  <2>3. CmpKeeps(res, pending, uploaded)'
    <3>1. CmpKeeps(res', pending', uploaded')
      BY <1>1, <1>4, <2>1, CmpNoWorkIs DEF CmpInv, CmpKeeps, CmpStaged, CmpUses, CmpCarries,
         CmpUploaded, CmpFits, CmpSpared
    <3> QED BY <1>1, <3>1, CmpLater
  <2>4. FrameComposited'
    BY <1>4 DEF CmpInv, CmpKeeps, CmpCarries, FrameComposited
  <2> QED BY <2>2, <2>3, <2>4 DEF CmpInv
<1>5. CASE /\ pending.kind \in {"draw", "upload"}
           /\ res' = IF pending.kind = "upload" THEN [res EXCEPT !.texture.panel = seen] ELSE res
           /\ shown' = [got |-> [base |-> pending.base, panel |-> seen],
                        want |-> want, clean |-> ~pending.lost /\ pending.bound]
  <2> DEFINE new == [res.texture EXCEPT !.panel = seen]
  <2>1. seen \in CmpShows
    BY <1>2 DEF CmpStagings
  <2>2. /\ new \in [size : Nat, panel : CmpShows] /\ new.size = res.texture.size
        /\ new.panel = seen
    BY <1>2, <2>1
  <2>3. res' = IF pending.kind = "upload" THEN [res EXCEPT !.texture = new] ELSE res
    BY <1>2, <1>5 DEF CmpObjects
  <2>4. seen = IF pending.kind = "upload" THEN res.staging.panel ELSE res.texture.panel
    OBVIOUS
  <2> HIDE DEF new, seen
  <2>5. /\ res' \in CmpObjects /\ res'.staging = res.staging /\ res'.texture.size = res.texture.size
        /\ res'.texture.panel = seen
        /\ res'.fmt = res.fmt /\ res'.pipe = res.pipe /\ res'.view = res.view
        /\ res'.desc = res.desc
    <3>1. CASE pending.kind = "upload"
      BY <1>2, <2>2, <2>3, <3>1 DEF CmpObjects
    <3>2. CASE pending.kind # "upload"
      BY <1>2, <2>3, <2>4, <3>2
    <3> QED BY <3>1, <3>2
  <2>6. route = "gpu"
    BY <1>5 DEF CmpInv, CmpKeeps, CmpUses
  <2>7. uploaded => seen = frame.panel
    BY <2>4 DEF CmpInv, CmpKeeps, CmpUploaded
  <2>8. CmpKinds'
    BY <1>1, <2>5, CmpNoWorkIs DEF CmpInv, CmpKinds
  <2>9. CmpWhere'
    <3>1. Bound => Bound'
      BY <1>1, <2>5 DEF Bound
    <3> QED BY <1>1, <2>5, <2>6, <3>1, CmpNoWorkIs DEF CmpInv, CmpWhere, CmpSteady
  <2>10. CmpKeeps(res, pending, uploaded)'
    <3>1. CmpKeeps(res', pending', uploaded')
      BY <1>1, <2>5, <2>6, <2>7, CmpNoWorkIs DEF CmpInv, CmpKeeps, CmpStaged, CmpUses, CmpCarries,
         CmpUploaded, CmpFits, CmpSpared
    <3> QED BY <1>1, <3>1, CmpLater
  <2>11. FrameComposited'
    <3>1. ~pending.lost => seen = pending.panel
      BY <1>5, <2>4 DEF CmpInv, CmpKeeps, CmpCarries
    <3> QED BY <1>5, <3>1 DEF FrameComposited
  <2> QED BY <2>8, <2>9, <2>10, <2>11 DEF CmpInv
<1>6. pending.kind \in {"read", "write", "draw", "upload"}
  BY <1>1, <1>2 DEF CmpInv, CmpKeeps, CmpUses, CmpWorks
<1> QED BY <1>3, <1>4, <1>5, <1>6 DEF Complete

LEMMA CmpRecreates ==
    ASSUME CmpInv, NEW fmt \in CmpFormats, NEW same \in BOOLEAN, CmpRecreate(fmt, same)
    PROVE  CmpInv'
<1> DEFINE view == IF res.fmt = fmt /\ same /\ res.view # "none" THEN "stale" ELSE "none"
<1>1. /\ cpc = "idle" /\ pending = NoWork /\ target' = fmt
      /\ (fmt # target => "reformats" \in world) /\ (same => "reuses" \in world)
      /\ res' = [res EXCEPT !.fmt = fmt, !.view = view]
      /\ UNCHANGED <<route, behind, world, frame, uploaded, pending, cmpFence, cpc, shown>>
  BY DEF CmpRecreate
<1>2. view \in {"none", "stale"} /\ (view = "stale" => same)
  OBVIOUS
<1> HIDE DEF view
<1>3. res \in CmpObjects
  BY DEF CmpInv, CmpKinds
<1>4. /\ res' \in CmpObjects /\ res'.staging = res.staging /\ res'.texture = res.texture
      /\ res'.fmt = fmt /\ res'.pipe = res.pipe /\ res'.view = view
      /\ res'.desc = res.desc
  BY <1>1, <1>2, <1>3 DEF CmpObjects
<1>5. CmpKinds' /\ CmpWhere' /\ FrameComposited'
  BY <1>1, <1>4 DEF CmpInv, CmpKinds, CmpWhere, FrameComposited
<1>6. CmpKeeps(res, pending, uploaded)'
  <2>1. CmpStaged(res, pending)' /\ CmpUses(pending)' /\ CmpCarries(res, pending)'
        /\ CmpUploaded(res, pending, uploaded)' /\ CmpSpared(pending)'
    BY <1>1, <1>4 DEF CmpInv, CmpKeeps, CmpStaged, CmpUses, CmpCarries, CmpUploaded, CmpSpared
  <2>2. CmpFits(res, pending)'
    BY <1>1, <1>2, <1>4, CmpNoWorkIs DEF CmpInv, CmpKeeps, CmpFits, CmpSteady
  <2> QED BY <2>1, <2>2 DEF CmpKeeps
<1> QED BY <1>5, <1>6 DEF CmpInv

LEMMA CmpNextInv == CmpInv /\ [CmpNext]_cmpVars => CmpInv'
<1> SUFFICES ASSUME CmpInv, [CmpNext]_cmpVars PROVE CmpInv'
  OBVIOUS
<1>1. CASE \E p \in CmpPanels : CmpPrepare(p)
  BY <1>1, CmpPrepares
<1>2. CASE CopyEnsure \/ CopyRead \/ CopyBlend
  BY <1>2, CmpCopyEnsures, CmpReads, CmpBlends
<1>3. CASE GpuEnsure \/ GpuDraw
  BY <1>3, CmpGpuEnsures, CmpDrawsIt
<1>4. CASE Complete
  BY <1>4, CmpCompletes
<1>5. CASE \E f \in CmpFormats, s \in BOOLEAN : CmpRecreate(f, s)
  BY <1>5, CmpRecreates
<1>6. CASE Finish \/ UNCHANGED cmpVars
  <2>1. /\ UNCHANGED <<route, behind, world, frame, uploaded, res, target, pending, cmpFence, shown>>
        /\ cpc' = cpc \/ (cpc' = "idle" /\ cmpFence)
    BY <1>6 DEF Finish, cmpVars
  <2>2. CmpKinds' /\ FrameComposited'
    BY <2>1 DEF CmpInv, CmpKinds, FrameComposited
  <2>3. CmpWhere'
    BY <2>1 DEF CmpInv, CmpWhere, CmpSteady, Bound
  <2>4. CmpKeeps(res, pending, uploaded)'
    BY <2>1, CmpLater DEF CmpInv
  <2> QED BY <2>2, <2>3, <2>4 DEF CmpInv
<1> QED BY <1>1, <1>2, <1>3, <1>4, <1>5, <1>6 DEF CmpNext

LEMMA CmpAlways == CmpSpec => []CmpInv
BY CmpInitInv, CmpNextInv, PTL DEF CmpSpec

-----------------------------------------------------------------------------
(* The compositor: the theorems.                                            *)

(* Every variable of the compositor keeps to its kind, and a signaled fence *)
(* means that the device is idle.                                          *)
THEOREM CompositorTypeCorrect == CmpSpec => []CmpTypeOK
<1>1. CmpInv => CmpTypeOK
  BY DEF CmpInv, CmpKinds, CmpWhere, CmpTypeOK, CmpObjects, CmpWorks, CmpShows
<1> QED BY <1>1, CmpAlways, PTL

(* For any panels, formats and environments: what the device still uses is *)
(* left alone by the next frame's preparation, with the two exceptions     *)
(* PendingKept names, both of a render() that does not wait.               *)
THEOREM UsedIsKept == CmpSpec => []PendingKept
<1>1. CmpInv => PendingKept
  BY DEF CmpInv, CmpKeeps, CmpSpared, PendingKept
<1> QED BY <1>1, CmpAlways, PTL

(* A frame that completes undisturbed is the game's image with the panel   *)
(* prepared for it, whatever failed in the frames before.                  *)
THEOREM FramesAreComposited == CmpSpec => []FrameComposited
<1>1. CmpInv => FrameComposited
  BY DEF CmpInv
<1> QED BY <1>1, CmpAlways, PTL

(* As long as neither formats nor handles change, every draw is recorded    *)
(* with a pipeline, a view and a texture that fit the target.              *)
THEOREM DrawsAreBound == CmpSpec => []DrawBound
<1>1. CmpInv => DrawBound
  BY DEF CmpInv, CmpKeeps, CmpFits, CmpSteady, DrawBound
<1> QED BY <1>1, CmpAlways, PTL

-----------------------------------------------------------------------------
(* The hook: the invariant.  Again its parts are about what ensure_program  *)
(* changes: the objects that exist and the ContextState.                    *)

GlShows == GlPanels \cup {GlNoPanel}
GlIds == GlNames \cup {0}

GlBindings ==
    [unit : GlUnits, tex : [GlUnits -> GlIds], buf : GlIds, vao : GlIds,
     attr : [GlIds -> {"game", "overlay"}], rest : {"game", "overlay"}]

GlStates ==
    [name : [GlKinds -> GlIds], failed : BOOLEAN, useVao : BOOLEAN, oesVao : BOOLEAN,
     texSize : Nat, content : GlShows, prepared : GlShows]

GlMany == [bound : GlBindings, live : [GlKinds -> SUBSET GlNames], state : GlStates, ok : BOOLEAN]

(* OverlayOwns, of the objects l and the names n; and of textures always.   *)
GlOwns(l, n) ==
    habits \cap {"oes", "elsewhere"} = {} =>
        \A k \in GlKinds : l[k] = owned[k] \cup ({n[k]} \ {0}) /\ n[k] \notin owned[k]
GlTextures(l, n) ==
    /\ owned["tex"] \subseteq l["tex"]
    /\ n["tex"] # 0 => n["tex"] \in l["tex"] /\ n["tex"] \notin owned["tex"]

(* A program is only made once the flavour has been settled.                *)
GlFlavour(s) == s.useVao = (DesiredVao \/ DesiredOes) /\ s.oesVao = DesiredOes

(* Once a texture has contents, nothing is missing any more: no later swap  *)
(* can fail, and so none can be prepared without being uploaded.           *)
GlComplete(s) ==
    s.texSize # 0 =>
        /\ ~s.failed /\ s.name["prog"] # 0 /\ s.name["buf"] # 0 /\ s.name["tex"] # 0
        /\ s.useVao => s.name["vao"] # 0
        /\ s.content \in GlPanels /\ s.texSize = s.content.size

(* The texture stays on unit 0, unless the game binds its own there.        *)
GlSampling(b, s) == s.texSize # 0 /\ "rebinds" \notin habits => b.tex[0] = s.name["tex"]

GlValues ==
    /\ profile \in GlProfiles /\ habits \in GlGames
    /\ bound \in GlBindings /\ state \in GlStates
    /\ glLive \in [GlKinds -> SUBSET GlNames] /\ owned \in [GlKinds -> SUBSET GlNames]

(* The game holds one object at most.                                      *)
GlFew == \A k \in GlKinds : \A m, n \in owned[k] : m = n

GlInv ==
    /\ GlValues /\ GlFew
    /\ GlOwns(glLive, state.name) /\ GlTextures(glLive, state.name)
    /\ state.name["prog"] # 0 => GlFlavour(state)
    /\ GlComplete(state) /\ GlSampling(bound, state)
    /\ state.name["tex"] # 0 => state.texSize # 0
    /\ state.texSize # 0 => state.content = state.prepared
    /\ "switches" \notin habits => bound.unit = 0
LEMMA GlPanelIs ==
    /\ GlNoPanel \in GlShows /\ GlNoPanel \notin GlPanels
    /\ \A p \in GlPanels : p \in GlShows /\ p.size \in Nat /\ p.size # 0
BY GlAssumption DEF GlNoPanel, GlShows

LEMMA GlNamesAre == GlNames \subseteq GlIds /\ 0 \in GlIds /\ 0 \notin GlNames
BY GlAssumption DEF GlIds

LEMMA GlInitInv == GlInit => GlInv
<1> SUFFICES ASSUME GlInit PROVE GlInv
  OBVIOUS
<1>1. bound \in GlBindings /\ bound.unit = 0
  BY GlNamesAre DEF GlInit, GlBindings, FreshBindings, GlUnits, GlIds
<1>2. /\ state \in GlStates /\ state.texSize = 0
      /\ \A k \in GlKinds : state.name[k] = 0
  BY GlNamesAre, GlPanelIs DEF GlInit, GlStates, FreshState, GlIds
<1>3. state.name["prog"] = 0 /\ state.name["tex"] = 0
  BY <1>2 DEF GlKinds
<1>4. GlValues /\ GlFew
  BY <1>1, <1>2 DEF GlInit, GlValues, GlFew
<1>5. GlOwns(glLive, state.name)
  BY <1>2 DEF GlInit, GlOwns
<1>6. GlTextures(glLive, state.name)
  BY <1>3 DEF GlInit, GlTextures, GlKinds
<1> QED BY <1>1, <1>2, <1>3, <1>4, <1>5, <1>6 DEF GlInv, GlComplete, GlSampling

-----------------------------------------------------------------------------
(* The parts of ensure_program.                                             *)

(* What they are given, they keep; with contents there, they do not fail.  *)
GlFit(g) ==
    /\ g \in GlMany /\ g.state.prepared \in GlPanels
    /\ GlOwns(g.live, g.state.name) /\ GlTextures(g.live, g.state.name)
    /\ GlFlavour(g.state) /\ GlComplete(g.state) /\ GlSampling(g.bound, g.state)
    /\ g.state.texSize # 0 => g.ok /\ g.state.content = state.prepared
    /\ "switches" \notin habits => g.bound.unit = 0

(* Before the texture is made.                                              *)
GlBare(g) == g.state.name["tex"] # 0 => g.state.texSize # 0

(* h comes from g: no name is forgotten, who makes nothing binds nothing,  *)
(* and with contents there nothing is made.                                *)
GlFrom(g, h) ==
    /\ \A k \in GlKinds : g.state.name[k] # 0 => h.state.name[k] = g.state.name[k]
    /\ h.state.name = g.state.name => h.bound = g.bound
    /\ h.state.texSize # 0 => /\ h.bound = g.bound /\ h.state.name = g.state.name
                              /\ g.state.texSize # 0
    /\ h.state.prepared = g.state.prepared

LEMMA GlThrough ==
    ASSUME NEW f \in GlMany, NEW g \in GlMany, NEW h \in GlMany, GlFrom(f, g), GlFrom(g, h)
    PROVE  GlFrom(f, h)
<1>1. \A k \in GlKinds : f.state.name[k] # 0 => h.state.name[k] = f.state.name[k]
  BY DEF GlFrom
<1>2. ASSUME h.state.name = f.state.name PROVE h.bound = f.bound
  <2>1. /\ f.state.name \in [GlKinds -> GlIds] /\ g.state.name \in [GlKinds -> GlIds]
        /\ h.state.name \in [GlKinds -> GlIds]
    BY DEF GlMany, GlStates
  <2>2. \A k \in GlKinds : g.state.name[k] = f.state.name[k]
    BY <1>2 DEF GlFrom
  <2>3. g.state.name = f.state.name
    BY <2>1, <2>2
  <2> QED BY <1>2, <2>3 DEF GlFrom
<1>3. h.state.texSize # 0 => /\ h.bound = f.bound /\ h.state.name = f.state.name
                             /\ f.state.texSize # 0
  BY DEF GlFrom
<1> QED BY <1>1, <1>2, <1>3 DEF GlFrom

LEMMA GlFailing ==
    ASSUME NEW g, GlFit(g), g.state.texSize = 0
    PROVE  /\ GlFit(GlFail(g)) /\ ~GlFail(g).ok /\ GlFrom(g, GlFail(g))
           /\ GlFail(g).state = g.state
<1>1. g \in GlMany
  BY DEF GlFit
<1>2. /\ GlFail(g) \in GlMany /\ GlFail(g).bound = g.bound /\ GlFail(g).live = g.live
      /\ GlFail(g).state = g.state /\ GlFail(g).ok = FALSE
  BY <1>1 DEF GlFail, GlMany
<1> QED BY <1>2 DEF GlFit, GlFrom

(* A new object has a name nothing has.                                    *)
LEMMA GlMakes ==
    ASSUME GlFew, NEW g, GlFit(g), NEW k \in GlKinds, g.state.name[k] = 0,
           g.state.texSize = 0, NEW h \in GlMake(g, k), owned \in [GlKinds -> SUBSET GlNames]
    PROVE  /\ GlFit(h) /\ h.bound = g.bound /\ h.ok = g.ok
           /\ h.state.name[k] # 0
           /\ \A j \in GlKinds \ {k} : h.state.name[j] = g.state.name[j]
           /\ h.state.texSize = 0 /\ h.state.failed = g.state.failed
           /\ h.state.useVao = g.state.useVao /\ h.state.prepared = g.state.prepared
<1>1. PICK n \in GlNames \ g.live[k] :
          h = [g EXCEPT !.live[k] = @ \cup {n}, !.state.name[k] = n]
  BY DEF GlMake, NextName
<1>2. /\ g \in GlMany /\ g.state \in GlStates /\ g.live \in [GlKinds -> SUBSET GlNames]
      /\ g.state.name \in [GlKinds -> GlIds] /\ n # 0 /\ n \in GlIds
  BY GlNamesAre DEF GlFit, GlMany, GlStates
<1> DEFINE names == [g.state.name EXCEPT ![k] = n]
           l == [g.live EXCEPT ![k] = g.live[k] \cup {n}]
           s == [g.state EXCEPT !.name = names]
<1>3. names \in [GlKinds -> GlIds] /\ names[k] = n /\ \A j \in GlKinds \ {k} : names[j] = g.state.name[j]
  BY <1>2
<1>4. /\ l \in [GlKinds -> SUBSET GlNames] /\ l[k] = g.live[k] \cup {n}
      /\ \A j \in GlKinds \ {k} : l[j] = g.live[j]
  BY <1>2
<1>5. h = [g EXCEPT !.live = l, !.state = s]
  BY <1>1, <1>2 DEF GlMany, GlStates
<1> HIDE DEF names, l
<1>6. /\ s \in GlStates /\ s.name = names /\ s.texSize = 0 /\ s.failed = g.state.failed
      /\ s.useVao = g.state.useVao /\ s.oesVao = g.state.oesVao
      /\ s.prepared = g.state.prepared /\ s.content = g.state.content
  BY <1>2, <1>3 DEF GlStates
<1> HIDE DEF s
<1>7. h \in GlMany /\ h.bound = g.bound /\ h.ok = g.ok /\ h.live = l /\ h.state = s
  BY <1>2, <1>4, <1>5, <1>6 DEF GlMany
<1>8. GlOwns(l, names)
  <2> SUFFICES ASSUME habits \cap {"oes", "elsewhere"} = {}, NEW j \in GlKinds
               PROVE  l[j] = owned[j] \cup ({names[j]} \ {0}) /\ names[j] \notin owned[j]
    BY DEF GlOwns
  <2>1. g.live[j] = owned[j] \cup ({g.state.name[j]} \ {0}) /\ g.state.name[j] \notin owned[j]
    BY DEF GlFit, GlOwns
  <2>2. CASE j = k
    BY <1>2, <1>3, <1>4, <2>1, <2>2
  <2>3. CASE j # k
    BY <1>3, <1>4, <2>1, <2>3
  <2> QED BY <2>2, <2>3
<1>9. GlTextures(l, names)
  <2>1. GlTextures(g.live, g.state.name) /\ "tex" \in GlKinds
    BY DEF GlFit, GlKinds
  <2>2. CASE k = "tex"
    <3>1. names["tex"] = n /\ l["tex"] = g.live["tex"] \cup {n} /\ n \notin g.live["tex"]
      BY <1>3, <1>4, <2>2
    <3> QED BY <2>1, <3>1 DEF GlTextures
  <2>3. CASE k # "tex"
    BY <1>3, <1>4, <2>1, <2>3 DEF GlTextures
  <2> QED BY <2>2, <2>3
<1>10. GlFit(h)
  BY <1>6, <1>7, <1>8, <1>9 DEF GlFit, GlFlavour, GlComplete, GlSampling
<1> QED BY <1>2, <1>3, <1>6, <1>7, <1>10

(* link_program.                                                           *)
LEMMA GlLinks ==
    ASSUME GlFew, owned \in [GlKinds -> SUBSET GlNames],
           NEW g, GlFit(g), GlBare(g), NEW h \in Linked(g)
    PROVE  /\ GlFit(h) /\ GlBare(h) /\ GlFrom(g, h)
           /\ h.state.useVao = g.state.useVao
           /\ h.ok => /\ g.ok /\ ~h.state.failed /\ h.state.name["prog"] # 0
<1> USE DEF GlBare
<1>1. CASE g.state.failed /\ h = GlFail(g)
  <2>1. g.state.texSize = 0
    BY <1>1 DEF GlFit, GlComplete
  <2> QED BY <1>1, <2>1, GlFailing
<1>2. CASE ~g.state.failed /\ g.state.name["prog"] # 0 /\ h = g
  BY <1>2 DEF GlFrom
<1>3. CASE /\ ~g.state.failed /\ g.state.name["prog"] = 0
           /\ \E m \in GlMake(g, "prog") \cup {g} :
                 \/ h = m /\ m # g
                 \/ h = GlFail([m EXCEPT !.state.failed = TRUE])
  <2>1. g.state.texSize = 0 /\ g.state.name["tex"] = 0 /\ "prog" \in GlKinds /\ "tex" \in GlKinds
    BY <1>3 DEF GlFit, GlComplete, GlKinds
  <2>2. ASSUME NEW m \in GlMake(g, "prog")
        PROVE  /\ GlFit(m) /\ GlBare(m) /\ GlFrom(g, m) /\ m.state.name["prog"] # 0 /\ m.ok = g.ok
               /\ m.state.useVao = g.state.useVao /\ m.state.texSize = 0
               /\ m.state.name["tex"] = 0 /\ m.state.failed = g.state.failed
    <3>1. /\ GlFit(m) /\ m.bound = g.bound /\ m.ok = g.ok
          /\ m.state.name["prog"] # 0
          /\ \A j \in GlKinds \ {"prog"} : m.state.name[j] = g.state.name[j]
          /\ m.state.texSize = 0 /\ m.state.failed = g.state.failed
          /\ m.state.useVao = g.state.useVao /\ m.state.prepared = g.state.prepared
      BY <1>3, <2>1, GlMakes
    <3>2. GlFrom(g, m)
      BY <1>3, <3>1 DEF GlFrom
    <3> QED BY <2>1, <3>1, <3>2
  <2>3. ASSUME NEW m, GlFit(m), GlFrom(g, m), m.state.useVao = g.state.useVao,
               m.state.texSize = 0, m.state.name["tex"] = 0
        PROVE  LET f == GlFail([m EXCEPT !.state.failed = TRUE])
               IN  /\ GlFit(f) /\ GlBare(f) /\ GlFrom(g, f) /\ ~f.ok
                   /\ f.state.useVao = g.state.useVao
    <3> DEFINE f == GlFail([m EXCEPT !.state.failed = TRUE])
               s == [m.state EXCEPT !.failed = TRUE]
    <3>1. m \in GlMany /\ m.state \in GlStates
      BY <2>3 DEF GlFit, GlMany
    <3>2. /\ s \in GlStates /\ s.name = m.state.name /\ s.texSize = 0 /\ s.useVao = m.state.useVao
          /\ s.oesVao = m.state.oesVao /\ s.prepared = m.state.prepared
      BY <2>3, <3>1 DEF GlStates
    <3>3. f = [m EXCEPT !.state = s, !.ok = FALSE]
      BY <3>1 DEF GlFail, GlMany
    <3> HIDE DEF s, f
    <3>4. /\ f \in GlMany /\ f.bound = m.bound /\ f.live = m.live /\ f.state = s /\ ~f.ok
      BY <3>1, <3>2, <3>3 DEF GlMany
    <3>5. GlFit(f)
      BY <2>3, <3>2, <3>4 DEF GlFit, GlFlavour, GlComplete, GlSampling
    <3>6. GlFrom(g, f)
      BY <2>3, <3>2, <3>4 DEF GlFrom
    <3> QED BY <2>3, <3>2, <3>4, <3>5, <3>6 DEF f
  <2>4. GlFrom(g, g)
    BY DEF GlFrom
  <2> QED BY <1>3, <2>1, <2>2, <2>3, <2>4
<1>4. g.state.failed \/ g.state.name["prog"] # 0 \/
        \E m \in GlMake(g, "prog") \cup {g} :
                 \/ h = m /\ m # g
                 \/ h = GlFail([m EXCEPT !.state.failed = TRUE])
  <2> SUFFICES ASSUME ~g.state.failed, g.state.name["prog"] = 0, h \in GlMake(g, "prog")
               PROVE  h # g
    BY DEF Linked
  <2>1. g.state.texSize = 0 /\ "prog" \in GlKinds
    BY DEF GlFit, GlComplete, GlKinds
  <2> QED BY <2>1, GlMakes
<1> QED BY <1>1, <1>2, <1>3, <1>4 DEF Linked

(* ensure_geometry.                                                        *)
LEMMA GlBuffers ==
    ASSUME GlFew, owned \in [GlKinds -> SUBSET GlNames],
           NEW g, GlFit(g), GlBare(g), NEW h \in WithBuffer(g)
    PROVE  /\ GlFit(h) /\ GlBare(h) /\ GlFrom(g, h)
           /\ h.state.useVao = g.state.useVao /\ h.state.failed = g.state.failed
           /\ h.state.name["prog"] = g.state.name["prog"]
           /\ h.ok => g.ok /\ h.state.name["buf"] # 0
<1> USE DEF GlBare
<1>1. CASE g.state.name["buf"] # 0 /\ h = g
  BY <1>1 DEF GlFrom
<1>2. CASE g.state.name["buf"] = 0
  <2>1. /\ g.state.texSize = 0 /\ g.state.name["tex"] = 0
        /\ "buf" \in GlKinds /\ "tex" \in GlKinds /\ "prog" \in GlKinds
    BY <1>2 DEF GlFit, GlComplete, GlKinds
  <2>2. CASE h = GlFail(g)
    BY <2>1, <2>2, GlFailing
  <2>3. ASSUME NEW m \in GlMake(g, "buf"), h = [m EXCEPT !.bound.buf = m.state.name["buf"]]
        PROVE  /\ GlFit(h) /\ GlBare(h) /\ GlFrom(g, h)
               /\ h.state.useVao = g.state.useVao /\ h.state.failed = g.state.failed
               /\ h.state.name["prog"] = g.state.name["prog"]
               /\ h.ok => g.ok /\ h.state.name["buf"] # 0
    <3>1. /\ GlFit(m) /\ m.ok = g.ok
          /\ m.state.name["buf"] # 0
          /\ \A j \in GlKinds \ {"buf"} : m.state.name[j] = g.state.name[j]
          /\ m.state.texSize = 0 /\ m.state.failed = g.state.failed
          /\ m.state.useVao = g.state.useVao /\ m.state.prepared = g.state.prepared
      BY <1>2, <2>1, GlMakes
    <3> DEFINE b == [m.bound EXCEPT !.buf = m.state.name["buf"]]
    <3>2. m \in GlMany /\ m.bound \in GlBindings /\ m.state.name["buf"] \in GlIds
      BY <2>1, <3>1 DEF GlFit, GlMany, GlStates
    <3>3. b \in GlBindings /\ b.unit = m.bound.unit /\ b.tex = m.bound.tex
      BY <3>2 DEF GlBindings
    <3>4. h = [m EXCEPT !.bound = b]
      BY <2>3, <3>2 DEF GlMany
    <3> HIDE DEF b
    <3>5. h \in GlMany /\ h.bound = b /\ h.live = m.live /\ h.state = m.state /\ h.ok = m.ok
      BY <3>2, <3>3, <3>4 DEF GlMany
    <3>6. GlFit(h)
      BY <3>1, <3>3, <3>5 DEF GlFit, GlFlavour, GlComplete, GlSampling
    <3>7. GlFrom(g, h)
      BY <1>2, <3>1, <3>5 DEF GlFrom
    <3> QED BY <2>1, <3>1, <3>5, <3>6, <3>7
  <2> QED BY <1>2, <2>2, <2>3 DEF WithBuffer
<1> QED BY <1>1, <1>2 DEF WithBuffer

LEMMA GlArrays ==
    ASSUME GlFew, owned \in [GlKinds -> SUBSET GlNames],
           NEW g, GlFit(g), GlBare(g), NEW h \in WithVao(g)
    PROVE  /\ GlFit(h) /\ GlBare(h) /\ GlFrom(g, h)
           /\ h.state.useVao = g.state.useVao /\ h.state.failed = g.state.failed
           /\ h.state.name["prog"] = g.state.name["prog"]
           /\ h.state.name["buf"] = g.state.name["buf"]
           /\ h.ok => g.ok /\ (h.state.useVao => h.state.name["vao"] # 0)
<1> USE DEF GlBare
<1>1. CASE (~g.state.useVao \/ g.state.name["vao"] # 0) /\ h = g
  BY <1>1 DEF GlFrom
<1>2. CASE g.state.useVao /\ g.state.name["vao"] = 0
  <2>1. /\ g.state.texSize = 0 /\ g.state.name["tex"] = 0
        /\ "vao" \in GlKinds /\ "buf" \in GlKinds /\ "tex" \in GlKinds /\ "prog" \in GlKinds
    BY <1>2 DEF GlFit, GlComplete, GlKinds
  <2>2. CASE h = GlFail(g)
    BY <2>1, <2>2, GlFailing
  <2>3. ASSUME NEW m \in GlMake(g, "vao"), h = BindVao(m)
        PROVE  /\ GlFit(h) /\ GlBare(h) /\ GlFrom(g, h)
               /\ h.state.useVao = g.state.useVao /\ h.state.failed = g.state.failed
               /\ h.state.name["prog"] = g.state.name["prog"]
               /\ h.state.name["buf"] = g.state.name["buf"]
               /\ h.ok => g.ok /\ h.state.name["vao"] # 0
    <3>1. /\ GlFit(m) /\ m.ok = g.ok
          /\ m.state.name["vao"] # 0
          /\ \A j \in GlKinds \ {"vao"} : m.state.name[j] = g.state.name[j]
          /\ m.state.texSize = 0 /\ m.state.failed = g.state.failed
          /\ m.state.useVao = g.state.useVao /\ m.state.prepared = g.state.prepared
      <4>1. g.state.name["vao"] = 0 /\ g.state.texSize = 0 /\ "vao" \in GlKinds
        BY <1>2, <2>1
      <4> QED BY <4>1, GlMakes
    <3> DEFINE attr == [m.bound.attr EXCEPT ![m.state.name["vao"]] = "overlay"]
               b == [m.bound EXCEPT !.vao = m.state.name["vao"], !.buf = m.state.name["buf"],
                                    !.attr = attr]
    <3>2. /\ m \in GlMany /\ m.bound \in GlBindings /\ m.state.name["buf"] \in GlIds
          /\ m.state.name["vao"] \in GlIds
          /\ m.bound.attr \in [GlIds -> {"game", "overlay"}]
      BY <2>1, <3>1 DEF GlFit, GlMany, GlStates, GlBindings
    <3>3. attr \in [GlIds -> {"game", "overlay"}]
      BY <3>2
    <3>4. h = [m EXCEPT !.bound = b]
      BY <2>3, <3>2 DEF GlMany, GlBindings, BindVao
    <3> HIDE DEF attr
    <3>5. b \in GlBindings /\ b.unit = m.bound.unit /\ b.tex = m.bound.tex
      BY <3>2, <3>3 DEF GlBindings
    <3> HIDE DEF b
    <3>6. h \in GlMany /\ h.bound = b /\ h.live = m.live /\ h.state = m.state /\ h.ok = m.ok
      BY <3>2, <3>4, <3>5 DEF GlMany
    <3>7. GlFit(h)
      BY <3>1, <3>5, <3>6 DEF GlFit, GlFlavour, GlComplete, GlSampling
    <3>8. GlFrom(g, h)
      BY <1>2, <3>1, <3>6 DEF GlFrom
    <3> QED BY <2>1, <3>1, <3>6, <3>7, <3>8
  <2> QED BY <1>2, <2>2, <2>3 DEF WithVao
<1> QED BY <1>1, <1>2 DEF WithVao

(* The texture, on the unit the game left active.                           *)
LEMMA GlTextured ==
    ASSUME GlFew, owned \in [GlKinds -> SUBSET GlNames],
           NEW g, GlFit(g), GlBare(g), NEW h \in WithTexture(g)
    PROVE  /\ GlFit(h) /\ GlFrom(g, h)
           /\ h.state.useVao = g.state.useVao /\ h.state.failed = g.state.failed
           /\ h.state.name["prog"] = g.state.name["prog"]
           /\ h.state.name["buf"] = g.state.name["buf"]
           /\ h.state.name["vao"] = g.state.name["vao"]
           /\ ~h.ok => GlBare(h) \/ ~g.ok
           /\ h.ok => /\ g.ok /\ h.state.name["tex"] # 0
                      /\ h.state.texSize = 0 => h.bound.tex[h.bound.unit] = h.state.name["tex"]
<1> USE DEF GlBare
<1>1. CASE g.state.name["tex"] # 0 /\ h = g
  BY <1>1 DEF GlFrom
<1>2. CASE g.state.name["tex"] = 0
  <2>1. /\ g.state.texSize = 0
        /\ "tex" \in GlKinds /\ "vao" \in GlKinds /\ "buf" \in GlKinds /\ "prog" \in GlKinds
    BY <1>2 DEF GlFit, GlComplete, GlKinds
  <2>2. CASE h = GlFail(g)
    BY <1>2, <2>1, <2>2, GlFailing
  <2>3. ASSUME NEW m \in GlMake(g, "tex"),
               h = [m EXCEPT !.bound.tex[m.bound.unit] = m.state.name["tex"]]
        PROVE  /\ GlFit(h) /\ GlFrom(g, h)
               /\ h.state.useVao = g.state.useVao /\ h.state.failed = g.state.failed
               /\ \A j \in GlKinds \ {"tex"} : h.state.name[j] = g.state.name[j]
               /\ h.ok = g.ok /\ h.state.name["tex"] # 0
               /\ h.bound.tex[h.bound.unit] = h.state.name["tex"]
    <3>1. /\ GlFit(m) /\ m.ok = g.ok /\ m.bound = g.bound
          /\ m.state.name["tex"] # 0
          /\ \A j \in GlKinds \ {"tex"} : m.state.name[j] = g.state.name[j]
          /\ m.state.texSize = 0 /\ m.state.failed = g.state.failed
          /\ m.state.useVao = g.state.useVao /\ m.state.prepared = g.state.prepared
      BY <1>2, <2>1, GlMakes
    <3> DEFINE tex == [m.bound.tex EXCEPT ![m.bound.unit] = m.state.name["tex"]]
               b == [m.bound EXCEPT !.tex = tex]
    <3>2. /\ m \in GlMany /\ m.bound \in GlBindings /\ m.state.name["tex"] \in GlIds
          /\ m.bound.tex \in [GlUnits -> GlIds] /\ m.bound.unit \in GlUnits
      BY <2>1, <3>1 DEF GlFit, GlMany, GlStates, GlBindings
    <3>3. tex \in [GlUnits -> GlIds] /\ tex[m.bound.unit] = m.state.name["tex"]
      BY <3>2
    <3>4. h = [m EXCEPT !.bound = b]
      BY <2>3, <3>2 DEF GlMany, GlBindings
    <3> HIDE DEF tex
    <3>5. b \in GlBindings /\ b.unit = m.bound.unit /\ b.tex = tex
      BY <3>2, <3>3 DEF GlBindings
    <3> HIDE DEF b
    <3>6. h \in GlMany /\ h.bound = b /\ h.live = m.live /\ h.state = m.state /\ h.ok = m.ok
      BY <3>2, <3>4, <3>5 DEF GlMany
    <3>7. GlFit(h)
      BY <3>1, <3>5, <3>6 DEF GlFit, GlFlavour, GlComplete, GlSampling
    <3>8. GlFrom(g, h)
      BY <1>2, <2>1, <3>1, <3>6 DEF GlFrom
    <3> QED BY <3>1, <3>3, <3>5, <3>6, <3>7, <3>8
  <2> QED BY <1>2, <2>1, <2>2, <2>3 DEF WithTexture
<1> QED BY <1>1, <1>2 DEF WithTexture

LEMMA GlDeletes ==
    ASSUME NEW g \in GlMany, NEW k \in GlKinds, NEW n
    PROVE  LET h == GlDelete(g, k, n)
           IN  /\ h \in GlMany /\ h.bound = g.bound /\ h.state = g.state /\ h.ok = g.ok
               /\ h.live[k] = g.live[k] \ {n}
               /\ \A j \in GlKinds \ {k} : h.live[j] = g.live[j]
<1> DEFINE h == GlDelete(g, k, n)
           l == [g.live EXCEPT ![k] = g.live[k] \ {n}]
<1>1. g.live \in [GlKinds -> SUBSET GlNames]
  BY DEF GlMany
<1>2. /\ l \in [GlKinds -> SUBSET GlNames] /\ l[k] = g.live[k] \ {n}
      /\ \A j \in GlKinds \ {k} : l[j] = g.live[j]
  BY <1>1
<1>3. h = [g EXCEPT !.live = l]
  BY DEF GlDelete, GlMany
<1> HIDE DEF l, h
<1>4. h \in GlMany /\ h.bound = g.bound /\ h.state = g.state /\ h.ok = g.ok /\ h.live = l
  BY <1>2, <1>3 DEF GlMany
<1> QED BY <1>2, <1>4 DEF h

(* Everything the hook made goes.                                           *)
LEMMA GlDropped ==
    ASSUME NEW g \in GlMany
    PROVE  LET Drop(h, k) == GlDelete(h, k, h.state.name[k])
           IN  \A d \in {Drop(Drop(Drop(Drop(g, "prog"), "vao"), "buf"), "tex"),
                         Drop(Drop(Drop(Drop(g, "prog"), "tex"), "buf"), "vao")} :
                   /\ d \in GlMany /\ d.bound = g.bound /\ d.state = g.state /\ d.ok = g.ok
                   /\ \A k \in GlKinds : d.live[k] = g.live[k] \ {g.state.name[k]}
<1> DEFINE Drop(h, k) == GlDelete(h, k, h.state.name[k])
           Dropped(h, S) ==
               /\ h \in GlMany /\ h.bound = g.bound /\ h.state = g.state /\ h.ok = g.ok
               /\ \A k \in S : h.live[k] = g.live[k] \ {g.state.name[k]}
               /\ \A k \in GlKinds \ S : h.live[k] = g.live[k]
<1>1. ASSUME NEW S \in SUBSET GlKinds, NEW h, Dropped(h, S), NEW k \in GlKinds \ S
      PROVE  Dropped(Drop(h, k), S \cup {k})
  <2>1. /\ Drop(h, k) \in GlMany /\ Drop(h, k).bound = h.bound /\ Drop(h, k).state = h.state
        /\ Drop(h, k).ok = h.ok
        /\ Drop(h, k).live[k] = h.live[k] \ {h.state.name[k]}
        /\ \A j \in GlKinds \ {k} : Drop(h, k).live[j] = h.live[j]
    BY <1>1, GlDeletes
  <2> HIDE DEF Drop
  <2>2. h.live[k] = g.live[k] /\ h.state = g.state
    BY <1>1
  <2>3. \A j \in S : Drop(h, k).live[j] = g.live[j] \ {g.state.name[j]}
    BY <1>1, <2>1
  <2>4. \A j \in GlKinds \ (S \cup {k}) : Drop(h, k).live[j] = g.live[j]
    BY <1>1, <2>1
  <2> QED BY <1>1, <2>1, <2>2, <2>3, <2>4
<1>2. /\ "prog" \in GlKinds /\ "vao" \in GlKinds /\ "buf" \in GlKinds /\ "tex" \in GlKinds
      /\ GlKinds = {"prog", "vao", "buf", "tex"}
  BY DEF GlKinds
<1>3. Dropped(g, {})
  OBVIOUS
<1> HIDE DEF Drop, Dropped
<1>4. Dropped(Drop(g, "prog"), {"prog"})
  <2>1. Dropped(Drop(g, "prog"), {} \cup {"prog"})
    BY <1>1, <1>2, <1>3
  <2>2. {} \cup {"prog"} = {"prog"}
    OBVIOUS
  <2> QED BY <2>1, <2>2
<1>5. Dropped(Drop(Drop(g, "prog"), "vao"), {"prog", "vao"})
  <2>1. Dropped(Drop(Drop(g, "prog"), "vao"), {"prog"} \cup {"vao"})
    BY <1>1, <1>2, <1>4
  <2>2. {"prog"} \cup {"vao"} = {"prog", "vao"}
    OBVIOUS
  <2> QED BY <2>1, <2>2
<1>6. Dropped(Drop(Drop(g, "prog"), "tex"), {"prog", "tex"})
  <2>1. Dropped(Drop(Drop(g, "prog"), "tex"), {"prog"} \cup {"tex"})
    BY <1>1, <1>2, <1>4
  <2>2. {"prog"} \cup {"tex"} = {"prog", "tex"}
    OBVIOUS
  <2> QED BY <2>1, <2>2
<1>7. Dropped(Drop(Drop(Drop(g, "prog"), "vao"), "buf"), {"prog", "vao", "buf"})
  <2>1. Dropped(Drop(Drop(Drop(g, "prog"), "vao"), "buf"), {"prog", "vao"} \cup {"buf"})
    BY <1>1, <1>2, <1>5
  <2>2. {"prog", "vao"} \cup {"buf"} = {"prog", "vao", "buf"}
    OBVIOUS
  <2> QED BY <2>1, <2>2
<1>8. Dropped(Drop(Drop(Drop(g, "prog"), "tex"), "buf"), {"prog", "tex", "buf"})
  <2>1. Dropped(Drop(Drop(Drop(g, "prog"), "tex"), "buf"), {"prog", "tex"} \cup {"buf"})
    BY <1>1, <1>2, <1>6
  <2>2. {"prog", "tex"} \cup {"buf"} = {"prog", "tex", "buf"}
    OBVIOUS
  <2> QED BY <2>1, <2>2
<1>9. Dropped(Drop(Drop(Drop(Drop(g, "prog"), "vao"), "buf"), "tex"), GlKinds)
  <2>1. Dropped(Drop(Drop(Drop(Drop(g, "prog"), "vao"), "buf"), "tex"),
                {"prog", "vao", "buf"} \cup {"tex"})
    BY <1>1, <1>2, <1>7
  <2>2. {"prog", "vao", "buf"} \cup {"tex"} = GlKinds
    BY <1>2
  <2> QED BY <2>1, <2>2
<1>10. Dropped(Drop(Drop(Drop(Drop(g, "prog"), "tex"), "buf"), "vao"), GlKinds)
  <2>1. Dropped(Drop(Drop(Drop(Drop(g, "prog"), "tex"), "buf"), "vao"),
                {"prog", "tex", "buf"} \cup {"vao"})
    BY <1>1, <1>2, <1>8
  <2>2. {"prog", "tex", "buf"} \cup {"vao"} = GlKinds
    BY <1>2
  <2> QED BY <2>1, <2>2
<1>11. \A d : Dropped(d, GlKinds) =>
             /\ d \in GlMany /\ d.bound = g.bound /\ d.state = g.state /\ d.ok = g.ok
             /\ \A k \in GlKinds : d.live[k] = g.live[k] \ {g.state.name[k]}
  BY DEF Dropped
<1> QED BY <1>9, <1>10, <1>11 DEF Drop

LEMMA GlForgets ==
    ASSUME NEW g \in GlMany, NEW k \in GlKinds
    PROVE  LET h == [g EXCEPT !.state.name[k] = 0]
           IN  /\ h \in GlMany /\ h.bound = g.bound /\ h.live = g.live /\ h.ok = g.ok
               /\ h.state.prepared = g.state.prepared /\ h.state.name[k] = 0
<1> DEFINE names == [g.state.name EXCEPT ![k] = 0]
           s == [g.state EXCEPT !.name = names]
           h == [g EXCEPT !.state.name[k] = 0]
<1>1. g.state \in GlStates /\ g.state.name \in [GlKinds -> GlIds]
  BY DEF GlMany, GlStates
<1>2. names \in [GlKinds -> GlIds] /\ names[k] = 0
  BY <1>1, GlNamesAre
<1>3. h = [g EXCEPT !.state = s]
  OBVIOUS
<1> HIDE DEF names, h
<1>4. s \in GlStates /\ s.name = names /\ s.prepared = g.state.prepared
  BY <1>1, <1>2 DEF GlStates
<1> HIDE DEF s
<1>5. h \in GlMany /\ h.bound = g.bound /\ h.live = g.live /\ h.ok = g.ok /\ h.state = s
  BY <1>3, <1>4 DEF GlMany
<1> QED BY <1>2, <1>4, <1>5 DEF h

(* What a swap starts with.                                                 *)
GlStart(p) == [bound |-> bound, live |-> glLive, ok |-> TRUE,
               state |-> [state EXCEPT !.prepared = p]]

LEMMA GlStarts ==
    ASSUME GlInv, NEW p \in GlPanels
    PROVE  /\ GlStart(p) \in GlMany /\ GlStart(p).bound = bound /\ GlStart(p).live = glLive
           /\ GlStart(p).ok /\ GlStart(p).state \in GlStates
           /\ GlStart(p).state.name = state.name /\ GlStart(p).state.failed = state.failed
           /\ GlStart(p).state.useVao = state.useVao /\ GlStart(p).state.oesVao = state.oesVao
           /\ GlStart(p).state.texSize = state.texSize
           /\ GlStart(p).state.content = state.content /\ GlStart(p).state.prepared = p
<1> DEFINE s == [state EXCEPT !.prepared = p]
<1>1. /\ s \in GlStates /\ s.name = state.name /\ s.failed = state.failed
      /\ s.useVao = state.useVao /\ s.oesVao = state.oesVao /\ s.texSize = state.texSize
      /\ s.content = state.content /\ s.prepared = p
  BY GlPanelIs DEF GlInv, GlValues, GlStates
<1> HIDE DEF s
<1>2. GlStart(p) = [bound |-> bound, live |-> glLive, ok |-> TRUE, state |-> s]
  BY DEF GlStart, s
<1> QED BY <1>1, <1>2 DEF GlInv, GlValues, GlMany

(* The flavour is settled: only where the driver offers "oes" are objects   *)
(* given up for it.                                                        *)
LEMMA GlFlavours ==
    ASSUME GlInv, NEW p \in GlPanels
    PROVE  LET f == Flavoured(GlStart(p))
           IN  /\ GlFit(f) /\ GlBare(f) /\ f.ok
               /\ "oes" \notin habits => GlFrom(GlStart(p), f)
               /\ f.state.texSize # 0 => f.bound = bound /\ f.state.name = state.name
               /\ f.state.prepared = p
<1> DEFINE g == GlStart(p)
           f == Flavoured(g)
           Drop(h, k) == GlDelete(h, k, h.state.name[k])
           stale == /\ g.state.name["prog"] # 0
                    /\ \/ g.state.useVao # DesiredVao
                       \/ g.state.oesVao # DesiredOes
           d == Drop(Drop(Drop(Drop(g, "prog"), "vao"), "buf"), "tex")
           e == [d EXCEPT !.state.name["prog"] = 0, !.state.name["buf"] = 0,
                          !.state.name["tex"] = 0, !.state.texSize = 0]
           Settled(h) == [h EXCEPT !.state.useVao = DesiredVao \/ DesiredOes,
                                   !.state.oesVao = DesiredOes]
<1>1. /\ g \in GlMany /\ g.bound = bound /\ g.live = glLive /\ g.ok /\ g.state \in GlStates
      /\ g.state.name = state.name /\ g.state.failed = state.failed
      /\ g.state.useVao = state.useVao /\ g.state.oesVao = state.oesVao
      /\ g.state.texSize = state.texSize
      /\ g.state.content = state.content /\ g.state.prepared = p
  BY GlStarts
<1>2. f = Settled(IF stale THEN e ELSE g)
  BY DEF Flavoured
<1>3. /\ d \in GlMany /\ d.bound = g.bound /\ d.state = g.state /\ d.ok = g.ok
      /\ \A k \in GlKinds : d.live[k] = g.live[k] \ {g.state.name[k]}
  BY <1>1, GlDropped
<1> HIDE DEF g, d, f
<1>4. DesiredVao \in BOOLEAN /\ DesiredOes \in BOOLEAN /\ (DesiredOes => ~DesiredVao /\ "oes" \in habits)
  BY DEF DesiredVao, DesiredOes
<1>5. ASSUME NEW h \in GlMany
      PROVE  /\ Settled(h) \in GlMany /\ Settled(h).bound = h.bound /\ Settled(h).live = h.live
             /\ Settled(h).ok = h.ok /\ GlFlavour(Settled(h).state)
             /\ Settled(h).state.name = h.state.name /\ Settled(h).state.failed = h.state.failed
             /\ Settled(h).state.texSize = h.state.texSize
             /\ Settled(h).state.content = h.state.content
             /\ Settled(h).state.prepared = h.state.prepared
             /\ Settled(h).state.useVao = (DesiredVao \/ DesiredOes)
  <2> DEFINE s == [h.state EXCEPT !.useVao = DesiredVao \/ DesiredOes, !.oesVao = DesiredOes]
  <2>1. h.state \in GlStates
    BY DEF GlMany
  <2>2. /\ s \in GlStates /\ s.name = h.state.name /\ s.failed = h.state.failed
        /\ s.texSize = h.state.texSize /\ s.content = h.state.content
        /\ s.prepared = h.state.prepared
        /\ s.useVao = (DesiredVao \/ DesiredOes) /\ s.oesVao = DesiredOes
    BY <1>4, <2>1 DEF GlStates
  <2>3. Settled(h) = [h EXCEPT !.state = s]
    BY DEF GlMany, GlStates
  <2> HIDE DEF s, Settled
  <2>4. /\ Settled(h) \in GlMany /\ Settled(h).bound = h.bound /\ Settled(h).live = h.live
        /\ Settled(h).ok = h.ok /\ Settled(h).state = s
    BY <2>2, <2>3 DEF GlMany
  <2> QED BY <2>2, <2>4 DEF GlFlavour
<1> HIDE DEF Settled
<1>6. /\ GlFlavour(state) \/ state.name["prog"] = 0
      /\ state.name["prog"] = 0 => state.texSize = 0
      /\ GlComplete(state) /\ GlOwns(glLive, state.name) /\ GlTextures(glLive, state.name)
      /\ GlSampling(bound, state)
      /\ state.name["tex"] # 0 => state.texSize # 0
      /\ state.texSize # 0 => state.content = state.prepared
      /\ "switches" \notin habits => bound.unit = 0
  BY DEF GlInv, GlComplete
<1>7. CASE ~stale
  <2>1. f = Settled(g)
    BY <1>2, <1>7
  <2>2. state.texSize # 0 => state.useVao = (DesiredVao \/ DesiredOes)
    BY <1>6 DEF GlFlavour
  <2>3. /\ f \in GlMany /\ f.bound = bound /\ f.live = glLive /\ f.ok /\ GlFlavour(f.state)
        /\ f.state.name = state.name /\ f.state.failed = state.failed
        /\ f.state.texSize = state.texSize /\ f.state.content = state.content
        /\ f.state.prepared = p /\ f.state.useVao = (DesiredVao \/ DesiredOes)
    BY <1>1, <1>5, <2>1
  <2>4. GlComplete(f.state)
    BY <1>6, <2>2, <2>3 DEF GlComplete
  <2>5. GlFit(f) /\ GlBare(f)
    BY <1>6, <2>3, <2>4 DEF GlFit, GlBare, GlSampling
  <2>6. GlFrom(g, f)
    BY <1>1, <2>3 DEF GlFrom
  <2> QED BY <2>3, <2>5, <2>6 DEF f, g
<1>8. CASE stale
  <2>1. "oes" \in habits
    BY <1>1, <1>4, <1>6, <1>8 DEF GlFlavour
  <2> DEFINE d1 == [d EXCEPT !.state.name["prog"] = 0]
             d2 == [d1 EXCEPT !.state.name["buf"] = 0]
             d3 == [d2 EXCEPT !.state.name["tex"] = 0]
             s == [d3.state EXCEPT !.texSize = 0]
  <2>2. e = [d3 EXCEPT !.state.texSize = 0]
    OBVIOUS
  <2> HIDE DEF e, d3
  <2>3. /\ d3 \in GlMany /\ d3.bound = d.bound /\ d3.live = d.live /\ d3.ok = d.ok
        /\ d3.state.prepared = p /\ d3.state.name["tex"] = 0
    <3>0. "prog" \in GlKinds /\ "buf" \in GlKinds /\ "tex" \in GlKinds
      BY DEF GlKinds
    <3>1. /\ d1 \in GlMany /\ d1.bound = d.bound /\ d1.live = d.live /\ d1.ok = d.ok
          /\ d1.state.prepared = d.state.prepared /\ d1.state.name["prog"] = 0
      <4>1. d \in GlMany /\ "prog" \in GlKinds
        BY <1>3, <3>0
      <4> HIDE DEF d
      <4> QED BY <4>1, GlForgets
    <3> HIDE DEF d1
    <3>2. /\ d2 \in GlMany /\ d2.bound = d1.bound /\ d2.live = d1.live /\ d2.ok = d1.ok
          /\ d2.state.prepared = d1.state.prepared /\ d2.state.name["buf"] = 0
      <4>1. d1 \in GlMany /\ "buf" \in GlKinds
        BY <3>0, <3>1
      <4> QED BY <4>1, GlForgets
    <3> HIDE DEF d2
    <3>3. d3 = [d2 EXCEPT !.state.name["tex"] = 0]
      BY DEF d3
    <3>4. "tex" \in GlKinds
      BY <3>0
    <3>5. /\ d3 \in GlMany /\ d3.bound = d2.bound /\ d3.live = d2.live /\ d3.ok = d2.ok
          /\ d3.state.prepared = d2.state.prepared /\ d3.state.name["tex"] = 0
      BY <3>2, <3>3, <3>4, GlForgets
    <3> QED BY <1>1, <1>3, <3>1, <3>2, <3>5
  <2>4. /\ s \in GlStates /\ s.name = d3.state.name /\ s.texSize = 0 /\ s.prepared = p
    BY <2>3 DEF GlStates, GlMany
  <2>e. e = [d3 EXCEPT !.state = s]
    BY <2>2
  <2> HIDE DEF s
  <2>5. /\ e \in GlMany /\ e.bound = bound /\ e.live = d.live /\ e.ok /\ e.state = s
        /\ s.name["tex"] = 0
    BY <1>1, <1>3, <2>3, <2>4, <2>e DEF GlMany
  <2>6. f = Settled(e)
    BY <1>2, <1>8
  <2>7. /\ f \in GlMany /\ f.bound = bound /\ f.live = d.live /\ f.ok /\ GlFlavour(f.state)
        /\ f.state.name["tex"] = 0 /\ f.state.texSize = 0 /\ f.state.prepared = p
    BY <1>5, <2>4, <2>5, <2>6
  <2>8. GlOwns(f.live, f.state.name)
    BY <2>1 DEF GlOwns
  <2>9. GlTextures(f.live, f.state.name)
    <3>1. d.live["tex"] = glLive["tex"] \ {state.name["tex"]}
      BY <1>1, <1>3 DEF GlKinds
    <3>2. owned["tex"] \subseteq GlNames
      BY DEF GlInv, GlValues, GlKinds
    <3> QED BY <1>6, <2>7, <3>1, <3>2, GlNamesAre DEF GlTextures
  <2>10. GlFit(f) /\ GlBare(f)
    BY <1>6, <2>7, <2>8, <2>9 DEF GlFit, GlBare, GlSampling, GlComplete
  <2> QED BY <2>1, <2>7, <2>10 DEF f, g
<1> QED BY <1>7, <1>8

(* What ensure_program leaves.  If it ends well nothing is missing; a new   *)
(* texture is bound where it was made.                                     *)
LEMMA GlEnsures ==
    ASSUME GlInv, NEW p \in GlPanels, NEW h \in EnsureProgram(GlStart(p))
    PROVE  /\ GlFit(h) /\ h.state.prepared = p
           /\ "oes" \notin habits => GlFrom(GlStart(p), h)
           /\ h.state.texSize # 0 => h.bound = bound /\ h.state.name = state.name
           /\ ~h.ok => GlBare(h)
           /\ h.ok => /\ ~h.state.failed /\ h.state.name["prog"] # 0
                      /\ h.state.name["buf"] # 0 /\ h.state.name["tex"] # 0
                      /\ h.state.useVao => h.state.name["vao"] # 0
                      /\ h.state.texSize = 0 => h.bound.tex[h.bound.unit] = h.state.name["tex"]
<1> DEFINE f == Flavoured(GlStart(p))
<1>1. /\ GlFit(f) /\ GlBare(f) /\ f.ok /\ f.state.prepared = p
      /\ "oes" \notin habits => GlFrom(GlStart(p), f)
      /\ f.state.texSize # 0 => f.bound = bound /\ f.state.name = state.name
  BY GlFlavours
<1>2. GlFew /\ owned \in [GlKinds -> SUBSET GlNames]
  BY DEF GlInv, GlValues
<1>3. \E l \in (IF f.ok THEN Linked(f) ELSE {f}) :
      \E b \in (IF l.ok THEN WithBuffer(l) ELSE {l}) :
      \E v \in (IF b.ok THEN WithVao(b) ELSE {b}) :
          h \in (IF v.ok THEN WithTexture(v) ELSE {v})
  BY DEF EnsureProgram, GlThen
<1> HIDE DEF f
<1>4. PICK l \in Linked(f) :
      \E b \in (IF l.ok THEN WithBuffer(l) ELSE {l}) :
      \E v \in (IF b.ok THEN WithVao(b) ELSE {b}) :
          h \in (IF v.ok THEN WithTexture(v) ELSE {v})
  BY <1>1, <1>3
<1>5. PICK b \in (IF l.ok THEN WithBuffer(l) ELSE {l}) :
      \E v \in (IF b.ok THEN WithVao(b) ELSE {b}) :
          h \in (IF v.ok THEN WithTexture(v) ELSE {v})
  BY <1>4
<1>6. PICK v \in (IF b.ok THEN WithVao(b) ELSE {b}) :
          h \in (IF v.ok THEN WithTexture(v) ELSE {v})
  BY <1>5
<1>7. /\ GlFit(l) /\ GlBare(l) /\ GlFrom(f, l)
      /\ l.ok => ~l.state.failed /\ l.state.name["prog"] # 0
  BY <1>1, <1>2, <1>4, GlLinks
<1>8. /\ GlFit(b) /\ GlBare(b) /\ GlFrom(f, b)
      /\ b.ok => ~b.state.failed /\ b.state.name["prog"] # 0 /\ b.state.name["buf"] # 0
  <2>1. CASE l.ok /\ b \in WithBuffer(l)
    <3>1. /\ GlFit(b) /\ GlBare(b) /\ GlFrom(l, b)
          /\ b.state.failed = l.state.failed
          /\ b.state.name["prog"] = l.state.name["prog"]
          /\ b.ok => b.state.name["buf"] # 0
      BY <1>2, <1>7, <2>1, GlBuffers
    <3>2. GlFrom(f, b)
      BY <1>1, <1>7, <3>1, GlThrough DEF GlFit
    <3> QED BY <1>7, <2>1, <3>1, <3>2
  <2>2. CASE ~l.ok /\ b = l
    BY <1>7, <2>2
  <2> QED BY <1>5, <2>1, <2>2
<1>9. /\ GlFit(v) /\ GlBare(v) /\ GlFrom(f, v)
      /\ v.ok => /\ ~v.state.failed /\ v.state.name["prog"] # 0 /\ v.state.name["buf"] # 0
                 /\ v.state.useVao => v.state.name["vao"] # 0
  <2>1. CASE b.ok /\ v \in WithVao(b)
    <3>1. /\ GlFit(v) /\ GlBare(v) /\ GlFrom(b, v)
          /\ v.state.failed = b.state.failed
          /\ v.state.name["prog"] = b.state.name["prog"]
          /\ v.state.name["buf"] = b.state.name["buf"]
          /\ v.ok => (v.state.useVao => v.state.name["vao"] # 0)
      BY <1>2, <1>8, <2>1, GlArrays
    <3>2. GlFrom(f, v)
      BY <1>1, <1>8, <3>1, GlThrough DEF GlFit
    <3> QED BY <1>8, <2>1, <3>1, <3>2
  <2>2. CASE ~b.ok /\ v = b
    BY <1>8, <2>2
  <2> QED BY <1>6, <2>1, <2>2
<1>10. /\ GlFit(h) /\ GlFrom(f, h)
       /\ ~h.ok => GlBare(h)
       /\ h.ok => /\ ~h.state.failed /\ h.state.name["prog"] # 0
                  /\ h.state.name["buf"] # 0 /\ h.state.name["tex"] # 0
                  /\ h.state.useVao => h.state.name["vao"] # 0
                  /\ h.state.texSize = 0 => h.bound.tex[h.bound.unit] = h.state.name["tex"]
  <2>1. CASE v.ok /\ h \in WithTexture(v)
    <3>1. /\ GlFit(h) /\ GlFrom(v, h)
          /\ h.state.useVao = v.state.useVao /\ h.state.failed = v.state.failed
          /\ h.state.name["prog"] = v.state.name["prog"]
          /\ h.state.name["buf"] = v.state.name["buf"]
          /\ h.state.name["vao"] = v.state.name["vao"]
          /\ ~h.ok => GlBare(h)
          /\ h.ok => /\ h.state.name["tex"] # 0
                     /\ h.state.texSize = 0 => h.bound.tex[h.bound.unit] = h.state.name["tex"]
      BY <1>2, <1>9, <2>1, GlTextured
    <3>2. GlFrom(f, h)
      BY <1>1, <1>9, <3>1, GlThrough DEF GlFit
    <3> QED BY <1>9, <2>1, <3>1, <3>2
  <2>2. CASE ~v.ok /\ h = v
    BY <1>9, <2>2
  <2> QED BY <1>6, <2>1, <2>2
<1>11. h.state.prepared = p
  BY <1>1, <1>10 DEF GlFrom
<1>12. "oes" \notin habits => GlFrom(GlStart(p), h)
  BY <1>1, <1>10, GlStarts, GlThrough DEF GlFit
<1>13. h.state.texSize # 0 => h.bound = bound /\ h.state.name = state.name
  BY <1>1, <1>10 DEF GlFrom
<1> QED BY <1>10, <1>11, <1>12, <1>13

-----------------------------------------------------------------------------
(* The draw, between what is saved and what is restored.                    *)

(* What upload_texture leaves of g, in u.                                   *)
GlUploaded(g, p, changed, u) ==
    /\ u \in GlMany /\ u.live = g.live /\ u.ok = g.ok /\ u.bound.unit = 0
    /\ u.bound.buf = g.bound.buf /\ u.bound.vao = g.bound.vao
    /\ u.bound.attr = g.bound.attr /\ u.bound.rest = g.bound.rest
    /\ u.state.name = g.state.name /\ u.state.failed = g.state.failed
    /\ u.state.useVao = g.state.useVao /\ u.state.oesVao = g.state.oesVao
    /\ u.state.prepared = g.state.prepared
    /\ IF ~changed /\ g.state.texSize = p.size
       THEN u.bound.tex = g.bound.tex /\ u.state = g.state
       ELSE /\ u.bound.tex = [g.bound.tex EXCEPT ![0] = g.state.name["tex"]]
            /\ u.state.texSize = p.size /\ u.state.content = p

LEMMA GlUploads ==
    ASSUME NEW g \in GlMany, NEW p \in GlPanels, NEW changed \in BOOLEAN
    PROVE  GlUploaded(g, p, changed, Upload(g, p, changed))
<1> DEFINE u == Upload(g, p, changed)
           h == [g EXCEPT !.bound.unit = 0]
           a == [g.bound EXCEPT !.unit = 0]
           tex == [g.bound.tex EXCEPT ![0] = g.state.name["tex"]]
           b == [a EXCEPT !.tex = tex]
           s == [g.state EXCEPT !.texSize = p.size, !.content = p]
<1>1. /\ g.bound \in GlBindings /\ g.state \in GlStates
      /\ g.bound.tex \in [GlUnits -> GlIds] /\ g.state.name["tex"] \in GlIds
  BY DEF GlMany, GlBindings, GlStates, GlKinds
<1>2. /\ a \in GlBindings /\ a.unit = 0 /\ a.tex = g.bound.tex /\ a.buf = g.bound.buf
      /\ a.vao = g.bound.vao /\ a.attr = g.bound.attr /\ a.rest = g.bound.rest
  BY <1>1 DEF GlBindings, GlUnits
<1>3. h = [g EXCEPT !.bound = a]
  OBVIOUS
<1> HIDE DEF a
<1>4. h \in GlMany /\ h.bound = a /\ h.live = g.live /\ h.state = g.state /\ h.ok = g.ok
  BY <1>2, <1>3 DEF GlMany
<1>5. CASE ~changed /\ g.state.texSize = p.size
  <2>1. u = h
    BY <1>5 DEF Upload
  <2> HIDE DEF u, h
  <2> QED BY <1>2, <1>4, <1>5, <2>1 DEF u, GlUploaded
<1>6. CASE ~(~changed /\ g.state.texSize = p.size)
  <2>1. u = [h EXCEPT !.bound.tex[0] = g.state.name["tex"],
                      !.state.texSize = p.size, !.state.content = p]
    BY <1>6 DEF Upload
  <2> HIDE DEF u, h
  <2>2. tex \in [GlUnits -> GlIds]
    BY <1>1
  <2>3. /\ b \in GlBindings /\ b.unit = 0 /\ b.tex = tex /\ b.buf = g.bound.buf
        /\ b.vao = g.bound.vao /\ b.attr = g.bound.attr /\ b.rest = g.bound.rest
    BY <1>2, <2>2 DEF GlBindings
  <2>4. /\ s \in GlStates /\ s.name = g.state.name /\ s.failed = g.state.failed
        /\ s.useVao = g.state.useVao /\ s.oesVao = g.state.oesVao
        /\ s.prepared = g.state.prepared /\ s.texSize = p.size /\ s.content = p
    BY <1>1, GlPanelIs DEF GlStates
  <2>5. u = [h EXCEPT !.bound = b, !.state = s]
    BY <1>2, <1>4, <2>1 DEF GlMany
  <2> HIDE DEF b, s
  <2>6. u \in GlMany /\ u.bound = b /\ u.live = g.live /\ u.state = s /\ u.ok = g.ok
    BY <1>4, <2>3, <2>4, <2>5 DEF GlMany
  <2> QED BY <1>6, <2>3, <2>4, <2>6 DEF u, GlUploaded
<1> QED BY <1>5, <1>6

LEMMA GlDraws ==
    ASSUME NEW g \in GlMany, g.state.name["buf"] \in GlIds, g.state.name["vao"] \in GlIds
    PROVE  LET d == Draw(g)
           IN  /\ d \in GlMany /\ d.live = g.live /\ d.ok = g.ok /\ d.state = g.state
               /\ d.bound.unit = g.bound.unit /\ d.bound.tex = g.bound.tex
               /\ IF g.state.useVao THEN d.bound.attr = g.bound.attr
                  ELSE /\ d.bound.vao = g.bound.vao
                       /\ d.bound.attr = [g.bound.attr EXCEPT ![g.bound.vao] = "overlay"]
<1> DEFINE d == Draw(g)
           a == [g.bound EXCEPT !.rest = "overlay"]
           h == [g EXCEPT !.bound = a]
<1>1. /\ g.bound \in GlBindings /\ g.bound.vao \in GlIds
      /\ g.bound.attr \in [GlIds -> {"game", "overlay"}]
  BY DEF GlMany, GlBindings
<1>2. /\ a \in GlBindings /\ a.unit = g.bound.unit /\ a.tex = g.bound.tex /\ a.buf = g.bound.buf
      /\ a.vao = g.bound.vao /\ a.attr = g.bound.attr
  BY <1>1 DEF GlBindings
<1> HIDE DEF a
<1>3. h \in GlMany /\ h.bound = a /\ h.live = g.live /\ h.state = g.state /\ h.ok = g.ok
  BY <1>2 DEF GlMany
<1>4. d = IF g.state.useVao
          THEN [h EXCEPT !.bound.vao = IF g.state.name.vao \in g.live.vao
                                       THEN g.state.name.vao ELSE @]
          ELSE [h EXCEPT !.bound.buf = g.state.name.buf, !.bound.attr[g.bound.vao] = "overlay"]
  BY DEF Draw, a
<1> HIDE DEF d, h
<1>5. CASE g.state.useVao
  <2> DEFINE v == IF g.state.name["vao"] \in g.live["vao"] THEN g.state.name["vao"] ELSE a.vao
             b == [a EXCEPT !.vao = v]
  <2>1. v \in GlIds
    BY <1>1, <1>2
  <2>2. d = [h EXCEPT !.bound = b]
    BY <1>3, <1>4, <1>5
  <2> HIDE DEF v
  <2>3. b \in GlBindings /\ b.unit = a.unit /\ b.tex = a.tex /\ b.attr = a.attr
    BY <1>2, <2>1 DEF GlBindings
  <2> HIDE DEF b, d
  <2>4. d \in GlMany /\ d.bound = b /\ d.live = g.live /\ d.state = g.state /\ d.ok = g.ok
    BY <1>3, <2>2, <2>3 DEF GlMany
  <2> QED BY <1>2, <1>5, <2>3, <2>4 DEF d
<1>6. CASE ~g.state.useVao
  <2> DEFINE attr == [g.bound.attr EXCEPT ![g.bound.vao] = "overlay"]
             b == [a EXCEPT !.buf = g.state.name["buf"], !.attr = attr]
  <2>1. attr \in [GlIds -> {"game", "overlay"}]
    BY <1>1
  <2>2. d = [h EXCEPT !.bound = b]
    <3> DEFINE c == [a EXCEPT !.buf = g.state.name["buf"]]
               i == [h EXCEPT !.bound.buf = g.state.name.buf]
    <3>1. d = [i EXCEPT !.bound = [i.bound EXCEPT !.attr = [i.bound.attr EXCEPT ![g.bound.vao] = "overlay"]]]
      BY <1>4, <1>6
    <3>2. i.bound = c
      BY <1>3 DEF GlMany
    <3>3. i = [h EXCEPT !.bound = c]
      BY <1>3
    <3>4. c.attr = g.bound.attr
      BY <1>2 DEF GlBindings
    <3> HIDE DEF c, i
    <3>5. d = [i EXCEPT !.bound = [c EXCEPT !.attr = attr]]
      BY <3>1, <3>2, <3>4
    <3>6. b = [c EXCEPT !.attr = attr]
      BY DEF c
    <3> HIDE DEF attr, b
    <3> QED BY <3>3, <3>5, <3>6
  <2> HIDE DEF attr
  <2>3. b \in GlBindings /\ b.unit = a.unit /\ b.tex = a.tex /\ b.attr = attr /\ b.vao = a.vao
    BY <1>2, <2>1 DEF GlBindings
  <2> HIDE DEF b, d
  <2>4. d \in GlMany /\ d.bound = b /\ d.live = g.live /\ d.state = g.state /\ d.ok = g.ok
    BY <1>3, <2>2, <2>3 DEF GlMany
  <2> QED BY <1>2, <1>6, <2>3, <2>4 DEF d, attr
<1> QED BY <1>5, <1>6

LEMMA GlRestores ==
    ASSUME NEW g \in GlMany, NEW saved,
           saved.unit \in GlUnits, saved.tex \in GlIds, saved.buf \in GlIds, saved.vao \in GlIds,
           saved.attr \in {"game", "overlay"}, saved.rest \in {"game", "overlay"}
    PROVE  LET r == RestoreState(g, saved)
           IN  /\ r \in GlMany /\ r.live = g.live /\ r.ok = g.ok /\ r.state = g.state
               /\ r.bound.unit = saved.unit /\ r.bound.buf = saved.buf /\ r.bound.rest = saved.rest
               /\ r.bound.tex = [g.bound.tex EXCEPT ![saved.unit] = saved.tex]
               /\ IF g.state.useVao THEN r.bound.vao = saved.vao /\ r.bound.attr = g.bound.attr
                  ELSE /\ r.bound.vao = g.bound.vao
                       /\ r.bound.attr = [g.bound.attr EXCEPT ![g.bound.vao] = saved.attr]
<1> DEFINE r == RestoreState(g, saved)
           attr == IF g.state.useVao THEN g.bound.attr
                   ELSE [g.bound.attr EXCEPT ![g.bound.vao] = saved.attr]
           vao == IF g.state.useVao THEN saved.vao ELSE g.bound.vao
           a == [g.bound EXCEPT !.vao = vao, !.attr = attr]
           h == [g EXCEPT !.bound = a]
           arrays == IF g.state.useVao THEN [g EXCEPT !.bound.vao = saved.vao]
                     ELSE [g EXCEPT !.bound.attr[g.bound.vao] = saved.attr]
           tex == [g.bound.tex EXCEPT ![saved.unit] = saved.tex]
           b == [a EXCEPT !.buf = saved.buf, !.rest = saved.rest, !.unit = saved.unit, !.tex = tex]
<1>1. /\ g.bound \in GlBindings /\ g.bound.vao \in GlIds
      /\ g.bound.attr \in [GlIds -> {"game", "overlay"}]
      /\ g.bound.tex \in [GlUnits -> GlIds]
  BY DEF GlMany, GlBindings
<1>2. attr \in [GlIds -> {"game", "overlay"}] /\ vao \in GlIds /\ tex \in [GlUnits -> GlIds]
  BY <1>1
<1>3. arrays = h
  <2>1. CASE g.state.useVao
    <3>1. [g.bound EXCEPT !.vao = saved.vao] = a
      BY <1>1, <2>1 DEF GlBindings
    <3> QED BY <2>1, <3>1
  <2>2. CASE ~g.state.useVao
    <3>1. [g.bound EXCEPT !.attr = attr] = a
      BY <1>1, <2>2 DEF GlBindings
    <3>2. [g EXCEPT !.bound.attr[g.bound.vao] = saved.attr] = [g EXCEPT !.bound = [g.bound EXCEPT !.attr = attr]]
      BY <2>2
    <3> QED BY <2>2, <3>1, <3>2
  <2> QED BY <2>1, <2>2
<1>4. r = [arrays EXCEPT !.bound.buf = saved.buf, !.bound.rest = saved.rest,
                         !.bound.unit = saved.unit, !.bound.tex[saved.unit] = saved.tex]
  BY DEF RestoreState
<1> HIDE DEF attr, vao, arrays
<1>5. a \in GlBindings /\ a.tex = g.bound.tex /\ a.vao = vao /\ a.attr = attr
  BY <1>1, <1>2 DEF GlBindings
<1> HIDE DEF a
<1>6. h \in GlMany /\ h.bound = a /\ h.live = g.live /\ h.state = g.state /\ h.ok = g.ok
  BY <1>5 DEF GlMany
<1> HIDE DEF h, r
<1>7. r = [h EXCEPT !.bound = b]
  BY <1>3, <1>4, <1>5, <1>6 DEF GlMany, GlBindings
<1> HIDE DEF tex
<1>8. /\ b \in GlBindings /\ b.unit = saved.unit /\ b.tex = tex /\ b.buf = saved.buf
      /\ b.rest = saved.rest /\ b.vao = vao /\ b.attr = attr
  BY <1>2, <1>5 DEF GlBindings
<1> HIDE DEF b
<1>9. r \in GlMany /\ r.bound = b /\ r.live = g.live /\ r.state = g.state /\ r.ok = g.ok
  BY <1>6, <1>7, <1>8 DEF GlMany
<1> QED BY <1>8, <1>9 DEF r, attr, vao, tex
(* From the upload to the end: besides textures, nothing has changed.       *)
LEMMA GlRenders ==
    ASSUME NEW g \in GlMany, NEW p \in GlPanels, NEW changed \in BOOLEAN
    PROVE  LET u == Upload(g, p, changed)
               d == Draw(u)
               r == RestoreState(d, SaveState(g))
           IN  /\ r \in GlMany /\ r.live = g.live /\ r.state = u.state
               /\ r.bound.unit = g.bound.unit /\ r.bound.buf = g.bound.buf
               /\ r.bound.vao = g.bound.vao /\ r.bound.attr = g.bound.attr
               /\ r.bound.rest = g.bound.rest
               /\ r.bound.tex = [u.bound.tex EXCEPT ![g.bound.unit] = g.bound.tex[0]]
               /\ d.state = u.state /\ d.bound.tex = u.bound.tex
<1> DEFINE u == Upload(g, p, changed)
           d == Draw(u)
           saved == SaveState(g)
           r == RestoreState(d, saved)
<1>1. /\ g.bound \in GlBindings /\ g.state \in GlStates /\ g.bound.vao \in GlIds
      /\ g.bound.attr \in [GlIds -> {"game", "overlay"}]
      /\ g.bound.tex \in [GlUnits -> GlIds] /\ 0 \in GlUnits
      /\ g.state.name["buf"] \in GlIds /\ g.state.name["vao"] \in GlIds
  BY DEF GlMany, GlBindings, GlStates, GlKinds, GlUnits
<1>2. /\ saved.unit = g.bound.unit /\ saved.tex = g.bound.tex[0] /\ saved.buf = g.bound.buf
      /\ saved.vao = g.bound.vao /\ saved.attr = g.bound.attr[g.bound.vao]
      /\ saved.rest = g.bound.rest
  BY DEF SaveState
<1> HIDE DEF saved
<1>3. /\ saved.unit \in GlUnits /\ saved.tex \in GlIds /\ saved.buf \in GlIds /\ saved.vao \in GlIds
      /\ saved.attr \in {"game", "overlay"} /\ saved.rest \in {"game", "overlay"}
  BY <1>1, <1>2 DEF GlBindings
<1>4. /\ u \in GlMany /\ u.live = g.live /\ u.bound.vao = g.bound.vao /\ u.bound.attr = g.bound.attr
      /\ u.state.name = g.state.name /\ u.state.useVao = g.state.useVao
  <2> GlUploaded(g, p, changed, u)
    BY GlUploads
  <2> HIDE DEF u
  <2> QED BY DEF GlUploaded
<1> HIDE DEF u
<1>5. u.state.name["buf"] \in GlIds /\ u.state.name["vao"] \in GlIds
  BY <1>1, <1>4
<1>6. /\ d \in GlMany /\ d.live = u.live /\ d.state = u.state
      /\ d.bound.tex = u.bound.tex
      /\ IF u.state.useVao THEN d.bound.attr = u.bound.attr
         ELSE /\ d.bound.vao = u.bound.vao
              /\ d.bound.attr = [u.bound.attr EXCEPT ![u.bound.vao] = "overlay"]
  BY <1>4, <1>5, GlDraws
<1> HIDE DEF d
<1>7. /\ r \in GlMany /\ r.live = d.live /\ r.state = d.state
      /\ r.bound.unit = saved.unit /\ r.bound.buf = saved.buf /\ r.bound.rest = saved.rest
      /\ r.bound.tex = [d.bound.tex EXCEPT ![saved.unit] = saved.tex]
      /\ IF d.state.useVao THEN r.bound.vao = saved.vao /\ r.bound.attr = d.bound.attr
         ELSE /\ r.bound.vao = d.bound.vao
              /\ r.bound.attr = [d.bound.attr EXCEPT ![d.bound.vao] = saved.attr]
  BY <1>3, <1>6, GlRestores
<1> HIDE DEF r
<1>8. r.bound.vao = g.bound.vao /\ r.bound.attr = g.bound.attr
  <2>1. CASE u.state.useVao
    BY <1>2, <1>4, <1>6, <1>7, <2>1
  <2>2. CASE ~u.state.useVao
    <3>1. r.bound.attr = [[g.bound.attr EXCEPT ![g.bound.vao] = "overlay"]
                            EXCEPT ![g.bound.vao] = g.bound.attr[g.bound.vao]]
      BY <1>2, <1>4, <1>6, <1>7, <2>2
    <3>2. r.bound.attr = g.bound.attr
      BY <1>1, <3>1
    <3> QED BY <1>4, <1>6, <1>7, <2>2, <3>2
  <2> QED BY <2>1, <2>2
<1> QED BY <1>2, <1>4, <1>6, <1>7, <1>8 DEF u, d, r, saved

-----------------------------------------------------------------------------
(* The steps of the hook and of the game.                                   *)

(* What PanelSampled says of a swap of p.                                   *)
GlSamples(p) ==
    /\ state'.content = p
    /\ drawn' = p \/ (/\ "rebinds" \in habits
                      /\ p = state.prepared /\ bound.tex[0] # state.name["tex"])

LEMMA GlSwaps ==
    ASSUME GlInv, NEW p \in GlPanels, SwapBuffers(p)
    PROVE  /\ GlInv'
           /\ state'.name["tex"] # 0 => GlSamples(p)
           /\ state'.name = state.name /\ habits \cap {"switches", "oes"} = {} => bound' = bound
<1>0. PICK changed \in BOOLEAN : changed = (p # state.prepared)
  OBVIOUS
<1>1. PICK g \in EnsureProgram(GlStart(p)) :
          LET u == Upload(g, p, changed)
              r == IF g.ok THEN RestoreState(Draw(u), SaveState(g)) ELSE g
          IN  /\ bound' = r.bound /\ glLive' = r.live /\ state' = r.state
              /\ drawn' = IF g.ok THEN Sampled(Draw(u)) ELSE GlNoPanel
              /\ UNCHANGED <<profile, habits, owned>>
  BY <1>0 DEF SwapBuffers, GlStart
<1>2. /\ GlFit(g) /\ g.state.prepared = p
      /\ "oes" \notin habits => GlFrom(GlStart(p), g)
      /\ g.state.texSize # 0 => g.bound = bound /\ g.state.name = state.name
      /\ ~g.ok => GlBare(g)
      /\ g.ok => /\ ~g.state.failed /\ g.state.name["prog"] # 0
                 /\ g.state.name["buf"] # 0 /\ g.state.name["tex"] # 0
                 /\ g.state.useVao => g.state.name["vao"] # 0
                 /\ g.state.texSize = 0 => g.bound.tex[g.bound.unit] = g.state.name["tex"]
  BY GlEnsures
<1>3. /\ g \in GlMany /\ g.bound \in GlBindings /\ g.state \in GlStates
      /\ g.live \in [GlKinds -> SUBSET GlNames] /\ g.bound.unit \in GlUnits
      /\ g.bound.tex \in [GlUnits -> GlIds]
  BY <1>2 DEF GlFit, GlMany, GlBindings
<1>4. GlStart(p).bound = bound /\ GlStart(p).state.name = state.name
  BY GlStarts
<1>5. profile' = profile /\ habits' = habits /\ owned' = owned
  BY <1>1
<1>6. CASE ~g.ok
  <2>1. bound' = g.bound /\ glLive' = g.live /\ state' = g.state /\ drawn' = GlNoPanel
    BY <1>1, <1>6
  <2>2. g.state.texSize = 0 /\ g.state.name["tex"] = 0
    BY <1>2, <1>6 DEF GlFit, GlBare
  <2>3. GlValues' /\ GlFew'
    BY <1>3, <1>5, <2>1 DEF GlInv, GlValues, GlFew
  <2>4. /\ GlOwns(glLive, state.name)' /\ GlTextures(glLive, state.name)' /\ GlFlavour(state)'
        /\ ("switches" \notin habits => bound.unit = 0)'
    BY <1>2, <1>5, <2>1 DEF GlFit, GlOwns, GlTextures, GlFlavour, DesiredVao, DesiredOes
  <2>5. GlComplete(state)' /\ GlSampling(bound, state)' /\ state'.name["tex"] = 0
    BY <2>1, <2>2 DEF GlComplete, GlSampling
  <2>6. GlInv'
    BY <2>1, <2>2, <2>3, <2>4, <2>5 DEF GlInv
  <2>7. ASSUME state'.name = state.name, habits \cap {"switches", "oes"} = {} PROVE bound' = bound
    BY <1>2, <1>4, <2>1, <2>7 DEF GlFrom
  <2> QED BY <2>5, <2>6, <2>7
<1>7. CASE g.ok
  <2> DEFINE u == Upload(g, p, changed)
             d == Draw(u)
             r == RestoreState(d, SaveState(g))
  <2>1. bound' = r.bound /\ glLive' = r.live /\ state' = r.state /\ drawn' = Sampled(d)
    BY <1>1, <1>7
  <2>2. ~changed => p = state.prepared
    BY <1>0
  <2>3. /\ r \in GlMany /\ r.live = g.live /\ r.state = u.state
        /\ r.bound.unit = g.bound.unit /\ r.bound.buf = g.bound.buf
        /\ r.bound.vao = g.bound.vao /\ r.bound.attr = g.bound.attr
        /\ r.bound.rest = g.bound.rest
        /\ r.bound.tex = [u.bound.tex EXCEPT ![g.bound.unit] = g.bound.tex[0]]
        /\ d.state = u.state /\ d.bound.tex = u.bound.tex
    BY <1>3, GlRenders
  <2>4. /\ u \in GlMany /\ u.state.name = g.state.name /\ u.state.failed = g.state.failed
        /\ u.state.useVao = g.state.useVao /\ u.state.oesVao = g.state.oesVao
        /\ u.state.prepared = g.state.prepared
        /\ IF ~changed /\ g.state.texSize = p.size
           THEN u.bound.tex = g.bound.tex /\ u.state = g.state
           ELSE /\ u.bound.tex = [g.bound.tex EXCEPT ![0] = g.state.name["tex"]]
                /\ u.state.texSize = p.size /\ u.state.content = p
    <3> GlUploaded(g, p, changed, u)
      BY <1>3, GlUploads
    <3> HIDE DEF u
    <3> QED BY DEF GlUploaded
  <2> HIDE DEF u, d, r
  <2>5. u.state.content = p /\ u.state.texSize = p.size
    <3>1. CASE ~changed /\ g.state.texSize = p.size
      <4>1. g.state.texSize # 0
        BY <3>1, GlPanelIs
      <4>2. g.state.content = state.prepared
        BY <1>2, <4>1 DEF GlFit
      <4> QED BY <2>2, <2>4, <3>1, <4>2
    <3>2. CASE ~(~changed /\ g.state.texSize = p.size)
      BY <2>4, <3>2
    <3> QED BY <3>1, <3>2
  <2>6. p.size # 0
    BY GlPanelIs
    <2>7. ASSUME "rebinds" \notin habits
        PROVE  /\ u.bound.tex[0] = g.state.name["tex"]
               /\ r.bound.tex[0] = g.state.name["tex"]
    <3>1. CASE ~changed /\ g.state.texSize = p.size
      <4>1. g.bound.tex[0] = g.state.name["tex"]
        BY <1>2, <2>6, <2>7, <3>1 DEF GlFit, GlSampling
      <4>2. u.bound.tex = g.bound.tex
        BY <2>4, <3>1
      <4> QED BY <1>3, <2>3, <4>1, <4>2 DEF GlUnits
    <3>2. CASE ~(~changed /\ g.state.texSize = p.size)
      <4>1. u.bound.tex = [g.bound.tex EXCEPT ![0] = g.state.name["tex"]]
        BY <2>4, <3>2
      <4>2. u.bound.tex[0] = g.state.name["tex"] /\ u.bound.tex \in [GlUnits -> GlIds]
        BY <1>3, <2>4, <4>1 DEF GlUnits, GlMany, GlBindings
      <4>3. g.bound.unit = 0 => g.bound.tex[0] = g.state.name["tex"]
        BY <1>2, <1>7, <2>7 DEF GlFit, GlSampling
      <4> QED BY <1>3, <2>3, <4>2, <4>3 DEF GlUnits
    <3> QED BY <3>1, <3>2
  <2>8. GlValues' /\ GlFew'
    BY <1>5, <2>1, <2>3 DEF GlInv, GlValues, GlFew, GlMany
  <2>9. state'.name = g.state.name
    BY <2>1, <2>3, <2>4
  <2>10. /\ GlOwns(glLive, state.name)' /\ GlTextures(glLive, state.name)'
         /\ ("switches" \notin habits => bound.unit = 0)'
    BY <1>2, <1>5, <2>1, <2>3, <2>9 DEF GlFit, GlOwns, GlTextures
  <2>11. GlFlavour(state)'
    BY <1>2, <1>5, <2>1, <2>3, <2>4 DEF GlFit, GlFlavour, DesiredVao, DesiredOes
  <2>12. GlComplete(state)'
    BY <1>2, <1>7, <2>1, <2>3, <2>4, <2>5 DEF GlComplete
  <2>13. GlSampling(bound, state)'
    BY <1>5, <2>1, <2>7, <2>9 DEF GlSampling
  <2>14. state'.prepared = p /\ state'.content = p /\ state'.texSize # 0
    BY <1>2, <2>1, <2>3, <2>4, <2>5, <2>6
  <2>15. GlSamples(p)
    <3>1. u.bound.tex[0] = g.state.name["tex"] => Sampled(d) = p
      BY <2>3, <2>4, <2>5 DEF Sampled
    <3>2. CASE ~changed /\ g.state.texSize = p.size
      <4>1. g.bound = bound /\ g.state.name = state.name
        BY <1>2, <2>6, <3>2
      <4>2. u.bound.tex[0] = g.state.name["tex"] \/ bound.tex[0] # state.name["tex"]
        BY <2>4, <3>2, <4>1
      <4> QED BY <2>1, <2>2, <2>7, <2>14, <3>1, <3>2, <4>2 DEF GlSamples
    <3>3. CASE ~(~changed /\ g.state.texSize = p.size)
      <4>1. u.bound.tex[0] = g.state.name["tex"]
        BY <1>3, <2>4, <3>3 DEF GlUnits
      <4> QED BY <2>1, <2>14, <3>1, <4>1 DEF GlSamples
    <3> QED BY <3>2, <3>3
  <2>16. GlInv'
    BY <2>8, <2>10, <2>11, <2>12, <2>13, <2>14 DEF GlInv
  <2>17. ASSUME state'.name = state.name, habits \cap {"switches", "oes"} = {} PROVE bound' = bound
    <3>1. g.bound = bound /\ g.bound.unit = 0
      BY <1>2, <1>4, <2>9, <2>17 DEF GlFrom, GlFit
    <3>2. r.bound.tex = g.bound.tex
      BY <1>3, <2>3, <2>4, <3>1 DEF GlUnits
    <3>3. r.bound \in GlBindings
      BY <2>3 DEF GlMany
    <3>4. r.bound = g.bound
      BY <1>3, <2>3, <3>2, <3>3 DEF GlBindings
    <3> QED BY <2>1, <3>1, <3>4
  <2> QED BY <2>15, <2>16, <2>17
<1> QED BY <1>6, <1>7
(* A fresh ContextState and fresh bindings have everything but the objects.  *)
LEMMA GlFreshes ==
    ASSUME bound' = FreshBindings, state' = FreshState, drawn' = GlNoPanel
    PROVE  /\ bound' \in GlBindings /\ state' \in GlStates
           /\ \A k \in GlKinds : state'.name[k] = 0
           /\ state'.texSize = 0 /\ bound'.unit = 0
<1>1. bound' \in GlBindings /\ bound'.unit = 0
  BY GlNamesAre DEF GlBindings, FreshBindings, GlUnits, GlIds
<1>2. /\ state' \in GlStates /\ state'.texSize = 0
      /\ \A k \in GlKinds : state'.name[k] = 0
  BY GlNamesAre, GlPanelIs DEF GlStates, FreshState, GlIds
<1> QED BY <1>1, <1>2

LEMMA GlDestroys ==
    ASSUME GlInv, NEW c \in BOOLEAN, DestroyContext(c)
    PROVE  GlInv'
<1> DEFINE g == [bound |-> bound, live |-> glLive, state |-> state, ok |-> TRUE]
           rest == (IF c THEN DestroyResources(g) ELSE g).live
<1>1. /\ c \/ "elsewhere" \in habits
      /\ glLive' = [rest EXCEPT !["vao"] = {}] /\ owned' = [owned EXCEPT !["vao"] = {}]
      /\ state' = FreshState /\ bound' = FreshBindings /\ drawn' = GlNoPanel
      /\ profile' = profile /\ habits' = habits
  BY DEF DestroyContext
<1>2. /\ bound' \in GlBindings /\ state' \in GlStates
      /\ \A k \in GlKinds : state'.name[k] = 0
      /\ state'.texSize = 0 /\ bound'.unit = 0
  BY <1>1, GlFreshes
<1>3. /\ g \in GlMany /\ g.live = glLive /\ g.state = state
      /\ owned \in [GlKinds -> SUBSET GlNames] /\ state.name \in [GlKinds -> GlIds]
  BY DEF GlInv, GlValues, GlMany, GlStates
<1> HIDE DEF g
<1>4. /\ rest \in [GlKinds -> SUBSET GlNames]
      /\ IF c THEN \A k \in GlKinds : rest[k] = glLive[k] \ {state.name[k]} ELSE rest = glLive
  <2>1. CASE c
    <3>1. /\ DestroyResources(g) \in GlMany
          /\ \A k \in GlKinds : DestroyResources(g).live[k] = g.live[k] \ {g.state.name[k]}
      BY <1>3, GlDropped DEF DestroyResources
    <3>2. rest = DestroyResources(g).live
      BY <2>1
    <3> HIDE DEF rest
    <3> QED BY <1>3, <2>1, <3>1, <3>2 DEF GlMany
  <2>2. CASE ~c
    BY <1>3, <2>2 DEF GlInv, GlValues
  <2> QED BY <2>1, <2>2
<1> HIDE DEF rest
<1>5. /\ glLive' \in [GlKinds -> SUBSET GlNames] /\ owned' \in [GlKinds -> SUBSET GlNames]
      /\ \A k \in GlKinds :
            IF k = "vao" THEN glLive'[k] = {} /\ owned'[k] = {}
            ELSE glLive'[k] = rest[k] /\ owned'[k] = owned[k]
  BY <1>1, <1>3, <1>4
<1>6. GlValues' /\ GlFew'
  BY <1>1, <1>2, <1>5 DEF GlInv, GlValues, GlFew
<1>7. GlOwns(glLive, state.name)'
  <2> SUFFICES ASSUME habits \cap {"oes", "elsewhere"} = {}, NEW k \in GlKinds
               PROVE  glLive'[k] = owned'[k] \cup ({state'.name[k]} \ {0})
                      /\ state'.name[k] \notin owned'[k]
    BY <1>1 DEF GlOwns
  <2>1. c /\ rest[k] = glLive[k] \ {state.name[k]}
    BY <1>1, <1>4
  <2>2. glLive[k] = owned[k] \cup ({state.name[k]} \ {0}) /\ state.name[k] \notin owned[k]
    BY DEF GlInv, GlOwns
  <2>3. rest[k] = owned[k] /\ owned[k] \subseteq GlNames
    BY <1>3, <2>1, <2>2, GlNamesAre
  <2> QED BY <1>2, <1>5, <2>3, GlNamesAre
<1>8. GlTextures(glLive, state.name)'
  <2>1. "tex" \in GlKinds /\ "tex" # "vao"
    BY DEF GlKinds
  <2>2. /\ owned["tex"] \subseteq glLive["tex"] /\ owned["tex"] \subseteq GlNames
        /\ state.name["tex"] = 0 \/ state.name["tex"] \notin owned["tex"]
    BY <1>3, <2>1 DEF GlInv, GlTextures
  <2>3. owned["tex"] \subseteq rest["tex"]
    BY <1>4, <2>1, <2>2, GlNamesAre
  <2> QED BY <1>2, <1>5, <2>1, <2>3 DEF GlTextures
<1>9. state'.name["prog"] = 0 /\ state'.name["tex"] = 0
  BY <1>2 DEF GlKinds
<1>10. GlComplete(state)' /\ GlSampling(bound, state)'
  BY <1>2 DEF GlComplete, GlSampling
<1> QED BY <1>2, <1>6, <1>7, <1>8, <1>9, <1>10 DEF GlInv

(* The game makes an object with a name that nothing has.                   *)
LEMMA GameMakesOne ==
    ASSUME GlInv, NEW k \in GlKinds, NEW n \in GlNames, GameMakes(k, n)
    PROVE  GlInv'
<1>1. /\ n \notin glLive[k] /\ \A j \in GlKinds : owned[j] = {}
      /\ glLive' = [glLive EXCEPT ![k] = glLive[k] \cup {n}]
      /\ owned' = [owned EXCEPT ![k] = {n}]
      /\ UNCHANGED <<profile, habits, bound, state, drawn>>
  BY DEF GameMakes, NextName
<1>2. /\ glLive \in [GlKinds -> SUBSET GlNames] /\ owned \in [GlKinds -> SUBSET GlNames]
  BY DEF GlInv, GlValues
<1>3. /\ glLive' \in [GlKinds -> SUBSET GlNames] /\ owned' \in [GlKinds -> SUBSET GlNames]
      /\ glLive'[k] = glLive[k] \cup {n} /\ owned'[k] = {n}
      /\ \A j \in GlKinds \ {k} : glLive'[j] = glLive[j] /\ owned'[j] = {}
  BY <1>1, <1>2
<1>4. GlValues' /\ GlFew'
  BY <1>1, <1>3 DEF GlInv, GlValues, GlFew
<1>5. GlOwns(glLive, state.name)'
  <2> SUFFICES ASSUME habits \cap {"oes", "elsewhere"} = {}, NEW j \in GlKinds
               PROVE  glLive'[j] = owned'[j] \cup ({state.name[j]} \ {0})
                      /\ state.name[j] \notin owned'[j]
    BY <1>1 DEF GlOwns
  <2>1. glLive[j] = {state.name[j]} \ {0}
    BY <1>1 DEF GlInv, GlOwns
  <2> QED BY <1>1, <1>3, <2>1, GlNamesAre
<1>6. GlTextures(glLive, state.name)'
  <2>1. "tex" \in GlKinds /\ (state.name["tex"] # 0 => state.name["tex"] \in glLive["tex"])
    BY DEF GlInv, GlTextures, GlKinds
  <2> QED BY <1>1, <1>3, <2>1 DEF GlTextures
<1>7. GlFlavour(state)' = GlFlavour(state)
  BY <1>1 DEF GlFlavour, DesiredVao, DesiredOes
<1>8. GlComplete(state)' = GlComplete(state) /\ GlSampling(bound, state)' = GlSampling(bound, state)
  BY <1>1 DEF GlComplete, GlSampling
<1> QED BY <1>1, <1>4, <1>5, <1>6, <1>7, <1>8 DEF GlInv

(* It deletes the only one it has, which is not the hook's.                 *)
LEMMA GameDeletesOne ==
    ASSUME GlInv, NEW k \in GlKinds, NEW n \in GlNames, GameDeletes(k, n)
    PROVE  GlInv'
<1> DEFINE tex == [u \in GlUnits |-> IF k = "tex" /\ bound.tex[u] = n THEN 0 ELSE bound.tex[u]]
           buf == IF k = "buf" /\ bound.buf = n THEN 0 ELSE bound.buf
           vao == IF k = "vao" /\ bound.vao = n THEN 0 ELSE bound.vao
           attr == IF k = "vao" THEN [bound.attr EXCEPT ![n] = "game"] ELSE bound.attr
<1>1. /\ n \in owned[k]
      /\ glLive' = [glLive EXCEPT ![k] = glLive[k] \ {n}]
      /\ owned' = [owned EXCEPT ![k] = {}]
      /\ UNCHANGED <<profile, habits, state, drawn>>
  BY DEF GameDeletes
<1>2. bound' = [bound EXCEPT !.tex = tex, !.buf = buf, !.vao = vao, !.attr = attr]
  BY DEF GameDeletes
<1>3. /\ glLive \in [GlKinds -> SUBSET GlNames] /\ owned \in [GlKinds -> SUBSET GlNames]
      /\ bound \in GlBindings /\ bound.tex \in [GlUnits -> GlIds]
      /\ bound.attr \in [GlIds -> {"game", "overlay"}]
  BY DEF GlInv, GlValues, GlBindings
<1>4. owned[k] = {n}
  BY <1>1 DEF GlInv, GlFew
<1>5. /\ tex \in [GlUnits -> GlIds] /\ buf \in GlIds /\ vao \in GlIds
      /\ attr \in [GlIds -> {"game", "overlay"}]
      /\ bound.tex[0] # n \/ k # "tex" => tex[0] = bound.tex[0]
  BY <1>3, GlNamesAre DEF GlBindings, GlUnits
<1> HIDE DEF tex, buf, vao, attr
<1>6. bound' \in GlBindings /\ bound'.tex = tex /\ bound'.unit = bound.unit
  BY <1>2, <1>3, <1>5 DEF GlBindings
<1>7. /\ glLive' \in [GlKinds -> SUBSET GlNames] /\ owned' \in [GlKinds -> SUBSET GlNames]
      /\ glLive'[k] = glLive[k] \ {n} /\ owned'[k] = {}
      /\ \A j \in GlKinds \ {k} : glLive'[j] = glLive[j] /\ owned'[j] = owned[j]
  BY <1>1, <1>3
<1>8. GlValues' /\ GlFew'
  BY <1>1, <1>6, <1>7 DEF GlInv, GlValues, GlFew
<1>9. GlOwns(glLive, state.name)'
  <2> SUFFICES ASSUME habits \cap {"oes", "elsewhere"} = {}, NEW j \in GlKinds
               PROVE  glLive'[j] = owned'[j] \cup ({state.name[j]} \ {0})
                      /\ state.name[j] \notin owned'[j]
    BY <1>1 DEF GlOwns
  <2>1. glLive[j] = owned[j] \cup ({state.name[j]} \ {0}) /\ state.name[j] \notin owned[j]
    BY DEF GlInv, GlOwns
  <2>2. CASE j = k
    BY <1>4, <1>7, <2>1, <2>2
  <2>3. CASE j # k
    BY <1>7, <2>1, <2>3
  <2> QED BY <2>2, <2>3
<1>10. "tex" \in GlKinds /\ GlTextures(glLive, state.name)
  BY DEF GlInv, GlKinds
<1>11. GlTextures(glLive, state.name)'
  <2>1. CASE k = "tex"
    <3>1. owned["tex"] = {n}
      BY <1>4, <2>1
    <3> QED BY <1>1, <1>7, <1>10, <2>1, <3>1 DEF GlTextures
  <2>2. CASE k # "tex"
    BY <1>1, <1>7, <1>10, <2>2 DEF GlTextures
  <2> QED BY <2>1, <2>2
<1>12. GlSampling(bound, state)'
  <2> SUFFICES ASSUME state.texSize # 0, "rebinds" \notin habits
               PROVE  tex[0] = state.name["tex"]
    BY <1>1, <1>6 DEF GlSampling
  <2>1. bound.tex[0] = state.name["tex"] /\ state.name["tex"] # 0
    BY DEF GlInv, GlSampling, GlComplete
  <2>2. k = "tex" => state.name["tex"] # n
    BY <1>4, <1>10, <2>1 DEF GlTextures
  <2> QED BY <1>5, <2>1, <2>2
<1>13. GlFlavour(state)' = GlFlavour(state)
  BY <1>1 DEF GlFlavour, DesiredVao, DesiredOes
<1>14. GlComplete(state)' = GlComplete(state)
  BY <1>1 DEF GlComplete
<1> QED BY <1>1, <1>6, <1>8, <1>9, <1>11, <1>12, <1>13, <1>14 DEF GlInv

LEMMA GameBindsOne ==
    ASSUME GlInv, GameBinds
    PROVE  GlInv'
<1>1. UNCHANGED <<profile, habits, glLive, owned, state, drawn>>
  BY DEF GameBinds
<1>2. /\ bound \in GlBindings /\ bound.tex \in [GlUnits -> GlIds]
      /\ \A k \in GlKinds : owned[k] \cup {0} \subseteq GlIds
      /\ "tex" \in GlKinds /\ "buf" \in GlKinds /\ "vao" \in GlKinds /\ 0 \in GlUnits
  BY GlNamesAre DEF GlInv, GlValues, GlBindings, GlKinds, GlUnits
<1>3. /\ bound' \in GlBindings
      /\ "rebinds" \notin habits => bound'.tex[0] = bound.tex[0]
      /\ "switches" \notin habits => bound'.unit = bound.unit
  <2>1. ASSUME NEW u \in GlUnits, NEW n \in owned["tex"] \cup {0},
               IF u = 0 THEN "rebinds" \in habits ELSE "switches" \in habits,
               bound' = [bound EXCEPT !.tex[u] = n]
        PROVE  /\ bound' \in GlBindings
               /\ "rebinds" \notin habits => bound'.tex[0] = bound.tex[0]
               /\ bound'.unit = bound.unit
    <3> DEFINE tex == [bound.tex EXCEPT ![u] = n]
    <3>1. tex \in [GlUnits -> GlIds] /\ (u # 0 => tex[0] = bound.tex[0])
      BY <1>2
    <3>2. bound' = [bound EXCEPT !.tex = tex]
      BY <2>1
    <3> HIDE DEF tex
    <3>3. bound' \in GlBindings /\ bound'.tex = tex /\ bound'.unit = bound.unit
      BY <1>2, <3>1, <3>2 DEF GlBindings
    <3> QED BY <2>1, <3>1, <3>3
  <2>2. ASSUME NEW n \in owned["buf"] \cup {0}, bound' = [bound EXCEPT !.buf = n]
        PROVE  bound' \in GlBindings /\ bound'.tex = bound.tex /\ bound'.unit = bound.unit
    <3>1. n \in GlIds
      BY <1>2
    <3> QED BY <1>2, <2>2, <3>1 DEF GlBindings
  <2>3. ASSUME NEW n \in owned["vao"] \cup {0}, bound' = [bound EXCEPT !.vao = n]
        PROVE  bound' \in GlBindings /\ bound'.tex = bound.tex /\ bound'.unit = bound.unit
    <3>1. n \in GlIds
      BY <1>2
    <3> QED BY <1>2, <2>3, <3>1 DEF GlBindings
  <2>4. ASSUME "switches" \in habits, NEW u \in GlUnits, bound' = [bound EXCEPT !.unit = u]
        PROVE  bound' \in GlBindings /\ bound'.tex = bound.tex
    BY <1>2, <2>4 DEF GlBindings
  <2> QED BY <2>1, <2>2, <2>3, <2>4 DEF GameBinds
<1>4. GlValues' /\ GlFew' /\ ("switches" \notin habits => bound.unit = 0)'
  BY <1>1, <1>3 DEF GlInv, GlValues, GlFew
<1>5. GlOwns(glLive, state.name)' /\ GlTextures(glLive, state.name)'
  BY <1>1 DEF GlInv, GlOwns, GlTextures
<1>6. GlSampling(bound, state)'
  BY <1>1, <1>3 DEF GlInv, GlSampling
<1>7. GlFlavour(state)' = GlFlavour(state)
  BY <1>1 DEF GlFlavour, DesiredVao, DesiredOes
<1>8. GlComplete(state)' = GlComplete(state)
  BY <1>1 DEF GlComplete
<1> QED BY <1>1, <1>4, <1>5, <1>6, <1>7, <1>8 DEF GlInv

(* No step at all, or a swap with nothing to show.                          *)
LEMMA GlIdles ==
    ASSUME GlInv, UNCHANGED <<profile, habits, bound, glLive, owned, state>>,
           drawn' = drawn \/ drawn' = GlNoPanel
    PROVE  GlInv'
<1>1. GlValues' /\ GlFew' /\ ("switches" \notin habits => bound.unit = 0)'
  BY DEF GlInv, GlValues, GlFew
<1>2. GlOwns(glLive, state.name)' /\ GlTextures(glLive, state.name)' /\ GlSampling(bound, state)'
  BY DEF GlInv, GlOwns, GlTextures, GlSampling
<1>3. GlFlavour(state)' = GlFlavour(state) /\ GlComplete(state)' = GlComplete(state)
  BY DEF GlFlavour, GlComplete, DesiredVao, DesiredOes
<1> QED BY <1>1, <1>2, <1>3 DEF GlInv

LEMMA GlNextInv == GlInv /\ [GlNext]_glVars => GlInv'
<1> SUFFICES ASSUME GlInv, [GlNext]_glVars PROVE GlInv'
  OBVIOUS
<1>1. CASE SwapEmpty
  BY <1>1, GlIdles DEF SwapEmpty
<1>2. CASE \E p \in GlPanels : SwapBuffers(p)
  BY <1>2, GlSwaps
<1>3. CASE \E c \in BOOLEAN : DestroyContext(c)
  BY <1>3, GlDestroys
<1>4. CASE \E k \in GlKinds, n \in GlNames : GameMakes(k, n) \/ GameDeletes(k, n)
  BY <1>4, GameMakesOne, GameDeletesOne
<1>5. CASE GameBinds
  BY <1>5, GameBindsOne
<1>6. CASE UNCHANGED glVars
  BY <1>6, GlIdles DEF glVars
<1> QED BY <1>1, <1>2, <1>3, <1>4, <1>5, <1>6 DEF GlNext

LEMMA GlAlways == GlSpec => []GlInv
BY GlInitInv, GlNextInv, PTL DEF GlSpec

-----------------------------------------------------------------------------
(* The theorems about the hook.                                             *)

(* Every value of the hook is of its kind, and it binds units that exist.   *)
THEOREM HookTypeCorrect == GlSpec => []GlTypeOK
<1>1. GlInv => GlTypeOK
  <2> SUFFICES ASSUME GlInv PROVE GlTypeOK
    OBVIOUS
  <2>1. state.name \in [GlKinds -> GlIds]
    BY DEF GlInv, GlValues, GlStates
  <2>2. state.prepared \in GlShows
    BY DEF GlInv, GlValues, GlStates
  <2> QED BY <2>1, <2>2 DEF GlInv, GlValues, GlTypeOK, GlBindings, GlIds, GlShows
<1> QED BY <1>1, GlAlways, PTL

(* Every object in the context is the game's or remembered by the hook, and  *)
(* none is both: no failure in the middle of ensure_program and no end of a  *)
(* context loses one.                                                       *)
THEOREM HookOwnsItsObjects == GlSpec => []OverlayOwns
<1>1. GlInv => OverlayOwns
  BY DEF GlInv, GlOwns, OverlayOwns
<1> QED BY <1>1, GlAlways, PTL

(* A swap has its panel in the texture and draws it, although an unchanged  *)
(* panel is neither uploaded nor bound again: in every game, save that of   *)
(* an unchanged panel after the game bound a texture of its own to unit 0.  *)
THEOREM DrawnIsPrepared == GlSpec => PanelSampled
<1> DEFINE Shows == \A p \in GlPanels : SwapBuffers(p) /\ state'.name["tex"] # 0 => GlSamples(p)
<1>1. GlInv => Shows
  BY GlSwaps
<1>2. GlInv => [Shows]_glVars
  BY <1>1
<1> HIDE DEF Shows
<1>3. GlSpec => [][Shows]_glVars
  BY <1>2, GlAlways, PTL
<1> QED BY <1>3 DEF PanelSampled, Shows, GlSamples

(* A swap that makes no objects leaves the game's bindings as they were.    *)
THEOREM GameStateComesBack == GlSpec => GameStateKept
<1> DEFINE Kept == /\ bound' # bound /\ state'.name = state.name
                   /\ habits \cap {"switches", "oes"} = {}
                   => \A p \in GlPanels : ~SwapBuffers(p)
<1>1. GlInv => Kept
  BY GlSwaps
<1>2. GlInv => [Kept]_glVars
  BY <1>1
<1> HIDE DEF Kept
<1>3. GlSpec => [][Kept]_glVars
  BY <1>2, GlAlways, PTL
<1> QED BY <1>3 DEF GameStateKept, Kept
-----------------------------------------------------------------------------
(* The three parts together.                                                *)

(* What runs in the game's process behaves as each of its parts: what is    *)
(* proved of the voice segment, of the compositor and of the hook holds of   *)
(* them side by side, with any of the three running.                        *)
THEOREM OverlayIsItsParts == OverlaySpec => Spec /\ CmpSpec /\ GlSpec
<1>1. OverlayInit => Init /\ CmpInit /\ GlInit
  BY DEF OverlayInit
<1>2. [OverlayNext]_OverlayVars => [Next]_vars /\ [CmpNext]_cmpVars /\ [GlNext]_glVars
  BY DEF OverlayNext, OverlayVars
<1> QED BY <1>1, <1>2, PTL DEF OverlaySpec, Spec, CmpSpec, GlSpec

(* Every variable of the segment, the compositor and the hook keeps to its  *)
(* kind.                                                                    *)
THEOREM OverlayTypeCorrect == OverlaySpec => []OverlayTypeOK
<1>1. TypeOK /\ CmpTypeOK /\ GlTypeOK => OverlayTypeOK
  BY DEF OverlayTypeOK
<1> QED BY <1>1, OverlayIsItsParts, TypeCorrect, CompositorTypeCorrect, HookTypeCorrect, PTL

=============================================================================
