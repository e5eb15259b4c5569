----------------------------- MODULE Compositor -----------------------------
(***************************************************************************)
(* What the Vulkan renderer owns and how it puts a prepared panel into the *)
(* image about to be presented (layer/overlay_renderer.cpp): staging       *)
(* memory, the panel's texture, descriptor, pipeline and target views, and *)
(* one command buffer with one fence.  On the copy path the processor      *)
(* blends the panel into a copy of the image; on the GPU path              *)
(* (SIGAW_GPU_COMPOSITE) a quad is drawn.  render() runs on the game's     *)
(* thread; its submissions complete at any later time.                     *)
(*                                                                         *)
(* Semaphores, the pool of them and the hook around render() are in        *)
(* PresentPath.  The layout of the texture is left out: what is noted at   *)
(* recording differs from the truth only after a failed submission, and    *)
(* then the fence is never signaled again.                                 *)
(***************************************************************************)
EXTENDS Integers, FiniteSets

CONSTANTS
    CmpPanels,   \* panels: records with fields ver and size
    CmpFormats,  \* swapchain formats
    CmpSmall,    \* the size the staging memory has at least (2 MiB)
    CmpWorlds    \* the environments considered: subsets of CmpHabits

(* grows: panels may be larger than CmpSmall.                              *)
(* memory: allocating or mapping the staging memory may fail.              *)
(* reformats: a swapchain may be recreated with another format.            *)
(* reuses: a new swapchain image may get the handle of an old one.         *)
CmpHabits == {"grows", "memory", "reformats", "reuses"}

ASSUME CmpAssumption == /\ \A p \in CmpPanels : p.size \in Nat \ {0}
                        /\ CmpSmall \in Nat \ {0}
                        /\ 0 \notin CmpFormats
                        /\ CmpWorlds \subseteq SUBSET CmpHabits

CmpNothing == [ver |-> 0, size |-> 0]
NoWork == [kind |-> "none", uses |-> {}, lost |-> FALSE, bound |-> FALSE,
           base |-> 0, panel |-> CmpNothing]

VARIABLES
    route,     \* "copy" or "gpu": prefer_gpu_composite
    behind,    \* a signal semaphore is given, and render() does not wait for its end
    world,     \* the environment: a member of CmpWorlds
    frame,     \* the prepared frame: panel, changed, needs_upload, the game image it is for
    uploaded,  \* uploaded_sequence is the sequence of the prepared frame
    res,       \* the renderer's objects: staging, texture, desc, pipe, fmt, view
    target,    \* the format of the swapchain
    pending,   \* the submission the device is executing, or NoWork
    cmpFence,  \* whether the fence is signaled
    cpc,       \* where render() is
    shown      \* what the last completed frame got and what it should have got

cmpVars == <<route, behind, world, frame, uploaded, res, target, pending, cmpFence, cpc, shown>>

CmpInit ==
    /\ route \in {"copy", "gpu"} /\ behind \in BOOLEAN /\ world \in CmpWorlds
    /\ frame = [panel |-> CmpNothing, changed |-> FALSE, upload |-> FALSE, base |-> 0]
    /\ uploaded = FALSE
    /\ target \in CmpFormats
    /\ res = [staging |-> [buf |-> FALSE, mapped |-> FALSE, size |-> 0,
                           base |-> 0, panel |-> CmpNothing],
              texture |-> [size |-> 0, panel |-> CmpNothing],
              desc |-> FALSE, pipe |-> 0, fmt |-> target, view |-> "none"]
    /\ pending = NoWork
    /\ cmpFence = TRUE
    /\ cpc = "idle"
    /\ shown = [got |-> CmpNothing, want |-> CmpNothing, clean |-> TRUE]

-----------------------------------------------------------------------------
(* prepare: a panel that differs from the last one is a changed frame with  *)
(* a new sequence number.                                                  *)
CmpPrepare(p) ==
    /\ cpc = "idle" /\ (p.size > CmpSmall => "grows" \in world)
    /\ frame' = [panel |-> p, changed |-> p # frame.panel, upload |-> FALSE,
                 base |-> 1 - frame.base]
    /\ uploaded' = (uploaded /\ p = frame.panel)
    /\ cpc' = "ensure"
    /\ UNCHANGED <<route, behind, world, res, target, pending, cmpFence, shown>>

-----------------------------------------------------------------------------
(* The ensure_ functions map a record g of res, work (the submission being  *)
(* executed), up (uploaded) and ok to the set of its possible results.      *)
(* Destroying or overwriting what the submission uses damages it.           *)

Lose(g, used) ==
    IF g.work.uses \cap used # {} THEN [g EXCEPT !.work.lost = TRUE] ELSE g

CmpFail(g) == [g EXCEPT !.ok = FALSE]

CmpThen(S, Part(_)) == UNION {IF g.ok THEN Part(g) ELSE {g} : g \in S}

(* A plausible bug: memory exactly large enough counts as too small.       *)
StagingFitsBelow(g, bytes) == g.res.staging.buf /\ bytes < g.res.staging.size

StagingFits(g, bytes) == g.res.staging.buf /\ bytes <= g.res.staging.size

(* The size is noted before anything is allocated, and a buffer without     *)
(* memory is kept.                                                         *)
StagingMade(g, bytes, buf, mapped) ==
    [Lose(g, {"staging"}) EXCEPT
        !.res.staging = [buf |-> buf, mapped |-> mapped, base |-> 0, panel |-> CmpNothing,
                         size |-> IF bytes > CmpSmall THEN bytes ELSE CmpSmall],
        !.ok = mapped]

(* ensure_staging_capacity.                                                *)
EnsureStaging(g, bytes) ==
    IF StagingFits(g, bytes) THEN {g}
    ELSE {StagingMade(g, bytes, FALSE, FALSE), StagingMade(g, bytes, TRUE, TRUE)}
         \cup {StagingMade(g, bytes, TRUE, FALSE) : w \in world \cap {"memory"}}

(* ensure_overlay_texture; one that could not be completed has size 0.     *)
EnsureTexture(g) ==
    IF g.res.texture.size = frame.panel.size THEN {g}
    ELSE LET h == [Lose(g, {"texture"}) EXCEPT !.res.desc = FALSE, !.up = FALSE,
                        !.res.texture = [size |-> 0, panel |-> CmpNothing]]
         IN  {CmpFail(h), [h EXCEPT !.res.texture.size = frame.panel.size]}

(* ensure_descriptor_resources writes the set again on every call.         *)
EnsureDescriptor(g) ==
    {CmpFail(g)} \cup
    {IF g.res.texture.size # 0 THEN [Lose(g, {"desc"}) EXCEPT !.res.desc = TRUE] ELSE g}

(* ensure_pipeline trusts ctx.fmt, which sigaw_overlay_resize also sets.    *)
EnsurePipeline(g) ==
    IF g.res.pipe # 0 /\ g.res.fmt = target THEN {g}
    ELSE LET h == [Lose(g, {"view", "pipe"}) EXCEPT
                        !.res.view = "none", !.res.pipe = 0, !.res.fmt = target]
             Built(d) == {CmpFail(d), [d EXCEPT !.res.pipe = target]}
         IN  {CmpFail(h)} \cup CmpThen(EnsureDescriptor(h), Built)

(* A view found under the handle of the image is taken for its view.       *)
EnsureView(g) ==
    IF g.res.view # "none" THEN {g} ELSE {CmpFail(g), [g EXCEPT !.res.view = "live"]}
Ensured == [res |-> res, work |-> pending, up |-> uploaded, ok |-> TRUE]

Adopt(g) == res' = g.res /\ pending' = g.work /\ uploaded' = g.up

(* vkQueueSubmit, after the fence has been reset.                          *)
SubmitCmp(work, next) ==
    \/ /\ pending' = work /\ cmpFence' = FALSE /\ cpc' = next
    \/ /\ pending' = NoWork /\ cmpFence' = FALSE /\ cpc' = "idle"

-----------------------------------------------------------------------------
(* render_overlay_copy.  The staging memory is made before the fence of the *)
(* previous frame is waited for.                                           *)
CopyEnsure ==
    /\ cpc = "ensure" /\ route = "copy"
    /\ \E g \in EnsureStaging(Ensured, frame.panel.size) :
           /\ Adopt(g)
           /\ cpc' = IF g.ok THEN "read" ELSE "idle"
    /\ UNCHANGED <<route, behind, world, frame, target, cmpFence, shown>>

CopyRead ==
    /\ cpc = "read" /\ cmpFence
    /\ SubmitCmp([NoWork EXCEPT !.kind = "read", !.uses = {"staging"}, !.base = frame.base],
              "blend")
    /\ UNCHANGED <<route, behind, world, frame, uploaded, res, target, shown>>

(* composite_frame_over writes through sptr, whatever it is.               *)
CopyBlend ==
    /\ cpc = "blend" /\ cmpFence
    /\ IF res.staging.mapped
       THEN /\ res' = [res EXCEPT !.staging.panel = frame.panel]
            /\ SubmitCmp([NoWork EXCEPT !.kind = "write", !.uses = {"staging"},
                                     !.base = frame.base, !.panel = frame.panel],
                      IF behind THEN "idle" ELSE "finish")
       ELSE cpc' = "crashed" /\ UNCHANGED <<res, pending, cmpFence>>
    /\ UNCHANGED <<route, behind, world, frame, uploaded, target, shown>>

-----------------------------------------------------------------------------
(* sigaw_overlay_render on the GPU path.  A plausible bug: only a changed   *)
(* frame is uploaded, though an earlier attempt may have failed.           *)
NeedsUploadChanged == frame.changed \/ res.texture.size # frame.panel.size

NeedsUpload == frame.changed \/ ~uploaded \/ res.texture.size # frame.panel.size

(* The memcpy into the staging memory.                                     *)
FillStaging(g) ==
    {[Lose(g, {"staging"}) EXCEPT !.res.staging.panel = frame.panel]}

(* A plausible bug: the descriptor is only written with a new pipeline.    *)
EnsureUploadOnly(g) ==
    LET Staging(h) == EnsureStaging(h, frame.panel.size)
    IN  CmpThen(CmpThen(Staging(g), EnsureTexture), FillStaging)

EnsureUpload(g) ==
    LET Staging(h) == EnsureStaging(h, frame.panel.size)
    IN  CmpThen(CmpThen(CmpThen(Staging(g), EnsureTexture), EnsureDescriptor), FillStaging)

GpuEnsure ==
    /\ cpc = "ensure" /\ route = "gpu"
    /\ \E up \in IF NeedsUpload THEN EnsureUpload(Ensured) ELSE {Ensured} :
           IF up.ok /\ NeedsUpload /\ ~up.res.staging.mapped
           THEN cpc' = "crashed" /\ UNCHANGED <<frame, uploaded, res, pending>>
           ELSE \E g \in CmpThen(CmpThen({up}, EnsurePipeline), EnsureView) :
                   /\ Adopt(g)
                   /\ frame' = [frame EXCEPT !.upload = NeedsUpload]
                   /\ cpc' = IF g.ok THEN "draw" ELSE "idle"
    /\ UNCHANGED <<route, behind, world, target, cmpFence, shown>>

(* What the recorded draw refers to fits together and is about this image.  *)
Bound == /\ res.texture.size = frame.panel.size /\ res.desc
         /\ res.pipe = target /\ res.view = "live"

GpuDraw ==
    /\ cpc = "draw" /\ cmpFence
    /\ SubmitCmp([kind |-> IF frame.upload THEN "upload" ELSE "draw",
               uses |-> {"texture", "desc", "pipe", "view"}
                        \cup {s \in {"staging"} : frame.upload},
               lost |-> FALSE, bound |-> Bound, base |-> frame.base, panel |-> frame.panel],
              IF behind THEN "idle" ELSE "finish")
    /\ uploaded' = (uploaded \/ pending' # NoWork)
    /\ UNCHANGED <<route, behind, world, frame, res, target, shown>>

(* Without a signal semaphore render() waits for the fence once more.      *)
Finish ==
    /\ cpc = "finish" /\ cmpFence
    /\ cpc' = "idle"
    /\ UNCHANGED <<route, behind, world, frame, uploaded, res, target, pending, cmpFence, shown>>

-----------------------------------------------------------------------------
(* The device finishes the submission: external.                           *)
Complete ==
    /\ pending # NoWork
    /\ cmpFence' = TRUE /\ pending' = NoWork
    /\ LET seen == IF pending.kind = "upload" THEN res.staging.panel ELSE res.texture.panel
           want == [base |-> pending.base, panel |-> pending.panel]
       IN  CASE pending.kind = "read" ->
                   /\ res' = [res EXCEPT !.staging.base = pending.base,
                                         !.staging.panel = CmpNothing]
                   /\ UNCHANGED shown
             [] pending.kind = "write" ->
                   /\ shown' = [got |-> [base |-> res.staging.base, panel |-> res.staging.panel],
                                want |-> want, clean |-> ~pending.lost]
                   /\ UNCHANGED res
             [] OTHER ->
                   /\ res' = IF pending.kind = "upload"
                             THEN [res EXCEPT !.texture.panel = seen] ELSE res
                   /\ shown' = [got |-> [base |-> pending.base, panel |-> seen],
                                want |-> want, clean |-> ~pending.lost /\ pending.bound]
    /\ UNCHANGED <<route, behind, world, frame, uploaded, target, cpc>>

(* vkCreateSwapchainKHR with sigaw_overlay_resize, by a game that waits for *)
(* its frames first: the images are new, their handles perhaps not.         *)
CmpRecreate(fmt, same) ==
    /\ cpc = "idle" /\ pending = NoWork
    /\ fmt # target => "reformats" \in world
    /\ same => "reuses" \in world
    /\ target' = fmt
    /\ res' = [res EXCEPT
                  !.fmt = fmt,
                  !.view = IF res.fmt = fmt /\ same /\ @ # "none" THEN "stale" ELSE "none"]
    /\ UNCHANGED <<route, behind, world, frame, uploaded, pending, cmpFence, cpc, shown>>

CmpNext ==
    \/ \E p \in CmpPanels : CmpPrepare(p)
    \/ CopyEnsure \/ CopyRead \/ CopyBlend
    \/ GpuEnsure \/ GpuDraw \/ Finish
    \/ Complete
    \/ \E f \in CmpFormats, s \in BOOLEAN : CmpRecreate(f, s)

CmpSpec == CmpInit /\ [][CmpNext]_cmpVars

-----------------------------------------------------------------------------
(* Where render() is, and what the fence says: it is signaled only when    *)
(* nothing is being executed.                                              *)
CmpTypeOK ==
    /\ cpc \in {"idle", "ensure", "read", "blend", "draw", "finish", "crashed"}
    /\ frame.panel \in CmpPanels \cup {CmpNothing}
    /\ uploaded \in BOOLEAN /\ cmpFence \in BOOLEAN
    /\ pending.kind \in {"none", "read", "write", "draw", "upload"}
    /\ res.view \in {"none", "live", "stale"} /\ res.pipe \in CmpFormats \cup {0}
    /\ cmpFence => pending = NoWork

(* Nothing a submission uses is destroyed or overwritten before the device *)
(* is done with it, whichever creations fail.  The code gives this up in   *)
(* two places, both when render() does not wait: a panel that outgrows the *)
(* staging memory, and everything the GPU path prepares.                   *)
PendingKept ==
    pending.lost => behind /\ (route = "gpu" \/ "grows" \in world)

(* A frame that completes undisturbed shows the game's image of this frame *)
(* with the panel prepared for it: never an earlier image, an earlier      *)
(* panel or none, whatever failed in the frames before.                    *)
FrameComposited == shown.clean => shown.got = shown.want

(* A draw refers to the pipeline for the target's format, to the view of   *)
(* the target's image and to the panel's texture, whichever of the ensure_ *)
(* functions failed before.  Not so when ctx.fmt is set by a resize        *)
(* ("reformats"), nor when a handle comes back ("reuses").                 *)
DrawBound ==
    pending.kind \in {"draw", "upload"} /\ world \cap {"reformats", "reuses"} = {}
        => pending.bound
=============================================================================
