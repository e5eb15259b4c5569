----------------------------- MODULE PresentPath -----------------------------
(***************************************************************************)
(* The Vulkan layer's hooks of one device: acquire, present, creation and  *)
(* destruction of swapchains, with the renderer's fence and its pool of    *)
(* present semaphores.  The driver is external: it completes submissions   *)
(* and presents in its own time, and any call of it may fail.  One present *)
(* is in progress at a time; another thread may acquire images of          *)
(* swapchains that are not part of it, between any two steps.  A prepared  *)
(* frame, the pipeline and the staging memory are abstracted to "render    *)
(* did something or returned 0".                                           *)
(***************************************************************************)
EXTENDS Integers, Sequences, FiniteSets

CONSTANTS
  Chains, Images,       \* swapchains, image indices
  ImagesOf,             \* the images each swapchain has
  Drawable,             \* the chains whose format overlay_supports_format
  Slots,                \* size of g_swapchains
  Sems, NoSem,          \* VkSemaphore handles (reused by the driver), VK_NULL_HANDLE
  Families, NoFamily,   \* queue families; that of a queue the layer does not know
  WaitCounts,           \* how many semaphores the application's presents wait for
  MaxWaits,             \* how many of them render passes on, 8 in the code
  WineModes,            \* "native" (also forced), "auto", "disable"
  Faults                \* which of AllFaults may happen

(* create: sigaw_overlay_create fails.  semaphore: vkCreateSemaphore fails. *)
(* reject: a surface is out of date or lost; the waits are still executed. *)
(* fail: vkQueuePresentKHR enqueues nothing.  ambiguous: it does so for     *)
(* several swapchains at once, without pResults.  submit: vkQueueSubmit    *)
(* fails.  uneven: prepare() has a frame for one swapchain of a present    *)
(* and none for another (the config is reloaded in between, or a surface   *)
(* has no area).                                                           *)
AllFaults == {"create", "semaphore", "reject", "fail", "ambiguous", "submit", "uneven"}

ASSUME PresentAssumption ==
  /\ IsFiniteSet(Chains) /\ IsFiniteSet(Images) /\ IsFiniteSet(Sems)
  /\ Drawable \subseteq Chains /\ ImagesOf \in [Chains -> SUBSET Images]
  /\ Slots \in Nat /\ MaxWaits \in Nat /\ WaitCounts \subseteq Nat
  /\ NoSem \notin Sems /\ NoFamily \notin Families
  /\ WineModes \subseteq {"native", "auto", "disable"}
  /\ Faults \subseteq AllFaults

VARIABLES
  wine,                    \* what the environment asks for under Wine, never changes
  live, lost, held,        \* swapchains that exist, those out of date, images acquired
  sem, awaited,            \* state of each handle; what the queued present of an image waits for
  fence, job,              \* Ctx::fen ("failed": reset for a submission that failed), what will be signaled
  up, known, tracked,      \* the device; chains in g_swapchains; their present_wait_sems
  ctx, family, disabled,   \* overlay_ctx, overlay_queue_family, overlay_disabled
  pool, available,         \* present_sems, available_present_sems
  pc, call,                \* where the hook is, and its arguments
  next, hand, rendered, submitted,  \* loop index, present_wait_semaphore, overlay_rendered, ...
  kept,                    \* which swapchains the real present accepted
  taken,                   \* history: how often each application semaphore was waited for
  setback                  \* history: a render returned 0 after it or another one submitted

driverVars == <<live, lost, held, sem, awaited, fence, job>>
deviceVars == <<up, known, tracked, ctx, family, disabled, pool, available>>
callVars == <<call, next, hand, rendered, submitted, kept, taken, setback>>
vars == <<wine, driverVars, deviceVars, pc, callVars>>

-----------------------------------------------------------------------------
NoneTracked == [i \in Images |-> NoSem]

TrackedBy(t, c) == {t[c][i] : i \in Images} \ {NoSem}
TrackedIn(t) == UNION {TrackedBy(t, c) : c \in Chains}

NoCall == [images |-> <<>>, waits |-> 0, family |-> NoFamily, results |-> FALSE]

Init ==
  /\ wine \in WineModes
  /\ live = {} /\ lost = {} /\ held = [c \in Chains |-> {}]
  /\ sem = [s \in Sems |-> "none"] /\ awaited = [c \in Chains |-> NoneTracked]
  /\ fence = "signaled" /\ job = NoSem
  /\ up = TRUE /\ known = {} /\ tracked = [c \in Chains |-> NoneTracked]
  /\ ctx = FALSE /\ family = NoFamily /\ disabled = FALSE
  /\ pool = {} /\ available = {}
  /\ pc = "app" /\ call = NoCall
  /\ next = 0 /\ hand = NoSem /\ rendered = FALSE /\ submitted = FALSE /\ kept = {} /\ taken = <<>>
  /\ setback = FALSE

Goto(label) == pc' = label /\ UNCHANGED callVars

(* What the hook leaves behind when it returns.                            *)
Return ==
  /\ pc' = "app" /\ call' = NoCall
  /\ next' = 0 /\ hand' = NoSem /\ rendered' = FALSE /\ submitted' = FALSE
  /\ kept' = {} /\ taken' = <<>> /\ setback' = FALSE

-----------------------------------------------------------------------------
(* The driver.                                                             *)

(* A submission completes: its fence is signaled.                          *)
GpuDone ==
  /\ fence = "pending"
  /\ fence' = "signaled" /\ job' = NoSem
  /\ UNCHANGED <<wine, live, lost, held, sem, awaited, deviceVars, pc, callVars>>

(* The wait of a queued present is executed, after the signal.             *)
WaitDone(s) ==
  /\ sem[s] = "waited"
  /\ job # s
  /\ sem' = [sem EXCEPT ![s] = "idle"]
  /\ awaited' = [c \in Chains |-> [i \in Images |->
                   IF awaited[c][i] = s THEN NoSem ELSE awaited[c][i]]]
  /\ UNCHANGED <<wine, live, lost, held, fence, job, deviceVars, pc, callVars>>

(* vkDeviceWaitIdle: everything submitted has completed.                   *)
WaitIdle ==
  /\ fence' = IF fence = "pending" THEN "signaled" ELSE fence
  /\ job' = NoSem
  /\ sem' = [s \in Sems |-> IF sem[s] = "waited" THEN "idle" ELSE sem[s]]
  /\ awaited' = [c \in Chains |-> NoneTracked]

(* wait_for_swapchain_present_tracking, wait_for_device_present_tracking.  *)
WaitIdleIf(cond) == IF cond THEN WaitIdle ELSE UNCHANGED <<fence, job, sem, awaited>>

-----------------------------------------------------------------------------
(* The pool: sigaw_overlay_recycle_present_semaphore, and _discard_, which *)
(* waits for the fence (a fence that was reset is never signaled).         *)

Recycled(S) == IF ctx THEN available \cup (S \cap pool) ELSE available

Discard(S) ==
  /\ S # {} => fence = "signaled"
  /\ pool' = pool \ S
  /\ available' = available \ S
  /\ sem' = [s \in Sems |-> IF s \in S THEN "none" ELSE sem[s]]

(* sigaw_overlay_destroy destroys the whole pool, after another idle wait. *)
NoContext ==
  /\ ctx' = FALSE /\ family' = NoFamily
  /\ pool' = {} /\ available' = {}
  /\ sem' = [s \in Sems |-> "none"]
  /\ awaited' = [c \in Chains |-> NoneTracked]

-----------------------------------------------------------------------------
(* Swapchains and devices.                                                 *)

CreateSwapchain(c) ==
  /\ pc = "app" /\ up
  /\ c \notin live
  /\ live' = live \cup {c}
  /\ held' = [held EXCEPT ![c] = {}]
  /\ IF Cardinality(known) < Slots
     THEN known' = known \cup {c} /\ tracked' = [tracked EXCEPT ![c] = NoneTracked]
     ELSE UNCHANGED <<known, tracked>>
  /\ UNCHANGED <<wine, lost, sem, awaited, fence, job, up, ctx, family, disabled, pool,
                 available, pc, callVars>>

(* Mutant: presents that still wait are not waited for.                    *)
BeginDestroySwapchainUnwaited(c) ==
  /\ pc = "app" /\ up
  /\ c \in live
  /\ UNCHANGED <<fence, job, sem, awaited>>
  /\ call' = [NoCall EXCEPT !.images = <<<<c, CHOOSE i \in Images : TRUE>>>>]
  /\ pc' = "destroySwapchain"
  /\ UNCHANGED <<wine, live, lost, held, deviceVars, next, hand, rendered, submitted, kept, taken, setback>>

BeginDestroySwapchain(c) ==
  /\ pc = "app" /\ up
  /\ c \in live
  /\ WaitIdleIf(c \in known /\ TrackedBy(tracked, c) # {})
  /\ call' = [NoCall EXCEPT !.images = <<<<c, CHOOSE i \in Images : TRUE>>>>]
  /\ pc' = "destroySwapchain"
  /\ UNCHANGED <<wine, live, lost, held, deviceVars, next, hand, rendered, submitted, kept, taken, setback>>

(* A semaphore that another swapchain still tracks is left alone.          *)
DestroySwapchain ==
  /\ pc = "destroySwapchain"
  /\ LET c == call.images[1][1]
         cleared == [tracked EXCEPT ![c] = NoneTracked]
     IN /\ live' = live \ {c} /\ lost' = lost \ {c}
        /\ held' = [held EXCEPT ![c] = {}]
        /\ awaited' = [awaited EXCEPT ![c] = NoneTracked]
        /\ known' = known \ {c}
        /\ tracked' = cleared
        /\ IF ctx THEN Discard(TrackedIn(tracked) \ TrackedIn(cleared))
                  ELSE UNCHANGED <<pool, available, sem>>
  /\ Return
  /\ UNCHANGED <<wine, fence, job, up, ctx, family, disabled>>

BeginDestroyDevice ==
  /\ pc = "app" /\ up
  /\ WaitIdleIf(TrackedIn(tracked) # {})
  /\ Goto("destroyDevice")
  /\ UNCHANGED <<wine, live, lost, held, deviceVars>>

DestroyDevice ==
  /\ pc = "destroyDevice"
  /\ TrackedIn(tracked) # {} => fence = "signaled"
  /\ up' = FALSE /\ known' = {} /\ tracked' = [c \in Chains |-> NoneTracked]
  /\ live' = {} /\ lost' = {} /\ held' = [c \in Chains |-> {}]
  /\ NoContext /\ disabled' = FALSE /\ fence' = "signaled" /\ job' = NoSem
  /\ Return
  /\ UNCHANGED wine

CreateDevice ==
  /\ pc = "app" /\ ~up
  /\ up' = TRUE
  /\ UNCHANGED <<wine, driverVars, known, tracked, ctx, family, disabled, pool, available,
                 pc, callVars>>

Busy == {call.images[k][1] : k \in DOMAIN call.images}

(* Mutant: another image that waits for the semaphore is overlooked.       *)
AcquireForgetsSharing(c, i) ==
  /\ up /\ c \in live \ (lost \cup Busy) /\ pc # "destroyDevice"
  /\ i \in ImagesOf[c] \ held[c]
  /\ awaited[c][i] = NoSem
  /\ held' = [held EXCEPT ![c] = @ \cup {i}]
  /\ tracked' = [tracked EXCEPT ![c][i] = NoSem]
  /\ available' = IF c \in known THEN Recycled({tracked[c][i]}) ELSE available
  /\ UNCHANGED <<wine, live, lost, sem, awaited, fence, job, up, known, ctx, family, disabled,
                 pool, pc, callVars>>

(* vkAcquireNextImageKHR and ...Image2: the driver hands out an image whose *)
(* present is done; what that present waited for can be used again, unless *)
(* the image of another swapchain still stands for it.                     *)
Acquire(c, i) ==
  /\ up /\ c \in live \ (lost \cup Busy) /\ pc # "destroyDevice"
  /\ i \in ImagesOf[c] \ held[c]
  /\ awaited[c][i] = NoSem
  /\ held' = [held EXCEPT ![c] = @ \cup {i}]
  /\ tracked' = [tracked EXCEPT ![c][i] = NoSem]
  /\ available' = Recycled({tracked[c][i]} \ TrackedIn(tracked'))
  /\ UNCHANGED <<wine, live, lost, sem, awaited, fence, job, up, known, ctx, family, disabled,
                 pool, pc, callVars>>

-----------------------------------------------------------------------------
(* sigaw_QueuePresentKHR.                                                  *)

FirstChain == call.images[1][1]
Safe == wine = "auto"

(* The application presents acquired images of distinct swapchains.  With  *)
(* an unknown queue the device is found through the first swapchain.       *)
BeginPresent(images, n, f, r) ==
  /\ pc = "app" /\ up
  /\ \A k \in DOMAIN images : images[k][1] \in live \ lost /\ images[k][2] \in held[images[k][1]]
  /\ \A j, k \in DOMAIN images : j # k => images[j][1] # images[k][1]
  /\ f # NoFamily \/ images[1][1] \in known
  /\ call' = [images |-> images, waits |-> n, family |-> f, results |-> r]
  /\ taken' = [j \in 1..n |-> 0]
  /\ pc' = "context"
  /\ UNCHANGED <<wine, driverVars, deviceVars, next, hand, rendered, submitted, kept,
                 setback>>

(* handle_overlay_init_failure.                                            *)
InitFailed == disabled' = (disabled \/ wine = "auto")

(* Mutant: vkCreateFence without VK_FENCE_CREATE_SIGNALED_BIT.             *)
CreateContextUnsignaled ==
  \/ /\ ctx' = TRUE /\ family' = call.family
     /\ fence' = "unsignaled" /\ UNCHANGED disabled
  \/ /\ "create" \in Faults
     /\ ctx' = FALSE /\ family' = NoFamily
     /\ InitFailed /\ UNCHANGED fence

CreateContext ==
  \/ /\ ctx' = TRUE /\ family' = call.family
     /\ fence' = "signaled" /\ UNCHANGED disabled
  \/ /\ "create" \in Faults
     /\ ctx' = FALSE /\ family' = NoFamily
     /\ InitFailed /\ UNCHANGED fence

KeepContext ==
  /\ pc = "context"
  /\ IF ctx THEN call.family \in {NoFamily, family}
     ELSE wine # "disable" /\ (FirstChain \notin known \/ call.family = NoFamily \/ disabled)
  /\ Goto("hand")
  /\ UNCHANGED <<wine, driverVars, deviceVars>>

DisableContext ==
  /\ pc = "context" /\ ~ctx /\ wine = "disable"
  /\ disabled' = TRUE
  /\ Goto("hand")
  /\ UNCHANGED <<wine, driverVars, up, known, tracked, ctx, family, pool, available>>

FirstContext ==
  /\ pc = "context" /\ ~ctx /\ wine # "disable"
  /\ FirstChain \in known /\ call.family # NoFamily /\ ~disabled
  /\ CreateContext
  /\ Goto("hand")
  /\ UNCHANGED <<wine, live, lost, held, sem, awaited, job, up, known, tracked, pool, available>>

(* The present came on a queue of another family: drain ...                *)
BeginChangeFamily ==
  /\ pc = "context" /\ ctx
  /\ call.family \notin {NoFamily, family}
  /\ WaitIdleIf(TrackedIn(tracked) # {})
  /\ Goto("recreate")
  /\ UNCHANGED <<wine, live, lost, held, deviceVars>>

(* ... clear the tracking, destroy the context ...                         *)
ClearTracking ==
  /\ pc = "recreate"
  /\ TrackedIn(tracked) # {} => fence = "signaled"
  /\ tracked' = [c \in Chains |-> NoneTracked]
  /\ NoContext /\ job' = NoSem /\ fence' = "signaled"
  /\ Goto("created")
  /\ UNCHANGED <<wine, live, lost, held, up, known, disabled>>

(* ... and make a new one.                                                 *)
Recreate ==
  /\ pc = "created"
  /\ IF FirstChain \in known THEN CreateContext
                             ELSE UNCHANGED <<ctx, family, fence, disabled>>
  /\ Goto("hand")
  /\ UNCHANGED <<wine, live, lost, held, sem, awaited, job, up, known, tracked, pool, available>>

(* The images the overlay is drawn on, and the one drawn last.             *)
Targets == {k \in DOMAIN call.images : call.images[k][1] \in known \cap Drawable}

Last(S) == CHOOSE k \in S : \A j \in S : j <= k
First(S) == CHOOSE k \in S : \A j \in S : k <= j

DrawsOverlay == ctx /\ call.family # NoFamily /\ family = call.family /\ Targets # {}

NothingToDraw ==
  /\ pc = "hand" /\ ~DrawsOverlay
  /\ Goto("forward")
  /\ UNCHANGED <<wine, driverVars, deviceVars>>

StartRendering ==
  /\ pc' = "render" /\ next' = First(Targets)
  /\ UNCHANGED <<call, rendered, submitted, kept, taken, setback>>

DrawSafely ==
  /\ pc = "hand" /\ DrawsOverlay /\ Safe
  /\ StartRendering /\ UNCHANGED hand
  /\ UNCHANGED <<wine, driverVars, deviceVars>>

TakeSemaphore ==
  /\ pc = "hand" /\ DrawsOverlay /\ ~Safe
  /\ \E s \in available : hand' = s /\ available' = available \ {s}
  /\ StartRendering
  /\ UNCHANGED <<wine, driverVars, up, known, tracked, ctx, family, disabled, pool>>

(* Mutant: a new semaphore is created for every present.                   *)
NewSemaphoreAlways ==
  /\ pc = "hand" /\ DrawsOverlay /\ ~Safe
  /\ hand' = CHOOSE s \in Sems : sem[s] = "none"
  /\ \E s \in Sems : sem[s] = "none"
  /\ pool' = pool \cup {hand'} /\ sem' = [sem EXCEPT ![hand'] = "idle"]
  /\ StartRendering
  /\ UNCHANGED <<wine, live, lost, held, awaited, fence, job, up, known, tracked, ctx, family,
                 disabled, available>>

NewSemaphore ==
  /\ pc = "hand" /\ DrawsOverlay /\ ~Safe
  /\ available = {}
  /\ \E s \in Sems : sem[s] = "none"
  /\ hand' = CHOOSE s \in Sems : sem[s] = "none"
  /\ pool' = pool \cup {hand'} /\ sem' = [sem EXCEPT ![hand'] = "idle"]
  /\ StartRendering
  /\ UNCHANGED <<wine, live, lost, held, awaited, fence, job, up, known, tracked, ctx, family,
                 disabled, available>>

NoNewSemaphore ==
  /\ pc = "hand" /\ DrawsOverlay /\ ~Safe
  /\ available = {} /\ "semaphore" \in Faults
  /\ Goto("forward")
  /\ UNCHANGED <<wine, driverVars, deviceVars>>

-----------------------------------------------------------------------------
(* sigaw_overlay_render for the image call.images[next].                   *)

Min(a, b) == IF a <= b THEN a ELSE b

(* Mutant: the first image drawn signals, not the last.                    *)
SignalFirst == IF ~Safe /\ next = First(Targets) THEN hand ELSE NoSem

Signal == IF ~Safe /\ next = Last(Targets) THEN hand ELSE NoSem

(* Mutant: every submission waits for the application.                     *)
WaitsEveryTime == 1..Min(call.waits, MaxWaits)

(* Only the first submission that gets through waits for the application.  *)
Waits == IF rendered THEN {} ELSE 1..Min(call.waits, MaxWaits)

Take(W) == taken' = [j \in DOMAIN taken |-> IF j \in W THEN taken[j] + 1 ELSE taken[j]]

Advance ==
  IF next = Last(Targets) THEN pc' = "forward" /\ UNCHANGED next
  ELSE pc' = "render" /\ next' = First({k \in Targets : k > next})

(* prepare() has a frame and the resources are there.                      *)
Prepare ==
  /\ pc = "render"
  /\ "uneven" \in Faults \/ rendered \/ next = First(Targets)
  /\ Goto("submit")
  /\ UNCHANGED <<wine, driverVars, deviceVars>>

(* The submission: the fence was waited for and reset.  Without a signal   *)
(* the renderer waits until it has completed.                              *)
Render ==
  /\ pc = "submit" /\ fence = "signaled"
  /\ fence' = IF Signal = NoSem THEN "signaled" ELSE "pending"
  /\ job' = Signal
  /\ sem' = [s \in Sems |-> IF s = Signal THEN "signaled" ELSE sem[s]]
  /\ rendered' = TRUE /\ submitted' = (Signal # NoSem)
  /\ Take(Waits)
  /\ Advance
  /\ UNCHANGED <<wine, live, lost, held, awaited, deviceVars, call, hand, kept, setback>>

(* Mutant: the semaphore goes back and stays present_wait_semaphore.       *)
RenderReturnsZeroKeepsHand ==
  /\ available' = IF Signal # NoSem THEN Recycled({hand}) ELSE available
  /\ Advance
  /\ UNCHANGED <<wine, live, lost, held, sem, awaited, job, up, known, tracked, ctx, family,
                 disabled, pool, call, hand, rendered, submitted, kept>>

(* Render returned 0: an unused signal semaphore goes back.                *)
RenderReturnsZero ==
  /\ hand' = IF Signal # NoSem THEN NoSem ELSE hand
  /\ available' = IF Signal # NoSem THEN Recycled({hand}) ELSE available
  /\ Advance
  /\ UNCHANGED <<wine, live, lost, held, sem, awaited, job, up, known, tracked, ctx, family,
                 disabled, pool, call, rendered, submitted, kept>>

(* An empty frame, or no staging memory, texture, pipeline or view.        *)
RenderSkips ==
  /\ pc = "render"
  /\ "uneven" \in Faults \/ ~rendered
  /\ RenderReturnsZero
  /\ setback' = (setback \/ rendered)
  /\ UNCHANGED <<fence, taken>>

(* vkQueueSubmit fails after vkResetFences.  Of the copy path's two         *)
(* submissions the first may have consumed the application's waits; the     *)
(* GPU path has one, which has then consumed nothing.                      *)
RenderFails ==
  /\ pc = "submit" /\ fence = "signaled"
  /\ "submit" \in Faults
  /\ fence' = "failed"
  /\ \E W \in {{}, Waits} : Take(W)
  /\ setback' = TRUE
  /\ RenderReturnsZero

-----------------------------------------------------------------------------
(* The real present and what follows it.                                   *)

(* What the layer's present waits for: its own semaphore, nothing, or what *)
(* the application gave.                                                   *)
ForwardedSem == IF rendered THEN hand ELSE NoSem
ForwardedWaits == IF rendered /\ (hand # NoSem \/ Safe) THEN {} ELSE 1..call.waits

Presented == {call.images[k] : k \in DOMAIN call.images}

(* The driver takes the images not in R; its queue waits for ForwardedSem. *)
Enqueue(R) ==
  /\ held' = [c \in Chains |-> held[c] \ {i \in Images : <<c, i>> \in Presented}]
  /\ awaited' = [c \in Chains |-> [i \in Images |->
                   IF <<c, i>> \in Presented \ R THEN ForwardedSem ELSE awaited[c][i]]]
  /\ sem' = [s \in Sems |-> IF s = ForwardedSem THEN "waited" ELSE sem[s]]

(* present_call_keeps_wait_semaphore_for_swapchain, after an error.        *)
KeptOnError(R) ==
  IF call.results THEN DOMAIN call.images \ R
  ELSE IF Len(call.images) > 1 THEN DOMAIN call.images ELSE {}

Forward ==
  /\ pc = "forward"
  /\ Take(ForwardedWaits)
  /\ \/ /\ Enqueue({})
        /\ UNCHANGED lost
        /\ kept' = DOMAIN call.images
     \/ /\ "reject" \in Faults
        /\ \E R \in SUBSET DOMAIN call.images \ {{}} :
             /\ Enqueue({call.images[k] : k \in R})
             /\ lost' = lost \cup {call.images[k][1] : k \in R}
             /\ kept' = KeptOnError(R)
     \/ /\ "fail" \in Faults
        /\ "ambiguous" \in Faults \/ call.results \/ Len(call.images) = 1
        /\ kept' = KeptOnError(DOMAIN call.images)
        /\ UNCHANGED <<lost, held, sem, awaited>>
  /\ pc' = "track"
  /\ UNCHANGED <<wine, live, fence, job, deviceVars, call, next, hand, rendered, submitted,
                 setback>>

Tracking == {call.images[k] : k \in {k \in kept : call.images[k][1] \in known}}

(* track_swapchain_present_semaphore, for every swapchain that kept it.    *)
Track ==
  /\ pc = "track" /\ submitted /\ Tracking # {}
  /\ tracked' = [c \in Chains |-> [i \in Images |->
                   IF <<c, i>> \in Tracking THEN hand ELSE tracked[c][i]]]
  /\ available' = Recycled(TrackedIn(tracked) \ TrackedIn(tracked'))
  /\ Return
  /\ UNCHANGED <<wine, driverVars, up, known, ctx, family, disabled, pool>>

(* No swapchain keeps it: drain the queue ...                              *)
Drain ==
  /\ pc = "track" /\ submitted /\ Tracking = {}
  /\ WaitIdle
  /\ Goto("discard")
  /\ UNCHANGED <<wine, live, lost, held, deviceVars>>

(* Mutant: the semaphore goes back to the pool, signaled or not.           *)
DiscardHandRecycles ==
  /\ pc = "discard"
  /\ available' = Recycled({hand})
  /\ Return
  /\ UNCHANGED <<wine, driverVars, up, known, tracked, ctx, family, disabled, pool>>

(* ... and destroy the semaphore.                                          *)
DiscardHand ==
  /\ pc = "discard"
  /\ Discard({hand})
  /\ Return
  /\ UNCHANGED <<wine, live, lost, held, awaited, fence, job, up, known, tracked, ctx, family,
                 disabled>>

NothingToTrack ==
  /\ pc = "track" /\ ~submitted
  /\ Return
  /\ UNCHANGED <<wine, driverVars, deviceVars>>

-----------------------------------------------------------------------------
Driver == GpuDone \/ \E s \in Sems : WaitDone(s)

ImageLists == UNION {[1..n -> Chains \X Images] : n \in 1..Cardinality(Chains)}

Application ==
  \/ CreateDevice \/ BeginDestroyDevice
  \/ \E c \in Chains : CreateSwapchain(c) \/ BeginDestroySwapchain(c)
  \/ \E c \in Chains, i \in Images : Acquire(c, i)
  \/ \E images \in ImageLists, n \in WaitCounts, f \in Families \cup {NoFamily}, r \in BOOLEAN :
       BeginPresent(images, n, f, r)

Hook ==
  \/ DestroySwapchain \/ DestroyDevice
  \/ KeepContext \/ DisableContext \/ FirstContext
  \/ BeginChangeFamily \/ ClearTracking \/ Recreate
  \/ NothingToDraw \/ DrawSafely \/ TakeSemaphore \/ NewSemaphore \/ NoNewSemaphore
  \/ Prepare \/ Render \/ RenderSkips \/ RenderFails
  \/ Forward \/ Track \/ Drain \/ DiscardHand \/ NothingToTrack

Next == Driver \/ Application \/ Hook

Spec == Init /\ [][Next]_vars

(* The GPU finishes what was submitted, and the hook runs whenever it is   *)
(* not waiting for it.  Nothing is assumed of the application.             *)
FairSpec == Spec /\ WF_vars(GpuDone) /\ WF_vars(Hook)

-----------------------------------------------------------------------------
(* Properties.                                                             *)

SemsOrNone == Sems \cup {NoSem}

TypeOK ==
  /\ wine \in WineModes
  /\ live \subseteq Chains /\ lost \subseteq live /\ held \in [Chains -> SUBSET Images]
  /\ sem \in [Sems -> {"none", "idle", "signaled", "waited"}]
  /\ awaited \in [Chains -> [Images -> SemsOrNone]]
  /\ fence \in {"signaled", "pending", "failed"} /\ job \in SemsOrNone
  /\ up \in BOOLEAN /\ known \subseteq Chains /\ tracked \in [Chains -> [Images -> SemsOrNone]]
  /\ ctx \in BOOLEAN /\ family \in Families \cup {NoFamily} /\ disabled \in BOOLEAN
  /\ pool \subseteq Sems /\ available \subseteq Sems
  /\ hand \in SemsOrNone /\ rendered \in BOOLEAN /\ submitted \in BOOLEAN
  /\ known \subseteq live /\ (ctx <=> family # NoFamily)

Hand == {hand} \ {NoSem}

(* Every semaphore of the renderer is in exactly one place: available,     *)
(* tracked by an image whose present may still wait for it, or in the hand *)
(* of the present in progress.  None leaks, none is in two places, and no  *)
(* slot names a destroyed one, whatever fails and whatever is destroyed.   *)
PoolAccounted ==
  /\ pool = {s \in Sems : sem[s] # "none"}
  /\ pool = available \cup TrackedIn(tracked) \cup Hand
  /\ available \cap TrackedIn(tracked) = {}
  /\ Hand \cap (available \cup TrackedIn(tracked)) = {}

(* Why PoolAccounted holds whatever the application does.  The arguments   *)
(* of the hook name swapchains that exist, and what the real present       *)
(* accepted is among them;                                                 *)
CallOK ==
  /\ call.family \in Families \cup {NoFamily}
  /\ \A k \in DOMAIN call.images : call.images[k][1] \in live
  /\ pc \notin {"app", "destroySwapchain", "destroyDevice"} =>
       \A k \in DOMAIN call.images : call.images[k] \in Chains \X Images
  /\ pc \in {"recreate", "created"} => call.family # NoFamily
  /\ kept \subseteq DOMAIN call.images
  /\ pc \notin {"track", "discard"} => kept = {}

(* the present's semaphore is in hand from its choice to its tracking, and *)
(* past the rendering exactly when a submission signals it;                *)
HandOK ==
  /\ pc \notin {"render", "submit", "forward", "track", "discard"} => hand = NoSem
  /\ pc \notin {"forward", "track", "discard"} => ~submitted
  /\ pc \in {"render", "submit"} => (hand = NoSem <=> Safe)
  /\ pc \in {"forward", "track"} => (submitted <=> hand # NoSem)

(* there is no pool without a context, and nothing is tracked in a slot    *)
(* that is not in use.                                                     *)
ContextOK ==
  /\ pool # {} => ctx
  /\ pc = "created" => ~ctx
  /\ \A c \in Chains \ known : tracked[c] = NoneTracked

(* The inductive invariant of the proof.                                   *)
PoolInv == TypeOK /\ CallOK /\ HandOK /\ ContextOK /\ PoolAccounted

(* A semaphore that can be handed out has no signal or wait outstanding.   *)
AvailableIsIdle == \A s \in available : sem[s] = "idle"

(* Why AvailableIsIdle holds, as long as a failed present says which       *)
(* swapchains it failed for.  A held or presented image tracks nothing,    *)
(* and one whose present was accepted is not held any more;                *)
SlotsFree ==
  /\ \A c \in Chains : \A i \in held[c] : tracked[c][i] = NoSem
  /\ pc \notin {"app", "destroySwapchain", "destroyDevice"} =>
       \A k \in DOMAIN call.images : tracked[call.images[k][1]][call.images[k][2]] = NoSem
  /\ \A k \in kept : call.images[k][2] \notin held[call.images[k][1]]

(* a queued present waits for its semaphore, which is free again once it   *)
(* has waited, whether it is tracked already or still to be tracked;       *)
Settled(c, i, s) == awaited[c][i] = s \/ sem[s] = "idle"

WaitsOutstanding ==
  /\ \A c \in Chains, i \in Images : awaited[c][i] # NoSem => sem[awaited[c][i]] = "waited"
  /\ \A c \in Chains \ lost, i \in Images :
       tracked[c][i] # NoSem => Settled(c, i, tracked[c][i])
  /\ pc = "track" /\ submitted =>
       \A k \in kept : call.images[k][1] \notin lost =>
         Settled(call.images[k][1], call.images[k][2], hand)

(* the hand is idle until it is submitted;                                 *)
HandReady ==
  /\ pc \in {"render", "submit"} /\ hand # NoSem => sem[hand] = "idle"
  /\ pc = "forward" /\ submitted => rendered

(* and nothing waits any more where a semaphore is going to be destroyed.  *)
Drained ==
  \/ pc \in {"discard", "destroyDevice", "recreate"}
  \/ pc = "destroySwapchain" /\ TrackedBy(tracked, FirstChain) # {}
  => \A s \in Sems : sem[s] # "waited"

IdleInv == AvailableIsIdle /\ SlotsFree /\ WaitsOutstanding /\ HandReady /\ Drained

(* A submission that is still going to signal holds the fence, and its     *)
(* semaphore is not idle: whoever waits for the fence, waits for it.       *)
SubmissionPending ==
  /\ pc \in {"render", "submit"} => ctx
  /\ job # NoSem => ctx /\ fence = "pending" /\ sem[job] \in {"signaled", "waited"}

(* With PoolInv, the inductive invariant behind AvailableIsIdle and        *)
(* DestroyedOnlyDone.                                                      *)
DoneInv == IdleInv /\ SubmissionPending

(* The pool never outgrows the images: presents reuse what they can.       *)
AllImages == UNION {{c} \X ImagesOf[c] : c \in Chains}

PoolBounded == Cardinality(pool) <= Cardinality(AllImages)

(* Each semaphore the application presents with is waited for once, by the *)
(* overlay's submission or by the present: never twice, never not at all.  *)
(* (Unless a render returned 0 after submitting, or after another one of   *)
(* the same present had submitted.)                                        *)
WaitsOnce == pc = "track" /\ ~setback => \A j \in 1..call.waits : taken[j] = 1

(* A present of an image the overlay was drawn on waits for the submission *)
(* that draws last, through the layer's semaphore, or else (Wine's safe    *)
(* path) that submission is complete.                                      *)
PresentFollowsOverlay ==
  pc = "forward" /\ rendered /\ ~setback =>
    IF Safe THEN fence = "signaled" ELSE submitted /\ sem[hand] = "signaled"

(* Why PresentFollowsOverlay holds: nothing counts as rendered before.      *)
RenderedLate == pc \notin {"render", "submit", "forward", "track", "discard"} => ~rendered

FollowInv == RenderedLate /\ PresentFollowsOverlay

(* Why WaitsOnce holds: what was waited for so far is known by whether a    *)
(* submission got through.                                                 *)
CallBegun == pc \notin {"app", "destroySwapchain", "destroyDevice"}

TakenOK ==
  /\ CallBegun => call.waits \in WaitCounts /\ taken \in [1..call.waits -> Nat]
  /\ CallBegun /\ pc \notin {"track", "discard"} /\ ~setback =>
       \A j \in 1..call.waits : taken[j] = IF rendered THEN 1 ELSE 0

TakenInv == TakenOK /\ WaitsOnce

(* Why PoolBounded holds: only images that the driver gave out track a     *)
(* semaphore.                                                              *)
HeldOK ==
  /\ \A c \in Chains : held[c] \subseteq ImagesOf[c]
  /\ CallBegun => \A k \in DOMAIN call.images : call.images[k][2] \in ImagesOf[call.images[k][1]]
  /\ \A c \in Chains : \A i \in Images \ ImagesOf[c] : tracked[c][i] = NoSem

BoundInv == HeldOK /\ PoolBounded

(* "Native and forced Wine paths forward present behind a layer-owned      *)
(* semaphore" (layer/layer_entry.c:963), once the overlay was drawn.       *)
BehindOverlay == pc = "forward" /\ rendered /\ ~Safe => hand # NoSem

(* "vkDestroySemaphore requires all referencing batches to have completed" *)
(* (layer/layer_entry.c:1073): no semaphore is destroyed while a present   *)
(* still waits for it or a submission is going to signal it.               *)
DestroyedOnlyDone ==
  [][\A s \in Sems : sem[s] # "none" /\ sem'[s] = "none" => sem[s] # "waited" /\ job # s]_vars

(* The application gets every hooked call back, unless a failed submission *)
(* has left the fence reset for good: the layer waits for nothing else     *)
(* that might not happen.                                                  *)
HookReturns == []<>(fence # "failed") => (pc # "app" ~> pc = "app")
=============================================================================
