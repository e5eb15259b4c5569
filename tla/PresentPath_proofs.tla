-------------------------- MODULE PresentPath_proofs --------------------------
(* Theorems about PresentPath and their proofs.                            *)
EXTENDS PresentPath, FiniteSetTheorems, TLAPS

-----------------------------------------------------------------------------
(* Lemmas about what is tracked.                                           *)

(* A semaphore is tracked exactly when some slot names it.                 *)
LEMMA TrackedInSlots ==
  ASSUME NEW t, NEW s
  PROVE  s \in TrackedIn(t) <=> s # NoSem /\ \E c \in Chains, i \in Images : t[c][i] = s
BY DEF TrackedIn, TrackedBy

LEMMA NothingTracked ==
  /\ NoneTracked \in [Images -> SemsOrNone]
  /\ [c \in Chains |-> NoneTracked] \in [Chains -> [Images -> SemsOrNone]]
  /\ TrackedIn([c \in Chains |-> NoneTracked]) = {}
<1>1. NoneTracked \in [Images -> SemsOrNone]
  BY DEF NoneTracked, SemsOrNone
<1>2. \A c \in Chains, i \in Images : [d \in Chains |-> NoneTracked][c][i] = NoSem
  BY DEF NoneTracked
<1> QED BY <1>1, <1>2, TrackedInSlots

(* Only handles are tracked.                                               *)
LEMMA TrackedType ==
  ASSUME NEW t \in [Chains -> [Images -> SemsOrNone]]
  PROVE  TrackedIn(t) \subseteq Sems
BY TrackedInSlots DEF SemsOrNone

(* Emptying the slots of a swapchain tracks nothing new.                   *)
LEMMA ClearedSlots ==
  ASSUME NEW t \in [Chains -> [Images -> SemsOrNone]], NEW d
  PROVE  /\ [t EXCEPT ![d] = NoneTracked] \in [Chains -> [Images -> SemsOrNone]]
         /\ TrackedIn([t EXCEPT ![d] = NoneTracked]) \subseteq TrackedIn(t)
<1> DEFINE u == [t EXCEPT ![d] = NoneTracked]
<1>1. u \in [Chains -> [Images -> SemsOrNone]]
  BY NothingTracked
<1>2. \A c \in Chains, i \in Images : u[c][i] # NoSem => u[c][i] = t[c][i]
  BY DEF NoneTracked
<1> HIDE DEF u
<1>3. TrackedIn(u) \subseteq TrackedIn(t)
  BY <1>2, TrackedInSlots
<1> QED BY <1>1, <1>3 DEF u

(* Emptying the slot of one image: at most its semaphore goes.             *)
LEMMA ClearedSlot ==
  ASSUME NEW t \in [Chains -> [Images -> SemsOrNone]], NEW d \in Chains, NEW j \in Images
  PROVE  /\ [t EXCEPT ![d][j] = NoSem] \in [Chains -> [Images -> SemsOrNone]]
         /\ TrackedIn([t EXCEPT ![d][j] = NoSem]) \subseteq TrackedIn(t)
         /\ TrackedIn(t) \subseteq TrackedIn([t EXCEPT ![d][j] = NoSem]) \cup {t[d][j]}
<1> DEFINE u == [t EXCEPT ![d][j] = NoSem]
<1>1. u \in [Chains -> [Images -> SemsOrNone]]
  BY DEF SemsOrNone
<1>2. \A c \in Chains, i \in Images : u[c][i] = IF c = d /\ i = j THEN NoSem ELSE t[c][i]
  OBVIOUS
<1> HIDE DEF u
<1>3. TrackedIn(u) \subseteq TrackedIn(t)
  BY <1>2, TrackedInSlots
<1>4. TrackedIn(t) \subseteq TrackedIn(u) \cup {t[d][j]}
  BY <1>2, TrackedInSlots
<1> QED BY <1>1, <1>3, <1>4 DEF u

-----------------------------------------------------------------------------
(* Type correctness, and that the hook's arguments exist.                  *)

TypeInv == TypeOK /\ CallOK

LEMMA TypeInit == Init => TypeInv
<1> SUFFICES ASSUME Init PROVE TypeInv
  OBVIOUS
<1>1. TypeOK
  BY NothingTracked, PresentAssumption DEF Init, TypeOK, SemsOrNone
<1>2. CallOK
  BY DEF Init, CallOK, NoCall
<1> QED BY <1>1, <1>2 DEF TypeInv

(* The hook's steps that make or drop the context.                         *)
LEMMA CreateContextType ==
  ASSUME TypeInv, CreateContext, call.family # NoFamily
  PROVE  /\ ctx' \in BOOLEAN /\ family' \in Families \cup {NoFamily} /\ disabled' \in BOOLEAN
         /\ fence' \in {"signaled", "pending", "failed"}
         /\ ctx' <=> family' # NoFamily
BY DEF TypeInv, TypeOK, CallOK, CreateContext, InitFailed

(* An idle wait changes the driver's side only.                            *)
LEMMA WaitIdleType ==
  ASSUME TypeInv, NEW STATE cond, WaitIdleIf(cond)
  PROVE  /\ sem' \in [Sems -> {"none", "idle", "signaled", "waited"}]
         /\ awaited' \in [Chains -> [Images -> SemsOrNone]]
         /\ fence' \in {"signaled", "pending", "failed"} /\ job' \in SemsOrNone
BY NothingTracked DEF TypeInv, TypeOK, WaitIdleIf, WaitIdle, SemsOrNone

LEMMA ReturnType ==
  ASSUME Return
  PROVE  /\ pc' = "app" /\ hand' = NoSem /\ rendered' = FALSE /\ submitted' = FALSE
         /\ call'.family = NoFamily /\ DOMAIN call'.images = {} /\ kept' = {}
BY DEF Return, NoCall

LEMMA GpuDoneType == TypeInv /\ GpuDone => TypeInv'
BY DEF TypeInv, TypeOK, CallOK, GpuDone, SemsOrNone, deviceVars, callVars

LEMMA WaitDoneType == ASSUME TypeInv, NEW s \in Sems, WaitDone(s) PROVE TypeInv'
<1>1. awaited' \in [Chains -> [Images -> SemsOrNone]]
  BY DEF TypeInv, TypeOK, WaitDone, SemsOrNone
<1> QED BY <1>1 DEF TypeInv, TypeOK, CallOK, WaitDone, deviceVars, callVars

LEMMA CreateSwapchainType == ASSUME TypeInv, NEW c \in Chains, CreateSwapchain(c) PROVE TypeInv'
BY NothingTracked DEF TypeInv, TypeOK, CallOK, CreateSwapchain, callVars

LEMMA BeginDestroySwapchainType ==
  ASSUME TypeInv, NEW c \in Chains, BeginDestroySwapchain(c)
  PROVE  TypeInv'
<1>1. /\ call'.family = NoFamily /\ pc' = "destroySwapchain"
      /\ \A k \in DOMAIN call'.images : call'.images[k][1] = c
  BY DEF BeginDestroySwapchain, NoCall
<1>2. CallOK'
  <2>1. /\ kept' = {}
        /\ c \in live /\ live' = live
    BY DEF BeginDestroySwapchain, TypeInv, CallOK
  <2> QED BY <1>1, <2>1 DEF CallOK
<1>3. TypeOK'
  BY WaitIdleType DEF TypeInv, TypeOK, BeginDestroySwapchain, deviceVars
<1> QED BY <1>2, <1>3 DEF TypeInv

LEMMA DestroySwapchainType == ASSUME TypeInv, DestroySwapchain PROVE TypeInv'
<1> DEFINE d == call.images[1][1]
<1>1. /\ tracked' \in [Chains -> [Images -> SemsOrNone]]
      /\ awaited' \in [Chains -> [Images -> SemsOrNone]]
  BY ClearedSlots, NothingTracked DEF TypeInv, TypeOK, DestroySwapchain
<1>2. /\ pool' \subseteq Sems /\ available' \subseteq Sems
      /\ sem' \in [Sems -> {"none", "idle", "signaled", "waited"}]
  BY DEF TypeInv, TypeOK, DestroySwapchain, Discard
<1>3. /\ live' = live \ {d} /\ lost' = lost \ {d} /\ known' = known \ {d}
      /\ held' \in [Chains -> SUBSET Images] /\ Return
      /\ UNCHANGED <<wine, fence, job, up, ctx, family, disabled>>
  BY DEF TypeInv, TypeOK, DestroySwapchain
<1> HIDE DEF d
<1>4. TypeOK'
  BY <1>1, <1>2, <1>3, ReturnType DEF TypeInv, TypeOK, SemsOrNone
<1>5. CallOK'
  BY <1>3, ReturnType DEF CallOK
<1> QED BY <1>4, <1>5 DEF TypeInv

LEMMA DeviceType ==
  ASSUME TypeInv, BeginDestroyDevice \/ DestroyDevice \/ CreateDevice
  PROVE  TypeInv'
<1>1. CASE BeginDestroyDevice
  BY <1>1, WaitIdleType DEF TypeInv, TypeOK, CallOK, BeginDestroyDevice, Goto, deviceVars, callVars
<1>2. CASE DestroyDevice
  BY <1>2, NothingTracked, ReturnType
     DEF TypeInv, TypeOK, CallOK, DestroyDevice, NoContext, SemsOrNone
<1>3. CASE CreateDevice
  BY <1>3 DEF TypeInv, TypeOK, CallOK, CreateDevice, driverVars, callVars
<1> QED BY <1>1, <1>2, <1>3

LEMMA AcquireType ==
  ASSUME TypeInv, NEW c \in Chains, NEW i \in Images, Acquire(c, i)
  PROVE  TypeInv'
<1>1. tracked' \in [Chains -> [Images -> SemsOrNone]]
  BY ClearedSlot DEF Acquire, TypeInv, TypeOK
<1>2. available' \subseteq Sems
  BY DEF Acquire, TypeInv, TypeOK, Recycled
<1> QED BY <1>1, <1>2 DEF TypeInv, TypeOK, CallOK, Acquire, callVars

LEMMA BeginPresentType ==
  ASSUME TypeInv, NEW images \in ImageLists, NEW n, NEW f \in Families \cup {NoFamily}, NEW r,
         BeginPresent(images, n, f, r)
  PROVE  TypeInv'
<1>1. CallOK'
  <2>1. \A k \in DOMAIN images : images[k] \in Chains \X Images
    BY DEF ImageLists
  <2>2. /\ kept' = {} /\ pc' = "context"
        /\ call'.images = images /\ call'.family = f
        /\ \A k \in DOMAIN images : images[k][1] \in live'
    BY DEF BeginPresent, TypeInv, CallOK, driverVars
  <2> QED BY <2>1, <2>2 DEF CallOK
<1>2. TypeOK'
  BY DEF TypeInv, TypeOK, BeginPresent, driverVars, deviceVars
<1> QED BY <1>1, <1>2 DEF TypeInv

LEMMA ContextType ==
  ASSUME TypeInv, \/ KeepContext \/ DisableContext \/ FirstContext
                  \/ BeginChangeFamily \/ ClearTracking \/ Recreate
  PROVE  TypeInv'
<1> USE DEF TypeInv, TypeOK, CallOK, Goto, callVars
<1>1. CASE KeepContext
  BY <1>1 DEF KeepContext, driverVars, deviceVars
<1>2. CASE DisableContext
  BY <1>2 DEF DisableContext, driverVars
<1>3. CASE FirstContext
  BY <1>3, CreateContextType DEF FirstContext
<1>4. CASE BeginChangeFamily
  BY <1>4, WaitIdleType DEF BeginChangeFamily, deviceVars
<1>5. CASE ClearTracking
  BY <1>5, NothingTracked DEF ClearTracking, NoContext, SemsOrNone
<1>6. CASE Recreate
  BY <1>6, CreateContextType DEF Recreate
<1> QED BY <1>1, <1>2, <1>3, <1>4, <1>5, <1>6

LEMMA ChoiceType ==
  ASSUME TypeInv, \/ NothingToDraw \/ DrawSafely \/ TakeSemaphore \/ NewSemaphore \/ NoNewSemaphore
  PROVE  TypeInv'
<1> USE DEF TypeInv, TypeOK, CallOK, Goto, StartRendering, callVars
<1>1. CASE NothingToDraw \/ NoNewSemaphore
  BY <1>1 DEF NothingToDraw, NoNewSemaphore, driverVars, deviceVars
<1>2. CASE DrawSafely
  BY <1>2 DEF DrawSafely, driverVars, deviceVars
<1>3. CASE TakeSemaphore
  BY <1>3 DEF TakeSemaphore, driverVars, SemsOrNone
<1>4. CASE NewSemaphore
  BY <1>4 DEF NewSemaphore, SemsOrNone
<1> QED BY <1>1, <1>2, <1>3, <1>4

LEMMA RenderType ==
  ASSUME TypeInv, Prepare \/ Render \/ RenderSkips \/ RenderFails
  PROVE  TypeInv'
<1>1. CASE Prepare
  BY <1>1 DEF TypeInv, TypeOK, CallOK, Prepare, Goto, callVars, driverVars, deviceVars
<1>2. CASE Render
  <2>1. pc' \in {"render", "forward"}
    BY <1>2 DEF Render, Advance
  <2>2. Signal \in SemsOrNone
    BY DEF Signal, TypeInv, TypeOK, SemsOrNone
  <2> QED BY <1>2, <2>1, <2>2 DEF TypeInv, TypeOK, CallOK, Render, deviceVars
<1>3. CASE RenderSkips \/ RenderFails
  <2>1. RenderReturnsZero /\ fence' \in {"signaled", "pending", "failed"}
    BY <1>3 DEF RenderSkips, RenderFails, TypeInv, TypeOK
  <2>2. pc' \in {"render", "forward"}
    BY <2>1 DEF RenderReturnsZero, Advance
  <2>3. hand' \in SemsOrNone /\ available' \subseteq Sems
    BY <2>1 DEF RenderReturnsZero, Recycled, TypeInv, TypeOK, SemsOrNone
  <2>4. pc \in {"render", "submit"} /\ UNCHANGED <<call, kept, live>>
    BY <1>3, <2>1 DEF RenderSkips, RenderFails, RenderReturnsZero
  <2>5. CallOK'
    BY <2>2, <2>4 DEF TypeInv, CallOK
  <2>6. TypeOK'
    BY <2>1, <2>3 DEF TypeInv, TypeOK, RenderReturnsZero
  <2> QED BY <2>5, <2>6 DEF TypeInv
<1> QED BY <1>1, <1>2, <1>3

LEMMA ForwardType == ASSUME TypeInv, Forward PROVE TypeInv'
<1>1. CallOK'
  <2>1. \A R : KeptOnError(R) \subseteq DOMAIN call.images
    BY DEF KeptOnError
  <2>2. kept' \subseteq DOMAIN call.images
    BY <2>1 DEF Forward
  <2>3. UNCHANGED <<call, live>> /\ pc = "forward" /\ pc' = "track"
    BY DEF Forward
  <2> QED BY <2>2, <2>3 DEF TypeInv, CallOK
<1>2. ForwardedSem \in SemsOrNone
  BY DEF ForwardedSem, TypeInv, TypeOK, SemsOrNone
<1>3. ASSUME NEW R, Enqueue(R)
      PROVE  /\ held' \in [Chains -> SUBSET Images]
             /\ awaited' \in [Chains -> [Images -> SemsOrNone]]
             /\ sem' \in [Sems -> {"none", "idle", "signaled", "waited"}]
  BY <1>2, <1>3 DEF Enqueue, TypeInv, TypeOK
<1>4. /\ held' \in [Chains -> SUBSET Images]
      /\ awaited' \in [Chains -> [Images -> SemsOrNone]]
      /\ sem' \in [Sems -> {"none", "idle", "signaled", "waited"}]
  BY <1>3 DEF Forward, TypeInv, TypeOK
<1>5. lost' \subseteq live'
  <2>1. \A R \in SUBSET DOMAIN call.images : {call.images[k][1] : k \in R} \subseteq live
    BY DEF TypeInv, CallOK
  <2>2. live' = live /\ lost \subseteq live
    BY DEF Forward, TypeInv, TypeOK
  <2>3. \/ lost' = lost
        \/ \E R \in SUBSET DOMAIN call.images : lost' = lost \cup {call.images[k][1] : k \in R}
    BY DEF Forward
  <2> QED BY <2>1, <2>2, <2>3
<1> QED BY <1>1, <1>4, <1>5 DEF Forward, TypeInv, TypeOK, deviceVars

LEMMA TrackType ==
  ASSUME TypeInv, Track \/ Drain \/ DiscardHand \/ NothingToTrack
  PROVE  TypeInv'
<1>1. CASE Track
  <2>1. tracked' \in [Chains -> [Images -> SemsOrNone]]
    BY <1>1 DEF Track, TypeInv, TypeOK
  <2>2. available' \subseteq Sems
    BY <1>1 DEF Track, Recycled, TypeInv, TypeOK
  <2> QED BY <1>1, <2>1, <2>2, ReturnType DEF TypeInv, TypeOK, CallOK, Track, driverVars, SemsOrNone
<1>2. CASE Drain
  <2>1. WaitIdleIf(TRUE)
    BY <1>2 DEF Drain, WaitIdleIf
  <2> QED BY <1>2, <2>1, WaitIdleType DEF TypeInv, TypeOK, CallOK, Drain, Goto, deviceVars, callVars
<1>3. CASE DiscardHand
  BY <1>3, ReturnType DEF TypeInv, TypeOK, CallOK, DiscardHand, Discard, SemsOrNone
<1>4. CASE NothingToTrack
  BY <1>4, ReturnType DEF TypeInv, TypeOK, CallOK, NothingToTrack, driverVars, deviceVars, SemsOrNone
<1> QED BY <1>1, <1>2, <1>3, <1>4

LEMMA TypeStep == TypeInv /\ [Next]_vars => TypeInv'
<1> SUFFICES ASSUME TypeInv, [Next]_vars PROVE TypeInv'
  OBVIOUS
<1>1. CASE Driver
  BY <1>1, GpuDoneType, WaitDoneType DEF Driver
<1>2. CASE Application
  BY <1>2, DeviceType, CreateSwapchainType, BeginDestroySwapchainType, AcquireType, BeginPresentType
     DEF Application
<1>3. CASE Hook
  BY <1>3, DestroySwapchainType, DeviceType, ContextType, ChoiceType, RenderType, ForwardType, TrackType
     DEF Hook
<1>4. CASE UNCHANGED vars
  BY <1>4 DEF vars, driverVars, deviceVars, callVars, TypeInv, TypeOK, CallOK
<1> QED BY <1>1, <1>2, <1>3, <1>4 DEF Next

(* The variables keep their types: the renderer exists exactly while a     *)
(* queue family is recorded, and no slot of the table outlives its         *)
(* swapchain.                                                              *)
THEOREM TypeCorrect == Spec => []TypeOK
<1>1. TypeInv => TypeOK
  BY DEF TypeInv
<1> QED BY <1>1, TypeInit, TypeStep, PTL DEF Spec

-----------------------------------------------------------------------------
(* The pool.                                                               *)

LEMMA PoolInit == Init => PoolInv
<1> SUFFICES ASSUME Init PROVE PoolInv
  OBVIOUS
<1>1. TypeOK /\ CallOK
  BY TypeInit DEF TypeInv
<1>2. HandOK /\ ContextOK
  BY DEF Init, HandOK, ContextOK
<1>3. PoolAccounted
  BY NothingTracked DEF Init, PoolAccounted, Hand
<1> QED BY <1>1, <1>2, <1>3 DEF PoolInv

(* What leaves the pool, its places and the existence of handles alone     *)
(* keeps it accounted.                                                     *)
LEMMA PoolFrame ==
  ASSUME PoolAccounted, UNCHANGED <<pool, available, tracked, hand>>,
         \A s \in Sems : sem'[s] = "none" <=> sem[s] = "none"
  PROVE  PoolAccounted'
BY DEF PoolAccounted, TrackedIn, TrackedBy, Hand

LEMMA WaitIdleKeeps ==
  ASSUME TypeOK, NEW STATE cond, WaitIdleIf(cond)
  PROVE  \A s \in Sems : sem'[s] = "none" <=> sem[s] = "none"
BY DEF TypeOK, WaitIdleIf, WaitIdle

(* A recycled semaphore of the pool becomes available: there is a pool     *)
(* only with a context.                                                    *)
LEMMA RecycledIs ==
  ASSUME ContextOK, NEW S PROVE Recycled(S) = available \cup (S \cap pool)
BY DEF ContextOK, Recycled

(* Without a context nothing is in the pool, in a slot, or in hand.        *)
LEMMA NoContextPool ==
  ASSUME NoContext, tracked' = [c \in Chains |-> NoneTracked], hand' = NoSem
  PROVE  PoolAccounted'
BY NothingTracked DEF NoContext, PoolAccounted, Hand

LEMMA DriverPool ==
  ASSUME PoolInv, Driver
  PROVE  HandOK' /\ ContextOK' /\ PoolAccounted'
<1>1. /\ UNCHANGED <<wine, deviceVars, pc, callVars>>
      /\ \A s \in Sems : sem'[s] = "none" <=> sem[s] = "none"
  BY DEF Driver, GpuDone, WaitDone, PoolInv, TypeOK
<1> QED BY <1>1, PoolFrame DEF PoolInv, HandOK, ContextOK, Safe, deviceVars, callVars

LEMMA CreateSwapchainPool ==
  ASSUME PoolInv, NEW c \in Chains, CreateSwapchain(c)
  PROVE  HandOK' /\ ContextOK' /\ PoolAccounted'
<1>1. tracked' = tracked
  BY DEF CreateSwapchain, PoolInv, TypeOK, ContextOK
<1>2. UNCHANGED <<wine, sem, pool, available, ctx, pc, callVars>> /\ known \subseteq known'
  BY DEF CreateSwapchain
<1> QED BY <1>1, <1>2, PoolFrame DEF PoolInv, HandOK, ContextOK, Safe, callVars

LEMMA BeginDestroyPool ==
  ASSUME PoolInv, BeginDestroyDevice \/ CreateDevice \/ \E c \in Chains : BeginDestroySwapchain(c)
  PROVE  HandOK' /\ ContextOK' /\ PoolAccounted'
<1>1. /\ UNCHANGED <<wine, pool, available, tracked, ctx, known, hand, submitted>>
      /\ pc = "app" /\ pc' \in {"app", "destroyDevice", "destroySwapchain"}
      /\ \A s \in Sems : sem'[s] = "none" <=> sem[s] = "none"
  BY WaitIdleKeeps
     DEF BeginDestroyDevice, CreateDevice, BeginDestroySwapchain, Goto, PoolInv,
         deviceVars, callVars, driverVars
<1> QED BY <1>1, PoolFrame DEF PoolInv, HandOK, ContextOK, Safe

LEMMA AcquirePool ==
  ASSUME PoolInv, NEW c \in Chains, NEW i \in Images, Acquire(c, i)
  PROVE  HandOK' /\ ContextOK' /\ PoolAccounted'
<1> DEFINE s == tracked[c][i]
           released == {s} \ TrackedIn(tracked')
<1>1. /\ UNCHANGED <<wine, sem, pool, ctx, known, pc, callVars>>
      /\ tracked' = [tracked EXCEPT ![c][i] = NoSem]
      /\ available' = available \cup (released \cap pool)
  BY RecycledIs DEF Acquire, PoolInv
<1>2. /\ TrackedIn(tracked') \subseteq TrackedIn(tracked)
      /\ TrackedIn(tracked) \subseteq TrackedIn(tracked') \cup {s}
  BY <1>1, ClearedSlot DEF PoolInv, TypeOK
<1>3. released \cap pool \subseteq TrackedIn(tracked)
  <2>1. s # NoSem => s \in TrackedIn(tracked)
    BY TrackedInSlots
  <2> QED BY <2>1, PresentAssumption DEF PoolInv, TypeOK
<1>4. PoolAccounted'
  BY <1>1, <1>2, <1>3 DEF PoolInv, PoolAccounted, Hand, callVars
<1>5. \A d \in Chains \ known : tracked'[d] = NoneTracked
  BY <1>1 DEF PoolInv, TypeOK, ContextOK, NoneTracked
<1> QED BY <1>1, <1>4, <1>5 DEF PoolInv, HandOK, ContextOK, Safe, callVars

LEMMA DestroySwapchainPool ==
  ASSUME PoolInv, DestroySwapchain
  PROVE  HandOK' /\ ContextOK' /\ PoolAccounted'
<1> DEFINE c == call.images[1][1]
           gone == TrackedIn(tracked) \ TrackedIn(tracked')
<1>1. /\ tracked' = [tracked EXCEPT ![c] = NoneTracked] /\ known' = known \ {c}
      /\ IF ctx THEN Discard(gone) ELSE UNCHANGED <<pool, available, sem>>
      /\ Return /\ UNCHANGED <<wine, ctx>> /\ pc = "destroySwapchain"
  BY DEF DestroySwapchain
<1>2. TrackedIn(tracked') \subseteq TrackedIn(tracked)
  BY <1>1, ClearedSlots DEF PoolInv, TypeOK
<1>3. hand = NoSem /\ hand' = NoSem
  BY <1>1, ReturnType DEF PoolInv, HandOK
<1>4. PoolAccounted'
  <2>1. CASE ctx
    BY <2>1, <1>1, <1>2, <1>3 DEF Discard, PoolInv, PoolAccounted, Hand, TypeOK
  <2>2. CASE ~ctx
    BY <2>2, <1>1, <1>2, <1>3 DEF PoolInv, ContextOK, PoolAccounted, Hand
  <2> QED BY <2>1, <2>2
<1>5. \A d \in Chains \ known' : tracked'[d] = NoneTracked
  BY <1>1 DEF PoolInv, TypeOK, ContextOK
<1>6. pool' # {} => ctx'
  BY <1>1 DEF Discard, PoolInv, ContextOK
<1> QED BY <1>1, <1>4, <1>5, <1>6, ReturnType DEF HandOK, ContextOK

LEMMA NoContextSteps ==
  ASSUME PoolInv, DestroyDevice \/ ClearTracking
  PROVE  HandOK' /\ ContextOK' /\ PoolAccounted'
<1>1. /\ NoContext /\ tracked' = [c \in Chains |-> NoneTracked]
      /\ hand' = NoSem /\ submitted' = FALSE /\ pc' \in {"app", "created"}
  BY ReturnType DEF DestroyDevice, ClearTracking, Goto, callVars, PoolInv, HandOK, TypeOK
<1> QED BY <1>1, NoContextPool DEF NoContext, HandOK, ContextOK

LEMMA ContextPool ==
  ASSUME PoolInv, \/ KeepContext \/ DisableContext \/ FirstContext \/ BeginChangeFamily \/ Recreate
                  \/ NothingToDraw \/ NoNewSemaphore
  PROVE  HandOK' /\ ContextOK' /\ PoolAccounted'
<1>1. /\ UNCHANGED <<wine, pool, available, tracked, known, hand, submitted>>
      /\ pc \in {"context", "created", "hand"} /\ pc' \in {"hand", "recreate", "forward"}
      /\ \A s \in Sems : sem'[s] = "none" <=> sem[s] = "none"
  BY WaitIdleKeeps
     DEF KeepContext, DisableContext, FirstContext, BeginChangeFamily, Recreate, NothingToDraw,
         NoNewSemaphore, Goto, PoolInv, deviceVars, callVars, driverVars
<1>2. pool # {} => ctx'
  BY DEF KeepContext, DisableContext, FirstContext, BeginChangeFamily, Recreate, NothingToDraw,
         NoNewSemaphore, PoolInv, ContextOK, deviceVars
<1> QED BY <1>1, <1>2, PoolFrame DEF PoolInv, HandOK, ContextOK

LEMMA BeginPresentPool ==
  ASSUME PoolInv, NEW images, NEW n, NEW f, NEW r, BeginPresent(images, n, f, r)
  PROVE  HandOK' /\ ContextOK' /\ PoolAccounted'
<1>1. /\ UNCHANGED <<wine, sem, pool, available, tracked, known, ctx, hand, submitted>>
      /\ pc = "app" /\ pc' = "context"
  BY DEF BeginPresent, driverVars, deviceVars
<1> QED BY <1>1, PoolFrame DEF PoolInv, HandOK, ContextOK

(* Choosing the semaphore of a present: from the available ones, a new     *)
(* one, or none on Wine's safe path.                                       *)
LEMMA ChoicePool ==
  ASSUME PoolInv, DrawSafely \/ TakeSemaphore \/ NewSemaphore
  PROVE  HandOK' /\ ContextOK' /\ PoolAccounted'
<1>1. /\ UNCHANGED <<wine, tracked, known, ctx, submitted>>
      /\ pc = "hand" /\ pc' = "render" /\ hand = NoSem /\ ~submitted /\ ctx
  BY DEF DrawSafely, TakeSemaphore, NewSemaphore, StartRendering, DrawsOverlay, PoolInv, HandOK,
         deviceVars
<1>2. ContextOK'
  BY <1>1 DEF PoolInv, ContextOK
<1>3. CASE DrawSafely
  <2>1. UNCHANGED <<sem, pool, available, hand>> /\ Safe
    BY <1>3 DEF DrawSafely, driverVars, deviceVars
  <2> QED BY <1>1, <1>2, <2>1, PoolFrame DEF PoolInv, HandOK, Safe
<1>4. CASE TakeSemaphore
  <2>1. PICK s \in available : hand' = s /\ available' = available \ {s}
    BY <1>4 DEF TakeSemaphore
  <2>2. UNCHANGED <<sem, pool>> /\ ~Safe /\ s # NoSem
    BY <1>4, PresentAssumption DEF TakeSemaphore, driverVars, PoolInv, TypeOK
  <2>3. PoolAccounted'
    BY <1>1, <2>1, <2>2 DEF PoolInv, PoolAccounted, Hand, TrackedIn, TrackedBy
  <2> QED BY <1>1, <1>2, <2>1, <2>2, <2>3 DEF HandOK, Safe
<1>5. CASE NewSemaphore
  <2>1. /\ hand' \in Sems /\ sem[hand'] = "none" /\ hand' # NoSem /\ ~Safe
        /\ pool' = pool \cup {hand'} /\ sem' = [sem EXCEPT ![hand'] = "idle"]
        /\ available' = available
    BY <1>5, PresentAssumption DEF NewSemaphore
  <2>2. PoolAccounted'
    BY <1>1, <2>1 DEF PoolInv, TypeOK, PoolAccounted, Hand, TrackedIn, TrackedBy
  <2> QED BY <1>1, <1>2, <2>1, <2>2 DEF HandOK, Safe
<1> QED BY <1>3, <1>4, <1>5

(* Rendering: the last submission signals the semaphore, or it goes back.  *)
LEMMA RenderPool ==
  ASSUME PoolInv, Prepare \/ Render \/ RenderSkips \/ RenderFails
  PROVE  HandOK' /\ ContextOK' /\ PoolAccounted'
<1>1. /\ UNCHANGED <<wine, pool, tracked, known, ctx>>
      /\ pc \in {"render", "submit"} /\ ~submitted /\ (hand = NoSem <=> Safe)
      /\ pc' \in {"render", "submit", "forward"}
  BY DEF Prepare, Goto, Render, RenderSkips, RenderFails, RenderReturnsZero, Advance, PoolInv, HandOK,
         deviceVars
<1>2. ContextOK'
  BY <1>1 DEF PoolInv, ContextOK
<1>3. Signal = IF next = Last(Targets) THEN hand ELSE NoSem
  BY <1>1 DEF Signal
<1>4. CASE Prepare
  <2>1. UNCHANGED <<sem, available, hand, submitted>> /\ pc' = "submit"
    BY <1>4 DEF Prepare, Goto, driverVars, deviceVars, callVars
  <2> QED BY <1>1, <1>2, <2>1, PoolFrame DEF PoolInv, HandOK, Safe
<1>5. CASE Render
  <2>1. /\ UNCHANGED <<available, hand>> /\ submitted' = (Signal # NoSem)
        /\ sem' = [s \in Sems |-> IF s = Signal THEN "signaled" ELSE sem[s]]
        /\ pc' = IF next = Last(Targets) THEN "forward" ELSE "render"
    BY <1>5 DEF Render, Advance, deviceVars
  <2>2. Signal # NoSem => Signal \in pool
    BY <1>3 DEF PoolInv, PoolAccounted, Hand
  <2>3. \A s \in Sems : sem'[s] = "none" <=> sem[s] = "none"
    BY <2>1, <2>2, PresentAssumption DEF PoolInv, PoolAccounted
  <2>4. PoolAccounted'
    BY <1>1, <2>1, <2>3, PoolFrame DEF PoolInv
  <2> QED BY <1>1, <1>2, <1>3, <2>1, <2>4 DEF HandOK, Safe
<1>6. CASE RenderSkips \/ RenderFails
  <2>1. /\ RenderReturnsZero /\ UNCHANGED <<sem, submitted>>
        /\ pc' = IF next = Last(Targets) THEN "forward" ELSE "render"
        /\ hand' = IF Signal # NoSem THEN NoSem ELSE hand
        /\ available' = IF Signal # NoSem THEN available \cup ({hand} \cap pool) ELSE available
    BY <1>6, RecycledIs DEF RenderSkips, RenderFails, RenderReturnsZero, Advance, PoolInv
  <2>2. Signal # NoSem => hand \in pool
    BY <1>3 DEF PoolInv, PoolAccounted, Hand
  <2>3. PoolAccounted'
    BY <1>1, <1>3, <2>1, <2>2 DEF PoolInv, PoolAccounted, Hand, TrackedIn, TrackedBy
  <2> QED BY <1>1, <1>2, <1>3, <2>1, <2>3 DEF HandOK, Safe
<1> QED BY <1>4, <1>5, <1>6

(* The real present uses the semaphore but moves none.                     *)
LEMMA ForwardPool ==
  ASSUME PoolInv, Forward
  PROVE  HandOK' /\ ContextOK' /\ PoolAccounted'
<1>1. /\ UNCHANGED <<wine, deviceVars, hand, submitted>> /\ pc = "forward" /\ pc' = "track"
  BY DEF Forward
<1>2. ForwardedSem # NoSem => ForwardedSem \in pool
  BY DEF ForwardedSem, PoolInv, PoolAccounted, Hand
<1>3. \A s \in Sems : sem'[s] = "none" <=> sem[s] = "none"
  <2>1. ASSUME NEW R, Enqueue(R) PROVE \A s \in Sems : sem'[s] = "none" <=> sem[s] = "none"
    BY <2>1, <1>2, PresentAssumption DEF Enqueue, PoolInv, PoolAccounted
  <2> QED BY <2>1 DEF Forward
<1> QED BY <1>1, <1>3, PoolFrame DEF PoolInv, HandOK, ContextOK, deviceVars

(* Tracking hands the semaphore over to the slots of the images presented; *)
(* what they named before, and no slot names now, goes back.               *)
LEMMA TrackPool ==
  ASSUME PoolInv, Track
  PROVE  HandOK' /\ ContextOK' /\ PoolAccounted'
<1> DEFINE released == TrackedIn(tracked) \ TrackedIn(tracked')
<1>1. /\ tracked' = [c \in Chains |-> [i \in Images |->
                      IF <<c, i>> \in Tracking THEN hand ELSE tracked[c][i]]]
      /\ available' = available \cup (released \cap pool)
      /\ Return /\ UNCHANGED <<wine, sem, pool, known, ctx>>
      /\ hand # NoSem /\ Tracking # {}
  BY RecycledIs DEF Track, driverVars, PoolInv, HandOK
<1>2. \A c \in Chains, i \in Images : <<c, i>> \in Tracking => c \in known
  BY DEF Tracking
<1>3. PICK c \in Chains, i \in Images : <<c, i>> \in Tracking
  <2>1. \A k \in DOMAIN call.images : call.images[k] \in Chains \X Images
    BY DEF Track, PoolInv, CallOK
  <2>2. PICK k \in DOMAIN call.images : call.images[k] \in Tracking
    BY <1>1 DEF Tracking, PoolInv, CallOK
  <2> QED BY <2>1, <2>2
<1>4. hand \in TrackedIn(tracked')
  BY <1>1, <1>3, TrackedInSlots
<1>5. TrackedIn(tracked') \subseteq TrackedIn(tracked) \cup {hand}
  <2>1. \A d \in Chains, j \in Images : tracked'[d][j] \in {hand, tracked[d][j]}
    BY <1>1
  <2> QED BY <2>1, TrackedInSlots
<1>6. PoolAccounted'
  BY <1>1, <1>4, <1>5, ReturnType DEF PoolInv, PoolAccounted, Hand
<1>7. \A d \in Chains \ known : tracked'[d] = NoneTracked
  BY <1>1, <1>2 DEF PoolInv, ContextOK, NoneTracked
<1> QED BY <1>1, <1>6, <1>7, ReturnType DEF PoolInv, HandOK, ContextOK

LEMMA DiscardPool ==
  ASSUME PoolInv, Drain \/ DiscardHand \/ NothingToTrack
  PROVE  HandOK' /\ ContextOK' /\ PoolAccounted'
<1>1. CASE Drain
  <2>1. /\ UNCHANGED <<wine, deviceVars, callVars>> /\ pc' = "discard" /\ WaitIdleIf(TRUE)
    BY <1>1 DEF Drain, Goto, WaitIdleIf
  <2>2. \A s \in Sems : sem'[s] = "none" <=> sem[s] = "none"
    BY <2>1, WaitIdleKeeps DEF PoolInv
  <2> QED BY <2>1, <2>2, PoolFrame DEF PoolInv, HandOK, ContextOK, deviceVars, callVars
<1>2. CASE DiscardHand
  <2>1. /\ Discard({hand}) /\ UNCHANGED <<wine, tracked, known, ctx>> /\ Return
    BY <1>2 DEF DiscardHand
  <2>2. TrackedIn(tracked') = TrackedIn(tracked)
    BY <2>1
  <2>3. hand \notin available \cup TrackedIn(tracked)
    <3>1. CASE hand = NoSem
      BY <3>1, TrackedInSlots, PresentAssumption DEF PoolInv, TypeOK
    <3>2. CASE hand # NoSem
      BY <3>2 DEF PoolInv, PoolAccounted, Hand
    <3> QED BY <3>1, <3>2
  <2>4. pool' = {s \in Sems : sem'[s] # "none"}
    BY <2>1 DEF Discard, PoolInv, PoolAccounted
  <2>5. PoolAccounted'
    BY <2>1, <2>2, <2>3, <2>4, ReturnType DEF Discard, PoolInv, PoolAccounted, Hand
  <2> QED BY <2>1, <2>5, ReturnType DEF Discard, PoolInv, HandOK, ContextOK
<1>3. CASE NothingToTrack
  <2>1. /\ UNCHANGED <<wine, sem, pool, available, tracked, known, ctx>> /\ Return /\ hand = NoSem
    BY <1>3 DEF NothingToTrack, driverVars, deviceVars, PoolInv, HandOK
  <2> QED BY <2>1, PoolFrame, ReturnType DEF PoolInv, HandOK, ContextOK
<1> QED BY <1>1, <1>2, <1>3

LEMMA PoolStep == PoolInv /\ [Next]_vars => PoolInv'
<1> SUFFICES ASSUME PoolInv, [Next]_vars PROVE PoolInv'
  OBVIOUS
<1>1. TypeOK' /\ CallOK'
  BY TypeStep DEF PoolInv, TypeInv
<1>2. CASE Driver
  BY <1>2, <1>1, DriverPool DEF PoolInv
<1>3. CASE Application
  BY <1>3, <1>1, BeginDestroyPool, CreateSwapchainPool, AcquirePool, BeginPresentPool
     DEF Application, PoolInv
<1>4. CASE Hook
  BY <1>4, <1>1, DestroySwapchainPool, NoContextSteps, ContextPool, ChoicePool, RenderPool,
     ForwardPool, TrackPool, DiscardPool
     DEF Hook, PoolInv
<1>5. CASE UNCHANGED vars
  <2>1. UNCHANGED <<wine, sem, deviceVars, pc, callVars>>
    BY <1>5 DEF vars, driverVars
  <2> QED BY <2>1, <1>1, PoolFrame DEF PoolInv, HandOK, ContextOK, Safe, deviceVars, callVars
<1> QED BY <1>2, <1>3, <1>4, <1>5 DEF Next

(* The inductive invariant: what the hook holds in its hand, the slots and *)
(* the renderer's vectors agree at every step, with every failure.         *)
THEOREM PoolInvCorrect == Spec => []PoolInv
BY PoolInit, PoolStep, PTL DEF Spec

(* No present semaphore leaks or is in two places at once, for any number  *)
(* of swapchains, images, handles and queue families, whatever fails.      *)
THEOREM PoolIsAccounted == Spec => []PoolAccounted
<1>1. PoolInv => PoolAccounted
  BY DEF PoolInv
<1> QED BY <1>1, PoolInvCorrect, PTL

-----------------------------------------------------------------------------
(* What is handed out is idle.                                             *)

(* A failed present of several swapchains says which ones it failed for.   *)
Told == "ambiguous" \notin Faults

LEMMA IdleInit == Init => IdleInv
BY DEF Init, IdleInv, AvailableIsIdle, SlotsFree, WaitsOutstanding, HandReady, Drained, NoneTracked,
       NoCall

(* Where the parts of the pool are.                                        *)
LEMMA PoolPlaces ==
  ASSUME PoolInv
  PROVE  /\ hand # NoSem => hand \in Sems /\ hand \notin available /\ sem[hand] # "none"
         /\ \A c \in Chains, i \in Images : tracked[c][i] # NoSem =>
              /\ tracked[c][i] \in Sems /\ tracked[c][i] # hand
              /\ tracked[c][i] \notin available /\ sem[tracked[c][i]] # "none"
         /\ \A c \in Chains, i \in Images : awaited[c][i] # NoSem => awaited[c][i] \in Sems
         /\ available \subseteq Sems /\ NoSem \notin Sems
<1>1. \A c \in Chains, i \in Images : tracked[c][i] # NoSem => tracked[c][i] \in TrackedIn(tracked)
  BY TrackedInSlots
<1>2. /\ available \subseteq Sems /\ hand \in SemsOrNone
      /\ tracked \in [Chains -> [Images -> SemsOrNone]]
      /\ awaited \in [Chains -> [Images -> SemsOrNone]]
  BY DEF PoolInv, TypeOK
<1> QED BY <1>1, <1>2, PresentAssumption DEF PoolInv, PoolAccounted, Hand, SemsOrNone

(* An idle wait settles everything that waits.                             *)
LEMMA IdleWait ==
  ASSUME PoolInv, IdleInv, NEW STATE cond, WaitIdleIf(cond), UNCHANGED <<lost, tracked, available>>
  PROVE  /\ AvailableIsIdle'
         /\ \A c \in Chains, i \in Images : awaited'[c][i] # NoSem => sem'[awaited'[c][i]] = "waited"
         /\ \A c \in Chains \ lost', i \in Images :
              tracked'[c][i] # NoSem => Settled(c, i, tracked[c][i])'
         /\ cond => \A s \in Sems : sem'[s] # "waited"
<1>1. CASE ~cond
  BY <1>1 DEF WaitIdleIf, IdleInv, AvailableIsIdle, WaitsOutstanding, Settled
<1>2. CASE cond
  <2>1. /\ sem' = [s \in Sems |-> IF sem[s] = "waited" THEN "idle" ELSE sem[s]]
        /\ awaited' = [c \in Chains |-> NoneTracked]
    BY <1>2 DEF WaitIdleIf, WaitIdle
  <2>2. \A s \in Sems : /\ sem'[s] # "waited"
                        /\ sem[s] \in {"idle", "waited"} => sem'[s] = "idle"
    BY <2>1
  <2>3. \A c \in Chains, i \in Images : awaited'[c][i] = NoSem
    BY <2>1 DEF NoneTracked
  <2>4. AvailableIsIdle'
    BY <2>2, PoolPlaces DEF IdleInv, AvailableIsIdle
  <2>5. \A c \in Chains \ lost', i \in Images : tracked'[c][i] # NoSem => sem'[tracked[c][i]] = "idle"
    BY <2>2, PoolPlaces DEF IdleInv, WaitsOutstanding, Settled
  <2> QED BY <2>2, <2>3, <2>4, <2>5 DEF Settled
<1> QED BY <1>1, <1>2

LEMMA GpuDoneIdle == IdleInv /\ GpuDone => IdleInv'
BY DEF GpuDone, deviceVars, callVars, IdleInv, AvailableIsIdle, SlotsFree, WaitsOutstanding, Settled,
       HandReady, Drained, FirstChain

LEMMA WaitDoneIdle ==
  ASSUME PoolInv, IdleInv, NEW s \in Sems, WaitDone(s)
  PROVE  IdleInv'
<1>1. /\ UNCHANGED <<wine, live, lost, held, deviceVars, pc, callVars>>
      /\ sem' = [sem EXCEPT ![s] = "idle"]
      /\ \A c \in Chains, i \in Images :
           awaited'[c][i] = IF awaited[c][i] = s THEN NoSem ELSE awaited[c][i]
  BY DEF WaitDone
<1>2. /\ sem'[s] = "idle"
      /\ \A t \in Sems : t # s => sem'[t] = sem[t]
  BY <1>1 DEF PoolInv, TypeOK
<1>3. ASSUME NEW c \in Chains, NEW i \in Images, NEW t \in Sems, Settled(c, i, t)
      PROVE  Settled(c, i, t)'
  BY <1>1, <1>2, <1>3 DEF Settled
<1>4. AvailableIsIdle'
  BY <1>1, <1>2, PoolPlaces DEF IdleInv, AvailableIsIdle, deviceVars
<1>5. SlotsFree'
  BY <1>1 DEF IdleInv, SlotsFree, deviceVars, callVars
<1>6. WaitsOutstanding'
  <2>1. \A c \in Chains, i \in Images : awaited'[c][i] # NoSem => sem'[awaited'[c][i]] = "waited"
    BY <1>1, <1>2, PoolPlaces DEF IdleInv, WaitsOutstanding
  <2>2. \A c \in Chains \ lost', i \in Images :
          tracked'[c][i] # NoSem => Settled(c, i, tracked[c][i])'
    BY <1>1, <1>3, PoolPlaces DEF IdleInv, WaitsOutstanding, deviceVars
  <2>3. pc' = "track" /\ submitted' =>
          \A k \in kept' : call'.images[k][1] \notin lost' =>
            Settled(call.images[k][1], call.images[k][2], hand)'
    <3>1. SUFFICES ASSUME pc = "track", submitted, NEW k \in kept, call.images[k][1] \notin lost
                   PROVE  Settled(call.images[k][1], call.images[k][2], hand)'
      BY <1>1 DEF callVars
    <3>2. call.images[k] \in Chains \X Images
      BY <3>1 DEF PoolInv, CallOK
    <3>3. hand \in Sems
      BY <3>1, PoolPlaces DEF PoolInv, HandOK
    <3>4. Settled(call.images[k][1], call.images[k][2], hand)
      BY <3>1 DEF IdleInv, WaitsOutstanding
    <3>5. hand' = hand /\ call' = call
      BY <1>1 DEF callVars
    <3> QED BY <1>1, <1>2, <3>2, <3>3, <3>4, <3>5 DEF Settled
  <2> QED BY <2>1, <2>2, <2>3, <1>1 DEF WaitsOutstanding, deviceVars, callVars, Settled
<1>7. HandReady'
  BY <1>1, <1>2, PoolPlaces DEF IdleInv, HandReady, callVars
<1>8. Drained'
  BY <1>1, <1>2 DEF IdleInv, Drained, FirstChain, deviceVars, callVars
<1> QED BY <1>4, <1>5, <1>6, <1>7, <1>8 DEF IdleInv

(* Steps that touch neither the driver's side nor the slots, before the    *)
(* present is forwarded.                                                   *)
LEMMA IdleFrame ==
  ASSUME IdleInv,
         UNCHANGED <<lost, held, sem, awaited, tracked, available, call, kept, hand, submitted>>,
         pc' \notin {"track", "discard", "destroySwapchain", "destroyDevice", "recreate"},
         pc \in {"app", "destroySwapchain", "destroyDevice"} => pc' = "app",
         pc' \in {"render", "submit"} => pc \in {"render", "submit"} \/ hand = NoSem,
         pc' = "forward" => ~submitted
  PROVE  IdleInv'
<1>1. AvailableIsIdle' /\ SlotsFree'
  BY DEF IdleInv, AvailableIsIdle, SlotsFree
<1>2. WaitsOutstanding'
  BY DEF IdleInv, WaitsOutstanding, Settled
<1>3. HandReady' /\ Drained'
  BY DEF IdleInv, HandReady, Drained
<1> QED BY <1>1, <1>2, <1>3 DEF IdleInv

LEMMA ContextIdle ==
  ASSUME PoolInv, IdleInv,
         \/ CreateDevice \/ KeepContext \/ DisableContext \/ FirstContext \/ Recreate
         \/ NothingToDraw \/ NoNewSemaphore \/ DrawSafely \/ Prepare
  PROVE  IdleInv'
<1>1. /\ UNCHANGED <<lost, held, sem, awaited, tracked, available, call, kept, hand, submitted>>
      /\ \/ pc = "app" /\ pc' = "app"
         \/ pc \in {"context", "created", "hand"} /\ pc' \in {"hand", "forward"}
         \/ pc = "hand" /\ pc' = "render"
         \/ pc = "render" /\ pc' = "submit"
  BY DEF CreateDevice, KeepContext, DisableContext, FirstContext, Recreate, NothingToDraw,
         NoNewSemaphore, DrawSafely, Prepare, StartRendering, Goto, driverVars, deviceVars, callVars
<1>2. pc = "hand" => hand = NoSem /\ ~submitted
  BY DEF PoolInv, HandOK
<1>3. pc \in {"context", "created"} => ~submitted
  BY DEF PoolInv, HandOK
<1> QED BY <1>1, <1>2, <1>3, IdleFrame

(* Steps that wait for everything, if there is something to wait for.      *)
LEMMA WaitIdle_Idle ==
  ASSUME PoolInv, IdleInv,
         BeginDestroyDevice \/ BeginChangeFamily \/ \E c \in Chains : BeginDestroySwapchain(c)
  PROVE  IdleInv'
<1>1. CASE BeginDestroyDevice \/ BeginChangeFamily
  <2>1. /\ UNCHANGED <<live, lost, held, tracked, available, call, kept, hand>>
        /\ pc' \in {"destroyDevice", "recreate"} /\ (pc = "app" => pc' = "destroyDevice")
        /\ pc \notin {"destroySwapchain", "destroyDevice"}
        /\ WaitIdleIf(TrackedIn(tracked) # {})
    BY <1>1 DEF BeginDestroyDevice, BeginChangeFamily, Goto, deviceVars, callVars
  <2>2. SlotsFree'
    BY <2>1 DEF IdleInv, SlotsFree
  <2>3. AvailableIsIdle' /\ WaitsOutstanding'
    BY <2>1, IdleWait DEF WaitsOutstanding, Settled
  <2>4. TrackedIn(tracked) = {} => sem' = sem /\ \A s \in Sems : sem[s] # "waited"
    <3>1. hand = NoSem
      BY <1>1 DEF BeginDestroyDevice, BeginChangeFamily, PoolInv, HandOK
    <3> QED BY <2>1, <3>1 DEF WaitIdleIf, PoolInv, PoolAccounted, Hand, IdleInv, AvailableIsIdle
  <2>5. HandReady' /\ Drained'
    BY <2>1, <2>4, IdleWait DEF HandReady, Drained
  <2> QED BY <2>2, <2>3, <2>5 DEF IdleInv
<1>2. ASSUME NEW c \in Chains, BeginDestroySwapchain(c) PROVE IdleInv'
  <2>1. /\ UNCHANGED <<live, lost, held, tracked, available, known, kept, hand>>
        /\ pc = "app" /\ pc' = "destroySwapchain" /\ FirstChain' = c
        /\ WaitIdleIf(c \in known /\ TrackedBy(tracked, c) # {})
    BY <1>2 DEF BeginDestroySwapchain, FirstChain, NoCall, deviceVars
  <2>2. kept = {}
    BY <2>1 DEF PoolInv, CallOK
  <2>3. SlotsFree'
    BY <2>1, <2>2 DEF IdleInv, SlotsFree
  <2>4. AvailableIsIdle' /\ WaitsOutstanding'
    BY <2>1, IdleWait DEF WaitsOutstanding, Settled
  <2>5. TrackedBy(tracked, c) # {} => c \in known
    BY DEF PoolInv, ContextOK, TrackedBy, NoneTracked
  <2>6. HandReady' /\ Drained'
    BY <2>1, <2>5, IdleWait DEF HandReady, Drained
  <2> QED BY <2>3, <2>4, <2>6 DEF IdleInv
<1> QED BY <1>1, <1>2

(* Without a context nothing is left that could wait.                      *)
LEMMA NoContextIdle == ASSUME PoolInv, IdleInv, DestroyDevice \/ ClearTracking PROVE IdleInv'
<1>1. /\ NoContext /\ tracked' = [c \in Chains |-> NoneTracked]
      /\ pc' \in {"app", "created"} /\ kept' = {}
      /\ DOMAIN call'.images = {} \/ (UNCHANGED <<call, held>> /\ pc = "recreate")
      /\ held' \in [Chains -> SUBSET Images]
  BY ReturnType DEF DestroyDevice, ClearTracking, Goto, callVars, PoolInv, CallOK, TypeOK
<1>2. /\ available' = {}
      /\ \A c \in Chains, i \in Images : awaited'[c][i] = NoSem /\ tracked'[c][i] = NoSem
  BY <1>1 DEF NoContext, NoneTracked
<1>3. SlotsFree'
  <2>1. \A c \in Chains : \A i \in held'[c] : tracked'[c][i] = NoSem
    BY <1>1, <1>2
  <2>2. \A k \in DOMAIN call'.images : tracked'[call'.images[k][1]][call'.images[k][2]] = NoSem
    BY <1>1, <1>2 DEF PoolInv, CallOK
  <2> QED BY <1>1, <2>1, <2>2 DEF SlotsFree
<1>4. AvailableIsIdle' /\ WaitsOutstanding' /\ HandReady' /\ Drained'
  BY <1>1, <1>2 DEF AvailableIsIdle, WaitsOutstanding, HandReady, Drained
<1> QED BY <1>3, <1>4 DEF IdleInv

LEMMA CreateSwapchainIdle ==
  ASSUME PoolInv, IdleInv, NEW c \in Chains, CreateSwapchain(c)
  PROVE  IdleInv'
<1>1. tracked' = tracked
  BY DEF CreateSwapchain, PoolInv, TypeOK, ContextOK
<1>2. /\ UNCHANGED <<lost, sem, awaited, available, pc, call, kept, hand, submitted, rendered>>
      /\ held' = [held EXCEPT ![c] = {}] /\ pc = "app" /\ kept = {}
  BY DEF CreateSwapchain, callVars, PoolInv, CallOK
<1>3. AvailableIsIdle' /\ SlotsFree'
  BY <1>1, <1>2 DEF IdleInv, AvailableIsIdle, SlotsFree, PoolInv, TypeOK
<1>4. WaitsOutstanding' /\ HandReady' /\ Drained'
  BY <1>1, <1>2 DEF IdleInv, WaitsOutstanding, Settled, HandReady, Drained
<1> QED BY <1>3, <1>4 DEF IdleInv

(* What only the swapchain's own images waited for is destroyed after the  *)
(* idle wait; the slots of the others keep theirs.                         *)
LEMMA DestroySwapchainIdle ==
  ASSUME PoolInv, IdleInv, DestroySwapchain
  PROVE  IdleInv'
<1> DEFINE c == FirstChain
           gone == TrackedIn(tracked) \ TrackedIn(tracked')
<1>1. /\ tracked' = [tracked EXCEPT ![c] = NoneTracked] /\ held' = [held EXCEPT ![c] = {}]
      /\ awaited' = [awaited EXCEPT ![c] = NoneTracked] /\ lost' = lost \ {c}
      /\ IF ctx THEN Discard(gone) ELSE UNCHANGED <<pool, available, sem>>
      /\ Return /\ pc = "destroySwapchain"
  BY DEF DestroySwapchain, FirstChain
<1> HIDE DEF c
<1>2. \A d \in Chains, i \in Images :
        /\ tracked'[d][i] = IF d = c THEN NoSem ELSE tracked[d][i]
        /\ awaited'[d][i] = IF d = c THEN NoSem ELSE awaited[d][i]
  BY <1>1 DEF PoolInv, TypeOK, NoneTracked
<1>3. \A s \in Sems : s \notin gone => sem'[s] = sem[s]
  BY <1>1 DEF Discard, PoolInv, TypeOK
<1>4. available' \subseteq available /\ gone \cap available = {}
  BY <1>1 DEF Discard, PoolInv, PoolAccounted
<1>5. AvailableIsIdle'
  BY <1>3, <1>4, PoolPlaces DEF IdleInv, AvailableIsIdle
<1>6. SlotsFree'
  BY <1>1, <1>2, ReturnType DEF IdleInv, SlotsFree, PoolInv, TypeOK
<1>7. WaitsOutstanding'
  <2>1. ASSUME NEW d \in Chains, NEW i \in Images, awaited'[d][i] # NoSem
        PROVE  sem'[awaited'[d][i]] = "waited"
    <3>1. awaited'[d][i] = awaited[d][i] /\ awaited[d][i] \in Sems /\ sem[awaited[d][i]] = "waited"
      BY <1>2, <2>1, PoolPlaces DEF IdleInv, WaitsOutstanding
    <3>2. TrackedBy(tracked, c) = {}
      BY <3>1, <1>1 DEF IdleInv, Drained, c
    <3>3. \A e \in Chains, j \in Images : tracked'[e][j] = tracked[e][j]
      BY <3>2, <1>2 DEF TrackedBy
    <3>4. gone = {}
      BY <3>3, TrackedInSlots
    <3> QED BY <3>1, <3>4, <1>3
  <2>2. ASSUME NEW d \in Chains \ lost', NEW i \in Images, tracked'[d][i] # NoSem
        PROVE  Settled(d, i, tracked[d][i])'
    <3>1. d # c /\ d \notin lost /\ tracked'[d][i] = tracked[d][i] /\ awaited'[d][i] = awaited[d][i]
      BY <1>1, <1>2, <2>2
    <3>2. Settled(d, i, tracked[d][i])
      BY <2>2, <3>1 DEF IdleInv, WaitsOutstanding
    <3>3. tracked[d][i] \in TrackedIn(tracked')
      BY <2>2, <3>1, TrackedInSlots
    <3> QED BY <2>2, <3>1, <3>2, <3>3, <1>3, PoolPlaces DEF Settled
  <2> QED BY <2>1, <2>2, <1>1, ReturnType DEF WaitsOutstanding, Settled
<1>8. HandReady' /\ Drained'
  BY <1>1, ReturnType DEF HandReady, Drained
<1> QED BY <1>5, <1>6, <1>7, <1>8 DEF IdleInv

(* An image that comes back tracks a semaphore whose wait is over.         *)
LEMMA AcquireIdle ==
  ASSUME PoolInv, IdleInv, NEW c \in Chains, NEW i \in Images, Acquire(c, i)
  PROVE  IdleInv'
<1>1. /\ UNCHANGED <<wine, lost, sem, awaited, pc, callVars>>
      /\ held' = [held EXCEPT ![c] = @ \cup {i}] /\ tracked' = [tracked EXCEPT ![c][i] = NoSem]
      /\ available' \subseteq available \cup ({tracked[c][i]} \cap pool)
      /\ c \notin lost \cup Busy /\ awaited[c][i] = NoSem
  BY DEF Acquire, Recycled
<1>2. \A d \in Chains, j \in Images :
        tracked'[d][j] = IF d = c /\ j = i THEN NoSem ELSE tracked[d][j]
  BY <1>1 DEF PoolInv, TypeOK
<1>3. \A d \in Chains : held'[d] = IF d = c THEN held[d] \cup {i} ELSE held[d]
  BY <1>1 DEF PoolInv, TypeOK
<1>4. \A k \in DOMAIN call.images : call.images[k][1] # c
  BY <1>1 DEF Busy
<1>5. AvailableIsIdle'
  <2>1. tracked[c][i] # NoSem => sem[tracked[c][i]] = "idle"
    BY <1>1 DEF IdleInv, WaitsOutstanding, Settled
  <2>2. NoSem \notin pool
    BY PoolPlaces DEF PoolInv, TypeOK
  <2>3. \A s \in available' : s \in available \/ (s = tracked[c][i] /\ s # NoSem)
    BY <1>1, <2>2
  <2>4. sem' = sem
    BY <1>1
  <2> QED BY <2>1, <2>3, <2>4 DEF IdleInv, AvailableIsIdle
<1>6. SlotsFree'
  <2>1. ASSUME NEW d \in Chains, NEW j \in held'[d] PROVE tracked'[d][j] = NoSem
    <3>1. held'[d] \subseteq Images
      BY <1>3 DEF PoolInv, TypeOK
    <3>2. (d = c /\ j = i) \/ j \in held[d]
      BY <1>3
    <3>3. j \in held[d] => tracked[d][j] = NoSem
      BY DEF IdleInv, SlotsFree
    <3> QED BY <1>2, <3>1, <3>2, <3>3
  <2>2. pc \notin {"app", "destroySwapchain", "destroyDevice"} =>
          \A k \in DOMAIN call.images : tracked'[call.images[k][1]][call.images[k][2]] = NoSem
    BY <1>2, <1>4 DEF IdleInv, SlotsFree, PoolInv, CallOK
  <2>3. \A k \in kept : call.images[k][2] \notin held'[call.images[k][1]]
    <3>1. \A k \in kept : k \in DOMAIN call.images /\ call.images[k] \in Chains \X Images
      BY DEF PoolInv, CallOK
    <3> QED BY <1>3, <1>4, <3>1 DEF IdleInv, SlotsFree
  <2> QED BY <1>1, <2>1, <2>2, <2>3 DEF SlotsFree, callVars
<1>7. WaitsOutstanding'
  BY <1>1, <1>2 DEF IdleInv, WaitsOutstanding, Settled, callVars
<1>8. HandReady' /\ Drained'
  <2>1. TrackedBy(tracked', FirstChain) \subseteq TrackedBy(tracked, FirstChain)
    <3>1. CASE FirstChain \in Chains
      BY <1>2, <3>1 DEF TrackedBy
    <3>2. CASE FirstChain \notin Chains
      BY <1>1, <3>2 DEF TrackedBy, PoolInv, TypeOK
    <3> QED BY <3>1, <3>2
  <2> QED BY <1>1, <2>1 DEF IdleInv, HandReady, Drained, FirstChain, callVars
<1> QED BY <1>5, <1>6, <1>7, <1>8 DEF IdleInv

(* The application presents what it holds, which tracks nothing.           *)
LEMMA BeginPresentIdle ==
  ASSUME PoolInv, IdleInv, NEW images \in ImageLists, NEW n, NEW f, NEW r,
         BeginPresent(images, n, f, r)
  PROVE  IdleInv'
<1>1. /\ UNCHANGED <<lost, held, sem, awaited, tracked, available, kept, hand, submitted>>
      /\ pc = "app" /\ pc' = "context" /\ call'.images = images /\ kept = {}
      /\ \A k \in DOMAIN images : images[k][2] \in held[images[k][1]]
  BY DEF BeginPresent, driverVars, deviceVars, PoolInv, CallOK
<1>2. \A k \in DOMAIN images : images[k] \in Chains \X Images
  BY DEF ImageLists
<1>3. SlotsFree'
  BY <1>1, <1>2 DEF IdleInv, SlotsFree
<1>4. AvailableIsIdle' /\ WaitsOutstanding' /\ HandReady' /\ Drained'
  BY <1>1 DEF IdleInv, AvailableIsIdle, WaitsOutstanding, Settled, HandReady, Drained
<1> QED BY <1>3, <1>4 DEF IdleInv

(* The semaphore chosen is idle.                                           *)
LEMMA ChoiceIdle ==
  ASSUME PoolInv, IdleInv, TakeSemaphore \/ NewSemaphore
  PROVE  IdleInv'
<1>1. /\ UNCHANGED <<lost, held, awaited, tracked, call, kept, submitted>>
      /\ pc = "hand" /\ pc' = "render"
  BY DEF TakeSemaphore, NewSemaphore, StartRendering, driverVars
<1>2. /\ available' \subseteq available /\ hand' \in Sems /\ sem'[hand'] = "idle"
      /\ \A s \in Sems : sem'[s] = sem[s] \/ (sem[s] = "none" /\ s = hand')
  BY DEF TakeSemaphore, NewSemaphore, driverVars, IdleInv, AvailableIsIdle, PoolInv, TypeOK
<1>3. \A s \in Sems : sem[s] # "none" => sem'[s] = sem[s]
  BY <1>2
<1>4. AvailableIsIdle' /\ SlotsFree'
  BY <1>1, <1>2, <1>3, PoolPlaces DEF IdleInv, AvailableIsIdle, SlotsFree
<1>5. WaitsOutstanding'
  BY <1>1, <1>3, PoolPlaces DEF IdleInv, WaitsOutstanding, Settled
<1>6. HandReady' /\ Drained'
  BY <1>1, <1>2 DEF HandReady, Drained
<1> QED BY <1>4, <1>5, <1>6 DEF IdleInv

(* A submission signals the semaphore in hand, which nothing else names.   *)
LEMMA RenderIdle ==
  ASSUME PoolInv, IdleInv, Render
  PROVE  IdleInv'
<1>1. /\ UNCHANGED <<lost, held, awaited, tracked, available, call, kept, hand>>
      /\ sem' = [s \in Sems |-> IF s = Signal THEN "signaled" ELSE sem[s]]
      /\ pc = "submit" /\ rendered'
      /\ pc' = IF next = Last(Targets) THEN "forward" ELSE "render"
  BY DEF Render, Advance, deviceVars
<1>2. Signal \in {hand, NoSem} /\ (Signal # NoSem => next = Last(Targets))
  BY DEF Signal
<1>3. \A s \in Sems : s # hand => sem'[s] = sem[s]
  BY <1>1, <1>2, PresentAssumption
<1>4. AvailableIsIdle' /\ SlotsFree'
  BY <1>1, <1>3, PoolPlaces DEF IdleInv, AvailableIsIdle, SlotsFree
<1>5. \A c \in Chains, i \in Images : awaited[c][i] # NoSem => awaited[c][i] # hand
  BY <1>1 DEF IdleInv, WaitsOutstanding, HandReady
<1>6. WaitsOutstanding'
  BY <1>1, <1>3, <1>5, PoolPlaces DEF IdleInv, WaitsOutstanding, Settled
<1>7. HandReady' /\ Drained'
  BY <1>1, <1>2, PoolPlaces DEF IdleInv, HandReady, Drained
<1> QED BY <1>4, <1>6, <1>7 DEF IdleInv

(* A semaphore that no submission signals goes back idle.                  *)
LEMMA RenderReturnsZeroIdle ==
  ASSUME PoolInv, IdleInv, RenderSkips \/ RenderFails
  PROVE  IdleInv'
<1>1. /\ UNCHANGED <<lost, held, sem, awaited, tracked, call, kept, submitted>>
      /\ available' \subseteq available \cup ({hand} \cap pool) /\ hand' \in {hand, NoSem}
      /\ pc \in {"render", "submit"} /\ pc' \in {"render", "forward"}
  BY DEF RenderSkips, RenderFails, RenderReturnsZero, Advance, Recycled
<1>2. ~submitted
  BY <1>1 DEF PoolInv, HandOK
<1>3. NoSem \notin pool
  BY PoolPlaces DEF PoolInv, TypeOK
<1>4. \A s \in available' : s \in available \/ (s = hand /\ hand # NoSem)
  BY <1>1, <1>3
<1>5. hand # NoSem => sem[hand] = "idle"
  BY <1>1 DEF IdleInv, HandReady
<1>6. AvailableIsIdle'
  BY <1>1, <1>4, <1>5 DEF IdleInv, AvailableIsIdle
<1>7. SlotsFree' /\ WaitsOutstanding'
  BY <1>1 DEF IdleInv, SlotsFree, WaitsOutstanding, Settled
<1>8. HandReady' /\ Drained'
  BY <1>1, <1>2, <1>5 DEF HandReady, Drained
<1> QED BY <1>6, <1>7, <1>8 DEF IdleInv

(* The real present.  What the driver took waits for the semaphore; what   *)
(* counts as accepted was taken, or its surface is lost.                   *)
LEMMA EnqueueIdle ==
  ASSUME PoolInv, IdleInv, pc = "forward", NEW R, Enqueue(R)
  PROVE  /\ \A s \in Sems : s # hand => sem'[s] = sem[s]
         /\ \A c \in Chains, i \in Images : awaited'[c][i] # NoSem => sem'[awaited'[c][i]] = "waited"
         /\ \A c \in Chains, i \in Images : <<c, i>> \notin Presented => awaited'[c][i] = awaited[c][i]
         /\ submitted => \A c \in Chains, i \in Images : <<c, i>> \in Presented \ R => awaited'[c][i] = hand
         /\ \A c \in Chains, i \in Images :
              i \in held'[c] <=> i \in held[c] /\ <<c, i>> \notin Presented
<1>1. /\ held' = [c \in Chains |-> held[c] \ {i \in Images : <<c, i>> \in Presented}]
      /\ awaited' = [c \in Chains |-> [i \in Images |->
                       IF <<c, i>> \in Presented \ R THEN ForwardedSem ELSE awaited[c][i]]]
      /\ sem' = [s \in Sems |-> IF s = ForwardedSem THEN "waited" ELSE sem[s]]
  BY DEF Enqueue
<1>2. /\ ForwardedSem \in {hand, NoSem}
      /\ submitted => ForwardedSem = hand
  BY DEF ForwardedSem, IdleInv, HandReady
<1>3. ForwardedSem # NoSem => ForwardedSem \in Sems
  BY <1>2, PoolPlaces
<1>4. \A s \in Sems : s # hand => sem'[s] = sem[s]
  BY <1>1, <1>2, PresentAssumption
<1>5. \A c \in Chains, i \in Images : awaited'[c][i] # NoSem => sem'[awaited'[c][i]] = "waited"
  BY <1>1, <1>3, PoolPlaces DEF IdleInv, WaitsOutstanding
<1> QED BY <1>1, <1>2, <1>4, <1>5

LEMMA ForwardIdle ==
  ASSUME PoolInv, IdleInv, Told, Forward
  PROVE  IdleInv'
<1>1. /\ UNCHANGED <<tracked, available, call, hand, rendered, submitted>>
      /\ pc = "forward" /\ pc' = "track"
  BY DEF Forward, deviceVars
<1>2. \A k \in DOMAIN call.images : call.images[k] \in Chains \X Images /\ call.images[k] \in Presented
  BY <1>1 DEF PoolInv, CallOK, Presented
<1>3. \A c \in Chains, i \in Images : <<c, i>> \in Presented => tracked[c][i] = NoSem
  <2>1. ASSUME NEW k \in DOMAIN call.images
        PROVE  tracked[call.images[k][1]][call.images[k][2]] = NoSem
    BY <1>1 DEF IdleInv, SlotsFree
  <2> QED BY <2>1 DEF Presented
<1>4. CASE kept' = {} /\ UNCHANGED <<lost, held, sem, awaited>>
  <2>1. AvailableIsIdle' /\ SlotsFree'
    BY <1>1, <1>4 DEF IdleInv, AvailableIsIdle, SlotsFree
  <2>2. WaitsOutstanding' /\ HandReady' /\ Drained'
    BY <1>1, <1>4 DEF IdleInv, WaitsOutstanding, Settled, HandReady, Drained
  <2> QED BY <2>1, <2>2 DEF IdleInv
<1>5. ASSUME NEW S \in SUBSET DOMAIN call.images, Enqueue({call.images[k] : k \in S}),
             lost' = lost \cup {call.images[k][1] : k \in S}, kept' \subseteq DOMAIN call.images
      PROVE  IdleInv'
  <2> DEFINE R == {call.images[k] : k \in S}
  <2>1. Enqueue(R)
    BY <1>5
  <2> HIDE DEF R
  <2>2. AvailableIsIdle'
    BY <1>1, <2>1, EnqueueIdle, PoolPlaces DEF IdleInv, AvailableIsIdle
  <2>3. SlotsFree'
    <3>1. \A c \in Chains : \A i \in held'[c] : tracked'[c][i] = NoSem
      BY <1>1, <2>1 DEF IdleInv, SlotsFree, Enqueue
    <3>2. \A k \in kept' : call.images[k][2] \notin held'[call.images[k][1]]
      BY <1>1, <1>2, <1>5, <2>1, EnqueueIdle
    <3> QED BY <1>1, <3>1, <3>2 DEF IdleInv, SlotsFree
  <2>4. \A c \in Chains \ lost', i \in Images :
          tracked'[c][i] # NoSem => Settled(c, i, tracked[c][i])'
    <3>1. SUFFICES ASSUME NEW c \in Chains \ lost', NEW i \in Images, tracked[c][i] # NoSem
                   PROVE  awaited'[c][i] = tracked[c][i] \/ sem'[tracked[c][i]] = "idle"
      BY <1>1 DEF Settled
    <3>2. Settled(c, i, tracked[c][i])
      BY <1>5, <3>1 DEF IdleInv, WaitsOutstanding
    <3>3. <<c, i>> \notin Presented
      BY <1>3, <3>1
    <3>4. tracked[c][i] \in Sems /\ tracked[c][i] # hand
      BY <3>1, PoolPlaces
    <3> QED BY <1>1, <2>1, <3>2, <3>3, <3>4, EnqueueIdle DEF Settled
  <2>5. ASSUME submitted, NEW k \in kept', call.images[k][1] \notin lost'
        PROVE  Settled(call.images[k][1], call.images[k][2], hand)'
    <3>1. call.images[k] \in Presented /\ call.images[k] \in Chains \X Images
      BY <1>2, <1>5
    <3>2. call.images[k] \notin R
      BY <1>5, <2>5 DEF R
    <3>3. awaited'[call.images[k][1]][call.images[k][2]] = hand
      BY <1>1, <2>1, <2>5, <3>1, <3>2, EnqueueIdle
    <3> QED BY <1>1, <3>3 DEF Settled
  <2>6. WaitsOutstanding'
    BY <1>1, <2>1, <2>4, <2>5, EnqueueIdle DEF WaitsOutstanding, Settled
  <2>7. HandReady' /\ Drained'
    BY <1>1 DEF HandReady, Drained
  <2> QED BY <2>2, <2>3, <2>6, <2>7 DEF IdleInv
<1>6. kept' \subseteq DOMAIN call.images
  BY DEF Forward, KeptOnError
<1>7. \/ kept' = {} /\ UNCHANGED <<lost, held, sem, awaited>>
      \/ \E S \in SUBSET DOMAIN call.images :
           /\ Enqueue({call.images[k] : k \in S})
           /\ lost' = lost \cup {call.images[k][1] : k \in S}
  <2>1. CASE Enqueue({}) /\ lost' = lost
    <3>1. {call.images[k] : k \in {}} = {} /\ {call.images[k][1] : k \in {}} = {}
      OBVIOUS
    <3> QED BY <2>1, <3>1
  <2>2. CASE /\ "ambiguous" \in Faults \/ call.results \/ Len(call.images) = 1
             /\ kept' = KeptOnError(DOMAIN call.images)
             /\ UNCHANGED <<lost, held, sem, awaited>>
    <3>1. CASE call.results
      BY <2>2, <3>1 DEF KeptOnError
    <3>2. CASE ~call.results /\ Len(call.images) = 1
      <4>1. ~(Len(call.images) > 1)
        BY <3>2
      <4> QED BY <2>2, <3>2, <4>1 DEF KeptOnError
    <3> QED BY <2>2, <3>1, <3>2 DEF Told
  <2>3. CASE \E S \in SUBSET DOMAIN call.images \ {{}} :
               /\ Enqueue({call.images[k] : k \in S})
               /\ lost' = lost \cup {call.images[k][1] : k \in S}
    BY <2>3
  <2>4. \/ Enqueue({}) /\ lost' = lost
        \/ \E S \in SUBSET DOMAIN call.images \ {{}} :
             /\ Enqueue({call.images[k] : k \in S})
             /\ lost' = lost \cup {call.images[k][1] : k \in S}
        \/ /\ "ambiguous" \in Faults \/ call.results \/ Len(call.images) = 1
           /\ kept' = KeptOnError(DOMAIN call.images)
           /\ UNCHANGED <<lost, held, sem, awaited>>
    BY DEF Forward
  <2> QED BY <2>1, <2>2, <2>3, <2>4
<1> QED BY <1>4, <1>5, <1>6, <1>7

(* Tracking: the slots of what was presented were free.                    *)
LEMMA TrackIdle ==
  ASSUME PoolInv, IdleInv, Track
  PROVE  IdleInv'
<1>1. /\ tracked' = [c \in Chains |-> [i \in Images |->
                      IF <<c, i>> \in Tracking THEN hand ELSE tracked[c][i]]]
      /\ available' \subseteq available \cup (TrackedIn(tracked) \ TrackedIn(tracked'))
      /\ Return /\ UNCHANGED <<lost, held, sem, awaited>> /\ pc = "track" /\ submitted
  BY DEF Track, Recycled, driverVars
<1>2. ASSUME NEW c \in Chains, NEW i \in Images, <<c, i>> \in Tracking
      PROVE  /\ tracked[c][i] = NoSem /\ i \notin held[c]
             /\ c \notin lost => Settled(c, i, hand)
  <2>1. PICK k \in kept : call.images[k] = <<c, i>>
    BY <1>2 DEF Tracking
  <2>2. k \in DOMAIN call.images
    BY DEF PoolInv, CallOK
  <2>3. tracked[call.images[k][1]][call.images[k][2]] = NoSem
    BY <1>1, <2>2 DEF IdleInv, SlotsFree
  <2>4. call.images[k][2] \notin held[call.images[k][1]]
    BY DEF IdleInv, SlotsFree
  <2>5. call.images[k][1] \notin lost => Settled(call.images[k][1], call.images[k][2], hand)
    BY <1>1 DEF IdleInv, WaitsOutstanding
  <2> QED BY <2>1, <2>3, <2>4, <2>5
<1>3. TrackedIn(tracked) \subseteq TrackedIn(tracked')
  <2>1. \A c \in Chains, i \in Images : tracked[c][i] # NoSem => tracked'[c][i] = tracked[c][i]
    BY <1>1, <1>2
  <2> QED BY <2>1, TrackedInSlots
<1>4. AvailableIsIdle'
  BY <1>1, <1>3 DEF IdleInv, AvailableIsIdle
<1>5. SlotsFree'
  <2>1. ASSUME NEW c \in Chains, NEW i \in held[c] PROVE tracked'[c][i] = NoSem
    <3>1. i \in Images
      BY DEF PoolInv, TypeOK
    <3>2. tracked[c][i] = NoSem
      BY DEF IdleInv, SlotsFree
    <3> QED BY <1>1, <1>2, <3>1, <3>2
  <2> QED BY <1>1, <2>1, ReturnType DEF SlotsFree
<1>6. WaitsOutstanding'
  <2>1. \A c \in Chains \ lost, i \in Images :
          tracked'[c][i] # NoSem => Settled(c, i, tracked'[c][i])
    BY <1>1, <1>2 DEF IdleInv, WaitsOutstanding
  <2> QED BY <1>1, <2>1, ReturnType DEF IdleInv, WaitsOutstanding, Settled
<1>7. HandReady' /\ Drained'
  BY <1>1, ReturnType DEF HandReady, Drained
<1> QED BY <1>4, <1>5, <1>6, <1>7 DEF IdleInv

(* A semaphore nobody keeps is destroyed once the queue is idle.           *)
LEMMA DiscardIdle ==
  ASSUME PoolInv, IdleInv, Drain \/ DiscardHand \/ NothingToTrack
  PROVE  IdleInv'
<1>1. CASE Drain
  <2>1. /\ UNCHANGED <<lost, held, tracked, available, call, kept, hand, rendered, submitted>>
        /\ pc = "track" /\ pc' = "discard" /\ WaitIdleIf(TRUE)
    BY <1>1 DEF Drain, Goto, WaitIdleIf, deviceVars, callVars
  <2>2. SlotsFree'
    BY <2>1 DEF IdleInv, SlotsFree
  <2>3. AvailableIsIdle' /\ WaitsOutstanding'
    BY <2>1, IdleWait DEF WaitsOutstanding, Settled
  <2>4. HandReady' /\ Drained'
    BY <2>1, IdleWait DEF HandReady, Drained
  <2> QED BY <2>2, <2>3, <2>4 DEF IdleInv
<1>2. CASE DiscardHand
  <2>1. /\ UNCHANGED <<lost, held, awaited, tracked>> /\ available' \subseteq available
        /\ sem' = [s \in Sems |-> IF s \in {hand} THEN "none" ELSE sem[s]]
        /\ Return /\ pc = "discard"
    BY <1>2 DEF DiscardHand, Discard
  <2>2. \A s \in Sems : s # hand => sem'[s] = sem[s]
    BY <2>1
  <2>3. \A c \in Chains, i \in Images : awaited[c][i] = NoSem
    BY <2>1, PoolPlaces DEF IdleInv, WaitsOutstanding, Drained
  <2>4. AvailableIsIdle' /\ SlotsFree'
    BY <2>1, <2>2, PoolPlaces, ReturnType DEF IdleInv, AvailableIsIdle, SlotsFree
  <2>5. WaitsOutstanding'
    BY <2>1, <2>2, <2>3, PoolPlaces, ReturnType DEF IdleInv, WaitsOutstanding, Settled
  <2>6. HandReady' /\ Drained'
    BY <2>1, ReturnType DEF HandReady, Drained
  <2> QED BY <2>4, <2>5, <2>6 DEF IdleInv
<1>3. CASE NothingToTrack
  <2>1. UNCHANGED <<lost, held, sem, awaited, tracked, available>> /\ Return
    BY <1>3 DEF NothingToTrack, driverVars, deviceVars
  <2>2. AvailableIsIdle' /\ SlotsFree'
    BY <2>1, ReturnType DEF IdleInv, AvailableIsIdle, SlotsFree
  <2>3. WaitsOutstanding' /\ HandReady' /\ Drained'
    BY <2>1, ReturnType DEF IdleInv, WaitsOutstanding, Settled, HandReady, Drained
  <2> QED BY <2>2, <2>3 DEF IdleInv
<1> QED BY <1>1, <1>2, <1>3

LEMMA IdleStep == ASSUME Told, PoolInv, IdleInv, [Next]_vars PROVE IdleInv'
<1>1. CASE Driver
  BY <1>1, GpuDoneIdle, WaitDoneIdle DEF Driver
<1>2. CASE Application
  BY <1>2, ContextIdle, WaitIdle_Idle, CreateSwapchainIdle, AcquireIdle, BeginPresentIdle
     DEF Application
<1>3. CASE Hook
  BY <1>3, DestroySwapchainIdle, NoContextIdle, ContextIdle, WaitIdle_Idle, ChoiceIdle, RenderIdle,
     RenderReturnsZeroIdle, ForwardIdle, TrackIdle, DiscardIdle
     DEF Hook
<1>4. CASE UNCHANGED vars
  BY <1>4 DEF vars, driverVars, deviceVars, callVars, IdleInv, AvailableIsIdle, SlotsFree,
              WaitsOutstanding, Settled, HandReady, Drained, FirstChain
<1> QED BY <1>1, <1>2, <1>3, <1>4 DEF Next

-----------------------------------------------------------------------------
(* What is destroyed is done with.                                         *)

(* An idle wait leaves no submission either.                               *)
LEMMA SubmissionWait ==
  ASSUME PoolInv, SubmissionPending, NEW STATE cond, WaitIdleIf(cond), ctx' = ctx,
         pc' \notin {"render", "submit"}
  PROVE  SubmissionPending'
BY DEF WaitIdleIf, WaitIdle, SubmissionPending

LEMMA SubmissionFrame ==
  ASSUME SubmissionPending, UNCHANGED <<ctx, job, fence, sem>>,
         pc' \in {"render", "submit"} => pc \in {"render", "submit"} \/ ctx
  PROVE  SubmissionPending'
BY DEF SubmissionPending

LEMMA SubmissionDriver == ASSUME PoolInv, SubmissionPending, Driver PROVE SubmissionPending'
<1>1. CASE GpuDone
  BY <1>1 DEF GpuDone, SubmissionPending, deviceVars
<1>2. ASSUME NEW s \in Sems, WaitDone(s) PROVE SubmissionPending'
  BY <1>2 DEF WaitDone, SubmissionPending, deviceVars, PoolInv, TypeOK
<1> QED BY <1>1, <1>2 DEF Driver

LEMMA SubmissionApplication ==
  ASSUME PoolInv, SubmissionPending, Application
  PROVE  SubmissionPending'
<1>1. CASE CreateDevice
  BY <1>1, SubmissionFrame DEF CreateDevice, driverVars
<1>2. CASE BeginDestroyDevice
  BY <1>2, SubmissionWait DEF BeginDestroyDevice, Goto, deviceVars
<1>3. ASSUME NEW c \in Chains, CreateSwapchain(c) PROVE SubmissionPending'
  BY <1>3, SubmissionFrame DEF CreateSwapchain
<1>4. ASSUME NEW c \in Chains, BeginDestroySwapchain(c) PROVE SubmissionPending'
  BY <1>4, SubmissionWait DEF BeginDestroySwapchain, deviceVars
<1>5. ASSUME NEW c \in Chains, NEW i \in Images, Acquire(c, i) PROVE SubmissionPending'
  BY <1>5, SubmissionFrame DEF Acquire
<1>6. ASSUME NEW images, NEW n, NEW f, NEW r, BeginPresent(images, n, f, r) PROVE SubmissionPending'
  BY <1>6, SubmissionFrame DEF BeginPresent, driverVars, deviceVars
<1> QED BY <1>1, <1>2, <1>3, <1>4, <1>5, <1>6 DEF Application

(* What is discarded waits for the fence first.                            *)
LEMMA SubmissionDiscard ==
  ASSUME PoolInv, SubmissionPending, NEW S, Discard(S), UNCHANGED <<ctx, job, fence>>,
         pc' \notin {"render", "submit"}
  PROVE  SubmissionPending'
BY DEF Discard, SubmissionPending, PoolInv, TypeOK, SemsOrNone

LEMMA SubmissionHook ==
  ASSUME PoolInv, IdleInv, SubmissionPending, Hook
  PROVE  SubmissionPending'
<1>1. CASE DestroySwapchain
  <2>1. /\ \/ \E S : Discard(S)
           \/ UNCHANGED sem
        /\ UNCHANGED <<ctx, job, fence>> /\ pc' = "app"
    BY <1>1, ReturnType DEF DestroySwapchain
  <2> QED BY <2>1, SubmissionDiscard, SubmissionFrame
<1>2. CASE DestroyDevice \/ ClearTracking
  BY <1>2, ReturnType DEF DestroyDevice, ClearTracking, Goto, SubmissionPending
<1>3. CASE \/ KeepContext \/ DisableContext \/ NothingToDraw \/ NoNewSemaphore \/ DrawSafely
           \/ TakeSemaphore \/ Prepare
  BY <1>3, SubmissionFrame
     DEF KeepContext, DisableContext, NothingToDraw, NoNewSemaphore, DrawSafely, TakeSemaphore, Prepare,
         Goto, StartRendering, DrawsOverlay, driverVars, deviceVars
<1>4. CASE FirstContext \/ Recreate
  <2>1. ~ctx
    BY <1>4 DEF FirstContext, Recreate, PoolInv, ContextOK
  <2> QED BY <1>4, <2>1 DEF FirstContext, Recreate, Goto, SubmissionPending
<1>5. CASE BeginChangeFamily
  BY <1>5, SubmissionWait DEF BeginChangeFamily, Goto, deviceVars
<1>6. CASE NewSemaphore
  BY <1>6 DEF NewSemaphore, StartRendering, DrawsOverlay, SubmissionPending, PoolInv, TypeOK, SemsOrNone
<1>7. CASE Render
  <2>1. Signal # NoSem => Signal \in Sems
    BY PoolPlaces DEF Signal
  <2>2. /\ ctx' = ctx /\ ctx /\ job' = Signal
        /\ fence' = IF Signal = NoSem THEN "signaled" ELSE "pending"
        /\ sem' = [s \in Sems |-> IF s = Signal THEN "signaled" ELSE sem[s]]
    BY <1>7 DEF Render, SubmissionPending, deviceVars
  <2> QED BY <2>1, <2>2 DEF SubmissionPending
<1>8. CASE RenderSkips \/ RenderFails
  <2>1. /\ UNCHANGED <<ctx, job, sem>> /\ pc \in {"render", "submit"}
        /\ fence' = fence \/ fence = "signaled"
    BY <1>8 DEF RenderSkips, RenderFails, RenderReturnsZero
  <2> QED BY <2>1 DEF SubmissionPending
<1>9. CASE Forward
  <2>1. UNCHANGED <<ctx, job, fence>> /\ pc' = "track"
    BY <1>9 DEF Forward, deviceVars
  <2>2. \A s \in Sems : sem'[s] = sem[s] \/ sem'[s] = "waited"
    BY <1>9 DEF Forward, Enqueue
  <2> QED BY <2>1, <2>2 DEF SubmissionPending, PoolInv, TypeOK, SemsOrNone
<1>10. CASE Track \/ NothingToTrack
  BY <1>10, SubmissionFrame, ReturnType DEF Track, NothingToTrack, driverVars, deviceVars
<1>11. CASE Drain
  <2>1. WaitIdleIf(TRUE) /\ ctx' = ctx /\ pc' = "discard"
    BY <1>11 DEF Drain, Goto, WaitIdleIf, deviceVars
  <2> QED BY <2>1, SubmissionWait
<1>12. CASE DiscardHand
  BY <1>12, SubmissionDiscard, ReturnType DEF DiscardHand
<1> QED BY <1>1, <1>2, <1>3, <1>4, <1>5, <1>6, <1>7, <1>8, <1>9, <1>10, <1>11, <1>12 DEF Hook

LEMMA DoneInit == Init => DoneInv
<1>1. Init => SubmissionPending
  BY DEF Init, SubmissionPending
<1> QED BY <1>1, IdleInit DEF DoneInv

LEMMA DoneStep == ASSUME Told, PoolInv, DoneInv, [Next]_vars PROVE DoneInv'
<1>1. IdleInv'
  BY IdleStep DEF DoneInv
<1>2. SubmissionPending'
  <2>1. CASE UNCHANGED vars
    BY <2>1, SubmissionFrame DEF vars, driverVars, deviceVars, DoneInv
  <2> QED BY <2>1, SubmissionDriver, SubmissionApplication, SubmissionHook DEF DoneInv, Next
<1> QED BY <1>1, <1>2 DEF DoneInv

(* The inductive invariant with PoolInv: queued presents, submissions,     *)
(* slots and semaphores agree at every step, unless a driver fails a       *)
(* present of several swapchains without saying so.                        *)
THEOREM DoneInvCorrect == ASSUME Told PROVE Spec => []DoneInv
<1>1. PoolInv /\ DoneInv /\ [Next]_vars => DoneInv'
  BY DoneStep
<1> QED BY <1>1, DoneInit, PoolInvCorrect, PTL DEF Spec

(* No semaphore is handed out to a present while another present or a      *)
(* submission still uses it, for any number of swapchains and images.      *)
THEOREM AvailableAreIdle == ASSUME Told PROVE Spec => []AvailableIsIdle
<1>1. DoneInv => AvailableIsIdle
  BY DEF DoneInv, IdleInv
<1> QED BY <1>1, DoneInvCorrect, PTL

Gone(s) == sem[s] # "none" /\ sem'[s] = "none"

(* Destroying the whole pool: what is left in it is available, or the      *)
(* fence is signaled and nothing waits.                                    *)
LEMMA NoContextDone ==
  ASSUME PoolInv, DoneInv, DestroyDevice \/ ClearTracking, NEW s \in Sems, Gone(s)
  PROVE  sem[s] # "waited" /\ job # s
<1>1. /\ pc \in {"destroyDevice", "recreate"} /\ hand = NoSem
      /\ TrackedIn(tracked) # {} => fence = "signaled"
  BY DEF DestroyDevice, ClearTracking, PoolInv, HandOK
<1>2. sem[s] # "waited"
  BY <1>1 DEF DoneInv, IdleInv, Drained
<1>3. s \in available \/ s \in TrackedIn(tracked)
  BY <1>1 DEF Gone, PoolInv, PoolAccounted, Hand
<1>4. s \in available => sem[s] = "idle"
  BY DEF DoneInv, IdleInv, AvailableIsIdle
<1>5. job = s => fence = "pending" /\ sem[s] \in {"signaled", "waited"}
  BY PresentAssumption DEF DoneInv, SubmissionPending
<1> QED BY <1>1, <1>2, <1>3, <1>4, <1>5

(* Destroying a part of it: the fence is signaled and nothing waits.       *)
LEMMA DiscardDone ==
  ASSUME PoolInv, DoneInv, DestroySwapchain \/ DiscardHand, NEW s \in Sems, Gone(s)
  PROVE  sem[s] # "waited" /\ job # s
<1>1. /\ fence = "signaled"
      /\ \/ pc = "discard"
         \/ pc = "destroySwapchain" /\ TrackedIn(tracked) \ TrackedIn(tracked') # {}
  <2>1. PICK S : /\ Discard(S)
                 /\ \/ pc = "discard"
                    \/ pc = "destroySwapchain" /\ S = TrackedIn(tracked) \ TrackedIn(tracked')
    BY DEF DestroySwapchain, DiscardHand, Gone
  <2>2. sem' = [t \in Sems |-> IF t \in S THEN "none" ELSE sem[t]]
    BY <2>1 DEF Discard
  <2>3. s \in S
    BY <2>2 DEF Gone
  <2> QED BY <2>1, <2>3 DEF Discard
<1>2. job # s
  BY <1>1, PresentAssumption DEF DoneInv, SubmissionPending
<1>3. CASE DiscardHand
  BY <1>2, <1>3 DEF DiscardHand, DoneInv, IdleInv, Drained
<1>4. CASE DestroySwapchain
  <2>1. tracked' = [tracked EXCEPT ![FirstChain] = NoneTracked] /\ pc = "destroySwapchain"
    BY <1>4 DEF DestroySwapchain, FirstChain
  <2>2. TrackedBy(tracked, FirstChain) # {}
    <3>1. SUFFICES ASSUME TrackedBy(tracked, FirstChain) = {} PROVE FALSE
      OBVIOUS
    <3>2. \A c \in Chains, i \in Images : tracked[c][i] # NoSem => tracked'[c][i] = tracked[c][i]
      <4>1. \A i \in Images : tracked[FirstChain][i] = NoSem
        <5>1. \A i \in Images : tracked[FirstChain][i] # NoSem =>
                tracked[FirstChain][i] \in TrackedBy(tracked, FirstChain)
          BY DEF TrackedBy
        <5> QED BY <3>1, <5>1
      <4>2. \A c \in Chains : c # FirstChain => tracked'[c] = tracked[c]
        BY <2>1 DEF PoolInv, TypeOK
      <4> QED BY <4>1, <4>2
    <3>3. TrackedIn(tracked) \subseteq TrackedIn(tracked')
      BY <3>2, TrackedInSlots
    <3> QED BY <1>1, <2>1, <3>3
  <2> QED BY <1>2, <2>1, <2>2 DEF DoneInv, IdleInv, Drained
<1> QED BY <1>3, <1>4

(* Every other step destroys nothing.                                      *)
LEMMA NothingDestroyed ==
  ASSUME PoolInv, DoneInv, [Next]_vars, NEW s \in Sems, Gone(s)
  PROVE  DestroyDevice \/ ClearTracking \/ DestroySwapchain \/ DiscardHand
<1> SUFFICES ASSUME ~(DestroyDevice \/ ClearTracking \/ DestroySwapchain \/ DiscardHand) PROVE FALSE
  OBVIOUS
<1>1. sem[s] # "none" /\ sem'[s] = "none"
  BY DEF Gone
<1>2. \A cond \in BOOLEAN : WaitIdleIf(cond) => sem'[s] # "none"
  BY <1>1 DEF WaitIdleIf, WaitIdle
<1>3. ~Driver
  BY <1>1 DEF Driver, GpuDone, WaitDone, PoolInv, TypeOK
<1>4. ~Application
  BY <1>1, <1>2
     DEF Application, CreateDevice, BeginDestroyDevice, CreateSwapchain, BeginDestroySwapchain, Acquire,
         BeginPresent, driverVars
<1>5. ~Hook
  <2>1. ~(KeepContext \/ DisableContext \/ FirstContext \/ Recreate \/ NothingToDraw \/ DrawSafely
          \/ TakeSemaphore \/ NoNewSemaphore \/ Prepare \/ Track \/ NothingToTrack)
    BY <1>1 DEF KeepContext, DisableContext, FirstContext, Recreate, NothingToDraw, DrawSafely,
         TakeSemaphore, NoNewSemaphore, Prepare, Track, NothingToTrack, driverVars
  <2>2. ~(BeginChangeFamily \/ Drain)
    BY <1>1, <1>2 DEF BeginChangeFamily, Drain, WaitIdleIf
  <2>3. ~(NewSemaphore \/ Render \/ RenderSkips \/ RenderFails \/ Forward)
    BY <1>1 DEF NewSemaphore, Render, RenderSkips, RenderFails, RenderReturnsZero, Forward, Enqueue,
         PoolInv, TypeOK
  <2> QED BY <2>1, <2>2, <2>3 DEF Hook
<1>6. ~UNCHANGED vars
  BY <1>1 DEF vars, driverVars
<1> QED BY <1>3, <1>4, <1>5, <1>6 DEF Next

(* "vkDestroySemaphore requires all referencing batches to have completed" *)
(* (layer/layer_entry.c:1073): the layer keeps to that on every path.      *)
THEOREM DestroyedAreDone == ASSUME Told PROVE Spec => DestroyedOnlyDone
<1>1. ASSUME PoolInv, DoneInv, [Next]_vars, NEW s \in Sems, Gone(s)
      PROVE  sem[s] # "waited" /\ job # s
  BY <1>1, NothingDestroyed, NoContextDone, DiscardDone
<1>2. PoolInv /\ DoneInv /\ [Next]_vars =>
        [\A s \in Sems : sem[s] # "none" /\ sem'[s] = "none" => sem[s] # "waited" /\ job # s]_vars
  BY <1>1 DEF Gone
<1> QED BY <1>2, PoolInvCorrect, DoneInvCorrect, PTL DEF Spec, DestroyedOnlyDone

-----------------------------------------------------------------------------
(* The present follows the overlay.                                        *)

LEMMA FollowInit == Init => FollowInv
BY DEF Init, FollowInv, RenderedLate, PresentFollowsOverlay

(* Steps that leave what was rendered as it is.                            *)
LEMMA FollowFrame ==
  ASSUME FollowInv, UNCHANGED <<wine, hand, rendered, submitted, setback>>,
         pc \in {"render", "submit", "forward", "track", "discard"} =>
           pc' \in {"render", "submit", "forward", "track", "discard"},
         pc = "forward" => fence' \in {fence, "signaled"} /\ sem'[hand] = sem[hand],
         pc # "forward" /\ pc' = "forward" => ~rendered
  PROVE  FollowInv'
<1>1. RenderedLate'
  BY DEF FollowInv, RenderedLate
<1>2. PresentFollowsOverlay'
  BY DEF FollowInv, PresentFollowsOverlay, Safe
<1> QED BY <1>1, <1>2 DEF FollowInv

LEMMA FollowReturn == ASSUME Return PROVE FollowInv'
BY DEF Return, FollowInv, RenderedLate, PresentFollowsOverlay

LEMMA FollowDriver == ASSUME PoolInv, FollowInv, Driver PROVE FollowInv'
<1>1. CASE GpuDone
  BY <1>1, FollowFrame DEF GpuDone, callVars
<1>2. ASSUME NEW s \in Sems, WaitDone(s) PROVE FollowInv'
  <2>1. /\ UNCHANGED <<wine, callVars, pc, fence>>
        /\ sem[s] = "waited" /\ sem' = [sem EXCEPT ![s] = "idle"]
    BY <1>2 DEF WaitDone
  <2>2. sem[hand] = "signaled" => sem'[hand] = "signaled"
    BY <2>1 DEF PoolInv, TypeOK
  <2> QED BY <2>1, <2>2 DEF callVars, FollowInv, RenderedLate, PresentFollowsOverlay, Safe
<1> QED BY <1>1, <1>2 DEF Driver

LEMMA FollowApplication == ASSUME PoolInv, FollowInv, Application PROVE FollowInv'
<1>1. /\ UNCHANGED <<wine, hand, rendered, submitted, setback>>
      /\ \/ pc' = pc /\ UNCHANGED <<fence, sem>>
         \/ pc = "app" /\ pc' \in {"destroyDevice", "destroySwapchain", "context"}
  BY DEF Application, CreateDevice, BeginDestroyDevice, CreateSwapchain, BeginDestroySwapchain,
         Acquire, BeginPresent, Goto, driverVars, callVars
<1> QED BY <1>1, FollowFrame

(* Up to the first submission nothing has been rendered.                   *)
LEMMA FollowChoice ==
  ASSUME PoolInv, FollowInv,
         \/ KeepContext \/ DisableContext \/ FirstContext
         \/ BeginChangeFamily \/ ClearTracking \/ Recreate
         \/ NothingToDraw \/ DrawSafely \/ TakeSemaphore \/ NewSemaphore \/ NoNewSemaphore
  PROVE  FollowInv'
<1>1. /\ pc \in {"context", "recreate", "created", "hand"}
      /\ UNCHANGED rendered
  BY DEF KeepContext, DisableContext, FirstContext, BeginChangeFamily, ClearTracking, Recreate,
         NothingToDraw, DrawSafely, TakeSemaphore, NewSemaphore, NoNewSemaphore, Goto, StartRendering,
         callVars
<1> QED BY <1>1 DEF FollowInv, RenderedLate, PresentFollowsOverlay

(* The last submission signals the hand, or is waited for.                 *)
LEMMA FollowRender == ASSUME PoolInv, Render PROVE FollowInv'
<1>1. /\ pc = "submit" /\ submitted' = (Signal # NoSem)
      /\ fence' = IF Signal = NoSem THEN "signaled" ELSE "pending"
      /\ sem' = [s \in Sems |-> IF s = Signal THEN "signaled" ELSE sem[s]]
      /\ UNCHANGED <<wine, hand>> /\ Advance
  BY DEF Render
<1>2. hand = NoSem <=> Safe
  BY <1>1 DEF PoolInv, HandOK
<1>3. ~Safe => hand \in Sems
  BY <1>2 DEF PoolInv, TypeOK, SemsOrNone
<1>4. pc' = "forward" => Signal = IF Safe THEN NoSem ELSE hand
  BY <1>1 DEF Signal, Advance
<1>5. PresentFollowsOverlay'
  BY <1>1, <1>2, <1>3, <1>4 DEF PresentFollowsOverlay, Safe
<1>6. RenderedLate'
  BY <1>1 DEF RenderedLate, Advance
<1> QED BY <1>5, <1>6 DEF FollowInv

(* A render that returned 0 after another one is a setback.                *)
LEMMA FollowReturnsZero == ASSUME PoolInv, RenderSkips \/ RenderFails PROVE FollowInv'
<1>1. pc' \in {"render", "forward"} /\ rendered' = rendered
  BY DEF RenderSkips, RenderFails, RenderReturnsZero, Advance
<1>2. rendered => setback'
  BY DEF RenderSkips, RenderFails, PoolInv, TypeOK
<1> QED BY <1>1, <1>2 DEF FollowInv, RenderedLate, PresentFollowsOverlay

LEMMA FollowStep == ASSUME PoolInv, FollowInv, [Next]_vars PROVE FollowInv'
<1>1. CASE Hook
  <2>1. CASE \/ DestroySwapchain \/ DestroyDevice \/ Track \/ DiscardHand \/ NothingToTrack
    BY <2>1, FollowReturn DEF DestroySwapchain, DestroyDevice, Track, DiscardHand, NothingToTrack
  <2>2. CASE Prepare \/ Drain
    BY <2>2, FollowFrame DEF Prepare, Drain, Goto, callVars
  <2>3. CASE Forward
    BY <2>3 DEF Forward, FollowInv, RenderedLate, PresentFollowsOverlay
  <2> QED BY <1>1, <2>1, <2>2, <2>3, FollowChoice, FollowRender, FollowReturnsZero DEF Hook
<1>2. CASE UNCHANGED vars
  BY <1>2, FollowFrame DEF vars, driverVars, callVars
<1> QED BY <1>1, <1>2, FollowDriver, FollowApplication DEF Next

LEMMA FollowInvCorrect == Spec => []FollowInv
<1>1. PoolInv /\ FollowInv /\ [Next]_vars => FollowInv'
  BY FollowStep
<1> QED BY <1>1, FollowInit, PoolInvCorrect, PTL DEF Spec

(* A present that shows the overlay goes behind the submission that draws  *)
(* it, or comes after its end, whatever fails before.                      *)
THEOREM PresentGoesBehind == Spec => []PresentFollowsOverlay
<1>1. FollowInv => PresentFollowsOverlay
  BY DEF FollowInv
<1> QED BY <1>1, FollowInvCorrect, PTL

-----------------------------------------------------------------------------
(* Every wait of the application is executed once.                         *)

LEMMA TakenInit == Init => TakenInv
BY DEF Init, TakenInv, TakenOK, WaitsOnce, CallBegun

(* Steps that leave the call and its waits as they are.                    *)
LEMMA TakenFrame ==
  ASSUME TakenInv, UNCHANGED <<call, rendered, taken, setback>>,
         CallBegun' => CallBegun,
         pc' = "track" => pc = "track",
         pc \in {"track", "discard"} => pc' \in {"track", "discard"}
  PROVE  TakenInv'
BY DEF TakenInv, TakenOK, WaitsOnce, CallBegun

LEMMA TakenReturn == ASSUME Return PROVE TakenInv'
BY DEF Return, TakenInv, TakenOK, WaitsOnce, CallBegun

LEMMA TakenApplication == ASSUME FollowInv, TakenInv, Application PROVE TakenInv'
<1>1. CASE CreateDevice \/ BeginDestroyDevice
  BY <1>1, TakenFrame DEF CreateDevice, BeginDestroyDevice, Goto, driverVars, callVars, CallBegun
<1>2. ASSUME NEW c \in Chains, CreateSwapchain(c) PROVE TakenInv'
  BY <1>2, TakenFrame DEF CreateSwapchain, callVars, CallBegun
<1>3. ASSUME NEW c \in Chains, BeginDestroySwapchain(c) PROVE TakenInv'
  BY <1>3 DEF BeginDestroySwapchain, TakenInv, TakenOK, WaitsOnce, CallBegun
<1>4. ASSUME NEW c \in Chains, NEW i \in Images, Acquire(c, i) PROVE TakenInv'
  BY <1>4, TakenFrame DEF Acquire, callVars, CallBegun
<1>5. ASSUME NEW images, NEW n \in WaitCounts, NEW f, NEW r, BeginPresent(images, n, f, r)
      PROVE  TakenInv'
  <2>1. /\ call'.waits = n /\ taken' = [j \in 1..n |-> 0] /\ pc = "app" /\ pc' = "context"
        /\ UNCHANGED rendered
    BY <1>5 DEF BeginPresent
  <2>2. ~rendered
    BY <2>1 DEF FollowInv, RenderedLate
  <2> QED BY <2>1, <2>2 DEF TakenInv, TakenOK, WaitsOnce, CallBegun
<1> QED BY <1>1, <1>2, <1>3, <1>4, <1>5 DEF Application

LEMMA TakeMore ==
  ASSUME TakenInv, CallBegun, NEW W, Take(W)
  PROVE  /\ taken' \in [1..call.waits -> Nat]
         /\ \A j \in 1..call.waits : taken'[j] = IF j \in W THEN taken[j] + 1 ELSE taken[j]
BY DEF TakenInv, TakenOK, Take

(* The submission that gets through first executes all the application's   *)
(* waits, which are at most MaxWaits.                                      *)
LEMMA TakenRender ==
  ASSUME TakenInv, \A n \in WaitCounts : n <= MaxWaits, Render
  PROVE  TakenInv'
<1>1. /\ pc = "submit" /\ rendered' = TRUE /\ Take(Waits) /\ UNCHANGED <<call, setback>>
      /\ pc' \in {"render", "forward"}
  BY DEF Render, Advance
<1>2. CallBegun /\ call.waits \in WaitCounts
  BY <1>1 DEF TakenInv, TakenOK, CallBegun
<1>3. Waits = IF rendered THEN {} ELSE 1..call.waits
  BY <1>2 DEF Waits, Min
<1>4. /\ taken' \in [1..call.waits -> Nat]
      /\ \A j \in 1..call.waits : taken'[j] = IF j \in Waits THEN taken[j] + 1 ELSE taken[j]
  BY <1>1, <1>2, TakeMore DEF Take
<1>5. ~setback => \A j \in 1..call.waits : taken'[j] = 1
  BY <1>1, <1>2, <1>3, <1>4 DEF TakenInv, TakenOK
<1> QED BY <1>1, <1>2, <1>4, <1>5 DEF TakenInv, TakenOK, WaitsOnce, CallBegun

LEMMA TakenReturnsZero == ASSUME TakenInv, RenderSkips \/ RenderFails PROVE TakenInv'
<1>1. CASE RenderSkips
  <2>1. /\ pc = "render" /\ pc' \in {"render", "forward"} /\ UNCHANGED <<call, rendered, taken>>
        /\ setback' = (setback \/ rendered)
    BY <1>1 DEF RenderSkips, RenderReturnsZero, Advance
  <2> QED BY <2>1 DEF TakenInv, TakenOK, WaitsOnce, CallBegun
<1>2. CASE RenderFails
  <2>1. /\ pc = "submit" /\ pc' \in {"render", "forward"} /\ UNCHANGED call
        /\ setback' /\ \E W : Take(W)
    BY <1>2 DEF RenderFails, RenderReturnsZero, Advance
  <2>2. CallBegun
    BY <2>1 DEF CallBegun
  <2> QED BY <2>1, <2>2, TakeMore DEF TakenInv, TakenOK, WaitsOnce, CallBegun
<1> QED BY <1>1, <1>2

(* The present waits for what no submission waited for: after one that got *)
(* through there is a semaphore in hand, or there is nothing to wait for.  *)
LEMMA TakenForward == ASSUME PoolInv, FollowInv, TakenInv, Forward PROVE TakenInv'
<1>1. /\ pc = "forward" /\ pc' = "track" /\ Take(ForwardedWaits)
      /\ UNCHANGED <<call, rendered, setback>>
  BY DEF Forward
<1>2. CallBegun
  BY <1>1 DEF CallBegun
<1>3. rendered /\ ~setback => Safe \/ hand # NoSem
  BY <1>1 DEF FollowInv, PresentFollowsOverlay, PoolInv, HandOK
<1>4. ~setback => ForwardedWaits = IF rendered THEN {} ELSE 1..call.waits
  BY <1>3 DEF ForwardedWaits
<1>5. /\ taken' \in [1..call.waits -> Nat]
      /\ \A j \in 1..call.waits :
            taken'[j] = IF j \in ForwardedWaits THEN taken[j] + 1 ELSE taken[j]
  BY <1>1, <1>2, TakeMore DEF Take
<1>6. call.waits \in WaitCounts
  BY <1>2 DEF TakenInv, TakenOK
<1>7. ~setback => \A j \in 1..call.waits : taken[j] = IF rendered THEN 1 ELSE 0
  BY <1>1, <1>2 DEF TakenInv, TakenOK
<1>8. ~setback => \A j \in 1..call.waits : taken'[j] = 1
  <2>1. CASE rendered
    BY <2>1, <1>4, <1>5, <1>7
  <2>2. CASE ~rendered
    BY <2>2, <1>4, <1>5, <1>7
  <2> QED BY <2>1, <2>2
<1>9. /\ pc' = "track" /\ call' = call /\ setback' = setback
      /\ \A j \in 1..call.waits : ~setback => taken'[j] = 1
  BY <1>1, <1>8
<1>10. TakenOK'
  BY <1>9, <1>5, <1>6 DEF TakenOK, CallBegun
<1>11. WaitsOnce'
  BY <1>9 DEF WaitsOnce
<1> QED BY <1>10, <1>11 DEF TakenInv

LEMMA TakenStep ==
  ASSUME PoolInv, FollowInv, TakenInv, \A n \in WaitCounts : n <= MaxWaits, [Next]_vars
  PROVE  TakenInv'
<1>1. CASE Hook
  <2>1. CASE \/ DestroySwapchain \/ DestroyDevice \/ Track \/ DiscardHand \/ NothingToTrack
    BY <2>1, TakenReturn DEF DestroySwapchain, DestroyDevice, Track, DiscardHand, NothingToTrack
  <2>2. CASE \/ KeepContext \/ DisableContext \/ FirstContext
             \/ BeginChangeFamily \/ ClearTracking \/ Recreate
             \/ NothingToDraw \/ DrawSafely \/ TakeSemaphore \/ NewSemaphore \/ NoNewSemaphore
             \/ Prepare \/ Drain
    BY <2>2, TakenFrame
       DEF KeepContext, DisableContext, FirstContext, BeginChangeFamily, ClearTracking, Recreate,
           NothingToDraw, DrawSafely, TakeSemaphore, NewSemaphore, NoNewSemaphore, Prepare, Drain,
           Goto, StartRendering, callVars, CallBegun
  <2> QED BY <1>1, <2>1, <2>2, TakenRender, TakenReturnsZero, TakenForward DEF Hook
<1>2. CASE UNCHANGED vars \/ Driver
  BY <1>2, TakenFrame DEF vars, callVars, CallBegun, Driver, GpuDone, WaitDone
<1> QED BY <1>1, <1>2, TakenApplication DEF Next

(* Each semaphore the application presents with is waited for exactly      *)
(* once, by the overlay's submission or by the present, as long as there   *)
(* are no more of them than render passes on: 8 in the code, the surplus   *)
(* is dropped.                                                             *)
THEOREM WaitedForOnce ==
  ASSUME \A n \in WaitCounts : n <= MaxWaits PROVE Spec => []WaitsOnce
<1>1. PoolInv /\ FollowInv /\ TakenInv /\ [Next]_vars => TakenInv'
  BY TakenStep
<1>2. TakenInv => WaitsOnce
  BY DEF TakenInv
<1> QED BY <1>1, <1>2, TakenInit, PoolInvCorrect, FollowInvCorrect, PTL DEF Spec

-----------------------------------------------------------------------------
(* The pool never outgrows the images.                                     *)

LEMMA HeldInit == Init => HeldOK
BY NothingTracked DEF Init, HeldOK, CallBegun, NoneTracked

LEMMA HeldFrame ==
  ASSUME HeldOK, UNCHANGED <<held, tracked, call>>, CallBegun' => CallBegun
  PROVE  HeldOK'
BY DEF HeldOK, CallBegun

LEMMA HeldApplication == ASSUME PoolInv, HeldOK, Application PROVE HeldOK'
<1>1. CASE CreateDevice \/ BeginDestroyDevice
  BY <1>1, HeldFrame
     DEF CreateDevice, BeginDestroyDevice, Goto, driverVars, deviceVars, callVars, CallBegun
<1>2. ASSUME NEW c \in Chains, CreateSwapchain(c) PROVE HeldOK'
  <2>1. /\ held' = [held EXCEPT ![c] = {}] /\ UNCHANGED <<pc, call>>
        /\ tracked' = tracked \/ tracked' = [tracked EXCEPT ![c] = NoneTracked]
    BY <1>2 DEF CreateSwapchain, callVars
  <2>2. \A d \in Chains : held'[d] \subseteq held[d]
    BY <2>1 DEF PoolInv, TypeOK
  <2>3. \A d \in Chains, i \in Images : tracked'[d][i] \in {tracked[d][i], NoSem}
    BY <2>1 DEF PoolInv, TypeOK, NoneTracked
  <2>4. CallBegun' <=> CallBegun
    BY <2>1 DEF CallBegun
  <2> QED BY <2>1, <2>2, <2>3, <2>4 DEF HeldOK
<1>3. ASSUME NEW c \in Chains, BeginDestroySwapchain(c) PROVE HeldOK'
  BY <1>3 DEF BeginDestroySwapchain, deviceVars, HeldOK, CallBegun
<1>4. ASSUME NEW c \in Chains, NEW i \in Images, Acquire(c, i) PROVE HeldOK'
  <2>1. /\ i \in ImagesOf[c] /\ held' = [held EXCEPT ![c] = @ \cup {i}]
        /\ tracked' = [tracked EXCEPT ![c][i] = NoSem] /\ UNCHANGED <<pc, call>>
    BY <1>4 DEF Acquire, callVars
  <2> QED BY <2>1, PresentAssumption DEF HeldOK, CallBegun, PoolInv, TypeOK
<1>5. ASSUME NEW images \in ImageLists, NEW n \in WaitCounts, NEW f \in Families \cup {NoFamily},
             NEW r \in BOOLEAN, BeginPresent(images, n, f, r)
      PROVE  HeldOK'
  <2>1. /\ call'.images = images /\ UNCHANGED <<held, tracked>>
        /\ \A k \in DOMAIN images : images[k][1] \in live /\ images[k][2] \in held[images[k][1]]
    BY <1>5 DEF BeginPresent, driverVars, deviceVars
  <2> QED BY <2>1 DEF HeldOK, PoolInv, TypeOK
<1> QED BY <1>1, <1>2, <1>3, <1>4, <1>5 DEF Application

LEMMA HeldForward == ASSUME PoolInv, HeldOK, Forward PROVE HeldOK'
<1>1. /\ pc = "forward" /\ UNCHANGED <<tracked, call>>
      /\ held' = held \/ held' = [c \in Chains |-> held[c] \ {i \in Images : <<c, i>> \in Presented}]
  BY DEF Forward, Enqueue, deviceVars
<1>2. \A c \in Chains : held'[c] \subseteq held[c]
  BY <1>1
<1>3. CallBegun /\ CallBegun'
  BY <1>1 DEF CallBegun, Forward
<1> QED BY <1>1, <1>2, <1>3 DEF HeldOK

LEMMA HeldTrack == ASSUME PoolInv, HeldOK, Track PROVE HeldOK'
<1>1. /\ pc = "track" /\ UNCHANGED held /\ Return
      /\ tracked' = [c \in Chains |-> [i \in Images |->
                       IF <<c, i>> \in Tracking THEN hand ELSE tracked[c][i]]]
  BY DEF Track, driverVars
<1>2. ~CallBegun'
  BY <1>1 DEF Return, CallBegun
<1>3. \A c \in Chains, i \in Images : <<c, i>> \in Tracking => i \in ImagesOf[c]
  <2> SUFFICES ASSUME NEW c \in Chains, NEW i \in Images, <<c, i>> \in Tracking
               PROVE  i \in ImagesOf[c]
    OBVIOUS
  <2>1. PICK k \in DOMAIN call.images : call.images[k] = <<c, i>>
    BY DEF Tracking, PoolInv, CallOK
  <2> QED BY <1>1, <2>1 DEF HeldOK, CallBegun
<1> QED BY <1>1, <1>2, <1>3 DEF HeldOK

LEMMA HeldHook == ASSUME PoolInv, HeldOK, Hook PROVE HeldOK'
<1>1. CASE DestroySwapchain
  <2>1. PICK c : /\ held' = [held EXCEPT ![c] = {}] /\ Return
                 /\ tracked' = [tracked EXCEPT ![c] = NoneTracked]
    BY <1>1 DEF DestroySwapchain
  <2> QED BY <2>1, NothingTracked DEF HeldOK, Return, CallBegun, PoolInv, TypeOK, NoneTracked
<1>2. CASE DestroyDevice
  BY <1>2, NothingTracked DEF DestroyDevice, HeldOK, Return, CallBegun, NoneTracked
<1>3. CASE ClearTracking
  BY <1>3, NothingTracked DEF ClearTracking, Goto, callVars, HeldOK, CallBegun, NoneTracked
<1>4. CASE \/ KeepContext \/ DisableContext \/ FirstContext \/ BeginChangeFamily \/ Recreate
           \/ NothingToDraw \/ DrawSafely \/ TakeSemaphore \/ NewSemaphore \/ NoNewSemaphore
           \/ Prepare \/ Drain
  BY <1>4, HeldFrame
     DEF KeepContext, DisableContext, FirstContext, BeginChangeFamily, Recreate, NothingToDraw,
         DrawSafely, TakeSemaphore, NewSemaphore, NoNewSemaphore, Prepare, Drain, Goto,
         StartRendering, driverVars, deviceVars, callVars, CallBegun
<1>5. CASE Render \/ RenderSkips \/ RenderFails
  BY <1>5, HeldFrame DEF Render, RenderSkips, RenderFails, RenderReturnsZero, Advance, deviceVars,
                         CallBegun
<1>6. CASE DiscardHand \/ NothingToTrack
  <2>1. UNCHANGED <<held, tracked>> /\ Return
    BY <1>6 DEF DiscardHand, NothingToTrack, driverVars, deviceVars
  <2> QED BY <2>1 DEF HeldOK, Return, CallBegun
<1> QED BY <1>1, <1>2, <1>3, <1>4, <1>5, <1>6, HeldForward, HeldTrack DEF Hook

LEMMA HeldStep == ASSUME PoolInv, HeldOK, [Next]_vars PROVE HeldOK'
<1>1. CASE UNCHANGED vars \/ Driver
  BY <1>1, HeldFrame DEF vars, callVars, driverVars, deviceVars, CallBegun, Driver, GpuDone, WaitDone
<1> QED BY <1>1, HeldApplication, HeldHook DEF Next

LEMMA FiniteImages == IsFiniteSet(AllImages) /\ IsFiniteSet(Sems)
<1>1. IsFiniteSet(Chains \X Images)
  BY PresentAssumption, FS_Product
<1>2. AllImages \in SUBSET (Chains \X Images)
  BY PresentAssumption DEF AllImages
<1> QED BY <1>1, <1>2, FS_Subset, PresentAssumption

(* While an image tracks nothing, fewer semaphores than images are tracked. *)
LEMMA TrackedFewer ==
  ASSUME TypeOK, HeldOK, NEW x \in AllImages, tracked[x[1]][x[2]] = NoSem
  PROVE  Cardinality(TrackedIn(tracked)) + 1 <= Cardinality(AllImages)
<1> DEFINE S == TrackedIn(tracked)
           T == AllImages \ {x}
           f == [s \in S |-> CHOOSE p \in T : tracked[p[1]][p[2]] = s]
<1>1. IsFiniteSet(T) /\ Cardinality(T) = Cardinality(AllImages) - 1
  BY FiniteImages, FS_RemoveElement
<1>2. ASSUME NEW s \in S PROVE \E p \in T : tracked[p[1]][p[2]] = s
  <2>1. PICK c \in Chains, i \in Images : s # NoSem /\ tracked[c][i] = s
    BY TrackedInSlots
  <2>2. <<c, i>> \in AllImages
    BY <2>1 DEF HeldOK, AllImages
  <2>3. <<c, i>> \in T
    BY <2>1, <2>2
  <2> QED BY <2>1, <2>3
<1>3. f \in Injection(S, T)
  <2>1. \A s \in S : f[s] \in T /\ tracked[f[s][1]][f[s][2]] = s
    BY <1>2
  <2>2. f \in [S -> T]
    BY <2>1
  <2>3. \A a, b \in S : f[a] = f[b] => a = b
    BY <2>1
  <2> HIDE DEF f, S, T
  <2> QED BY <2>2, <2>3 DEF Injection, IsInjective
<1>4. IsFiniteSet(S) /\ Cardinality(S) <= Cardinality(T)
  <2> HIDE DEF f, S, T
  <2> QED BY <1>1, <1>3, FS_Injection
<1>5. Cardinality(S) \in Nat /\ Cardinality(AllImages) \in Nat
  BY <1>4, FiniteImages, FS_CardinalityType
<1> QED BY <1>1, <1>4, <1>5

LEMMA BoundInit == Init => BoundInv
<1> SUFFICES ASSUME Init PROVE BoundInv
  OBVIOUS
<1>1. pool = {}
  BY DEF Init
<1>2. Cardinality(AllImages) \in Nat
  BY FiniteImages, FS_CardinalityType
<1> QED BY <1>1, <1>2, HeldInit, FS_EmptySet DEF BoundInv, PoolBounded

(* A smaller pool is no worse.                                             *)
LEMMA PoolShrinks == ASSUME TypeOK, PoolBounded, pool' \subseteq pool PROVE PoolBounded'
<1>1. IsFiniteSet(pool) /\ pool' \in SUBSET pool
  BY FiniteImages, FS_Subset DEF TypeOK
<1>2. IsFiniteSet(pool') /\ Cardinality(pool') <= Cardinality(pool)
  BY <1>1, FS_Subset
<1>3. Cardinality(pool) \in Nat /\ Cardinality(pool') \in Nat /\ Cardinality(AllImages) \in Nat
  BY <1>1, <1>2, FiniteImages, FS_CardinalityType
<1> QED BY <1>2, <1>3 DEF PoolBounded, AllImages

(* A new semaphore is made when none is available: all others are tracked, *)
(* by other images than the ones that are presented.                       *)
LEMMA NewSemaphoreBounded == ASSUME PoolInv, DoneInv, HeldOK, NewSemaphore PROVE PoolBounded'
<1>1. /\ pc = "hand" /\ available = {} /\ Targets # {}
      /\ hand' \in Sems /\ sem[hand'] = "none" /\ pool' = pool \cup {hand'}
  BY DEF NewSemaphore, DrawsOverlay
<1>2. pool = TrackedIn(tracked)
  BY <1>1 DEF PoolInv, PoolAccounted, HandOK, Hand
<1>3. PICK k \in DOMAIN call.images : TRUE
  BY <1>1 DEF Targets
<1> DEFINE x == call.images[k]
<1>4. x \in Chains \X Images /\ tracked[x[1]][x[2]] = NoSem /\ x[2] \in ImagesOf[x[1]]
  BY <1>1, <1>3 DEF PoolInv, CallOK, DoneInv, IdleInv, SlotsFree, HeldOK, CallBegun
<1>5. x \in AllImages
  BY <1>4 DEF AllImages
<1>6. Cardinality(pool) + 1 <= Cardinality(AllImages)
  <2> HIDE DEF x
  <2> QED BY <1>2, <1>4, <1>5, TrackedFewer DEF PoolInv
<1>7. IsFiniteSet(pool)
  BY FiniteImages, FS_Subset DEF PoolInv, TypeOK
<1>8. Cardinality(pool') <= Cardinality(pool) + 1 /\ Cardinality(pool) \in Nat
  <2>1. Cardinality(pool) \in Nat
    BY <1>7, FS_CardinalityType
  <2>2. \/ Cardinality(pool \cup {hand'}) = Cardinality(pool)
        \/ Cardinality(pool \cup {hand'}) = Cardinality(pool) + 1
    BY <1>7, FS_AddElement
  <2> QED BY <1>1, <2>1, <2>2
<1>9. IsFiniteSet(pool') /\ Cardinality(pool') \in Nat /\ Cardinality(AllImages) \in Nat
  BY <1>1, <1>7, FiniteImages, FS_AddElement, FS_CardinalityType
<1> QED BY <1>6, <1>8, <1>9 DEF PoolBounded, AllImages

LEMMA BoundStep == ASSUME PoolInv, DoneInv, BoundInv, [Next]_vars PROVE BoundInv'
<1>1. HeldOK'
  BY HeldStep DEF BoundInv
<1>2. NewSemaphore \/ pool' \subseteq pool
  <2>1. CASE Application \/ Driver \/ UNCHANGED vars
    BY <2>1 DEF Driver, Application, GpuDone, WaitDone, CreateDevice, BeginDestroyDevice,
         CreateSwapchain, BeginDestroySwapchain, Acquire, BeginPresent, driverVars, deviceVars, vars
  <2>2. CASE \/ KeepContext \/ DisableContext \/ FirstContext \/ BeginChangeFamily \/ Recreate
             \/ NothingToDraw \/ DrawSafely \/ TakeSemaphore \/ NoNewSemaphore
             \/ Prepare \/ Render \/ RenderSkips \/ RenderFails \/ Forward \/ Track \/ Drain
             \/ NothingToTrack
    BY <2>2 DEF KeepContext, DisableContext, FirstContext, BeginChangeFamily, Recreate,
         NothingToDraw, DrawSafely, TakeSemaphore, NoNewSemaphore, Prepare, Render, RenderSkips,
         RenderFails, RenderReturnsZero, Forward, Track, Drain, NothingToTrack, deviceVars
  <2>3. CASE DestroySwapchain \/ DiscardHand
    BY <2>3 DEF DestroySwapchain, DiscardHand, Discard
  <2>4. CASE DestroyDevice \/ ClearTracking
    BY <2>4 DEF DestroyDevice, ClearTracking, NoContext
  <2> QED BY <2>1, <2>2, <2>3, <2>4 DEF Next, Hook
<1>3. PoolBounded'
  BY <1>2, PoolShrinks, NewSemaphoreBounded DEF BoundInv, PoolInv
<1> QED BY <1>1, <1>3 DEF BoundInv

(* The layer never owns more present semaphores than the device's          *)
(* swapchains have images, whatever the order of acquires and presents, as *)
(* long as a failed present says which swapchains it failed for.           *)
THEOREM PoolStaysBounded == ASSUME Told PROVE Spec => []PoolBounded
<1>1. PoolInv /\ DoneInv /\ BoundInv /\ [Next]_vars => BoundInv'
  BY BoundStep
<1>2. BoundInv => PoolBounded
  BY DEF BoundInv
<1> QED BY <1>1, <1>2, BoundInit, PoolInvCorrect, DoneInvCorrect, PTL DEF Spec

=============================================================================
