------------------------- MODULE AvatarCache_proofs -------------------------
(***************************************************************************)
(* The set of queued keys and the queue of jobs of the avatar cache agree  *)
(* at every step, for any avatars and any number of removed files.         *)
(***************************************************************************)
EXTENDS AvatarCache, TLAPS

(* The worker has a job exactly while it is downloading: otherwise the job  *)
(* it has could be overwritten by the next one.                             *)
JobHeld == avJob = AvNone <=> avWorker \notin {"fetch", "rename", "erase"}

(* request() between its look for the file and its return is about a key.   *)
AskHeld == avAsk.at \in {"lock", "notify"} => avAsk.key \in AvKeys

AvInv == AvTypeOK /\ JobHeld /\ AskHeld /\ QueueExact

LEMMA AvInitInv == AvInit => AvInv
<1> SUFFICES ASSUME AvInit PROVE AvInv
  OBVIOUS
<1>1. avJobs = <<>> /\ avJobs \in Seq(AvKeys) /\ DOMAIN avJobs = {}
  BY DEF AvInit
<1>2. AvTypeOK /\ JobHeld /\ AskHeld
  BY <1>1 DEF AvInit, AvTypeOK, JobHeld, AskHeld
<1>3. QueueExact
  BY <1>1 DEF AvInit, QueueExact
<1> QED BY <1>2, <1>3 DEF AvInv

(* Steps that leave the queue and the worker's job alone.                  *)
LEMMA QueueKept ==
    ASSUME QueueExact, UNCHANGED <<avQueued, avJobs, avJob>>
    PROVE QueueExact'
BY DEF QueueExact

LEMMA AskKeeps ==
    ASSUME AvInv, NEW k \in AvKeys, AskFile(k) \/ DropFile(k)
    PROVE AvInv'
<1>1. QueueExact'
  BY QueueKept DEF AvInv, AskFile, DropFile
<1>2. AvTypeOK'
  BY DEF AvInv, AvTypeOK, AskFile, DropFile
<1>3. JobHeld' /\ AskHeld'
  BY DEF AvInv, AvTypeOK, JobHeld, AskHeld, AskFile, DropFile
<1> QED BY <1>1, <1>2, <1>3 DEF AvInv

LEMMA NotifyKeeps ==
    ASSUME AvInv, Notify \/ StopCache \/ NotifyAll
    PROVE AvInv'
<1>1. QueueExact'
  BY QueueKept DEF AvInv, Notify, StopCache, NotifyAll
<1>2. AvTypeOK'
  <2>1. avWorker' \in {"check", "waiting", "fetch", "rename", "erase", "ended"}
    BY DEF AvInv, AvTypeOK, Notify, StopCache, NotifyAll, Wake
  <2>2. avAsk' \in [at : {"idle", "lock", "notify", "stopping", "joining"},
                    key : AvKeys \cup {AvNone}]
    BY DEF AvInv, AvTypeOK, Notify, StopCache, NotifyAll
  <2> QED BY <2>1, <2>2 DEF AvInv, AvTypeOK, Notify, StopCache, NotifyAll
<1>3. JobHeld' /\ AskHeld'
  BY DEF AvInv, AvTypeOK, JobHeld, AskHeld, Notify, StopCache, NotifyAll, Wake
<1> QED BY <1>1, <1>2, <1>3 DEF AvInv

(* A key enters the set and the queue together, and only if it was in       *)
(* neither: QueueExact says that the set tells.                             *)
LEMMA EnqueueKeeps ==
    ASSUME AvInv, Enqueue
    PROVE AvInv'
<1>1. avAsk.key \in AvKeys /\ avJobs \in Seq(AvKeys)
  BY DEF AvInv, AvTypeOK, AskHeld, Enqueue
<1>2. CASE avAsk.key \in avQueued
  <2>1. UNCHANGED <<avFiles, avQueued, avJobs, avJob, avWorker, avStop, avDropped>>
        /\ avAsk' = [at |-> "idle", key |-> AvNone]
    BY <1>2 DEF Enqueue
  <2>2. QueueExact'
    BY <2>1, QueueKept DEF AvInv
  <2>3. AvTypeOK' /\ JobHeld' /\ AskHeld'
    BY <2>1 DEF AvInv, AvTypeOK, JobHeld, AskHeld
  <2> QED BY <2>2, <2>3 DEF AvInv
<1>3. CASE avAsk.key \notin avQueued
  <2>1. /\ avQueued' = avQueued \cup {avAsk.key}
        /\ avJobs' = Append(avJobs, avAsk.key)
        /\ avAsk' = [avAsk EXCEPT !.at = "notify"]
        /\ UNCHANGED <<avFiles, avJob, avWorker, avStop, avDropped>>
    BY <1>3 DEF Enqueue
  <2>2. AvTypeOK'
    BY <1>1, <2>1 DEF AvInv, AvTypeOK
  <2>3. JobHeld' /\ AskHeld'
    BY <1>1, <2>1 DEF AvInv, AvTypeOK, JobHeld, AskHeld
  <2>4. QueueExact'
    <3>1. /\ Len(avJobs') = Len(avJobs) + 1 /\ Len(avJobs) \in Nat
          /\ DOMAIN avJobs = 1 .. Len(avJobs) /\ DOMAIN avJobs' = 1 .. Len(avJobs) + 1
          /\ avJobs'[Len(avJobs) + 1] = avAsk.key
          /\ \A i \in 1 .. Len(avJobs) : avJobs'[i] = avJobs[i]
      BY <1>1, <2>1
    <3>2. /\ \A i \in 1 .. Len(avJobs) : avJobs[i] # avAsk.key
          /\ avJob # avAsk.key
      BY <1>1, <1>3, <3>1, AvAssumption DEF AvInv, QueueExact
    <3>3. {avJobs'[i] : i \in DOMAIN avJobs'} =
             {avJobs[i] : i \in DOMAIN avJobs} \cup {avAsk.key}
      BY <3>1
    <3> QED BY <2>1, <3>1, <3>2, <3>3 DEF AvInv, QueueExact
  <2> QED BY <2>2, <2>3, <2>4 DEF AvInv
<1> QED BY <1>2, <1>3

(* The first job becomes the worker's: it leaves the queue, not the set.    *)
LEMMA TakeKeeps ==
    ASSUME AvInv, TakeJob
    PROVE AvInv'
<1>1. /\ avJobs \in Seq(AvKeys) /\ avJobs # <<>> /\ avJob = AvNone
      /\ avJob' = Head(avJobs) /\ avJobs' = Tail(avJobs) /\ avWorker' = "fetch"
      /\ UNCHANGED <<avFiles, avQueued, avAsk, avStop, avDropped>>
  BY DEF AvInv, AvTypeOK, JobHeld, TakeJob
<1>2. /\ Len(avJobs) \in Nat \ {0} /\ DOMAIN avJobs = 1 .. Len(avJobs)
      /\ Head(avJobs) = avJobs[1] /\ Head(avJobs) \in AvKeys
      /\ Tail(avJobs) \in Seq(AvKeys)
      /\ DOMAIN Tail(avJobs) = 1 .. Len(avJobs) - 1
      /\ \A i \in 1 .. Len(avJobs) - 1 : Tail(avJobs)[i] = avJobs[i + 1]
  BY <1>1
<1>3. AvTypeOK' /\ JobHeld' /\ AskHeld'
  BY <1>1, <1>2, AvAssumption DEF AvInv, AvTypeOK, JobHeld, AskHeld
<1>4. QueueExact'
  <2>1. {avJobs[i] : i \in DOMAIN avJobs} =
           {avJobs'[i] : i \in DOMAIN avJobs'} \cup {avJob'}
    <3>1. ASSUME NEW i \in 1 .. Len(avJobs)
          PROVE avJobs[i] \in {avJobs'[j] : j \in DOMAIN avJobs'} \cup {avJob'}
      <4>1. CASE i = 1
        BY <1>1, <1>2, <4>1
      <4>2. CASE i # 1
        <5>1. i - 1 \in 1 .. Len(avJobs) - 1 /\ (i - 1) + 1 = i
          BY <1>2, <4>2
        <5> QED BY <1>1, <1>2, <5>1
      <4> QED BY <4>1, <4>2
    <3>2. ASSUME NEW i \in DOMAIN avJobs'
          PROVE avJobs'[i] \in {avJobs[j] : j \in DOMAIN avJobs}
      <4>1. i + 1 \in 1 .. Len(avJobs) /\ avJobs'[i] = avJobs[i + 1]
        BY <1>1, <1>2
      <4> QED BY <1>2, <4>1
    <3>3. avJob' \in {avJobs[j] : j \in DOMAIN avJobs}
      <4>1. 1 \in DOMAIN avJobs
        BY <1>2
      <4> QED BY <1>1, <1>2, <4>1
    <3> QED BY <1>2, <3>1, <3>2, <3>3
  <2>2. avJob' # AvNone
    BY <1>1, <1>2, AvAssumption
  <2>3. avQueued' = {avJobs'[i] : i \in DOMAIN avJobs'} \cup ({avJob'} \ {AvNone})
    BY <1>1, <2>1, <2>2 DEF AvInv, QueueExact
  <2>4. \A i, j \in DOMAIN avJobs : avJobs[i] = avJobs[j] => i = j
    BY DEF AvInv, QueueExact
  <2>5. ASSUME NEW i \in DOMAIN avJobs', NEW j \in DOMAIN avJobs', avJobs'[i] = avJobs'[j]
        PROVE i = j
    <3>1. i + 1 \in DOMAIN avJobs /\ j + 1 \in DOMAIN avJobs /\ i \in Int /\ j \in Int
      BY <1>1, <1>2
    <3>2. avJobs[i + 1] = avJobs[j + 1]
      BY <1>1, <1>2, <2>5
    <3>3. i + 1 = j + 1
      BY <2>4, <3>1, <3>2
    <3> QED BY <3>1, <3>3
  <2>6. ASSUME NEW i \in DOMAIN avJobs' PROVE avJobs'[i] # avJob'
    <3>1. i + 1 \in DOMAIN avJobs /\ 1 \in DOMAIN avJobs /\ i + 1 # 1
      BY <1>1, <1>2
    <3>2. avJobs'[i] = avJobs[i + 1] /\ avJob' = avJobs[1]
      BY <1>1, <1>2
    <3> QED BY <2>4, <3>1, <3>2
  <2> QED BY <2>3, <2>5, <2>6 DEF QueueExact
<1> QED BY <1>3, <1>4 DEF AvInv

LEMMA WorkKeeps ==
    ASSUME AvInv, WaitForJobs \/ Fetch \/ RenamePart
    PROVE AvInv'
<1>1. QueueExact'
  BY QueueKept DEF AvInv, WaitForJobs, Fetch, RenamePart
<1>2. AvTypeOK'
  BY AvAssumption DEF AvInv, AvTypeOK, JobHeld, WaitForJobs, Fetch, RenamePart
<1>3. JobHeld' /\ AskHeld'
  BY DEF AvInv, AvTypeOK, JobHeld, AskHeld, WaitForJobs, Fetch, RenamePart
<1> QED BY <1>1, <1>2, <1>3 DEF AvInv

(* The worker's key leaves the set, in which no job stands for it.          *)
LEMMA EraseKeeps ==
    ASSUME AvInv, EraseKey
    PROVE AvInv'
<1>1. /\ avQueued' = avQueued \ {avJob} /\ avJob' = AvNone /\ avWorker' = "check"
      /\ UNCHANGED <<avFiles, avJobs, avAsk, avStop, avDropped>>
      /\ \A i \in DOMAIN avJobs : avJobs[i] \in AvKeys
  BY DEF AvInv, AvTypeOK, EraseKey
<1>2. AvTypeOK' /\ JobHeld' /\ AskHeld'
  BY <1>1 DEF AvInv, AvTypeOK, JobHeld, AskHeld
<1>3. QueueExact'
  BY <1>1, AvAssumption DEF AvInv, QueueExact
<1> QED BY <1>2, <1>3 DEF AvInv

LEMMA AvNextInv == AvInv /\ [AvNext]_avVars => AvInv'
<1> SUFFICES ASSUME AvInv, [AvNext]_avVars PROVE AvInv'
  OBVIOUS
<1>1. CASE UNCHANGED avVars
  BY <1>1 DEF avVars, AvInv, AvTypeOK, JobHeld, AskHeld, QueueExact
<1>2. CASE AvNext
  BY <1>2, AskKeeps, NotifyKeeps, EnqueueKeeps, TakeKeeps, WorkKeeps, EraseKeeps
     DEF AvNext, AvRequester, AvWorkerStep
<1> QED BY <1>1, <1>2

LEMMA AvAlways == AvSpec => []AvInv
BY AvInitInv, AvNextInv, PTL DEF AvSpec

(* Every variable of the cache keeps to its kind: in particular the queue   *)
(* holds keys, and the worker's job is one of them or none.                 *)
THEOREM AvTypeCorrect == AvSpec => []AvTypeOK
<1>1. AvInv => AvTypeOK
  BY DEF AvInv
<1> QED BY <1>1, AvAlways, PTL

(* No avatar is queued twice, none is downloaded while it is queued, and    *)
(* queued_ forgets a key exactly when its job ends, whatever requests and   *)
(* the worker do between their critical sections.                           *)
THEOREM QueueStaysExact == AvSpec => []QueueExact
<1>1. AvInv => QueueExact
  BY DEF AvInv
<1> QED BY <1>1, AvAlways, PTL
=============================================================================
