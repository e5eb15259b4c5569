---------------------------- MODULE AvatarCache ----------------------------
(***************************************************************************)
(* The daemon's avatar downloads (daemon/avatar_cache.h): the main thread  *)
(* asks for the avatar of every member it publishes, a worker thread       *)
(* fetches them one by one into files the overlays load, and the           *)
(* destructor waits for the worker.  A key stands for user and hash.  Each *)
(* action is one critical section or one step outside the lock.            *)
(***************************************************************************)
EXTENDS Integers, Sequences, FiniteSets

CONSTANTS
    AvKeys,     \* avatars
    AvDrops     \* bound on how often a file is removed from the cache

AvNone == "none"

ASSUME AvAssumption == AvNone \notin AvKeys /\ AvDrops \in Nat

VARIABLES
    avFiles,    \* the files in the cache directory
    avQueued,   \* queued_
    avJobs,     \* jobs_
    avJob,      \* the worker's job, or AvNone
    avWorker,   \* where the worker is
    avAsk,      \* where request() is, and for which key
    avStop,     \* stop_
    avDropped   \* files removed so far

avVars == <<avFiles, avQueued, avJobs, avJob, avWorker, avAsk, avStop, avDropped>>

AvInit ==
    /\ avFiles = {} /\ avQueued = {} /\ avJobs = <<>> /\ avJob = AvNone
    /\ avWorker = "check" /\ avAsk = [at |-> "idle", key |-> AvNone]
    /\ avStop = FALSE /\ avDropped = 0

-----------------------------------------------------------------------------
(* request(): the file is looked for before the lock is taken, and the      *)
(* worker is notified after it has been released.                          *)
AskFile(k) ==
    /\ avAsk.at = "idle" /\ ~avStop
    /\ avAsk' = IF k \in avFiles THEN avAsk ELSE [at |-> "lock", key |-> k]
    /\ UNCHANGED <<avFiles, avQueued, avJobs, avJob, avWorker, avStop, avDropped>>

Enqueue ==
    /\ avAsk.at = "lock"
    /\ IF avAsk.key \in avQueued
       THEN avAsk' = [at |-> "idle", key |-> AvNone] /\ UNCHANGED <<avQueued, avJobs>>
       ELSE /\ avQueued' = avQueued \cup {avAsk.key}
            /\ avJobs' = Append(avJobs, avAsk.key)
            /\ avAsk' = [avAsk EXCEPT !.at = "notify"]
    /\ UNCHANGED <<avFiles, avJob, avWorker, avStop, avDropped>>

Wake == avWorker' = IF avWorker = "waiting" THEN "check" ELSE avWorker

Notify ==
    /\ avAsk.at = "notify"
    /\ Wake
    /\ avAsk' = [at |-> "idle", key |-> AvNone]
    /\ UNCHANGED <<avFiles, avQueued, avJobs, avJob, avStop, avDropped>>

(* ~AvatarCache: stop_ under the lock, notify_all; join is avWorker = "ended". *)
StopCache ==
    /\ avAsk.at = "idle" /\ ~avStop
    /\ avStop' = TRUE
    /\ avAsk' = [avAsk EXCEPT !.at = "stopping"]
    /\ UNCHANGED <<avFiles, avQueued, avJobs, avJob, avWorker, avDropped>>

NotifyAll ==
    /\ avAsk.at = "stopping"
    /\ Wake
    /\ avAsk' = [avAsk EXCEPT !.at = "joining"]
    /\ UNCHANGED <<avFiles, avQueued, avJobs, avJob, avStop, avDropped>>

-----------------------------------------------------------------------------
(* run().  A plausible bug: the key is forgotten when its job is taken.     *)
TakeJobForgetting ==
    /\ avWorker = "check" /\ avJobs # <<>>
    /\ avJob' = Head(avJobs) /\ avJobs' = Tail(avJobs) /\ avWorker' = "fetch"
    /\ avQueued' = avQueued \ {Head(avJobs)}
    /\ UNCHANGED <<avFiles, avAsk, avStop, avDropped>>

TakeJob ==
    /\ avWorker = "check" /\ avJobs # <<>>
    /\ avJob' = Head(avJobs) /\ avJobs' = Tail(avJobs) /\ avWorker' = "fetch"
    /\ UNCHANGED <<avFiles, avQueued, avAsk, avStop, avDropped>>

WaitForJobs ==
    /\ avWorker = "check" /\ avJobs = <<>>
    /\ avWorker' = IF avStop THEN "ended" ELSE "waiting"
    /\ UNCHANGED <<avFiles, avQueued, avJobs, avJob, avAsk, avStop, avDropped>>

(* download(), up to the .part file beside the one wanted: curl gives up    *)
(* after 20 s at the latest, and any failure ends the job.                  *)
Fetch ==
    /\ avWorker = "fetch"
    /\ avWorker' \in {"rename", "erase"}
    /\ UNCHANGED <<avFiles, avQueued, avJobs, avJob, avAsk, avStop, avDropped>>

RenamePart ==
    /\ avWorker = "rename"
    /\ avFiles' \in {avFiles, avFiles \cup {avJob}}
    /\ avWorker' = "erase"
    /\ UNCHANGED <<avQueued, avJobs, avJob, avAsk, avStop, avDropped>>

(* A plausible bug: a key whose download failed is never asked for again.   *)
EraseSuccessful ==
    /\ avWorker = "erase"
    /\ avQueued' = avQueued \ ({avJob} \cap avFiles) /\ avJob' = AvNone /\ avWorker' = "check"
    /\ UNCHANGED <<avFiles, avJobs, avAsk, avStop, avDropped>>

EraseKey ==
    /\ avWorker = "erase"
    /\ avQueued' = avQueued \ {avJob} /\ avJob' = AvNone /\ avWorker' = "check"
    /\ UNCHANGED <<avFiles, avJobs, avAsk, avStop, avDropped>>

(* Somebody cleans the cache directory: external.                          *)
DropFile(k) ==
    /\ k \in avFiles /\ avDropped < AvDrops
    /\ avFiles' = avFiles \ {k} /\ avDropped' = avDropped + 1
    /\ UNCHANGED <<avQueued, avJobs, avJob, avWorker, avAsk, avStop>>

AvRequester == Enqueue \/ Notify \/ NotifyAll
AvWorkerStep == TakeJob \/ WaitForJobs \/ Fetch \/ RenamePart \/ EraseKey

AvNext == \/ \E k \in AvKeys : AskFile(k) \/ DropFile(k)
          \/ AvRequester \/ StopCache \/ AvWorkerStep

(* Threads run, and a download ends.                                       *)
AvSpec == /\ AvInit /\ [][AvNext]_avVars
          /\ WF_avVars(AvRequester) /\ WF_avVars(AvWorkerStep)

-----------------------------------------------------------------------------
AvTypeOK ==
    /\ avFiles \in SUBSET AvKeys /\ avQueued \in SUBSET AvKeys
    /\ avJobs \in Seq(AvKeys) /\ avJob \in AvKeys \cup {AvNone}
    /\ avWorker \in {"check", "waiting", "fetch", "rename", "erase", "ended"}
    /\ avAsk \in [at : {"idle", "lock", "notify", "stopping", "joining"},
                  key : AvKeys \cup {AvNone}]
    /\ avStop \in BOOLEAN /\ avDropped \in Nat

(* An avatar that is asked for again and again, and whose file the worker  *)
(* is writing meanwhile, is queued or fetched once at a time: queued_ is   *)
(* exactly the jobs and the worker's, without repetition.                  *)
QueueExact ==
    /\ avQueued = {avJobs[i] : i \in DOMAIN avJobs} \cup ({avJob} \ {AvNone})
    /\ \A i, j \in DOMAIN avJobs : avJobs[i] = avJobs[j] => i = j
    /\ \A i \in DOMAIN avJobs : avJobs[i] # avJob

(* Every request is answered, with the file or not, so that the next one   *)
(* may ask again; no notification is lost; the destructor's join ends.     *)
RequestsEnd ==
    /\ \A k \in AvKeys : k \in avQueued ~> k \notin avQueued
    /\ avStop ~> avWorker = "ended"
=============================================================================
