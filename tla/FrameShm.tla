------------------------------ MODULE FrameShm ------------------------------
(***************************************************************************)
(* The preview frame segment (common/overlay_frame_shm.h): a second        *)
(* seqlock, whose payload, and hence whose object, changes size.  The      *)
(* writer unlinks the object and makes another one for every size; the     *)
(* reader maps by name, looks again at most every 250 ms, and skips a      *)
(* sequence it has already read.  Both processes run step by step; the     *)
(* writer does not die without close().                                    *)
(*                                                                         *)
(* The header is one word and the pixels are another; a frame is a record  *)
(* of its value and its size, 0 for an invisible one.                      *)
(***************************************************************************)
EXTENDS Integers, FiniteSets

CONSTANTS
    FrFrames,      \* what is published: records with fields val and size
    FrObjects,     \* shared memory objects
    FrPublishes    \* bound on the number of publications

FrNone == "none"
FrBlank == [val |-> 0, size |-> 0]
FrBare == [size |-> 0 - 1, magic |-> FALSE, seq |-> 0, head |-> FrBlank, pix |-> 0]
FrAttempts == 3

ASSUME FrAssumption == /\ FrNone \notin FrObjects
                       /\ \A f \in FrFrames : f.size \in Nat
                       /\ FrPublishes \in Nat

VARIABLES
    shmName,     \* the object the name is linked to, or FrNone
    shmObj,      \* the contents of every object
    wmap,        \* the writer's mapping_
    wseq,        \* the writer's sequence_
    wpc,         \* where publish() is
    wframe,      \* its argument
    rmap,        \* the reader's mapping_
    rstat,       \* the size it had when mapped
    rlast,       \* last_seq_
    rprobe,      \* next_probe_ has come
    rpc,         \* where read() is
    rseen,       \* seq1, the attempt, and what read() returned last
    rout,        \* the caller's output
    left         \* publications still allowed

frVars == <<shmName, shmObj, wmap, wseq, wpc, wframe, rmap, rstat, rlast, rprobe, rpc,
            rseen, rout, left>>
frWriter == <<wmap, wseq, wpc, wframe>>
frReader == <<rmap, rstat, rlast, rprobe, rpc, rseen, rout>>

FrInit ==
    /\ shmName = FrNone /\ shmObj = [o \in FrObjects |-> FrBare]
    /\ wmap = FrNone /\ wseq = 0 /\ wpc = "idle" /\ wframe = FrBlank
    /\ rmap = FrNone /\ rstat = 0 /\ rlast = 0 /\ rprobe = TRUE /\ rpc = "idle"
    /\ rseen = [seq |-> 0, try |-> 0, ok |-> FALSE]
    /\ rout = [val |-> 0, size |-> 0, pix |-> 0]
    /\ left = FrPublishes

-----------------------------------------------------------------------------
(* The writer.  publish() with an object of the right size goes on at once; *)
(* same_payload compares what is there.                                    *)
SamePayload(o, f) ==
    shmObj[o].magic /\ shmObj[o].head = f /\ (f.size # 0 => shmObj[o].pix = f.val)

PublishFrame(f) ==
    /\ wpc = "idle" /\ left > 0
    /\ wframe' = f
    /\ left' = left - 1
    /\ wpc' = IF wmap = FrNone THEN "open"
              ELSE IF shmObj[wmap].size # f.size THEN "unlink"
              ELSE IF SamePayload(wmap, f) THEN "idle" ELSE "begin"
    /\ UNCHANGED <<shmName, shmObj, wmap, wseq>> /\ UNCHANGED frReader

(* An object that is neither linked nor mapped is gone.                     *)
Gone(o, users) == IF o \in users \cup {FrNone} THEN shmObj ELSE [shmObj EXCEPT ![o] = FrBare]

(* close(): the name goes, the object lives on in the reader's mapping.    *)
Unlink(next) ==
    /\ shmName' = FrNone /\ wmap' = FrNone /\ wpc' = next
    /\ shmObj' = Gone(wmap, {rmap})
    /\ UNCHANGED <<wseq, wframe, left>> /\ UNCHANGED frReader

CloseForSize == wpc = "unlink" /\ Unlink("open")
CloseAtExit == wpc = "idle" /\ wmap # FrNone /\ Unlink("exited")

(* shm_open with O_CREAT: the name is free, so the object is new and empty. *)
ShmOpen ==
    /\ wpc = "open"
    /\ \E o \in FrObjects \ {rmap} : shmName' = o
    /\ wpc' = "truncate"
    /\ UNCHANGED <<shmObj, wmap, wseq, wframe, left>> /\ UNCHANGED frReader

(* ftruncate and mmap.                                                     *)
Truncate ==
    /\ wpc = "truncate"
    /\ shmObj' = [shmObj EXCEPT ![shmName].size = wframe.size]
    /\ wmap' = shmName /\ wpc' = "stamp"
    /\ UNCHANGED <<shmName, wseq, wframe, left>> /\ UNCHANGED frReader

(* memset of the header, magic, version and the sequence reached so far, in *)
(* one step: the object is new, a header without magic counts as none, and  *)
(* magic is stored after the memset.                                       *)
Stamp ==
    /\ wpc = "stamp"
    /\ shmObj' = [shmObj EXCEPT ![wmap].magic = TRUE, ![wmap].seq = wseq,
                                ![wmap].head = FrBlank]
    /\ wpc' = IF wframe = FrBlank THEN "idle" ELSE "begin"
    /\ UNCHANGED <<shmName, wmap, wseq, wframe, left>> /\ UNCHANGED frReader

BeginFrame ==
    /\ wpc = "begin"
    /\ shmObj' = [shmObj EXCEPT ![wmap].seq = wseq + 1]
    /\ wpc' = "head"
    /\ UNCHANGED <<shmName, wmap, wseq, wframe, left>> /\ UNCHANGED frReader

WriteHead ==
    /\ wpc = "head"
    /\ shmObj' = [shmObj EXCEPT ![wmap].head = wframe]
    /\ wpc' = "pixels"
    /\ UNCHANGED <<shmName, wmap, wseq, wframe, left>> /\ UNCHANGED frReader

WritePixels ==
    /\ wpc = "pixels"
    /\ shmObj' = [shmObj EXCEPT ![wmap].pix = IF wframe.size = 0 THEN @ ELSE wframe.val]
    /\ wpc' = "end"
    /\ UNCHANGED <<shmName, wmap, wseq, wframe, left>> /\ UNCHANGED frReader

EndFrame ==
    /\ wpc = "end"
    /\ wseq' = wseq + 2
    /\ shmObj' = [shmObj EXCEPT ![wmap].seq = wseq + 2]
    /\ wpc' = "idle"
    /\ UNCHANGED <<shmName, wmap, wframe, left>> /\ UNCHANGED frReader

-----------------------------------------------------------------------------
(* The reader.  read() ends with a result; every attempt overwrites the     *)
(* caller's output as it goes.                                             *)
ReadEnds(result) == rpc' = "idle" /\ rseen' = [seq |-> 0, try |-> 0, ok |-> result]

(* A plausible bug: an object of the same size is taken for the same one.   *)
SameSize(o) == rmap # FrNone /\ rstat = shmObj[o].size
SameObject(o) == rmap = o /\ rstat = shmObj[o].size

BeginAttempts(o) ==
    IF shmObj[o].magic THEN rpc' = "load" /\ rseen' = [rseen EXCEPT !.try = 1]
    ELSE ReadEnds(FALSE)

(* refresh_mapping between two probes, and read() up to its loop.           *)
ReadMapped ==
    /\ rpc = "idle" /\ rmap # FrNone /\ ~rprobe
    /\ BeginAttempts(rmap)
    /\ UNCHANGED <<shmName, shmObj, rmap, rstat, rlast, rprobe, rout, left>>
    /\ UNCHANGED frWriter

(* refresh_mapping with a probe: an object smaller than a header is none.   *)
ReadProbing ==
    /\ rpc = "idle" /\ (rmap = FrNone \/ rprobe)
    /\ rprobe' = FALSE
    /\ IF shmName = FrNone \/ (shmName # FrNone /\ shmObj[shmName].size < 0)
       THEN /\ rmap' = FrNone /\ rstat' = 0
            /\ rlast' = IF rmap = FrNone THEN rlast ELSE 0
            /\ shmObj' = Gone(rmap, {shmName})
            /\ ReadEnds(FALSE)
       ELSE IF SameObject(shmName)
       THEN BeginAttempts(rmap) /\ UNCHANGED <<shmObj, rmap, rstat, rlast>>
       ELSE /\ rmap' = shmName /\ rstat' = shmObj[shmName].size /\ rlast' = 0
            /\ shmObj' = Gone(rmap, {shmName})
            /\ BeginAttempts(shmName)
    /\ UNCHANGED <<shmName, rout, left>> /\ UNCHANGED frWriter

(* A plausible bug: one attempt too many.                                  *)
NextTryPast ==
    IF rseen.try > FrAttempts THEN ReadEnds(FALSE)
    ELSE rpc' = "load" /\ rseen' = [rseen EXCEPT !.try = @ + 1, !.seq = 0]

NextTry ==
    IF rseen.try = FrAttempts THEN ReadEnds(FALSE)
    ELSE rpc' = "load" /\ rseen' = [rseen EXCEPT !.try = @ + 1, !.seq = 0]

(* seq1: odd, read before, or new.                                         *)
LoadSeq ==
    /\ rpc = "load"
    /\ LET seq == shmObj[rmap].seq
       IN  IF seq % 2 = 1 THEN NextTry
           ELSE IF seq = rlast THEN ReadEnds(TRUE)
           ELSE rpc' = "head" /\ rseen' = [rseen EXCEPT !.seq = seq]
    /\ UNCHANGED <<shmName, shmObj, rmap, rstat, rlast, rprobe, rout, left>>
    /\ UNCHANGED frWriter

CopyHead ==
    /\ rpc = "head"
    /\ LET head == shmObj[rmap].head
       IN  IF head.size > rstat
           THEN rprobe' = TRUE /\ ReadEnds(FALSE) /\ UNCHANGED rout
           ELSE /\ rout' = [rout EXCEPT !.val = head.val, !.size = head.size]
                /\ rpc' = "pix" /\ UNCHANGED <<rprobe, rseen>>
    /\ UNCHANGED <<shmName, shmObj, rmap, rstat, rlast, left>> /\ UNCHANGED frWriter

CopyPixels ==
    /\ rpc = "pix"
    /\ rout' = [rout EXCEPT !.pix = IF rout.size = 0 THEN 0 ELSE shmObj[rmap].pix]
    /\ rpc' = "recheck"
    /\ UNCHANGED <<shmName, shmObj, rmap, rstat, rlast, rprobe, rseen, left>>
    /\ UNCHANGED frWriter

(* A plausible bug: only a write in progress is noticed.                    *)
SeqHeldEven == shmObj[rmap].seq % 2 = 0
SeqHeld == shmObj[rmap].seq = rseen.seq

RecheckSeq ==
    /\ rpc = "recheck"
    /\ IF SeqHeld THEN rlast' = rseen.seq /\ ReadEnds(TRUE)
       ELSE NextTry /\ UNCHANGED rlast
    /\ UNCHANGED <<shmName, shmObj, rmap, rstat, rprobe, rout, left>>
    /\ UNCHANGED frWriter

(* The 250 ms since the last probe are over.                               *)
ProbeComes ==
    /\ rpc = "idle" /\ ~rprobe /\ rprobe' = TRUE
    /\ UNCHANGED <<shmName, shmObj, rmap, rstat, rlast, rpc, rseen, rout, left>>
    /\ UNCHANGED frWriter

FrWriterStep ==
    CloseForSize \/ ShmOpen \/ Truncate \/ Stamp
    \/ BeginFrame \/ WriteHead \/ WritePixels \/ EndFrame
FrReaderStep == ReadMapped \/ ReadProbing \/ LoadSeq \/ CopyHead \/ CopyPixels \/ RecheckSeq

FrNext == \/ \E f \in FrFrames : PublishFrame(f)
          \/ FrWriterStep \/ CloseAtExit
          \/ FrReaderStep \/ ProbeComes

(* Both sides keep running, and time passes.                               *)
FrSpec == /\ FrInit /\ [][FrNext]_frVars
          /\ WF_frVars(FrWriterStep) /\ WF_frVars(FrReaderStep)
          /\ SF_frVars(ProbeComes)

-----------------------------------------------------------------------------
(* Values of the right kind; the writer's mapping is the linked object.     *)
FrTypeOK ==
    /\ wmap # FrNone => wmap = shmName
    /\ rmap = FrNone => rpc = "idle"
    /\ rseen.try \in 0 .. FrAttempts
    /\ \A o \in FrObjects : shmObj[o].head \in FrFrames \cup {FrBlank}

(* What a read that succeeds leaves in the output is one frame, header and *)
(* pixels of the same publication, whatever the sizes did meanwhile.         *)
FrameAtomic ==
    rpc = "idle" /\ rseen.ok => rout.size = 0 \/ rout.pix = rout.val

(* A reader that keeps reading ends up with the last frame published,       *)
(* across any number of new objects, unless the writer goes away first.     *)
FrSettled == wpc = "idle" /\ wmap # FrNone /\ left = 0
FrameConverges ==
    FrSettled ~> \/ rout.val = wframe.val /\ rout.size = wframe.size
                 \/ wpc = "exited"
-----------------------------------------------------------------------------
(* Why FrameAtomic holds: the invariant of the proofs.                     *)

FrHeads == FrFrames \cup {FrBlank}
FrVals == {f.val : f \in FrHeads}
FrWriting == {"head", "pixels", "end"}

FrKinds ==
    /\ {shmName, wmap, rmap} \subseteq FrObjects \cup {FrNone}
    /\ shmObj \in [FrObjects -> [size : Int, magic : BOOLEAN, seq : Nat, head : FrHeads, pix : FrVals]]
    /\ wseq \in Nat /\ wseq % 2 = 0 /\ wframe \in FrHeads
    /\ wpc \in {"idle", "unlink", "open", "truncate", "stamp", "begin", "exited"} \cup FrWriting
    /\ rpc \in {"idle", "load", "head", "pix", "recheck"}
    /\ rstat \in Int /\ rlast \in Nat
    /\ rseen \in [seq : Nat, try : 0 .. FrAttempts, ok : BOOLEAN]
    /\ rout \in [val : FrVals, size : Nat, pix : FrVals]

(* The writer holds the linked object from ftruncate to close().            *)
FrHolds ==
    /\ wmap \in {FrNone, shmName}
    /\ wpc \in {"open", "truncate", "exited"} => wmap = FrNone
    /\ wpc \in {"unlink", "stamp", "begin"} \cup FrWriting => wmap # FrNone
    /\ wpc # "truncate" => wmap = shmName
    /\ wpc = "truncate" => shmName # FrNone

(* An object nobody uses is bare.  One has its magic from the stamp on, and *)
(* keeps it for the reader when it is unlinked.                            *)
FrLives ==
    \A o \in FrObjects :
        /\ o \notin {shmName, rmap} => shmObj[o] = FrBare
        /\ shmObj[o].magic <=> IF o = shmName THEN o = wmap /\ wpc # "stamp" ELSE o = rmap

(* Header and pixels of o are of one publication.                           *)
FrWhole(o) == shmObj[o].head.size = 0 \/ shmObj[o].pix = shmObj[o].head.val

(* An even sequence means a whole frame, in unlinked objects too.           *)
FrSeals ==
    \A o \in FrObjects : shmObj[o].magic =>
        /\ IF o = wmap
           THEN shmObj[o].seq = IF wpc \in FrWriting THEN wseq + 1 ELSE wseq
           ELSE shmObj[o].seq % 2 = 0 /\ shmObj[o].seq <= wseq
        /\ shmObj[o].seq % 2 = 0 => FrWhole(o)
        /\ o = wmap /\ wpc \in {"pixels", "end"} => shmObj[o].head = wframe
        /\ o = wmap /\ wpc = "end" => FrWhole(o)

(* What the output holds is one frame.                                      *)
FrTidy == rout.size = 0 \/ rout.pix = rout.val

(* The reader is behind the object it reads; as long as the sequence does   *)
(* not move, what it has copied is what is there.  A torn output is only    *)
(* left behind by a sequence that has moved on, and so is read again: also  *)
(* from a new object, whose sequence does not start at 0 any more.          *)
FrFollows ==
    /\ rpc # "idle" => rmap # FrNone /\ shmObj[rmap].magic
    /\ rmap # FrNone =>
         IF shmObj[rmap].magic THEN rlast <= shmObj[rmap].seq ELSE rlast = 0
    /\ rpc \in {"head", "pix", "recheck"} =>
         /\ rseen.seq % 2 = 0 /\ rlast < rseen.seq /\ rseen.seq <= shmObj[rmap].seq
         /\ rseen.seq <= wseq
    /\ rpc \in {"pix", "recheck"} /\ rseen.seq = shmObj[rmap].seq =>
         rout.val = shmObj[rmap].head.val /\ rout.size = shmObj[rmap].head.size
    /\ rpc = "recheck" /\ rseen.seq = shmObj[rmap].seq =>
         rout.pix = IF rout.size = 0 THEN 0 ELSE shmObj[rmap].pix
    /\ ~FrTidy => /\ wseq > 0
                  /\ rmap # FrNone /\ shmObj[rmap].magic => rlast < shmObj[rmap].seq

FrInv == FrKinds /\ FrHolds /\ FrLives /\ FrSeals /\ FrFollows /\ FrameAtomic

=============================================================================
