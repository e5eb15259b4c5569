----------------------------- MODULE Parts_proofs -----------------------------
(* Theorems about FrameShm, and about the parts of MCParts together.         *)
EXTENDS MCParts, AvatarCache_proofs, ConfigControl_proofs, Authorize_proofs, TLAPS

-----------------------------------------------------------------------------
(* The kinds of values, and what a store does to an object.                 *)

FrObject == [size : Int, magic : BOOLEAN, seq : Nat, head : FrHeads, pix : FrVals]

LEMMA FrSizes == \A f \in FrHeads : f.size \in Nat /\ f.val \in FrVals
BY FrAssumption DEF FrHeads, FrVals, FrBlank

LEMMA FrBareIs ==
    /\ FrBare \in FrObject /\ FrBlank \in FrHeads /\ 0 \in FrVals
    /\ FrBare.size = 0 - 1 /\ ~FrBare.magic /\ FrBlank.size = 0
<1>1. FrBlank \in FrHeads /\ FrBlank.val = 0 /\ FrBlank.size = 0
  BY DEF FrBlank, FrHeads
<1>2. 0 \in FrVals
  BY <1>1 DEF FrVals
<1> QED BY <1>1, <1>2 DEF FrBare, FrObject

LEMMA FrNotObject == FrNone \notin FrObjects
BY FrAssumption

(* Each step of the sequence changes its parity.                            *)
LEMMA FrParity ==
    ASSUME NEW n \in Nat, n % 2 = 0
    PROVE  (n + 1) % 2 = 1 /\ (n + 2) % 2 = 0 /\ n + 1 \in Nat /\ n + 2 \in Nat
OBVIOUS

(* Nothing but o changes.                                                   *)
LEMMA FrStore ==
    ASSUME NEW o \in FrObjects, NEW new, shmObj \in [FrObjects -> FrObject],
           shmObj' = [shmObj EXCEPT ![o] = new], new \in FrObject
    PROVE  /\ shmObj' \in [FrObjects -> FrObject]
           /\ shmObj'[o] = new
           /\ \A p \in FrObjects \ {o} : shmObj'[p] = shmObj[p]
OBVIOUS

LEMMA FrInitInv == FrInit => FrInv
<1> SUFFICES ASSUME FrInit PROVE FrInv
  OBVIOUS
<1>1. FrKinds
  BY FrBareIs DEF FrInit, FrKinds, FrObject, FrAttempts, FrBlank, FrVals
<1>2. FrHolds /\ FrFollows /\ FrameAtomic
  BY DEF FrInit, FrHolds, FrFollows, FrameAtomic, FrWriting, FrTidy
<1>3. \A o \in FrObjects : shmObj[o] = FrBare
  BY DEF FrInit
<1>4. FrLives /\ FrSeals
  BY <1>3, FrBareIs, FrNotObject DEF FrInit, FrLives, FrSeals
<1> QED BY <1>1, <1>2, <1>4 DEF FrInv

-----------------------------------------------------------------------------
(* The writer's steps.                                                      *)

(* The reader keeps what it has, as long as the object it reads stays,      *)
(* moves on in its sequence, is being written, or is stamped.               *)
LEMMA FrReaderKeeps ==
    ASSUME FrInv, UNCHANGED frReader, wseq' \in Nat, wseq <= wseq',
           \/ rmap = FrNone
           \/ shmObj'[rmap] = shmObj[rmap]
           \/ /\ shmObj'[rmap].magic /\ shmObj[rmap].magic
              /\ shmObj'[rmap].seq \in Nat /\ shmObj[rmap].seq < shmObj'[rmap].seq
           \/ /\ shmObj'[rmap].magic /\ shmObj[rmap].magic
              /\ shmObj'[rmap].seq = shmObj[rmap].seq /\ shmObj[rmap].seq % 2 = 1
           \/ ~shmObj[rmap].magic /\ shmObj'[rmap].magic /\ shmObj'[rmap].seq = wseq
    PROVE  FrFollows' /\ FrameAtomic'
<1>1. /\ FrFollows /\ rlast \in Nat /\ rseen.seq \in Nat /\ wseq \in Nat
      /\ rmap # FrNone => rmap \in FrObjects /\ shmObj[rmap].seq \in Nat
  BY DEF FrInv, FrKinds
<1>2. UNCHANGED <<rmap, rlast, rpc, rseen, rout>>
  BY DEF frReader
<1>3. FrameAtomic'
  BY <1>2 DEF FrInv, FrameAtomic
<1>4. CASE rmap = FrNone
  BY <1>1, <1>2, <1>3, <1>4 DEF FrFollows, FrTidy
<1>5. CASE rmap # FrNone /\ shmObj'[rmap] = shmObj[rmap]
  BY <1>1, <1>2, <1>3, <1>5 DEF FrFollows, FrTidy
<1>6. CASE /\ rmap # FrNone /\ shmObj'[rmap].magic /\ shmObj[rmap].magic
           /\ shmObj'[rmap].seq \in Nat /\ shmObj[rmap].seq < shmObj'[rmap].seq
  BY <1>1, <1>2, <1>3, <1>6 DEF FrFollows, FrTidy
<1>7. CASE /\ rmap # FrNone /\ shmObj'[rmap].magic /\ shmObj[rmap].magic
           /\ shmObj'[rmap].seq = shmObj[rmap].seq /\ shmObj[rmap].seq % 2 = 1
  BY <1>1, <1>2, <1>3, <1>7 DEF FrFollows, FrTidy
<1>8. CASE rmap # FrNone /\ ~shmObj[rmap].magic /\ shmObj'[rmap].magic /\ shmObj'[rmap].seq = wseq
  BY <1>1, <1>2, <1>3, <1>8 DEF FrFollows, FrTidy
<1> QED BY <1>3, <1>4, <1>5, <1>6, <1>7, <1>8

LEMMA FrPublish == ASSUME FrInv, NEW f \in FrFrames, PublishFrame(f) PROVE FrInv'
<1>1. /\ wpc = "idle" /\ wframe' = f /\ UNCHANGED <<shmName, shmObj, wmap, wseq>>
      /\ UNCHANGED frReader
      /\ \/ wmap = FrNone /\ wpc' = "open"
         \/ wmap # FrNone /\ wpc' \in {"unlink", "idle", "begin"}
  BY DEF PublishFrame
<1>2. FrKinds'
  BY <1>1 DEF FrInv, FrKinds, FrHeads, FrWriting, frReader
<1>3. FrHolds' /\ FrLives' /\ FrSeals'
  BY <1>1 DEF FrInv, FrHolds, FrLives, FrSeals, FrWhole, FrWriting, frReader
<1>4. FrFollows' /\ FrameAtomic'
  BY <1>1, FrReaderKeeps DEF FrInv, FrKinds
<1> QED BY <1>2, <1>3, <1>4 DEF FrInv

(* The name goes; the object goes with it, or stays the reader's.           *)
LEMMA FrUnlink ==
    ASSUME FrInv, NEW next, Unlink(next), wmap # FrNone,
           \/ wpc = "unlink" /\ next = "open"
           \/ wpc = "idle" /\ next = "exited"
    PROVE  FrInv'
<1>1. /\ shmName' = FrNone /\ wmap' = FrNone /\ wpc' = next
      /\ shmObj' = Gone(wmap, {rmap}) /\ UNCHANGED <<wseq, wframe>> /\ UNCHANGED frReader
  BY DEF Unlink
<1>2. /\ wmap = shmName /\ shmName \in FrObjects /\ shmObj \in [FrObjects -> FrObject]
      /\ shmObj[shmName].magic /\ shmObj[shmName].seq = wseq
  BY DEF FrInv, FrHolds, FrKinds, FrObject, FrLives, FrSeals, FrWriting
<1>3. /\ shmObj' \in [FrObjects -> FrObject]
      /\ \A o \in FrObjects : shmObj'[o] = IF o = shmName /\ o # rmap THEN FrBare ELSE shmObj[o]
  BY <1>1, <1>2, FrNotObject, FrBareIs DEF Gone
<1>4. UNCHANGED <<rmap, rstat, rlast, rpc, rseen, rout>>
  BY <1>1 DEF frReader
<1>5. FrKinds'
  BY <1>1, <1>3, <1>4 DEF FrInv, FrKinds, FrObject
<1>6. FrHolds'
  BY <1>1 DEF FrHolds, FrWriting
<1>7. FrLives'
  BY <1>1, <1>2, <1>3, <1>4, FrNotObject, FrBareIs DEF FrInv, FrLives
<1>8. FrSeals'
  <2> SUFFICES ASSUME NEW o \in FrObjects, shmObj'[o].magic
               PROVE  shmObj'[o].seq % 2 = 0 /\ shmObj'[o].seq <= wseq /\ FrWhole(o)'
    BY <1>1, FrNotObject DEF FrSeals
  <2>1. shmObj'[o] = shmObj[o] /\ shmObj[o].magic
    BY <1>3, FrBareIs
  <2>2. shmObj[o].seq % 2 = 0 /\ shmObj[o].seq <= wseq /\ FrWhole(o)
    BY <1>2, <2>1 DEF FrInv, FrSeals, FrKinds
  <2> QED BY <1>1, <2>1, <2>2 DEF FrWhole
<1>9. FrFollows' /\ FrameAtomic'
  <2>1. rmap = FrNone \/ shmObj'[rmap] = shmObj[rmap]
    BY <1>3 DEF FrInv, FrKinds
  <2> QED BY <1>1, <2>1, FrReaderKeeps DEF FrInv, FrKinds
<1> QED BY <1>5, <1>6, <1>7, <1>8, <1>9 DEF FrInv

(* A new object: only its name is there yet.                                *)
LEMMA FrOpen == ASSUME FrInv, ShmOpen PROVE FrInv'
<1>1. PICK o \in FrObjects \ {rmap} : shmName' = o
  BY DEF ShmOpen
<1>2. /\ wpc = "open" /\ wpc' = "truncate" /\ UNCHANGED <<shmObj, wmap, wseq, wframe>>
      /\ UNCHANGED frReader /\ shmName = FrNone /\ wmap = FrNone
  BY DEF ShmOpen, FrInv, FrHolds
<1>3. UNCHANGED <<rmap, rstat, rlast, rpc, rseen, rout>>
  BY <1>2 DEF frReader
<1>4. FrKinds'
  BY <1>1, <1>2, <1>3 DEF FrInv, FrKinds
<1>5. FrHolds'
  BY <1>1, <1>2, FrNotObject DEF FrHolds, FrWriting
<1>6. shmObj[o] = FrBare
  BY <1>1, <1>2, FrNotObject DEF FrInv, FrLives
<1>7. FrLives'
  BY <1>1, <1>2, <1>3, <1>6, FrNotObject, FrBareIs DEF FrInv, FrLives
<1>8. FrSeals'
  BY <1>2 DEF FrInv, FrSeals, FrWhole, FrWriting
<1>9. FrFollows' /\ FrameAtomic'
  BY <1>2, FrReaderKeeps DEF FrInv, FrKinds
<1> QED BY <1>4, <1>5, <1>7, <1>8, <1>9 DEF FrInv
(* A store to the object the writer holds.                                  *)
LEMMA FrTruncate == ASSUME FrInv, Truncate PROVE FrInv'
<1>1. /\ wpc = "truncate" /\ wpc' = "stamp" /\ wmap' = shmName /\ UNCHANGED <<shmName, wseq, wframe>>
      /\ UNCHANGED frReader /\ wmap = FrNone
      /\ shmObj' = [shmObj EXCEPT ![shmName].size = wframe.size]
  BY DEF Truncate, FrInv, FrHolds
<1>2. UNCHANGED <<rmap, rstat, rlast, rpc, rseen, rout>>
  BY <1>1 DEF frReader
<1>3. /\ shmName \in FrObjects /\ shmObj \in [FrObjects -> FrObject] /\ wframe.size \in Nat
      /\ ~shmObj[shmName].magic
  BY <1>1, FrSizes, FrNotObject DEF FrInv, FrHolds, FrKinds, FrObject, FrLives
<1> DEFINE new == [shmObj[shmName] EXCEPT !.size = wframe.size]
<1>4. /\ new \in FrObject /\ new.magic = FALSE /\ new.seq = shmObj[shmName].seq
      /\ shmObj' = [shmObj EXCEPT ![shmName] = new]
  BY <1>1, <1>3 DEF FrObject
<1> HIDE DEF new
<1>5. /\ shmObj' \in [FrObjects -> FrObject] /\ shmObj'[shmName] = new
      /\ \A p \in FrObjects \ {shmName} : shmObj'[p] = shmObj[p]
  BY <1>3, <1>4, FrStore
<1>6. FrKinds' /\ FrHolds'
  BY <1>1, <1>2, <1>3, <1>5, FrNotObject DEF FrInv, FrKinds, FrHolds, FrWriting, FrObject
<1>7. FrLives'
  BY <1>1, <1>2, <1>3, <1>4, <1>5 DEF FrInv, FrLives
<1>8. FrSeals'
  BY <1>1, <1>3, <1>4, <1>5, FrNotObject DEF FrInv, FrSeals, FrWhole, FrWriting
<1>9. FrFollows' /\ FrameAtomic'
  <2>1. CASE rmap = shmName
    <3>1. /\ rpc = "idle" /\ rlast = 0 /\ rmap # FrNone
      BY <1>3, <2>1, FrNotObject DEF FrInv, FrFollows
    <3>2. /\ FrFollows' /\ rlast' = 0 /\ rpc' = "idle"
      BY <1>1, <1>2, <1>4, <1>5, <2>1, <3>1 DEF FrInv, FrFollows, FrTidy
    <3> QED BY <1>2, <3>2 DEF FrInv, FrameAtomic
  <2>2. CASE rmap # shmName
    <3>1. rmap = FrNone \/ shmObj'[rmap] = shmObj[rmap]
      BY <1>5, <2>2 DEF FrInv, FrKinds
    <3> QED BY <1>1, <3>1, FrReaderKeeps DEF FrInv, FrKinds
  <2> QED BY <2>1, <2>2
<1> QED BY <1>6, <1>7, <1>8, <1>9 DEF FrInv

LEMMA FrStamp == ASSUME FrInv, Stamp PROVE FrInv'
<1>1. /\ wpc = "stamp" /\ wpc' \in {"idle", "begin"} /\ UNCHANGED <<shmName, wmap, wseq, wframe>>
      /\ UNCHANGED frReader
      /\ shmObj' = [shmObj EXCEPT ![wmap].magic = TRUE, ![wmap].seq = wseq, ![wmap].head = FrBlank]
  BY DEF Stamp
<1>2. UNCHANGED <<rmap, rstat, rlast, rpc, rseen, rout>>
  BY <1>1 DEF frReader
<1>3. /\ wmap = shmName /\ wmap \in FrObjects /\ shmObj \in [FrObjects -> FrObject]
      /\ ~shmObj[wmap].magic /\ wseq \in Nat /\ wseq % 2 = 0
  BY <1>1, FrNotObject DEF FrInv, FrHolds, FrKinds, FrObject, FrLives
<1> DEFINE new == [shmObj[wmap] EXCEPT !.magic = TRUE, !.seq = wseq, !.head = FrBlank]
<1>4. /\ new \in FrObject /\ new.magic /\ new.seq = wseq /\ new.head = FrBlank
      /\ shmObj' = [shmObj EXCEPT ![wmap] = new]
  BY <1>1, <1>3, FrBareIs DEF FrObject
<1> HIDE DEF new
<1>5. /\ shmObj' \in [FrObjects -> FrObject] /\ shmObj'[wmap] = new
      /\ \A p \in FrObjects \ {wmap} : shmObj'[p] = shmObj[p]
  BY <1>3, <1>4, FrStore
<1>6. FrKinds' /\ FrHolds'
  BY <1>1, <1>2, <1>5 DEF FrInv, FrKinds, FrHolds, FrWriting, FrObject
<1>7. FrLives'
  BY <1>1, <1>2, <1>3, <1>4, <1>5 DEF FrInv, FrLives
<1>8. FrSeals'
  BY <1>1, <1>3, <1>4, <1>5, FrBareIs DEF FrInv, FrSeals, FrWhole, FrWriting
<1>9. FrFollows' /\ FrameAtomic'
  <2>1. rmap = FrNone \/ rmap = wmap \/ shmObj'[rmap] = shmObj[rmap]
    BY <1>5 DEF FrInv, FrKinds
  <2> QED BY <1>1, <1>3, <1>4, <1>5, <2>1, FrReaderKeeps
<1> QED BY <1>6, <1>7, <1>8, <1>9 DEF FrInv

(* The four stores of a frame.                                              *)
LEMMA FrFrame ==
    ASSUME FrInv, BeginFrame \/ WriteHead \/ WritePixels \/ EndFrame
    PROVE  FrInv'
<1>1. /\ UNCHANGED <<shmName, wmap, wframe>> /\ UNCHANGED frReader
      /\ wpc \in {"begin"} \cup FrWriting
  BY DEF BeginFrame, WriteHead, WritePixels, EndFrame, FrWriting
<1>2. UNCHANGED <<rmap, rstat, rlast, rpc, rseen, rout>>
  BY <1>1 DEF frReader
<1>3. /\ wmap = shmName /\ wmap \in FrObjects /\ shmObj \in [FrObjects -> FrObject]
      /\ shmObj[wmap].magic /\ wseq \in Nat /\ wseq % 2 = 0 /\ wframe \in FrHeads
      /\ shmObj[wmap].seq = IF wpc = "begin" THEN wseq ELSE wseq + 1
      /\ shmObj[wmap].seq \in Nat
  BY <1>1, FrNotObject DEF FrInv, FrHolds, FrKinds, FrObject, FrLives, FrSeals, FrWriting
<1>p. /\ (wseq + 1) % 2 = 1 /\ (wseq + 2) % 2 = 0 /\ wseq + 1 \in Nat /\ wseq + 2 \in Nat
  BY <1>3, FrParity
<1>4. PICK new \in FrObject :
        /\ shmObj' = [shmObj EXCEPT ![wmap] = new] /\ new.magic
        /\ \/ /\ wpc = "begin" /\ wpc' = "head" /\ wseq' = wseq /\ new.seq = wseq + 1
           \/ /\ wpc = "head" /\ wpc' = "pixels" /\ wseq' = wseq /\ new.seq = wseq + 1
              /\ new.head = wframe
           \/ /\ wpc = "pixels" /\ wpc' = "end" /\ wseq' = wseq /\ new.seq = wseq + 1
              /\ new.head = wframe /\ (new.head.size = 0 \/ new.pix = new.head.val)
           \/ /\ wpc = "end" /\ wpc' = "idle" /\ wseq' = wseq + 2 /\ new.seq = wseq + 2
              /\ (new.head.size = 0 \/ new.pix = new.head.val)
  <2> DEFINE o == shmObj[wmap]
             Stored(new) == shmObj' = [shmObj EXCEPT ![wmap] = new] /\ new.magic
  <2>0. /\ o \in FrObject /\ o.magic
        /\ wpc \in {"pixels", "end"} => o.head = wframe
        /\ wpc = "end" => o.head.size = 0 \/ o.pix = o.head.val
    BY <1>3 DEF FrInv, FrSeals, FrWhole
  <2>1. CASE BeginFrame
    <3>1. /\ [o EXCEPT !.seq = wseq + 1] \in FrObject /\ Stored([o EXCEPT !.seq = wseq + 1])
          /\ wpc = "begin" /\ wpc' = "head" /\ wseq' = wseq
      BY <1>3, <1>p, <2>0, <2>1 DEF BeginFrame, FrObject
    <3> QED BY <2>0, <3>1 DEF FrObject
  <2>2. CASE WriteHead
    <3>1. /\ [o EXCEPT !.head = wframe] \in FrObject /\ Stored([o EXCEPT !.head = wframe])
          /\ wpc = "head" /\ wpc' = "pixels" /\ wseq' = wseq
      BY <1>3, <2>0, <2>2 DEF WriteHead, FrObject
    <3> QED BY <1>3, <2>0, <3>1 DEF FrObject
  <2>3. CASE WritePixels
    <3>1. wframe.val \in FrVals
      BY <1>3, FrSizes
    <3>2. PICK v \in FrVals : /\ v = IF wframe.size = 0 THEN o.pix ELSE wframe.val
                              /\ shmObj' = [shmObj EXCEPT ![wmap].pix = v]
      BY <2>0, <2>3, <3>1 DEF WritePixels, FrObject
    <3>3. /\ [o EXCEPT !.pix = v] \in FrObject /\ Stored([o EXCEPT !.pix = v])
          /\ wpc = "pixels" /\ wpc' = "end" /\ wseq' = wseq
      BY <1>3, <2>0, <2>3, <3>2 DEF WritePixels, FrObject
    <3> QED BY <1>3, <2>0, <3>2, <3>3 DEF FrObject
  <2>4. CASE EndFrame
    <3>1. /\ [o EXCEPT !.seq = wseq + 2] \in FrObject /\ Stored([o EXCEPT !.seq = wseq + 2])
          /\ wpc = "end" /\ wpc' = "idle" /\ wseq' = wseq + 2
      BY <1>3, <1>p, <2>0, <2>4 DEF EndFrame, FrObject
    <3> QED BY <2>0, <3>1 DEF FrObject
  <2> QED BY <2>1, <2>2, <2>3, <2>4
<1>5. /\ shmObj' \in [FrObjects -> FrObject] /\ shmObj'[wmap] = new
      /\ \A p \in FrObjects \ {wmap} : shmObj'[p] = shmObj[p]
  BY <1>3, <1>4, FrStore
<1>6. FrKinds'
  BY <1>1, <1>2, <1>4, <1>5, <1>p DEF FrInv, FrKinds, FrWriting, FrObject
<1>7. FrHolds' /\ FrLives'
  BY <1>1, <1>2, <1>3, <1>4, <1>5 DEF FrInv, FrHolds, FrLives, FrWriting
<1>8. FrSeals'
  <2>1. ASSUME NEW o \in FrObjects, o # wmap, shmObj'[o].magic
        PROVE  shmObj'[o].seq % 2 = 0 /\ shmObj'[o].seq <= wseq' /\ FrWhole(o)'
    <3>1. shmObj'[o] = shmObj[o] /\ shmObj[o].seq \in Nat
      BY <1>5, <2>1 DEF FrInv, FrKinds
    <3>2. shmObj[o].seq % 2 = 0 /\ shmObj[o].seq <= wseq /\ FrWhole(o)
      BY <2>1, <3>1 DEF FrInv, FrSeals
    <3>3. wseq <= wseq'
      BY <1>3, <1>4
    <3> QED BY <1>3, <1>4, <1>p, <3>1, <3>2, <3>3 DEF FrWhole
  <2>2. /\ new.seq = IF wpc' \in FrWriting THEN wseq' + 1 ELSE wseq'
        /\ new.seq % 2 = 0 => new.head.size = 0 \/ new.pix = new.head.val
        /\ wpc' \in {"pixels", "end"} => new.head = wframe
        /\ wpc' = "end" => new.head.size = 0 \/ new.pix = new.head.val
    BY <1>4, <1>p DEF FrWriting
  <2> QED BY <1>1, <1>5, <2>1, <2>2 DEF FrSeals, FrWhole
<1>9. FrFollows' /\ FrameAtomic'
  <2>1. /\ rmap = FrNone \/ rmap = wmap \/ shmObj'[rmap] = shmObj[rmap]
        /\ wseq <= wseq' /\ wseq' \in Nat
    BY <1>3, <1>4, <1>5, <1>p DEF FrInv, FrKinds
  <2>2. \/ shmObj[wmap].seq < shmObj'[wmap].seq
        \/ shmObj'[wmap].seq = shmObj[wmap].seq /\ shmObj[wmap].seq % 2 = 1
    BY <1>3, <1>4, <1>5, <1>p DEF FrWriting
  <2>3. shmObj'[wmap].seq \in Nat /\ shmObj'[wmap].magic
    BY <1>4, <1>5 DEF FrObject
  <2> QED BY <1>1, <1>3, <2>1, <2>2, <2>3, FrReaderKeeps
<1> QED BY <1>6, <1>7, <1>8, <1>9 DEF FrInv

-----------------------------------------------------------------------------
(* The reader's steps.                                                      *)

(* What the writer's invariants ask is not touched by a reader that only    *)
(* copies.                                                                  *)
LEMMA FrWriterKeeps ==
    ASSUME FrInv, UNCHANGED <<shmName, shmObj, rmap>>, UNCHANGED frWriter
    PROVE  FrHolds' /\ FrLives' /\ FrSeals'
BY DEF FrInv, FrHolds, FrLives, FrSeals, FrWhole, frWriter

(* read() comes to an end, or starts over.                                  *)
LEMMA FrEnds ==
    ASSUME FrInv, NEW ok \in BOOLEAN, ReadEnds(ok)
    PROVE  rpc' = "idle" /\ rseen' \in [seq : Nat, try : 0 .. FrAttempts, ok : BOOLEAN] /\ rseen'.ok = ok
BY DEF ReadEnds, FrAttempts

LEMMA FrRetries ==
    ASSUME FrInv, NextTry
    PROVE  /\ rseen' \in [seq : Nat, try : 0 .. FrAttempts, ok : BOOLEAN]
           /\ rpc' = "load" \/ (rpc' = "idle" /\ ~rseen'.ok)
<1>1. CASE rseen.try = FrAttempts /\ ReadEnds(FALSE)
  BY <1>1, FrEnds
<1>2. CASE rseen.try # FrAttempts /\ rpc' = "load" /\ rseen' = [rseen EXCEPT !.try = @ + 1, !.seq = 0]
  <2>1. rseen \in [seq : Nat, try : 0 .. FrAttempts, ok : BOOLEAN]
    BY DEF FrInv, FrKinds
  <2>2. rseen.try + 1 \in 0 .. FrAttempts
    BY <1>2, <2>1 DEF FrAttempts
  <2> QED BY <1>2, <2>1, <2>2
<1> QED BY <1>1, <1>2 DEF NextTry

(* The reader looks at the sequence.                                        *)
LEMMA FrLoad == ASSUME FrInv, LoadSeq PROVE FrInv'
<1>1. /\ rpc = "load" /\ UNCHANGED <<shmName, shmObj, rmap, rstat, rlast, rout>> /\ UNCHANGED frWriter
  BY DEF LoadSeq
<1>2. /\ rmap \in FrObjects /\ rmap # FrNone /\ shmObj[rmap].magic /\ shmObj[rmap].seq \in Nat
      /\ rlast <= shmObj[rmap].seq /\ rlast \in Nat
      /\ rseen \in [seq : Nat, try : 0 .. FrAttempts, ok : BOOLEAN]
  BY <1>1 DEF FrInv, FrKinds, FrFollows
<1>3. FrHolds' /\ FrLives' /\ FrSeals'
  BY <1>1, FrWriterKeeps
<1>4. CASE shmObj[rmap].seq % 2 = 1 /\ NextTry
  <2>1. FrKinds'
    BY <1>1, <1>4, FrRetries DEF FrInv, FrKinds, FrWriting, frWriter
  <2>2. FrFollows' /\ FrameAtomic'
    BY <1>1, <1>4, FrRetries DEF FrInv, FrFollows, FrTidy, FrameAtomic, frWriter
  <2> QED BY <1>3, <2>1, <2>2 DEF FrInv
<1>5. CASE shmObj[rmap].seq % 2 # 1 /\ shmObj[rmap].seq = rlast /\ ReadEnds(TRUE)
  <2>1. FrKinds'
    BY <1>1, <1>5, FrEnds DEF FrInv, FrKinds, FrWriting, frWriter
  <2>2. FrTidy
    BY <1>2, <1>5 DEF FrInv, FrFollows
  <2>3. FrFollows' /\ FrameAtomic'
    BY <1>1, <1>5, <2>2, FrEnds DEF FrInv, FrFollows, FrTidy, FrameAtomic, frWriter
  <2> QED BY <1>3, <2>1, <2>3 DEF FrInv
<1>6. CASE /\ shmObj[rmap].seq % 2 # 1 /\ shmObj[rmap].seq # rlast
           /\ rpc' = "head" /\ rseen' = [rseen EXCEPT !.seq = shmObj[rmap].seq]
  <2>1. rseen'.seq = shmObj[rmap].seq /\ rseen' \in [seq : Nat, try : 0 .. FrAttempts, ok : BOOLEAN]
    BY <1>2, <1>6
  <2>2. FrKinds'
    BY <1>1, <1>6, <2>1 DEF FrInv, FrKinds, FrWriting, frWriter
  <2>3. shmObj[rmap].seq % 2 = 0 /\ shmObj[rmap].seq <= wseq
    <3>1. shmObj[rmap].seq % 2 = 0
      BY <1>2, <1>6
    <3>2. rmap = wmap => shmObj[rmap].seq = wseq
      <4>1. wseq \in Nat /\ wseq % 2 = 0
        BY DEF FrInv, FrKinds
      <4>2. rmap = wmap => shmObj[rmap].seq \in {wseq, wseq + 1}
        BY <1>2 DEF FrInv, FrSeals
      <4> QED BY <3>1, <4>1, <4>2, FrParity
    <3> QED BY <1>2, <3>1, <3>2 DEF FrInv, FrSeals, FrKinds
  <2>4. rlast < shmObj[rmap].seq
    BY <1>2, <1>6
  <2>5. FrFollows' /\ FrameAtomic'
    BY <1>1, <1>2, <1>6, <2>1, <2>3, <2>4 DEF FrInv, FrFollows, FrTidy, FrameAtomic, frWriter
  <2> QED BY <1>3, <2>2, <2>5 DEF FrInv
<1> QED BY <1>4, <1>5, <1>6 DEF LoadSeq

(* The reader copies the header.                                            *)
LEMMA FrCopyHead == ASSUME FrInv, CopyHead PROVE FrInv'
<1>1. /\ rpc = "head" /\ UNCHANGED <<shmName, shmObj, rmap, rstat, rlast>> /\ UNCHANGED frWriter
  BY DEF CopyHead
<1>2. /\ rmap \in FrObjects /\ rmap # FrNone /\ shmObj[rmap].magic /\ shmObj[rmap].seq \in Nat
      /\ rseen.seq \in Nat /\ rlast \in Nat /\ wseq \in Nat
      /\ rlast < rseen.seq /\ rseen.seq <= shmObj[rmap].seq /\ rseen.seq <= wseq
      /\ shmObj[rmap].head \in FrHeads
  BY <1>1 DEF FrInv, FrKinds, FrFollows
<1>3. FrHolds' /\ FrLives' /\ FrSeals'
  BY <1>1, FrWriterKeeps
<1>4. CASE ReadEnds(FALSE) /\ UNCHANGED rout
  <2>1. FrKinds'
    BY <1>1, <1>4, FrEnds DEF FrInv, FrKinds, FrWriting, frWriter
  <2>2. FrFollows' /\ FrameAtomic'
    BY <1>1, <1>4, FrEnds DEF FrInv, FrFollows, FrTidy, FrameAtomic, frWriter
  <2> QED BY <1>3, <2>1, <2>2 DEF FrInv
<1>5. CASE /\ rout' = [rout EXCEPT !.val = shmObj[rmap].head.val, !.size = shmObj[rmap].head.size]
           /\ rpc' = "pix" /\ UNCHANGED rseen
  <2>1. /\ rout' \in [val : FrVals, size : Nat, pix : FrVals]
        /\ rout'.val = shmObj[rmap].head.val /\ rout'.size = shmObj[rmap].head.size
    <3>1. rout \in [val : FrVals, size : Nat, pix : FrVals]
      BY DEF FrInv, FrKinds
    <3>2. shmObj[rmap].head.val \in FrVals /\ shmObj[rmap].head.size \in Nat
      BY <1>2, FrSizes
    <3> QED BY <1>5, <3>1, <3>2
  <2>2. FrKinds'
    BY <1>1, <1>5, <2>1 DEF FrInv, FrKinds, FrWriting, frWriter
  <2>3. FrFollows' /\ FrameAtomic'
    BY <1>1, <1>2, <1>5, <2>1 DEF FrInv, FrFollows, FrTidy, FrameAtomic, frWriter
  <2> QED BY <1>3, <2>2, <2>3 DEF FrInv
<1> QED BY <1>4, <1>5 DEF CopyHead

(* The reader copies the pixels.                                            *)
LEMMA FrCopyPixels == ASSUME FrInv, CopyPixels PROVE FrInv'
<1>1. /\ rpc = "pix" /\ rpc' = "recheck"
      /\ UNCHANGED <<shmName, shmObj, rmap, rstat, rlast, rseen>> /\ UNCHANGED frWriter
      /\ rout' = [rout EXCEPT !.pix = IF rout.size = 0 THEN 0 ELSE shmObj[rmap].pix]
  BY DEF CopyPixels
<1>2. /\ rmap \in FrObjects /\ rmap # FrNone /\ shmObj[rmap].magic /\ shmObj[rmap].seq \in Nat
      /\ rseen.seq \in Nat /\ rlast \in Nat /\ wseq \in Nat
      /\ rlast < rseen.seq /\ rseen.seq <= shmObj[rmap].seq /\ rseen.seq <= wseq
      /\ shmObj[rmap].pix \in FrVals
  BY <1>1 DEF FrInv, FrKinds, FrFollows
<1>3. /\ rout' \in [val : FrVals, size : Nat, pix : FrVals]
      /\ rout'.val = rout.val /\ rout'.size = rout.size
      /\ rout'.pix = IF rout.size = 0 THEN 0 ELSE shmObj[rmap].pix
  <2>1. rout \in [val : FrVals, size : Nat, pix : FrVals]
    BY DEF FrInv, FrKinds
  <2>2. (IF rout.size = 0 THEN 0 ELSE shmObj[rmap].pix) \in FrVals
    BY <1>2, FrBareIs
  <2> QED BY <1>1, <2>1, <2>2
<1>4. FrHolds' /\ FrLives' /\ FrSeals'
  BY <1>1, FrWriterKeeps
<1>5. FrKinds'
  BY <1>1, <1>3 DEF FrInv, FrKinds, FrWriting, frWriter
<1>6. FrFollows' /\ FrameAtomic'
  BY <1>1, <1>2, <1>3 DEF FrInv, FrFollows, FrTidy, FrameAtomic, frWriter
<1> QED BY <1>4, <1>5, <1>6 DEF FrInv

(* If the sequence has not moved, all of the frame was copied.              *)
LEMMA FrRecheck == ASSUME FrInv, RecheckSeq PROVE FrInv'
<1>1. /\ rpc = "recheck"
      /\ UNCHANGED <<shmName, shmObj, rmap, rstat, rout>> /\ UNCHANGED frWriter
  BY DEF RecheckSeq
<1>2. /\ rmap \in FrObjects /\ rmap # FrNone /\ shmObj[rmap].magic /\ shmObj[rmap].seq \in Nat
      /\ rseen.seq \in Nat /\ rlast \in Nat /\ wseq \in Nat /\ rseen.seq % 2 = 0
      /\ rlast < rseen.seq /\ rseen.seq <= shmObj[rmap].seq /\ rseen.seq <= wseq
  BY <1>1 DEF FrInv, FrKinds, FrFollows
<1>3. FrHolds' /\ FrLives' /\ FrSeals'
  BY <1>1, FrWriterKeeps
<1>4. CASE SeqHeld /\ rlast' = rseen.seq /\ ReadEnds(TRUE)
  <2>1. FrKinds'
    BY <1>1, <1>2, <1>4, FrEnds DEF FrInv, FrKinds, FrWriting, frWriter
  <2>2. FrTidy
    <3>1. /\ rout.val = shmObj[rmap].head.val /\ rout.size = shmObj[rmap].head.size
          /\ rout.pix = IF rout.size = 0 THEN 0 ELSE shmObj[rmap].pix
      BY <1>1, <1>4 DEF FrInv, FrFollows, SeqHeld
    <3>2. FrWhole(rmap)
      BY <1>2, <1>4 DEF FrInv, FrSeals, SeqHeld
    <3> QED BY <3>1, <3>2 DEF FrWhole, FrTidy
  <2>3. FrFollows' /\ FrameAtomic'
    BY <1>1, <1>2, <1>4, <2>2, FrEnds DEF FrFollows, FrTidy, FrameAtomic, SeqHeld
  <2> QED BY <1>3, <2>1, <2>3 DEF FrInv
<1>5. CASE NextTry /\ UNCHANGED rlast
  <2>1. FrKinds'
    BY <1>1, <1>5, FrRetries DEF FrInv, FrKinds, FrWriting, frWriter
  <2>2. FrFollows' /\ FrameAtomic'
    BY <1>1, <1>2, <1>5, FrRetries DEF FrInv, FrFollows, FrTidy, FrameAtomic, frWriter
  <2> QED BY <1>3, <2>1, <2>2 DEF FrInv
<1> QED BY <1>4, <1>5 DEF RecheckSeq
(* The reader starts its attempts on the object it has mapped, or ends.      *)
LEMMA FrBegins ==
    ASSUME FrInv, NEW o \in FrObjects, BeginAttempts(o)
    PROVE  /\ rseen' \in [seq : Nat, try : 0 .. FrAttempts, ok : BOOLEAN]
           /\ \/ rpc' = "load" /\ shmObj[o].magic
              \/ rpc' = "idle" /\ ~rseen'.ok
<1>1. CASE shmObj[o].magic /\ rpc' = "load" /\ rseen' = [rseen EXCEPT !.try = 1]
  <2>1. rseen \in [seq : Nat, try : 0 .. FrAttempts, ok : BOOLEAN] /\ 1 \in 0 .. FrAttempts
    BY DEF FrInv, FrKinds, FrAttempts
  <2> QED BY <1>1, <2>1
<1>2. CASE ReadEnds(FALSE)
  BY <1>2, FrEnds
<1> QED BY <1>1, <1>2 DEF BeginAttempts

(* It keeps its mapping.                                                    *)
LEMMA FrStays ==
    ASSUME FrInv, rpc = "idle", rmap \in FrObjects, BeginAttempts(rmap), UNCHANGED frWriter,
           UNCHANGED <<shmName, shmObj, rmap, rstat, rlast, rout>>
    PROVE  FrInv'
<1>1. FrHolds' /\ FrLives' /\ FrSeals'
  BY FrWriterKeeps
<1>2. FrKinds'
  BY FrBegins DEF FrInv, FrKinds, FrWriting, frWriter
<1>3. FrFollows' /\ FrameAtomic'
  BY FrBegins, FrNotObject DEF FrInv, FrFollows, FrTidy, FrameAtomic, frWriter
<1> QED BY <1>1, <1>2, <1>3 DEF FrInv

(* It lets go of its mapping, and of the object if that has no name, and    *)
(* takes the linked one or none.                                           *)
LEMMA FrRemaps ==
    ASSUME FrInv, UNCHANGED <<shmName, rout>>, UNCHANGED frWriter,
           rmap' \in {FrNone, shmName}, rstat' \in Int, rlast' \in Nat,
           rmap' # FrNone => rlast' = 0,
           shmObj' = Gone(rmap, {shmName}),
           rseen' \in [seq : Nat, try : 0 .. FrAttempts, ok : BOOLEAN],
           \/ rpc' = "load" /\ rmap' # FrNone /\ shmObj[rmap'].magic
           \/ rpc' = "idle" /\ ~rseen'.ok
    PROVE  FrInv'
<1>1. /\ UNCHANGED <<wmap, wseq, wpc, wframe>>
      /\ wmap \in {FrNone, shmName} /\ shmObj \in [FrObjects -> FrObject]
      /\ {shmName, rmap} \subseteq FrObjects \cup {FrNone}
  BY DEF frWriter, FrInv, FrHolds, FrKinds, FrObject
<1>2. /\ shmObj' \in [FrObjects -> FrObject]
      /\ \A o \in FrObjects : shmObj'[o] = IF o = rmap /\ o # shmName THEN FrBare ELSE shmObj[o]
  BY <1>1, FrNotObject, FrBareIs DEF Gone
<1>3. FrKinds'
  BY <1>1, <1>2 DEF FrInv, FrKinds, FrObject, FrWriting
<1>4. FrHolds'
  BY <1>1 DEF FrInv, FrHolds, FrWriting
<1>5. FrLives'
  BY <1>1, <1>2, FrNotObject, FrBareIs DEF FrInv, FrLives
<1>6. FrSeals'
  <2> SUFFICES ASSUME NEW o \in FrObjects, shmObj'[o].magic
               PROVE  /\ shmObj'[o] = shmObj[o] /\ shmObj[o].magic
    BY <1>1 DEF FrInv, FrSeals, FrWhole
  <2> QED BY <1>2, FrBareIs
<1>7. ASSUME rmap' # FrNone, shmObj[rmap'].magic
      PROVE  shmObj[rmap'].seq \in Nat /\ wseq \in Nat /\ (wseq > 0 => 0 < shmObj[rmap'].seq)
  <2>1. rmap' = shmName /\ shmName \in FrObjects /\ wmap = shmName /\ wseq \in Nat
    BY <1>1, <1>7 DEF FrInv, FrLives, FrKinds
  <2>2. shmObj[rmap'].seq \in {wseq, wseq + 1}
    BY <1>7, <2>1 DEF FrInv, FrSeals
  <2> QED BY <2>1, <2>2
<1>8. rmap' # FrNone => shmObj'[rmap'] = shmObj[rmap'] /\ shmObj[rmap'].seq \in Nat
  BY <1>1, <1>2 DEF FrObject
<1>9. FrFollows'
  BY <1>1, <1>7, <1>8 DEF FrInv, FrFollows, FrTidy
<1>10. FrameAtomic'
  <2>1. rpc' = "idle" => ~rseen'.ok
    OBVIOUS
  <2> QED BY <2>1 DEF FrameAtomic
<1> QED BY <1>3, <1>4, <1>5, <1>6, <1>9, <1>10 DEF FrInv

LEMMA FrProbes == ASSUME FrInv, ReadProbing PROVE FrInv'
<1>1. /\ rpc = "idle" /\ UNCHANGED <<shmName, rout>> /\ UNCHANGED frWriter
      /\ {shmName, rmap} \subseteq FrObjects \cup {FrNone} /\ rlast \in Nat
      /\ shmObj \in [FrObjects -> FrObject]
  BY DEF ReadProbing, FrInv, FrKinds, FrObject
<1>2. CASE /\ rmap' = FrNone /\ rstat' = 0
           /\ rlast' = IF rmap = FrNone THEN rlast ELSE 0
           /\ shmObj' = Gone(rmap, {shmName})
           /\ ReadEnds(FALSE)
  <2>1. /\ rpc' = "idle" /\ ~rseen'.ok
        /\ rseen' \in [seq : Nat, try : 0 .. FrAttempts, ok : BOOLEAN]
    BY <1>2, FrEnds
  <2>2. rmap' \in {FrNone, shmName} /\ rstat' \in Int /\ rlast' \in Nat /\ (rmap' # FrNone => rlast' = 0)
    BY <1>1, <1>2
  <2>3. shmObj' = Gone(rmap, {shmName})
    BY <1>2
  <2> QED BY <1>1, <2>1, <2>2, <2>3, FrRemaps
<1>3. CASE /\ shmName # FrNone /\ SameObject(shmName)
           /\ BeginAttempts(rmap) /\ UNCHANGED <<shmObj, rmap, rstat, rlast>>
  BY <1>1, <1>3, FrStays DEF SameObject
<1>4. CASE /\ shmName # FrNone
           /\ rmap' = shmName /\ rstat' = shmObj[shmName].size /\ rlast' = 0
           /\ shmObj' = Gone(rmap, {shmName})
           /\ BeginAttempts(shmName)
  <2>1. shmName \in FrObjects /\ rstat' \in Int
    BY <1>1, <1>4 DEF FrObject
  <2>2. /\ rseen' \in [seq : Nat, try : 0 .. FrAttempts, ok : BOOLEAN]
        /\ \/ rpc' = "load" /\ shmObj[rmap'].magic
           \/ rpc' = "idle" /\ ~rseen'.ok
    BY <1>4, <2>1, FrBegins
  <2> QED BY <1>1, <1>4, <2>1, <2>2, FrRemaps
<1> QED BY <1>2, <1>3, <1>4 DEF ReadProbing

LEMMA FrNextInv == FrInv /\ [FrNext]_frVars => FrInv'
<1> SUFFICES ASSUME FrInv, [FrNext]_frVars PROVE FrInv'
  OBVIOUS
<1>1. CASE \E f \in FrFrames : PublishFrame(f)
  BY <1>1, FrPublish
<1>2. CASE CloseForSize \/ CloseAtExit
  <2>1. CASE CloseForSize
    <3>1. wpc = "unlink" /\ Unlink("open") /\ wmap # FrNone
      BY <2>1 DEF CloseForSize, FrInv, FrHolds
    <3> QED BY <3>1, FrUnlink
  <2>2. CASE CloseAtExit
    <3>1. wpc = "idle" /\ Unlink("exited") /\ wmap # FrNone
      BY <2>2 DEF CloseAtExit
    <3> QED BY <3>1, FrUnlink
  <2> QED BY <1>2, <2>1, <2>2
<1>3. CASE ShmOpen \/ Truncate \/ Stamp
  BY <1>3, FrOpen, FrTruncate, FrStamp
<1>4. CASE BeginFrame \/ WriteHead \/ WritePixels \/ EndFrame
  BY <1>4, FrFrame
<1>5. CASE ReadMapped
  BY <1>5, FrStays DEF ReadMapped, FrInv, FrKinds
<1>6. CASE ReadProbing
  BY <1>6, FrProbes
<1>7. CASE LoadSeq \/ CopyHead \/ CopyPixels \/ RecheckSeq
  BY <1>7, FrLoad, FrCopyHead, FrCopyPixels, FrRecheck
<1>8. CASE ProbeComes \/ UNCHANGED frVars
  <2>1. /\ UNCHANGED <<shmName, shmObj, rmap, rstat, rlast, rpc, rseen, rout>>
        /\ UNCHANGED frWriter
    BY <1>8 DEF ProbeComes, frVars, frWriter
  <2>2. FrKinds' /\ FrFollows' /\ FrameAtomic'
    BY <2>1 DEF FrInv, FrKinds, FrFollows, FrTidy, FrameAtomic, FrWriting, frWriter
  <2> QED BY <2>1, <2>2, FrWriterKeeps DEF FrInv
<1> QED BY <1>1, <1>2, <1>3, <1>4, <1>5, <1>6, <1>7, <1>8 DEF FrNext, FrWriterStep, FrReaderStep

LEMMA FrAlways == FrSpec => []FrInv
BY FrInitInv, FrNextInv, PTL DEF FrSpec

(* The writer's mapping_ is the linked object whenever it has one, the      *)
(* reader works on a mapping only while it has one, and every header in any *)
(* object is one the writer was given.                                     *)
THEOREM FrTypeCorrect == FrSpec => []FrTypeOK
<1>1. FrInv => FrTypeOK
  BY DEF FrInv, FrKinds, FrHolds, FrFollows, FrTypeOK, FrHeads
<1> QED BY <1>1, FrAlways, PTL

(* A read() that returns true leaves header and pixels of one publication   *)
(* in the caller's frame, for any frames, sizes, objects and number of      *)
(* publications: also when the object it reads was unlinked or replaced.    *)
THEOREM FramesAreWhole == FrSpec => []FrameAtomic
<1>1. FrInv => FrameAtomic
  BY DEF FrInv
<1> QED BY <1>1, FrAlways, PTL
-----------------------------------------------------------------------------
(* The four parts together.                                                 *)

(* What one of the parts does, every part may do: with any of the four       *)
(* running, each makes steps of its own or none.                            *)
LEMMA PartsStep ==
    [PartsNext]_PartsVars => /\ [FrNext]_frVars /\ [AvNext]_avVars
                             /\ [CfNext]_cfVars /\ [AuNext]_auVars
BY DEF PartsNext, PartsVars

(* The invariants of the four parts hold side by side.                      *)
LEMMA PartsAlways == PartsSpec => [](FrInv /\ AvInv /\ CfInv /\ AuInv)
<1>1. PartsInit => FrInv /\ AvInv /\ CfInv /\ AuInv
  BY FrInitInv, AvInitInv, CfInitInv, AuInvInit DEF PartsInit
<1>2. /\ FrInv /\ AvInv /\ CfInv /\ AuInv
      /\ [PartsNext]_PartsVars
      => (FrInv /\ AvInv /\ CfInv /\ AuInv)'
  BY PartsStep, FrNextInv, AvNextInv, CfNextInv, AuInvStep
<1> QED BY <1>1, <1>2, PTL DEF PartsSpec

(* Every variable of the preview segment, the avatar downloads, the          *)
(* configuration and the way to a session keeps to its kind.                 *)
THEOREM PartsTypeCorrect == PartsSpec => []PartsTypeOK
<1>1. FrInv /\ AvInv /\ CfInv /\ AuInv => PartsTypeOK
  <2>1. FrInv => FrTypeOK
    BY DEF FrInv, FrKinds, FrHolds, FrFollows, FrTypeOK, FrHeads
  <2>2. (AvInv => AvTypeOK) /\ (CfInv => CfTypeOK) /\ (AuInv => AuTypeOK)
    BY DEF AvInv, CfInv, AuInv
  <2> QED BY <2>1, <2>2 DEF PartsTypeOK
<1> QED BY <1>1, PartsAlways, PTL

=============================================================================
