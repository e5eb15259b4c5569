--------------------------- MODULE VoiceShm_proofs ---------------------------
(* Theorems about VoiceShm and their proofs.                               *)
EXTENDS VoiceShm, TLAPS

-----------------------------------------------------------------------------
(* Lemmas about the words of a segment and the sequence number.            *)

(* Each bump of the sequence changes its parity.                           *)
LEMMA Parity ==
  /\ ~Odd(0)
  /\ \A n \in Nat : Odd(n + 1) <=> ~Odd(n)
BY DEF Odd

(* The words of a segment are pairwise distinct places.                    *)
LEMMA WordsDistinct ==
  /\ {ChannelWord, CountWord, ChatWord} \subseteq Words
  /\ ChannelWord # CountWord /\ ChannelWord # ChatWord /\ CountWord # ChatWord
  /\ \A i \in UserWords : i \in Words /\ i \notin {ChannelWord, CountWord, ChatWord}
BY ShmAssumption DEF Words, ChannelWord, CountWord, ChatWord, UserWords

LEMMA ZeroedType ==
  /\ Zeroed \in [Words -> WordValues]
  /\ Zeroed[CountWord] = 0
BY ShmAssumption, WordsDistinct DEF Zeroed, WordValues, Words

(* A publication never stores outside the segment, nor a count above       *)
(* SIGAW_MAX_USERS.                                                        *)
LEMMA StoredType ==
  ASSUME NEW p \in Publications
  PROVE  /\ UserCount(p) \in 0..MaxUsers
         /\ StoredWords(p) \subseteq Words
         /\ \A w \in StoredWords(p) : StoredValue(p, w) \in WordValues
         /\ StoredValue(p, CountWord) = UserCount(p)
<1>1. /\ p.channel \in Channels \cup {NoChannel}
      /\ p.users \in Seq(Entries)
      /\ p.chat \in Chats \cup {NoChat}
  BY ShmAssumption
<1>2. Len(p.users) \in Nat /\ \A i \in 1..Len(p.users) : p.users[i] \in Entries
  BY <1>1
<1>3. UserCount(p) \in 0..MaxUsers
  BY <1>2, ShmAssumption DEF UserCount
<1>4. UserCount(p) # 0 => UserCount(p) <= Len(p.users)
  BY <1>2, ShmAssumption DEF UserCount
<1>5. StoredWords(p) \subseteq Words
  BY <1>3, ShmAssumption DEF StoredWords, Words, UserWords
<1>6. StoredValue(p, CountWord) = UserCount(p)
  BY WordsDistinct DEF StoredValue
<1>7. ASSUME NEW w \in StoredWords(p) PROVE StoredValue(p, w) \in WordValues
  <2>1. CASE w \in {ChannelWord, CountWord, ChatWord}
    BY <2>1, <1>1, <1>3, WordsDistinct DEF StoredValue, WordValues
  <2>2. CASE w \in 1..UserCount(p)
    <3>1. w \in 1..Len(p.users) /\ w \in UserWords
      BY <2>2, <1>2, <1>3, <1>4, ShmAssumption DEF UserWords
    <3>2. StoredValue(p, w) = p.users[w]
      BY <3>1, WordsDistinct DEF StoredValue
    <3> QED BY <3>1, <3>2, <1>2 DEF WordValues
  <2> QED BY <2>1, <2>2 DEF StoredWords
<1> QED BY <1>3, <1>5, <1>6, <1>7

(* Storing everything makes the segment show the publication.              *)
LEMMA StoredView ==
  ASSUME NEW p \in Publications, NEW words,
         \A w \in StoredWords(p) : words[w] = StoredValue(p, w)
  PROVE  View(words) = Shown(p)
<1>1. /\ words[ChannelWord] = p.channel
      /\ words[CountWord] = UserCount(p)
      /\ words[ChatWord] = IF p.channel = NoChannel THEN NoChat ELSE p.chat
  BY WordsDistinct DEF StoredWords, StoredValue
<1>2. ASSUME NEW i \in 1..UserCount(p) PROVE words[i] = p.users[i]
  <2>1. i \in UserWords
    BY StoredType, ShmAssumption DEF UserWords
  <2> QED BY <2>1, WordsDistinct DEF StoredWords, StoredValue
<1> QED BY <1>1, <1>2 DEF View, Shown

-----------------------------------------------------------------------------
(* Type correctness, crashes included.                                     *)

LEMMA TypeInit == Init => TypeOK
<1> SUFFICES ASSUME Init PROVE TypeOK
  OBVIOUS
<1> USE ShmAssumption DEF Init
<1>1. SegmentsOK
  BY ZeroedType DEF SegmentsOK, SegmentType
<1>2. WriterOK
  BY DEF WriterOK
<1>3. ReadersOK
  BY ZeroedType DEF ReadersOK
<1> QED BY <1>1, <1>2, <1>3 DEF TypeOK

(* Storing a well-typed record in one segment keeps the segments typed.    *)
LEMMA SegmentStore ==
  ASSUME SegmentsOK, NEW s \in Segments, NEW new \in SegmentType,
         new.words[CountWord] \in 0..MaxUsers,
         seg' = [seg EXCEPT ![s] = new],
         created' \in 0..MaxSegments, linked' \in Segments \cup {NoSegment}
  PROVE  SegmentsOK'
BY DEF SegmentsOK

(* The daemon's steps.                                                     *)
LEMMA TypeWriter ==
  ASSUME TypeOK, Open \/ (\E p \in Publications : BeginWrite(p)) \/ StoreStep \/ CloseShm \/ Crash
  PROVE  TypeOK'
<1> USE ShmAssumption
<1>r. ASSUME UNCHANGED readerVars PROVE ReadersOK'
  BY <1>r DEF TypeOK, ReadersOK, readerVars
<1>s. ASSUME UNCHANGED <<seg, linked, created>> PROVE SegmentsOK'
  BY <1>s DEF TypeOK, SegmentsOK
<1>w. ASSUME wpc # "down" PROVE wseg \in Segments /\ seg[wseg] \in SegmentType
                                /\ seg[wseg].words[CountWord] \in 0..MaxUsers
  BY <1>w DEF TypeOK, SegmentsOK, WriterOK
<1>l. created \in 0..MaxSegments /\ linked \in Segments \cup {NoSegment}
  BY DEF TypeOK, SegmentsOK
<1>1. CASE OpenName
  <2>1. SegmentsOK' /\ linked' \in Segments
    BY <1>1 DEF TypeOK, OpenName, SegmentsOK, Segments
  <2>2. WriterOK'
    BY <1>1, <2>1 DEF TypeOK, OpenName, WriterOK
  <2> QED BY <1>1, <1>r, <2>1, <2>2 DEF TypeOK, OpenName
<1>2. CASE SizeSegment
  <2>1. WriterOK'
    BY <1>2 DEF TypeOK, SizeSegment, WriterOK
  <2>2. SegmentsOK'
    BY <1>2, <1>w DEF TypeOK, SizeSegment, SegmentsOK, SegmentType
  <2> QED BY <1>2, <1>r, <2>1, <2>2 DEF TypeOK, SizeSegment
<1>3. CASE ZeroHeader
  <2>1. WriterOK'
    BY <1>3 DEF TypeOK, ZeroHeader, WriterOK
  <2>2. SegmentsOK'
    BY <1>3, <1>w DEF TypeOK, ZeroHeader, SegmentsOK, SegmentType
  <2> QED BY <1>3, <1>r, <2>1, <2>2 DEF TypeOK, ZeroHeader
<1>4. ASSUME NEW w \in Words, ZeroWord(w) PROVE TypeOK'
  <2>1. WriterOK'
    BY <1>4 DEF TypeOK, ZeroWord, WriterOK
  <2>2. Zeroed[w] \in WordValues /\ (w = CountWord => Zeroed[w] \in 0..MaxUsers)
    BY ZeroedType
  <2> DEFINE new == [seg[wseg] EXCEPT !.words[w] = Zeroed[w]]
  <2>3. new \in SegmentType /\ new.words[CountWord] \in 0..MaxUsers
    BY <1>4, <1>w, <2>2, WordsDistinct DEF ZeroWord, SegmentType
  <2>4. seg' = [seg EXCEPT ![wseg] = new]
    BY <1>4 DEF ZeroWord
  <2>5. SegmentsOK'
    BY <1>4, <1>w, <1>l, <2>3, <2>4, SegmentStore DEF TypeOK, ZeroWord
  <2> QED BY <1>4, <1>r, <2>1, <2>5 DEF TypeOK, ZeroWord
<1>5. CASE StampHeader
  <2>1. WriterOK'
    BY <1>5 DEF TypeOK, StampHeader, WriterOK
  <2>2. SegmentsOK'
    BY <1>5, <1>w DEF TypeOK, StampHeader, SegmentsOK, SegmentType
  <2> QED BY <1>5, <1>r, <2>1, <2>2 DEF TypeOK, StampHeader
<1>6. ASSUME NEW p \in Publications, BeginWrite(p) PROVE TypeOK'
  <2>1. WriterOK'
    BY <1>6, StoredType DEF TypeOK, BeginWrite, WriterOK
  <2> DEFINE new == [seg[wseg] EXCEPT !.sequence = @ + 1]
  <2>2. new \in SegmentType /\ new.words[CountWord] \in 0..MaxUsers
    BY <1>6, <1>w DEF BeginWrite, SegmentType
  <2>3. seg' = [seg EXCEPT ![wseg] = new]
    BY <1>6 DEF BeginWrite
  <2>4. SegmentsOK'
    BY <1>6, <1>w, <1>l, <2>2, <2>3, SegmentStore DEF TypeOK, BeginWrite
  <2> QED BY <1>6, <1>r, <2>1, <2>4 DEF TypeOK, BeginWrite
<1>7. CASE ClearChat
  <2>1. WriterOK' /\ ReadersOK'
    BY <1>7, <1>r DEF TypeOK, ClearChat, WriterOK, writerVars
  <2> DEFINE new == [seg[wseg] EXCEPT !.words[ChatWord] = NoChat]
  <2>2. new \in SegmentType /\ new.words[CountWord] \in 0..MaxUsers
    BY <1>7, <1>w, WordsDistinct DEF ClearChat, SegmentType, WordValues
  <2>3. seg' = [seg EXCEPT ![wseg] = new]
    BY <1>7 DEF ClearChat
  <2>4. SegmentsOK'
    BY <1>7, <1>w, <1>l, <2>2, <2>3, SegmentStore DEF TypeOK, ClearChat
  <2> QED BY <2>1, <2>4 DEF TypeOK
<1>8. ASSUME NEW w \in Words, WriteWord(w) PROVE TypeOK'
  <2>1. wpub \in Publications /\ w \in StoredWords(wpub)
    BY <1>8 DEF TypeOK, WriterOK, WriteWord
  <2>2. /\ StoredValue(wpub, w) \in WordValues
        /\ w = CountWord => StoredValue(wpub, w) \in 0..MaxUsers
    BY <2>1, StoredType
  <2>3. WriterOK'
    BY <1>8 DEF TypeOK, WriteWord, WriterOK
  <2> DEFINE new == [seg[wseg] EXCEPT !.words[w] = StoredValue(wpub, w)]
  <2>4. new \in SegmentType /\ new.words[CountWord] \in 0..MaxUsers
    BY <1>8, <1>w, <2>2, WordsDistinct DEF WriteWord, SegmentType
  <2>5. seg' = [seg EXCEPT ![wseg] = new]
    BY <1>8 DEF WriteWord
  <2>6. SegmentsOK'
    BY <1>8, <1>w, <1>l, <2>4, <2>5, SegmentStore DEF TypeOK, WriteWord
  <2> QED BY <1>8, <1>r, <2>3, <2>6 DEF TypeOK, WriteWord
<1>9. CASE EndWrite
  <2>1. WriterOK'
    BY <1>9 DEF TypeOK, EndWrite, WriterOK
  <2> DEFINE new == [seg[wseg] EXCEPT !.sequence = @ + 1]
  <2>2. new \in SegmentType /\ new.words[CountWord] \in 0..MaxUsers
    BY <1>9, <1>w DEF EndWrite, SegmentType
  <2>3. seg' = [seg EXCEPT ![wseg] = new]
    BY <1>9 DEF EndWrite
  <2>4. SegmentsOK'
    BY <1>9, <1>w, <1>l, <2>2, <2>3, SegmentStore DEF TypeOK, EndWrite
  <2> QED BY <1>9, <1>r, <2>1, <2>4 DEF TypeOK, EndWrite
<1>10. CASE CloseShm
  <2>1. WriterOK' /\ SegmentsOK'
    BY <1>10 DEF TypeOK, CloseShm, WriterOK, SegmentsOK
  <2> QED BY <1>10, <1>r, <2>1 DEF TypeOK, CloseShm
<1>11. CASE Crash
  <2>1. WriterOK'
    BY <1>11 DEF TypeOK, Crash, WriterOK
  <2> QED BY <1>11, <1>r, <1>s, <2>1 DEF TypeOK, Crash
<1> QED
  BY <1>1, <1>2, <1>3, <1>4, <1>5, <1>6, <1>7, <1>8, <1>9, <1>10, <1>11 DEF Open, StoreStep

(* A reader's steps.                                                       *)
LEMMA TypeReader ==
  ASSUME TypeOK, NEW r \in Readers, ReadWithoutProbe(r) \/ ReadWithProbe(r) \/ ReadStep(r)
  PROVE  TypeOK'
<1> USE ShmAssumption
<1>u. ASSUME UNCHANGED <<seg, linked, created, writerVars>> PROVE SegmentsOK' /\ WriterOK'
  BY <1>u DEF TypeOK, SegmentsOK, WriterOK, writerVars
<1>n. ASSUME rpc[r] \in {"load", "copy"}, NextAttempt(r)
      PROVE  /\ rpc' \in [Readers -> {"idle", "check", "load", "copy", "sigbus"}]
             /\ rtries' \in [Readers -> 0..Attempts]
             /\ \A x \in Readers : /\ rpc'[x] # "idle" => rpc[x] # "idle"
                                   /\ rpc'[x] \in {"load", "copy"} => rtries'[x] # 0
  <2>1. rtries[r] \in 0..Attempts /\ rtries[r] # 0
    BY <1>n DEF TypeOK, ReadersOK
  <2>2. rtries[r] - 1 \in 0..Attempts /\ (rtries[r] # 1 => rtries[r] - 1 # 0)
    BY <2>1
  <2> QED BY <1>n, <2>1, <2>2 DEF TypeOK, ReadersOK, NextAttempt
<1>1. CASE ReadWithoutProbe(r)
  <2>1. ReadersOK'
    BY <1>1, ZeroedType DEF TypeOK, ReadersOK, ReadWithoutProbe, StartRead
  <2> QED BY <1>1, <1>u, <2>1 DEF TypeOK, ReadWithoutProbe
<1>2. CASE ReadWithProbe(r)
  <2>1. ReadersOK'
    BY <1>2, ZeroedType DEF TypeOK, SegmentsOK, ReadersOK, ReadWithProbe, StartRead
  <2> QED BY <1>2, <1>u, <2>1 DEF TypeOK, ReadWithProbe
<1>3. CASE CheckMagic(r)
  <2>1. Attempts \in 0..Attempts /\ Attempts # 0
    OBVIOUS
  <2>2. PICK label \in {"idle", "load", "sigbus"} :
          /\ rpc' = [rpc EXCEPT ![r] = label]
          /\ \/ label # "load" /\ UNCHANGED rtries
             \/ label = "load" /\ rtries' = [rtries EXCEPT ![r] = Attempts]
    BY <1>3 DEF CheckMagic
  <2>3. rpc' \in [Readers -> {"idle", "check", "load", "copy", "sigbus"}]
    BY <2>2 DEF TypeOK, ReadersOK
  <2>4. rtries' \in [Readers -> 0..Attempts]
    BY <2>1, <2>2 DEF TypeOK, ReadersOK
  <2>5. \A x \in Readers : /\ rpc'[x] # "idle" => rpc[x] # "idle"
                           /\ rpc'[x] \in {"load", "copy"} => rtries'[x] # 0
    BY <1>3, <2>1, <2>2 DEF TypeOK, ReadersOK, CheckMagic
  <2>6. ReadersOK'
    BY <1>3, <2>3, <2>4, <2>5 DEF TypeOK, ReadersOK, CheckMagic
  <2> QED BY <1>3, <1>u, <2>6 DEF TypeOK, CheckMagic
<1>4. CASE LoadSequence(r)
  <2>1. rseg[r] \in Segments /\ seg[rseg[r]].sequence \in Nat
    BY <1>4 DEF TypeOK, ReadersOK, SegmentsOK, SegmentType, LoadSequence
  <2>2. ASSUME NextAttempt(r), UNCHANGED <<rseq, rtodo>> PROVE ReadersOK'
    <3>1. rpc[r] \in {"load", "copy"} /\ UNCHANGED <<rseg, rseq, rtodo, rbuf>>
      BY <1>4, <2>2 DEF LoadSequence
    <3>2. /\ rpc' \in [Readers -> {"idle", "check", "load", "copy", "sigbus"}]
          /\ rtries' \in [Readers -> 0..Attempts]
          /\ \A x \in Readers : /\ rpc'[x] # "idle" => rpc[x] # "idle"
                                /\ rpc'[x] \in {"load", "copy"} => rtries'[x] # 0
      BY <1>n, <2>2, <3>1
    <3>3. rseq' \in [Readers -> Nat] /\ rtodo' \in [Readers -> SUBSET Words]
      BY <3>1 DEF TypeOK, ReadersOK
    <3>4. rbuf' \in [Readers -> [Words -> WordValues]]
      BY <3>1 DEF TypeOK, ReadersOK
    <3>5. rseg' \in [Readers -> Segments \cup {NoSegment}]
      BY <3>1 DEF TypeOK, ReadersOK
    <3>6. \A x \in Readers : rpc'[x] # "idle" => rseg'[x] \in Segments
      BY <3>1, <3>2 DEF TypeOK, ReadersOK
    <3> QED BY <3>2, <3>3, <3>4, <3>5, <3>6 DEF ReadersOK
  <2>3. ASSUME ~Odd(seg[rseg[r]].sequence) PROVE ReadersOK'
    BY <1>4, <2>1, <2>3 DEF TypeOK, ReadersOK, LoadSequence
  <2>4. ReadersOK'
    BY <1>4, <2>2, <2>3 DEF LoadSequence
  <2> QED BY <1>4, <1>u, <2>4 DEF TypeOK, LoadSequence
<1>5. ASSUME NEW w \in Words, CopyWord(r, w) PROVE TypeOK'
  <2>1. seg[rseg[r]].words[w] \in WordValues
    BY <1>5 DEF TypeOK, ReadersOK, SegmentsOK, SegmentType, CopyWord
  <2>2. ReadersOK'
    BY <1>5, <2>1 DEF TypeOK, ReadersOK, CopyWord
  <2> QED BY <1>5, <1>u, <2>2 DEF TypeOK, CopyWord
<1>6. CASE RecheckSequence(r)
  <2>1. ReadersOK'
    <3>1. CASE NextAttempt(r)
      <4>1. rpc[r] \in {"load", "copy"} /\ UNCHANGED <<rseg, rseq, rtodo, rbuf>>
        BY <1>6 DEF RecheckSequence
      <4>2. /\ rpc' \in [Readers -> {"idle", "check", "load", "copy", "sigbus"}]
            /\ rtries' \in [Readers -> 0..Attempts]
            /\ \A x \in Readers : /\ rpc'[x] # "idle" => rpc[x] # "idle"
                                  /\ rpc'[x] \in {"load", "copy"} => rtries'[x] # 0
        BY <1>n, <3>1, <4>1
      <4> QED BY <4>1, <4>2 DEF TypeOK, ReadersOK
    <3>2. CASE rpc' = [rpc EXCEPT ![r] = "idle"] /\ UNCHANGED rtries
      BY <1>6, <3>2 DEF TypeOK, ReadersOK, RecheckSequence
    <3> QED BY <1>6, <3>1, <3>2 DEF RecheckSequence
  <2> QED BY <1>6, <1>u, <2>1 DEF TypeOK, RecheckSequence
<1> QED BY <1>1, <1>2, <1>3, <1>4, <1>5, <1>6 DEF ReadStep

LEMMA TypeNext == TypeOK /\ [Next]_vars => TypeOK'
<1>1. ASSUME TypeOK, UNCHANGED vars PROVE TypeOK'
  BY <1>1 DEF TypeOK, SegmentsOK, WriterOK, ReadersOK, vars, writerVars, readerVars
<1> QED BY <1>1, TypeWriter, TypeReader DEF Next

(* Every word, counter and control state stays in its range: in particular *)
(* user_count never exceeds SIGAW_MAX_USERS, and no store of update_shm    *)
(* falls outside the segment (daemon/shm_writer.h:126-170).                *)
THEOREM TypeCorrect == Spec => []TypeOK
BY TypeInit, TypeNext, PTL DEF Spec

-----------------------------------------------------------------------------
(* The seqlock, for a daemon that always closes the segment it opened.     *)

Parts == /\ HistoryOK /\ LinkedWhileUp /\ PristineUntilStamped
         /\ OddWhileWriting /\ EvenShowsPublished /\ StoresDone /\ CopyAgrees

LEMMA SeqlockInit == Init => Parts
<1> SUFFICES ASSUME Init PROVE Parts
  OBVIOUS
<1> USE ShmAssumption DEF Init
<1>1. LinkedWhileUp /\ PristineUntilStamped /\ StoresDone
  BY DEF LinkedWhileUp, PristineUntilStamped, StoresDone
<1>2. OddWhileWriting
  BY Parity DEF OddWhileWriting
<1>3. EvenShowsPublished /\ CopyAgrees
  BY DEF EvenShowsPublished, CopyAgrees, EmptyView
<1>4. HistoryOK
  BY DEF HistoryOK, Views
<1> QED BY <1>1, <1>2, <1>3, <1>4 DEF Parts

(* Opening and formatting an object changes nothing a reader relies on:    *)
(* the memory is already as ftruncate left it.                             *)
LEMMA OpenIsQuiet ==
  ASSUME SeqlockInv, Open
  PROVE  \A s \in Segments : /\ seg'[s].sequence = seg[s].sequence
                            /\ seg'[s].words = seg[s].words
                            /\ published'[s] = published[s]
<1> USE ShmAssumption DEF SeqlockInv
<1>1. CASE OpenName
  BY <1>1 DEF OpenName
<1>2. CASE SizeSegment
  BY <1>2 DEF SizeSegment, TypeOK, SegmentsOK, SegmentType, WriterOK
<1>p. ASSUME wpc \in {"sizing", "zeroHeader", "zeroing"}
      PROVE  /\ wseg \in Segments /\ seg[wseg] \in SegmentType
             /\ seg[wseg].sequence = 0 /\ seg[wseg].words = Zeroed
             /\ published[wseg] = EmptyView
  BY <1>p DEF TypeOK, SegmentsOK, WriterOK, PristineUntilStamped
<1>3. CASE ZeroHeader
  BY <1>3, <1>p DEF ZeroHeader, TypeOK, SegmentsOK, SegmentType
<1>4. ASSUME NEW w \in Words, ZeroWord(w)
      PROVE  \A s \in Segments : /\ seg'[s].sequence = seg[s].sequence
                                /\ seg'[s].words = seg[s].words
                                /\ published'[s] = published[s]
  <2>1. [Zeroed EXCEPT ![w] = Zeroed[w]] = Zeroed
    BY ZeroedType
  <2>2. seg' = [seg EXCEPT ![wseg] = [seg[wseg] EXCEPT !.words = Zeroed]]
    BY <1>4, <1>p, <2>1 DEF ZeroWord
  <2> QED BY <1>4, <1>p, <2>2 DEF ZeroWord, TypeOK, SegmentsOK, SegmentType
<1>5. CASE StampHeader
  <2>1. \A s \in Segments : /\ seg'[s].sequence = seg[s].sequence
                           /\ seg'[s].words = seg[s].words
    BY <1>5, <1>p DEF StampHeader, TypeOK, SegmentsOK, SegmentType
  <2>2. \A s \in Segments : published'[s] = published[s]
    BY <1>5, <1>p DEF StampHeader, HistoryOK
  <2> QED BY <2>1, <2>2
<1> QED BY <1>1, <1>2, <1>3, <1>4, <1>5 DEF Open

LEMMA SeqlockOpen ==
  ASSUME SeqlockInv, Open
  PROVE  Parts'
<1> USE ShmAssumption DEF SeqlockInv
<1>q. \A s \in Segments : /\ seg'[s].sequence = seg[s].sequence
                         /\ seg'[s].words = seg[s].words
                         /\ published'[s] = published[s]
  BY OpenIsQuiet
<1>r. UNCHANGED readerVars
  BY DEF Open, OpenName, SizeSegment, ZeroHeader, ZeroWord, StampHeader
<1>w. wpc # "writing" /\ wpc' # "writing"
  BY DEF Open, OpenName, SizeSegment, ZeroHeader, ZeroWord, StampHeader
<1>1. LinkedWhileUp'
  BY DEF LinkedWhileUp, TypeOK, SegmentsOK, Segments,
         Open, OpenName, SizeSegment, ZeroHeader, ZeroWord, StampHeader
<1>2. PristineUntilStamped'
  <2>1. ASSUME NEW s \in Segments,
               s > created' \/ (wseg' = s /\ wpc' \in {"sizing", "zeroHeader", "zeroing"})
        PROVE  s > created \/ (wseg = s /\ wpc \in {"sizing", "zeroHeader", "zeroing"})
    BY <2>1 DEF LinkedWhileUp, TypeOK, SegmentsOK, Segments,
                Open, OpenName, SizeSegment, ZeroHeader, ZeroWord, StampHeader
  <2> QED BY <2>1, <1>q DEF PristineUntilStamped
<1>3. OddWhileWriting'
  BY <1>q, <1>w DEF OddWhileWriting
<1>4. EvenShowsPublished'
  BY <1>q DEF EvenShowsPublished
<1>5. StoresDone'
  BY <1>w DEF StoresDone
<1>6. CopyAgrees'
  <2> SUFFICES ASSUME NEW r \in Readers, rpc'[r] = "copy"
               PROVE  /\ ~Odd(rseq'[r])
                      /\ rseq'[r] <= seg'[rseg'[r]].sequence
                      /\ rseq'[r] = seg'[rseg'[r]].sequence =>
                           \A w \in Words \ rtodo'[r] : rbuf'[r][w] = seg'[rseg'[r]].words[w]
    BY DEF CopyAgrees
  <2>1. rpc[r] = "copy" /\ rseg[r] \in Segments
    BY <1>r DEF readerVars, TypeOK, ReadersOK
  <2>2. UNCHANGED <<rseq, rseg, rtodo, rbuf>>
    BY <1>r DEF readerVars
  <2>3. /\ seg'[rseg'[r]].sequence = seg[rseg[r]].sequence
        /\ seg'[rseg'[r]].words = seg[rseg[r]].words
    BY <1>q, <2>1, <2>2
  <2> QED BY <2>1, <2>2, <2>3 DEF CopyAgrees
<1>7. HistoryOK'
  <2>1. published' \in [Segments -> Views]
    BY DEF HistoryOK, Views, WriterOK, TypeOK,
           Open, OpenName, SizeSegment, ZeroHeader, ZeroWord, StampHeader
  <2> QED BY <2>1, <1>r DEF HistoryOK, readerVars
<1> QED BY <1>1, <1>2, <1>3, <1>4, <1>5, <1>6, <1>7 DEF Parts

(* begin_write: the sequence becomes odd, which lets the words diverge.    *)
LEMMA SeqlockBegin ==
  ASSUME SeqlockInv, NEW p \in Publications, BeginWrite(p)
  PROVE  Parts'
<1> USE ShmAssumption DEF SeqlockInv
<1>1. /\ wseg \in Segments /\ seg[wseg] \in SegmentType
      /\ wpc = "ready" /\ wpc' = "writing" /\ UNCHANGED <<linked, created, wseg, published>>
  BY DEF BeginWrite, TypeOK, SegmentsOK, WriterOK
<1>2. \A s \in Segments :
         /\ seg'[s].words = seg[s].words
         /\ seg'[s].sequence = IF s = wseg THEN seg[s].sequence + 1 ELSE seg[s].sequence
  BY <1>1 DEF BeginWrite, TypeOK, SegmentsOK, SegmentType
<1>3. UNCHANGED readerVars
  BY DEF BeginWrite
<1>4. \A s \in Segments : seg[s].sequence \in Nat /\ ~Odd(seg[s].sequence)
  BY <1>1 DEF TypeOK, SegmentsOK, SegmentType, OddWhileWriting
<1>5. HistoryOK' /\ LinkedWhileUp'
  BY <1>1, <1>3 DEF HistoryOK, LinkedWhileUp, readerVars
<1>6. PristineUntilStamped'
  BY <1>1, <1>2 DEF PristineUntilStamped, LinkedWhileUp, TypeOK, SegmentsOK, Segments
<1>7. OddWhileWriting'
  BY <1>1, <1>2, <1>4, Parity DEF OddWhileWriting
<1>8. EvenShowsPublished'
  BY <1>1, <1>2, <1>4, Parity DEF EvenShowsPublished
<1>9. StoresDone'
  BY DEF StoresDone, BeginWrite
<1>10. CopyAgrees'
  <2> SUFFICES ASSUME NEW r \in Readers, rpc'[r] = "copy"
               PROVE  /\ ~Odd(rseq'[r])
                      /\ rseq'[r] <= seg'[rseg'[r]].sequence
                      /\ rseq'[r] = seg'[rseg'[r]].sequence =>
                           \A w \in Words \ rtodo'[r] : rbuf'[r][w] = seg'[rseg'[r]].words[w]
    BY DEF CopyAgrees
  <2>1. /\ rpc[r] = "copy" /\ rseg[r] \in Segments /\ rseq[r] \in Nat
        /\ UNCHANGED <<rseq, rseg, rtodo, rbuf>>
    BY <1>3 DEF readerVars, TypeOK, ReadersOK
  <2>2. CASE rseg[r] = wseg
    <3>1. rseq'[r] < seg'[rseg'[r]].sequence
      BY <1>2, <1>4, <2>1, <2>2 DEF CopyAgrees
    <3> QED BY <2>1, <3>1, <1>1, <1>2, <1>4, <2>2 DEF CopyAgrees
  <2>3. CASE rseg[r] # wseg
    BY <1>2, <2>1, <2>3 DEF CopyAgrees
  <2> QED BY <2>2, <2>3
<1> QED BY <1>5, <1>6, <1>7, <1>8, <1>9, <1>10 DEF Parts

(* A store made between begin_write and end_write, into one word.          *)
LEMMA SeqlockStore ==
  ASSUME SeqlockInv, wpc = "writing", NEW w \in wtodo, NEW value,
         seg' = [seg EXCEPT ![wseg].words[w] = value],
         \/ wtodo' = wtodo
         \/ wtodo' = wtodo \ {w} /\ value = StoredValue(wpub, w),
         UNCHANGED <<linked, created, wpc, wseg, wpub, readerVars, published>>
  PROVE  Parts'
<1> USE ShmAssumption DEF SeqlockInv
<1>1. wseg \in Segments /\ seg[wseg] \in SegmentType /\ w \in Words
  BY DEF TypeOK, SegmentsOK, WriterOK
<1>2. \A s \in Segments : seg'[s].sequence = seg[s].sequence
  BY <1>1 DEF TypeOK, SegmentsOK, SegmentType
<1>3. \A s \in Segments : s # wseg => seg'[s].words = seg[s].words
  BY <1>1 DEF TypeOK, SegmentsOK, SegmentType
<1>4. \A x \in Words : seg'[wseg].words[x] = IF x = w THEN value ELSE seg[wseg].words[x]
  BY <1>1 DEF TypeOK, SegmentsOK, SegmentType
<1>5. Odd(seg[wseg].sequence)
  BY <1>1 DEF OddWhileWriting
<1>6. HistoryOK' /\ LinkedWhileUp'
  BY DEF HistoryOK, LinkedWhileUp, readerVars
<1>7. PristineUntilStamped'
  BY <1>1, <1>2, <1>3 DEF PristineUntilStamped, LinkedWhileUp, TypeOK, SegmentsOK, Segments
<1>8. OddWhileWriting'
  BY <1>2 DEF OddWhileWriting
<1>9. EvenShowsPublished'
  BY <1>2, <1>3, <1>5 DEF EvenShowsPublished
<1>10. StoresDone'
  <2> SUFFICES ASSUME NEW x \in StoredWords(wpub) \ wtodo'
               PROVE  seg'[wseg].words[x] = StoredValue(wpub, x)
    BY DEF StoresDone
  <2>1. x \in Words
    BY StoredType DEF TypeOK, WriterOK
  <2>2. CASE x = w
    BY <1>4, <2>1, <2>2
  <2>3. CASE x # w
    <3>1. x \notin wtodo
      BY <2>3
    <3> QED BY <1>4, <2>1, <2>3, <3>1 DEF StoresDone
  <2> QED BY <2>2, <2>3
<1>11. CopyAgrees'
  <2> SUFFICES ASSUME NEW r \in Readers, rpc'[r] = "copy"
               PROVE  /\ ~Odd(rseq'[r])
                      /\ rseq'[r] <= seg'[rseg'[r]].sequence
                      /\ rseq'[r] = seg'[rseg'[r]].sequence =>
                           \A x \in Words \ rtodo'[r] : rbuf'[r][x] = seg'[rseg'[r]].words[x]
    BY DEF CopyAgrees
  <2>1. /\ rpc[r] = "copy" /\ rseg[r] \in Segments
        /\ UNCHANGED <<rseq, rseg, rtodo, rbuf>>
    BY DEF readerVars, TypeOK, ReadersOK
  <2>2. CASE rseg[r] = wseg
    BY <1>2, <1>5, <2>1, <2>2 DEF CopyAgrees
  <2>3. CASE rseg[r] # wseg
    BY <1>2, <1>3, <2>1, <2>3 DEF CopyAgrees
  <2> QED BY <2>2, <2>3
<1> QED BY <1>6, <1>7, <1>8, <1>9, <1>10, <1>11 DEF Parts

(* end_write: every store is in place, so the words show wpub.             *)
LEMMA SeqlockEnd ==
  ASSUME SeqlockInv, EndWrite
  PROVE  Parts'
<1> USE ShmAssumption DEF SeqlockInv
<1>1. /\ wseg \in Segments /\ seg[wseg] \in SegmentType /\ wpub \in Publications
      /\ wpc = "writing" /\ wpc' = "ready" /\ UNCHANGED <<linked, created, wseg>>
  BY DEF EndWrite, TypeOK, SegmentsOK, WriterOK
<1>2. \A s \in Segments :
         /\ seg'[s].words = seg[s].words
         /\ seg'[s].sequence = IF s = wseg THEN seg[s].sequence + 1 ELSE seg[s].sequence
  BY <1>1 DEF EndWrite, TypeOK, SegmentsOK, SegmentType
<1>3. UNCHANGED readerVars
  BY DEF EndWrite
<1>4. \A s \in Segments : seg[s].sequence \in Nat /\ (Odd(seg[s].sequence) <=> s = wseg)
  BY <1>1 DEF TypeOK, SegmentsOK, SegmentType, OddWhileWriting
<1>5. Shown(wpub) \in Views /\ published' = [published EXCEPT ![wseg] = Shown(wpub)]
  BY <1>1 DEF Views, EndWrite
<1>6. HistoryOK' /\ LinkedWhileUp'
  BY <1>1, <1>3, <1>5 DEF HistoryOK, LinkedWhileUp, readerVars
<1>7. PristineUntilStamped'
  <2> SUFFICES ASSUME NEW s \in Segments, s > created
               PROVE  /\ seg'[s].words = Zeroed /\ seg'[s].sequence = 0
                      /\ published'[s] = EmptyView
    BY <1>1 DEF PristineUntilStamped
  <2>1. s # wseg
    BY <1>1 DEF LinkedWhileUp, TypeOK, SegmentsOK, Segments
  <2> QED BY <1>1, <1>2, <1>5, <2>1 DEF PristineUntilStamped, HistoryOK
<1>8. OddWhileWriting'
  BY <1>1, <1>2, <1>4, Parity DEF OddWhileWriting
<1>9. EvenShowsPublished'
  <2> SUFFICES ASSUME NEW s \in Segments, ~Odd(seg'[s].sequence)
               PROVE  View(seg'[s].words) = published'[s]
    BY DEF EvenShowsPublished
  <2>1. CASE s = wseg
    <3>1. \A w \in StoredWords(wpub) : seg[wseg].words[w] = StoredValue(wpub, w)
      BY <1>1 DEF StoresDone, EndWrite
    <3>2. View(seg[wseg].words) = Shown(wpub)
      BY <1>1, <3>1, StoredView
    <3> QED BY <1>1, <1>2, <1>5, <2>1, <3>2 DEF HistoryOK
  <2>2. CASE s # wseg
    BY <1>2, <1>4, <1>5, <2>2 DEF EvenShowsPublished, HistoryOK
  <2> QED BY <2>1, <2>2
<1>10. StoresDone'
  BY <1>1 DEF StoresDone
<1>11. CopyAgrees'
  <2> SUFFICES ASSUME NEW r \in Readers, rpc'[r] = "copy"
               PROVE  /\ ~Odd(rseq'[r])
                      /\ rseq'[r] <= seg'[rseg'[r]].sequence
                      /\ rseq'[r] = seg'[rseg'[r]].sequence =>
                           \A w \in Words \ rtodo'[r] : rbuf'[r][w] = seg'[rseg'[r]].words[w]
    BY DEF CopyAgrees
  <2>1. /\ rpc[r] = "copy" /\ rseg[r] \in Segments /\ rseq[r] \in Nat
        /\ UNCHANGED <<rseq, rseg, rtodo, rbuf>>
    BY <1>3 DEF readerVars, TypeOK, ReadersOK
  <2>2. CASE rseg[r] = wseg
    <3>1. rseq'[r] < seg'[rseg'[r]].sequence
      BY <1>2, <1>4, <2>1, <2>2 DEF CopyAgrees
    <3>2. seg'[rseg'[r]].sequence \in Nat
      BY <1>2, <1>4, <2>1, <2>2
    <3> QED BY <2>1, <3>1, <3>2 DEF CopyAgrees
  <2>3. CASE rseg[r] # wseg
    BY <1>2, <2>1, <2>3 DEF CopyAgrees
  <2> QED BY <2>2, <2>3
<1> QED BY <1>6, <1>7, <1>8, <1>9, <1>10, <1>11 DEF Parts

LEMMA SeqlockClose ==
  ASSUME SeqlockInv, CloseShm
  PROVE  Parts'
<1> USE ShmAssumption DEF SeqlockInv, CloseShm
<1>1. HistoryOK' /\ LinkedWhileUp' /\ StoresDone'
  BY DEF HistoryOK, LinkedWhileUp, StoresDone, readerVars
<1>2. PristineUntilStamped'
  BY DEF PristineUntilStamped
<1>3. OddWhileWriting' /\ EvenShowsPublished'
  BY DEF OddWhileWriting, EvenShowsPublished
<1>4. CopyAgrees'
  BY DEF CopyAgrees, readerVars
<1> QED BY <1>1, <1>2, <1>3, <1>4 DEF Parts

(* A successful read returns what its segment last published.              *)
LEMMA RecheckReturnsPublished ==
  ASSUME SeqlockInv, NEW r \in Readers, rpc[r] = "copy", rtodo[r] = {},
         seg[rseg[r]].sequence = rseq[r]
  PROVE  rseg[r] \in Segments /\ View(rbuf[r]) = published[rseg[r]]
<1> USE DEF SeqlockInv
<1>1. /\ rseg[r] \in Segments
      /\ seg[rseg[r]].words \in [Words -> WordValues] /\ rbuf[r] \in [Words -> WordValues]
  BY DEF TypeOK, ReadersOK, SegmentsOK, SegmentType
<1>2. \A w \in Words : rbuf[r][w] = seg[rseg[r]].words[w]
  BY DEF CopyAgrees
<1>3. rbuf[r] = seg[rseg[r]].words
  BY <1>1, <1>2
<1>4. ~Odd(seg[rseg[r]].sequence)
  BY DEF CopyAgrees
<1> QED BY <1>1, <1>3, <1>4 DEF EvenShowsPublished

LEMMA SeqlockReader ==
  ASSUME SeqlockInv, NEW r \in Readers, ReadWithoutProbe(r) \/ ReadWithProbe(r) \/ ReadStep(r)
  PROVE  Parts'
<1> USE ShmAssumption DEF SeqlockInv
<1>1. UNCHANGED <<seg, linked, created, writerVars, published>>
  BY DEF ReadStep, ReadWithoutProbe, ReadWithProbe, CheckMagic, LoadSequence, CopyWord,
         RecheckSequence
<1>2. /\ LinkedWhileUp' /\ PristineUntilStamped' /\ OddWhileWriting'
      /\ EvenShowsPublished' /\ StoresDone'
  BY <1>1 DEF LinkedWhileUp, PristineUntilStamped, OddWhileWriting, EvenShowsPublished,
              StoresDone, writerVars
<1>3. HistoryOK'
  <2>1. CASE UNCHANGED got
    BY <1>1, <2>1 DEF HistoryOK
  <2>2. CASE /\ RecheckSequence(r)
             /\ seg[rseg[r]].sequence = rseq[r]
             /\ got' = [got EXCEPT ![r] = View(rbuf[r])]
    <3>1. View(rbuf[r]) \in Views
      BY <2>2, RecheckReturnsPublished DEF RecheckSequence, HistoryOK
    <3> QED BY <1>1, <2>2, <3>1 DEF HistoryOK
  <2> QED BY <2>1, <2>2 DEF ReadStep, ReadWithoutProbe, ReadWithProbe, CheckMagic,
             LoadSequence, CopyWord, RecheckSequence
<1>4. CopyAgrees'
  <2> SUFFICES ASSUME NEW x \in Readers, rpc'[x] = "copy"
               PROVE  /\ ~Odd(rseq'[x])
                      /\ rseq'[x] <= seg'[rseg'[x]].sequence
                      /\ rseq'[x] = seg'[rseg'[x]].sequence =>
                           \A w \in Words \ rtodo'[x] : rbuf'[x][w] = seg'[rseg'[x]].words[w]
    BY DEF CopyAgrees
  <2>1. CASE x # r
    <3>1. /\ rpc[x] = "copy" /\ rseq'[x] = rseq[x] /\ rseg'[x] = rseg[x]
          /\ rtodo'[x] = rtodo[x] /\ rbuf'[x] = rbuf[x]
      BY <2>1 DEF TypeOK, ReadersOK, ReadStep, ReadWithoutProbe, ReadWithProbe, StartRead,
                  CheckMagic, LoadSequence, NextAttempt, CopyWord, RecheckSequence
    <3> QED BY <1>1, <3>1 DEF CopyAgrees
  <2>2. CASE x = r /\ LoadSequence(r)
    <3>1. /\ rseq'[r] = seg[rseg[r]].sequence /\ ~Odd(seg[rseg[r]].sequence)
          /\ rtodo'[r] = Words /\ rseg'[r] = rseg[r]
      BY <2>2 DEF LoadSequence, NextAttempt, TypeOK, ReadersOK
    <3>2. seg[rseg[r]].sequence \in Nat
      BY <2>2 DEF LoadSequence, TypeOK, ReadersOK, SegmentsOK, SegmentType
    <3> QED BY <1>1, <2>2, <3>1, <3>2
  <2>3. ASSUME x = r, NEW v \in Words, CopyWord(r, v)
        PROVE  /\ ~Odd(rseq'[x])
               /\ rseq'[x] <= seg'[rseg'[x]].sequence
               /\ rseq'[x] = seg'[rseg'[x]].sequence =>
                    \A w \in Words \ rtodo'[x] : rbuf'[x][w] = seg'[rseg'[x]].words[w]
    <3>1. /\ rpc[r] = "copy" /\ UNCHANGED <<rseq, rseg>>
          /\ rtodo'[r] = rtodo[r] \ {v}
          /\ \A w \in Words : rbuf'[r][w] = IF w = v THEN seg[rseg[r]].words[w] ELSE rbuf[r][w]
      BY <2>3 DEF CopyWord, TypeOK, ReadersOK
    <3> QED BY <1>1, <2>3, <3>1 DEF CopyAgrees
  <2>4. x = r => LoadSequence(r) \/ \E v \in Words : CopyWord(r, v)
    BY DEF TypeOK, ReadersOK, ReadStep, ReadWithoutProbe, ReadWithProbe, StartRead,
           CheckMagic, NextAttempt, RecheckSequence
  <2> QED BY <2>1, <2>2, <2>3, <2>4
<1> QED BY <1>2, <1>3, <1>4 DEF Parts

LEMMA SeqlockNext ==
  ASSUME MaxCrashes = 0, SeqlockInv, [Next]_vars
  PROVE  SeqlockInv'
<1>1. TypeOK'
  BY TypeNext DEF SeqlockInv
<1>2. Parts'
  <2>1. CASE UNCHANGED vars
    BY <2>1 DEF SeqlockInv, Parts, HistoryOK, LinkedWhileUp, PristineUntilStamped,
                OddWhileWriting, EvenShowsPublished, StoresDone, CopyAgrees,
                vars, writerVars, readerVars
  <2>2. CASE Open
    BY <2>2, SeqlockOpen
  <2>3. ASSUME NEW p \in Publications, BeginWrite(p) PROVE Parts'
    BY <2>3, SeqlockBegin
  <2>4. CASE ClearChat
    BY <2>4, SeqlockStore DEF ClearChat, writerVars
  <2>5. ASSUME NEW w \in Words, WriteWord(w) PROVE Parts'
    BY <2>5, SeqlockStore DEF WriteWord
  <2>6. CASE EndWrite
    BY <2>6, SeqlockEnd
  <2>7. CASE CloseShm
    BY <2>7, SeqlockClose
  <2>8. ~Crash
    BY ShmAssumption DEF Crash, SeqlockInv, TypeOK, WriterOK
  <2>9. ASSUME NEW r \in Readers, ReadWithoutProbe(r) \/ ReadWithProbe(r) \/ ReadStep(r)
        PROVE  Parts'
    BY <2>9, SeqlockReader
  <2> QED BY <2>1, <2>2, <2>3, <2>4, <2>5, <2>6, <2>7, <2>8, <2>9 DEF Next, StoreStep
<1> QED BY <1>1, <1>2 DEF SeqlockInv, Parts

(* The inductive invariant of the seqlock: with a daemon that closes what  *)
(* it opened, an even sequence always means the words show the last        *)
(* publication, and a copy made under an unchanged sequence agrees with    *)
(* the words (daemon/shm_writer.h:88-104, layer/shm_reader.h:51-92).       *)
THEOREM SeqlockCorrect ==
  ASSUME MaxCrashes = 0
  PROVE  Spec => []SeqlockInv
<1>1. Init => SeqlockInv
  BY TypeInit, SeqlockInit DEF SeqlockInv, Parts
<1>2. SeqlockInv /\ [Next]_vars => SeqlockInv'
  BY SeqlockNext
<1> QED BY <1>1, <1>2, PTL DEF Spec

-----------------------------------------------------------------------------
(* What the readers get from it.                                           *)

(* A read that returned true gave a view update_shm published, whole, or   *)
(* the empty view of a new segment; a crash is what it takes to break this *)
(* (layer/shm_reader.h:46-50).                                             *)
THEOREM ReadsArePublished ==
  ASSUME MaxCrashes = 0
  PROVE  Spec => []GotIsPublished
<1>1. SeqlockInv => GotIsPublished
  BY DEF SeqlockInv, HistoryOK, GotIsPublished
<1> QED BY <1>1, SeqlockCorrect, PTL

(* No step takes the sequence of a segment back, formatting included: it   *)
(* is stored as 0 only where it is still 0 (common/protocol.h:38).         *)
THEOREM SequenceNeverGoesBack ==
  ASSUME MaxCrashes = 0
  PROVE  Spec => SequenceMonotonic
<1> DEFINE Forward == \A s \in Segments : seg'[s].sequence >= seg[s].sequence
<1>1. SeqlockInv /\ [Next]_vars => [Forward]_vars
  <2> SUFFICES ASSUME SeqlockInv, Next PROVE Forward
    OBVIOUS
  <2>n. \A s \in Segments : seg[s] \in SegmentType /\ seg[s].sequence \in Nat
    BY DEF SeqlockInv, TypeOK, SegmentsOK, SegmentType
  <2>w. wpc # "down" => wseg \in Segments
    BY DEF SeqlockInv, TypeOK, WriterOK
  <2>s. seg \in [Segments -> SegmentType]
    BY DEF SeqlockInv, TypeOK, SegmentsOK
  <2>1. CASE Open
    BY <2>1, <2>n, OpenIsQuiet
  <2>2. ASSUME NEW p \in Publications, BeginWrite(p) PROVE Forward
    BY <2>2, <2>n, <2>w, <2>s DEF BeginWrite, SegmentType
  <2>3. ASSUME NEW w \in Words, WriteWord(w) PROVE Forward
    BY <2>3, <2>n, <2>w, <2>s DEF WriteWord, SegmentType
  <2>4. CASE ClearChat
    BY <2>4, <2>n, <2>w, <2>s DEF ClearChat, SegmentType
  <2>5. CASE EndWrite
    BY <2>5, <2>n, <2>w, <2>s DEF EndWrite, SegmentType
  <2>6. ASSUME UNCHANGED seg PROVE Forward
    BY <2>6, <2>n
  <2> QED BY <2>1, <2>2, <2>3, <2>4, <2>5, <2>6
        DEF Next, StoreStep, CloseShm, Crash, ReadStep, ReadWithoutProbe, ReadWithProbe,
            CheckMagic, LoadSequence, CopyWord, RecheckSequence
<1> QED BY <1>1, SeqlockCorrect, PTL DEF Spec, SequenceMonotonic

(* VoiceShm implements SnapshotRegister: a publication takes effect at     *)
(* end_write, a read at its second load of the sequence, and every other   *)
(* step is invisible.                                                      *)
THEOREM SegmentIsARegister ==
  ASSUME MaxCrashes = 0
  PROVE  Spec => SnapshotIsAtomic
<1>1. Init => Atomic!Init
  BY DEF Init, Atomic!Init
<1>2. SeqlockInv /\ [Next]_vars => [Atomic!Next]_Atomic!absVars
  <2> SUFFICES ASSUME SeqlockInv, [Next]_vars
               PROVE  Atomic!Next \/ UNCHANGED <<published, rseg, got>>
    BY DEF Atomic!absVars
  <2> USE DEF Atomic!Next, Atomic!Publish, Atomic!Attach, Atomic!Read
  <2>w. wpc # "down" => wseg \in Segments
    BY DEF SeqlockInv, TypeOK, WriterOK
  <2>1. CASE StampHeader
    <3>1. EmptyView \in Views /\ wseg \in Segments
      BY <2>1, <2>w DEF StampHeader, Views
    <3> QED BY <2>1, <3>1 DEF StampHeader, readerVars
  <2>2. CASE EndWrite
    <3>1. Shown(wpub) \in Views /\ wseg \in Segments
      BY <2>2, <2>w DEF EndWrite, Views, SeqlockInv, TypeOK, WriterOK
    <3> QED BY <2>2, <3>1 DEF EndWrite, readerVars
  <2>3. ASSUME NEW r \in Readers, ReadWithProbe(r)
        PROVE  Atomic!Next
    <3>1. linked \in Segments \cup {NoSegment}
      BY DEF SeqlockInv, TypeOK, SegmentsOK
    <3> QED BY <2>3, <3>1 DEF ReadWithProbe
  <2>4. ASSUME NEW r \in Readers, RecheckSequence(r)
        PROVE  Atomic!Next \/ UNCHANGED <<published, rseg, got>>
    <3>1. CASE seg[rseg[r]].sequence = rseq[r]
      <4>1. rseg[r] \in Segments /\ View(rbuf[r]) = published[rseg[r]]
        BY <2>4, <3>1, RecheckReturnsPublished DEF RecheckSequence
      <4> QED BY <2>4, <3>1, <4>1 DEF RecheckSequence
    <3>2. CASE seg[rseg[r]].sequence # rseq[r]
      BY <2>4, <3>2 DEF RecheckSequence
    <3> QED BY <3>1, <3>2
  <2>5. ASSUME UNCHANGED <<published, rseg, got>>
        PROVE  Atomic!Next \/ UNCHANGED <<published, rseg, got>>
    BY <2>5
  <2> QED BY <2>1, <2>2, <2>3, <2>4, <2>5
        DEF Next, Open, OpenName, SizeSegment, ZeroHeader, ZeroWord, BeginWrite, StoreStep,
            ClearChat, WriteWord, CloseShm, Crash, ReadStep, ReadWithoutProbe, CheckMagic,
            LoadSequence, CopyWord, vars, readerVars, writerVars
<1> QED BY <1>1, <1>2, SeqlockCorrect, PTL DEF Spec, SnapshotIsAtomic, Atomic!Spec
=============================================================================
