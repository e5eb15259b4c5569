------------------------------ MODULE VoiceShm ------------------------------
(***************************************************************************)
(* The voice segment: the daemon's ShmWriter and update_shm on one side,   *)
(* the ShmReader of every overlay (and the prepare() that draws what it    *)
(* returned) on the other.  Memory is modelled word by word: the channel   *)
(* name, user_count, the chat block and each users[i] are separate words,  *)
(* and between the sequence stores the writer may store them, and the      *)
(* reader copy them, in any order (plain stores and a memcpy).             *)
(***************************************************************************)
EXTENDS Integers, Sequences

CONSTANTS
  Readers,       \* processes that map the segment
  MaxSegments,   \* bound: shared memory objects created in a behaviour
  NoSegment,     \* "not mapped" / "the name is not linked"
  MaxUsers,      \* SIGAW_MAX_USERS
  Attempts,      \* tries of one ShmReader::read, 3 in the code
  Publications,  \* what update_shm may be called with
  NoChannel, NoChat, NoEntry,  \* zeroed channel name, chat block, user slot
  Entries, Channels, Chats,    \* non-zero contents of those words
  MaxPublish,    \* bound: calls of update_shm
  MaxCrashes     \* bound: daemon deaths that skip ShmWriter::close

ASSUME ShmAssumption ==
  /\ MaxSegments \in Nat /\ MaxUsers \in Nat /\ Attempts \in Nat \ {0}
  /\ MaxPublish \in Nat /\ MaxCrashes \in Nat
  /\ NoSegment \notin 1..MaxSegments
  /\ \A p \in Publications :
       /\ p.channel \in Channels \cup {NoChannel}
       /\ p.users \in Seq(Entries)
       /\ p.chat \in Chats \cup {NoChat}

VARIABLES
  seg,        \* the shared memory objects
  linked,     \* the object the shm name refers to
  created,    \* how many objects were created
  wpc, wseg, wtodo, wpub,        \* the daemon: control, object, stores left, argument
  publishes, crashes,            \* counters behind MaxPublish and MaxCrashes
  rpc, rseg, rseq, rtodo, rbuf, rtries,  \* each reader: control, mapping, seq1, memcpy, attempts
  published,  \* history: the view each object held at the last completed publication
  got         \* history: the snapshot each reader obtained last

writerVars == <<wpc, wseg, wtodo, wpub, publishes, crashes>>
readerVars == <<rpc, rseg, rseq, rtodo, rbuf, rtries, got>>
vars == <<seg, linked, created, writerVars, readerVars, published>>

-----------------------------------------------------------------------------
(* The words of a SigawState and what a publication stores in them.        *)

Segments == 1..MaxSegments

ChannelWord == -2
CountWord == -1
ChatWord == 0
UserWords == 1..MaxUsers
Words == {ChannelWord, CountWord, ChatWord} \cup UserWords

Zeroed == [w \in Words |-> CASE w = ChannelWord -> NoChannel
                             [] w = CountWord -> 0
                             [] w = ChatWord -> NoChat
                             [] OTHER -> NoEntry]

(* What a reader makes of a copy of the segment.                           *)
View(words) == [channel |-> words[ChannelWord],
                users |-> [i \in 1..words[CountWord] |-> words[i]],
                chat |-> words[ChatWord]]

EmptyView == View(Zeroed)

(* Mutant: set_user_count does not clamp.                                  *)
UserCountUnclamped(p) == IF p.channel = NoChannel THEN 0 ELSE Len(p.users)

(* users[] holds at most SIGAW_MAX_USERS entries, the rest is cut.         *)
UserCount(p) == IF p.channel = NoChannel THEN 0
                ELSE IF Len(p.users) < MaxUsers THEN Len(p.users) ELSE MaxUsers

(* clear_channel leaves the user slots as they were.                       *)
StoredWords(p) == {ChannelWord, CountWord, ChatWord} \cup 1..UserCount(p)

StoredValue(p, w) == CASE w = ChannelWord -> p.channel
                       [] w = CountWord -> UserCount(p)
                       [] w = ChatWord -> IF p.channel = NoChannel THEN NoChat ELSE p.chat
                       [] OTHER -> p.users[w]

(* What update_shm(p) means to show.                                       *)
Shown(p) == [channel |-> p.channel,
             users |-> [i \in 1..UserCount(p) |-> p.users[i]],
             chat |-> IF p.channel = NoChannel THEN NoChat ELSE p.chat]

Odd(n) == n % 2 = 1

Init ==
  /\ seg = [s \in Segments |-> [sized |-> FALSE, magic |-> FALSE, sequence |-> 0, words |-> Zeroed]]
  /\ linked = NoSegment
  /\ created = 0
  /\ wpc = "down" /\ wseg = NoSegment /\ wtodo = {} /\ wpub = <<>>
  /\ publishes = 0 /\ crashes = 0
  /\ rpc = [r \in Readers |-> "idle"]
  /\ rseg = [r \in Readers |-> NoSegment]
  /\ rseq = [r \in Readers |-> 0]
  /\ rtodo = [r \in Readers |-> {}]
  /\ rbuf = [r \in Readers |-> Zeroed]
  /\ rtries = [r \in Readers |-> 0]
  /\ published = [s \in Segments |-> EmptyView]
  /\ got = [r \in Readers |-> EmptyView]

-----------------------------------------------------------------------------
(* The daemon.                                                             *)

(* ShmWriter::open: shm_open(O_CREAT) finds the linked object or makes one. *)
OpenName ==
  /\ wpc = "down"
  /\ \/ /\ linked = NoSegment
        /\ created < MaxSegments
        /\ created' = created + 1
        /\ linked' = created + 1
     \/ /\ linked # NoSegment
        /\ UNCHANGED <<created, linked>>
  /\ wseg' = linked'
  /\ wpc' = "sizing"
  /\ UNCHANGED <<seg, wtodo, wpub, publishes, crashes, readerVars, published>>

(* ftruncate and mmap; memset will then clear the header and every word.   *)
SizeSegment ==
  /\ wpc = "sizing"
  /\ seg' = [seg EXCEPT ![wseg].sized = TRUE]
  /\ wpc' = "zeroHeader"
  /\ UNCHANGED <<linked, created, wseg, wtodo, wpub, publishes, crashes, readerVars, published>>

ZeroHeader ==
  /\ wpc = "zeroHeader"
  /\ seg' = [seg EXCEPT ![wseg].magic = FALSE, ![wseg].sequence = 0]
  /\ wtodo' = Words
  /\ wpc' = "zeroing"
  /\ UNCHANGED <<linked, created, wseg, wpub, publishes, crashes, readerVars, published>>

ZeroWord(w) ==
  /\ wpc = "zeroing"
  /\ w \in wtodo
  /\ seg' = [seg EXCEPT ![wseg].words[w] = Zeroed[w]]
  /\ wtodo' = wtodo \ {w}
  /\ UNCHANGED <<linked, created, wpc, wseg, wpub, publishes, crashes, readerVars, published>>

(* magic, version and sequence are stored last.                            *)
StampHeader ==
  /\ wpc = "zeroing"
  /\ wtodo = {}
  /\ seg' = [seg EXCEPT ![wseg].magic = TRUE, ![wseg].sequence = 0]
  /\ published' = [published EXCEPT ![wseg] = EmptyView]
  /\ wpc' = "ready"
  /\ UNCHANGED <<linked, created, wseg, wtodo, wpub, publishes, crashes, readerVars>>

(* Mutant: begin_write is forgotten.                                       *)
BeginWriteWithoutBump(p) ==
  /\ wpc = "ready"
  /\ publishes < MaxPublish
  /\ publishes' = publishes + 1
  /\ wtodo' = StoredWords(p)
  /\ wpub' = p
  /\ wpc' = "writing"
  /\ UNCHANGED <<seg, linked, created, wseg, crashes, readerVars, published>>

(* update_shm(p): begin_write ...                                          *)
BeginWrite(p) ==
  /\ wpc = "ready"
  /\ publishes < MaxPublish
  /\ publishes' = publishes + 1
  /\ seg' = [seg EXCEPT ![wseg].sequence = @ + 1]
  /\ wtodo' = StoredWords(p)
  /\ wpub' = p
  /\ wpc' = "writing"
  /\ UNCHANGED <<linked, created, wseg, crashes, readerVars, published>>

(* ... the chat block is zeroed before it is filled ...                    *)
ClearChat ==
  /\ wpc = "writing"
  /\ ChatWord \in wtodo
  /\ seg' = [seg EXCEPT ![wseg].words[ChatWord] = NoChat]
  /\ UNCHANGED <<linked, created, writerVars, readerVars, published>>

(* ... set_channel, set_user_count, set_user and set_chat_message, or      *)
(* clear_channel ...                                                       *)
WriteWord(w) ==
  /\ wpc = "writing"
  /\ w \in wtodo
  /\ w = ChatWord => seg[wseg].words[ChatWord] = NoChat
  /\ seg' = [seg EXCEPT ![wseg].words[w] = StoredValue(wpub, w)]
  /\ wtodo' = wtodo \ {w}
  /\ UNCHANGED <<linked, created, wpc, wseg, wpub, publishes, crashes, readerVars, published>>

(* Mutant: the sequence is a busy flag, not a counter.                     *)
EndWriteAsFlag ==
  /\ wpc = "writing"
  /\ wtodo = {}
  /\ seg' = [seg EXCEPT ![wseg].sequence = @ - 1]
  /\ published' = [published EXCEPT ![wseg] = Shown(wpub)]
  /\ wpc' = "ready"
  /\ UNCHANGED <<linked, created, wseg, wtodo, wpub, publishes, crashes, readerVars>>

(* ... end_write.                                                          *)
EndWrite ==
  /\ wpc = "writing"
  /\ wtodo = {}
  /\ seg' = [seg EXCEPT ![wseg].sequence = @ + 1]
  /\ published' = [published EXCEPT ![wseg] = Shown(wpub)]
  /\ wpc' = "ready"
  /\ UNCHANGED <<linked, created, wseg, wtodo, wpub, publishes, crashes, readerVars>>

(* ShmWriter::close on an orderly exit: munmap and shm_unlink.             *)
CloseShm ==
  /\ wpc = "ready"
  /\ wpc' = "down" /\ wseg' = NoSegment /\ wpub' = <<>>
  /\ linked' = NoSegment
  /\ UNCHANGED <<seg, created, wtodo, publishes, crashes, readerVars, published>>

(* SIGKILL, SIGPIPE, power of any step in between: the name stays linked.  *)
Crash ==
  /\ wpc # "down"
  /\ crashes < MaxCrashes
  /\ crashes' = crashes + 1
  /\ wpc' = "down" /\ wseg' = NoSegment /\ wtodo' = {} /\ wpub' = <<>>
  /\ UNCHANGED <<seg, linked, created, publishes, readerVars, published>>

-----------------------------------------------------------------------------
(* A reader's call of ShmReader::read.                                     *)

(* The caller passes a zeroed SigawState (prepare, cmd_status).            *)
StartRead(r) ==
  /\ rpc[r] = "idle"
  /\ rbuf' = [rbuf EXCEPT ![r] = Zeroed]

(* refresh_mapping before the next probe is due.                           *)
ReadWithoutProbe(r) ==
  /\ StartRead(r)
  /\ rseg[r] # NoSegment
  /\ rpc' = [rpc EXCEPT ![r] = "check"]
  /\ UNCHANGED <<seg, linked, created, writerVars, rseg, rseq, rtodo, rtries, published, got>>

(* Mutants: a mapping outlives the name, or a newer object under the name. *)
ReadWithProbeKeepsOrphan(r) ==
  /\ StartRead(r)
  /\ rseg' = [rseg EXCEPT ![r] = IF linked = NoSegment THEN @ ELSE linked]
  /\ rpc' = [rpc EXCEPT ![r] = IF linked = NoSegment THEN "idle" ELSE "check"]
  /\ UNCHANGED <<seg, linked, created, writerVars, rseq, rtodo, rtries, published, got>>

ReadWithProbeKeepsObject(r) ==
  /\ StartRead(r)
  /\ rseg' = [rseg EXCEPT ![r] = IF linked # NoSegment /\ @ # NoSegment THEN @ ELSE linked]
  /\ rpc' = [rpc EXCEPT ![r] = IF linked = NoSegment THEN "idle" ELSE "check"]
  /\ UNCHANGED <<seg, linked, created, writerVars, rseq, rtodo, rtries, published, got>>

(* refresh_mapping once the probe is due: shm_open, fstat, and either keep *)
(* the mapping, adopt the named object, or drop everything and fail.       *)
ReadWithProbe(r) ==
  /\ StartRead(r)
  /\ rseg' = [rseg EXCEPT ![r] = linked]
  /\ rpc' = [rpc EXCEPT ![r] = IF linked = NoSegment THEN "idle" ELSE "check"]
  /\ UNCHANGED <<seg, linked, created, writerVars, rseq, rtodo, rtries, published, got>>

(* Touching a mapping of an object ftruncate has not sized is a SIGBUS.    *)
CheckMagic(r) ==
  /\ rpc[r] = "check"
  /\ \/ /\ ~seg[rseg[r]].sized
        /\ rpc' = [rpc EXCEPT ![r] = "sigbus"]
        /\ UNCHANGED rtries
     \/ /\ seg[rseg[r]].sized /\ ~seg[rseg[r]].magic
        /\ rpc' = [rpc EXCEPT ![r] = "idle"]
        /\ UNCHANGED rtries
     \/ /\ seg[rseg[r]].sized /\ seg[rseg[r]].magic
        /\ rpc' = [rpc EXCEPT ![r] = "load"]
        /\ rtries' = [rtries EXCEPT ![r] = Attempts]
  /\ UNCHANGED <<seg, linked, created, writerVars, rseg, rseq, rtodo, rbuf, published, got>>

(* The attempt failed: go round the loop, or give up and return false.     *)
NextAttempt(r) ==
  /\ rtries' = [rtries EXCEPT ![r] = @ - 1]
  /\ rpc' = [rpc EXCEPT ![r] = IF rtries[r] = 1 THEN "idle" ELSE "load"]

LoadSequence(r) ==
  /\ rpc[r] = "load"
  /\ \/ /\ Odd(seg[rseg[r]].sequence)
        /\ NextAttempt(r)
        /\ UNCHANGED <<rseq, rtodo>>
     \/ /\ ~Odd(seg[rseg[r]].sequence)
        /\ rseq' = [rseq EXCEPT ![r] = seg[rseg[r]].sequence]
        /\ rtodo' = [rtodo EXCEPT ![r] = Words]
        /\ rpc' = [rpc EXCEPT ![r] = "copy"]
        /\ UNCHANGED rtries
  /\ UNCHANGED <<seg, linked, created, writerVars, rseg, rbuf, published, got>>

CopyWord(r, w) ==
  /\ rpc[r] = "copy"
  /\ w \in rtodo[r]
  /\ rbuf' = [rbuf EXCEPT ![r][w] = seg[rseg[r]].words[w]]
  /\ rtodo' = [rtodo EXCEPT ![r] = @ \ {w}]
  /\ UNCHANGED <<seg, linked, created, writerVars, rpc, rseg, rseq, rtries, published, got>>

(* Mutant: any even sequence will do for the second load.                  *)
RecheckEven(r) ==
  /\ rpc[r] = "copy"
  /\ rtodo[r] = {}
  /\ \/ /\ ~Odd(seg[rseg[r]].sequence)
        /\ got' = [got EXCEPT ![r] = View(rbuf[r])]
        /\ rpc' = [rpc EXCEPT ![r] = "idle"]
        /\ UNCHANGED rtries
     \/ /\ Odd(seg[rseg[r]].sequence)
        /\ NextAttempt(r)
        /\ UNCHANGED got
  /\ UNCHANGED <<seg, linked, created, writerVars, rseg, rseq, rtodo, rbuf, published>>

RecheckSequence(r) ==
  /\ rpc[r] = "copy"
  /\ rtodo[r] = {}
  /\ \/ /\ seg[rseg[r]].sequence = rseq[r]
        /\ got' = [got EXCEPT ![r] = View(rbuf[r])]
        /\ rpc' = [rpc EXCEPT ![r] = "idle"]
        /\ UNCHANGED rtries
     \/ /\ seg[rseg[r]].sequence # rseq[r]
        /\ NextAttempt(r)
        /\ UNCHANGED got
  /\ UNCHANGED <<seg, linked, created, writerVars, rseg, rseq, rtodo, rbuf, published>>

-----------------------------------------------------------------------------
Open == \/ OpenName \/ SizeSegment \/ ZeroHeader \/ StampHeader
        \/ \E w \in Words : ZeroWord(w)

StoreStep == ClearChat \/ EndWrite \/ \E w \in Words : WriteWord(w)

ReadStep(r) == \/ CheckMagic(r) \/ LoadSequence(r) \/ RecheckSequence(r)
               \/ \E w \in Words : CopyWord(r, w)

Next ==
  \/ Open
  \/ \E p \in Publications : BeginWrite(p)
  \/ StoreStep
  \/ CloseShm
  \/ Crash
  \/ \E r \in Readers : ReadWithoutProbe(r) \/ ReadWithProbe(r) \/ ReadStep(r)

Spec == Init /\ [][Next]_vars

(* The daemon finishes what it started, a game keeps drawing frames, and   *)
(* the 250 ms deadline of refresh_mapping comes due again and again.       *)
Fairness ==
  /\ WF_vars(SizeSegment \/ ZeroHeader \/ StampHeader \/ \E w \in Words : ZeroWord(w))
  /\ WF_vars(EndWrite \/ \E w \in Words : WriteWord(w))
  /\ WF_vars(ClearChat /\ seg[wseg].words[ChatWord] # NoChat)
  /\ \A r \in Readers :
       /\ WF_vars(ReadStep(r))
       /\ SF_vars(ReadWithProbe(r))

FairSpec == Spec /\ Fairness

-----------------------------------------------------------------------------
WordValues == Channels \cup Chats \cup Entries \cup {NoChannel, NoChat, NoEntry} \cup 0..MaxUsers

SegmentType == [sized: BOOLEAN, magic: BOOLEAN, sequence: Nat, words: [Words -> WordValues]]

SegmentsOK ==
  /\ seg \in [Segments -> SegmentType]
  /\ \A s \in Segments : seg[s].words[CountWord] \in 0..MaxUsers
  /\ created \in 0..MaxSegments
  /\ linked \in Segments \cup {NoSegment}

WriterOK ==
  /\ wpc \in {"down", "sizing", "zeroHeader", "zeroing", "ready", "writing"}
  /\ wseg \in Segments \cup {NoSegment}
  /\ wpc # "down" => wseg \in Segments
  /\ wtodo \in SUBSET Words
  /\ wpc = "writing" => wpub \in Publications /\ wtodo \subseteq StoredWords(wpub)
  /\ publishes \in 0..MaxPublish /\ crashes \in 0..MaxCrashes

ReadersOK ==
  /\ rpc \in [Readers -> {"idle", "check", "load", "copy", "sigbus"}]
  /\ rseg \in [Readers -> Segments \cup {NoSegment}]
  /\ \A r \in Readers : rpc[r] # "idle" => rseg[r] \in Segments
  /\ rseq \in [Readers -> Nat]
  /\ rtodo \in [Readers -> SUBSET Words]
  /\ rbuf \in [Readers -> [Words -> WordValues]]
  /\ rtries \in [Readers -> 0..Attempts]
  /\ \A r \in Readers : rpc[r] \in {"load", "copy"} => rtries[r] # 0

TypeOK == SegmentsOK /\ WriterOK /\ ReadersOK

-----------------------------------------------------------------------------
(* The inductive invariant behind the refinement, by parts (MaxCrashes=0). *)

Views == {EmptyView} \cup {Shown(p) : p \in Publications}

(* Whatever was published, or obtained by a reader, is a view.             *)
HistoryOK == published \in [Segments -> Views] /\ got \in [Readers -> Views]

(* One daemon that always closes: the name is linked exactly while it runs. *)
LinkedWhileUp ==
  /\ wpc = "down" => linked = NoSegment
  /\ wpc # "down" => wseg = linked /\ wseg <= created

(* An object is pristine until its first open has stamped it.              *)
PristineUntilStamped ==
  \A s \in Segments :
    \/ s > created
    \/ wseg = s /\ wpc \in {"sizing", "zeroHeader", "zeroing"}
    => /\ seg[s].words = Zeroed
       /\ seg[s].sequence = 0
       /\ published[s] = EmptyView

(* The sequence is odd exactly while update_shm is between its two bumps.  *)
OddWhileWriting ==
  \A s \in Segments : Odd(seg[s].sequence) <=> wpc = "writing" /\ wseg = s

(* With an even sequence the words show what was last published.           *)
EvenShowsPublished ==
  \A s \in Segments : ~Odd(seg[s].sequence) => View(seg[s].words) = published[s]

(* The stores already done by update_shm are in place.                     *)
StoresDone ==
  wpc = "writing" => \A w \in StoredWords(wpub) \ wtodo :
                        seg[wseg].words[w] = StoredValue(wpub, w)

(* A copy made under an unchanged sequence number agrees with the words.   *)
CopyAgrees ==
  \A r \in Readers : rpc[r] = "copy" =>
    /\ ~Odd(rseq[r])
    /\ rseq[r] <= seg[rseg[r]].sequence
    /\ rseq[r] = seg[rseg[r]].sequence =>
         \A w \in Words \ rtodo[r] : rbuf[r][w] = seg[rseg[r]].words[w]

SeqlockInv ==
  /\ TypeOK /\ HistoryOK /\ LinkedWhileUp /\ PristineUntilStamped /\ OddWhileWriting
  /\ EvenShowsPublished /\ StoresDone /\ CopyAgrees

-----------------------------------------------------------------------------
(* Properties.                                                             *)

Atomic == INSTANCE SnapshotRegister WITH attached <- rseg

(* Every successful read returns, whole, the view its segment held at one  *)
(* instant of the call, whatever stores the daemon interleaves with the    *)
(* memcpy (layer/shm_reader.h:46-50, common/protocol.h:28-34).             *)
SnapshotIsAtomic == Atomic!Spec

(* A segment's sequence never goes back: the recheck of a reader that was  *)
(* descheduled between its two loads cannot be fooled by a value that came *)
(* round again ("Monotonic", common/protocol.h:38).                        *)
SequenceMonotonic ==
  [][\A s \in Segments : seg'[s].sequence >= seg[s].sequence]_vars

(* A read that returned true gave a view update_shm published (or the      *)
(* empty one of a new segment), never a mixture of two.                    *)
GotIsPublished == \A r \in Readers : got[r] \in Views

(* Once the daemon has published its last view and stays up, every reader  *)
(* that keeps drawing obtains that view for good, also after a crash in    *)
(* the middle of update_shm and a restart on the segment left behind.      *)
Convergence ==
  \A r \in Readers :
    <>[](wpc = "ready" \/ rpc[r] = "sigbus") =>
      <>[](rpc[r] = "sigbus" \/ (wseg \in Segments /\ got[r] = published[wseg]))

(* After an orderly shutdown every reader lets go of the orphaned object.  *)
OrphanDropped ==
  \A r \in Readers :
    <>[](linked = NoSegment) => <>[](rpc[r] = "sigbus" \/ rseg[r] = NoSegment)
=============================================================================
