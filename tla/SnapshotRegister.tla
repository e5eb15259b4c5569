-------------------------- MODULE SnapshotRegister --------------------------
(***************************************************************************)
(* What the shared voice segment promises to its readers: each segment is  *)
(* a register holding the last view the daemon finished publishing, a      *)
(* reader is attached to at most one segment, and a successful read        *)
(* returns what that segment holds at one instant of the call ("`out` is   *)
(* filled with a consistent snapshot", layer/shm_reader.h:46-50).          *)
(***************************************************************************)

CONSTANTS
  Readers,     \* processes that map the segment (games, sigaw-ctl)
  Segments,    \* shared memory objects that may come to exist
  NoSegment,   \* a reader that has nothing mapped
  Views,       \* everything a reader can be shown
  EmptyView    \* what a freshly formatted segment shows

VARIABLES
  published,   \* published[s]: the view segment s holds
  attached,    \* attached[r]: the segment reader r has mapped
  got          \* got[r]: the snapshot reader r last obtained

absVars == <<published, attached, got>>

Init ==
  /\ published = [s \in Segments |-> EmptyView]
  /\ attached = [r \in Readers |-> NoSegment]
  /\ got = [r \in Readers |-> EmptyView]

Publish(s, v) ==
  /\ published' = [published EXCEPT ![s] = v]
  /\ UNCHANGED <<attached, got>>

Attach(r, s) ==
  /\ attached' = [attached EXCEPT ![r] = s]
  /\ UNCHANGED <<published, got>>

Read(r) ==
  /\ attached[r] \in Segments
  /\ got' = [got EXCEPT ![r] = published[attached[r]]]
  /\ UNCHANGED <<published, attached>>

Next ==
  \/ \E s \in Segments, v \in Views : Publish(s, v)
  \/ \E r \in Readers : \/ \E s \in Segments \cup {NoSegment} : Attach(r, s)
                        \/ Read(r)

Spec == Init /\ [][Next]_absVars
=============================================================================
