----------------------------- MODULE MCVoiceShm -----------------------------
(* Small instances of VoiceShm for TLC.                                    *)
EXTENDS VoiceShm

CONSTANTS c1, c2, u1, u2, k1

ChannelsDef == {c1, c2}
EntriesDef == {u1, u2}
ChatsDef == {k1}

(* Out of every channel; a full roster with chat; a roster one longer than *)
(* the segment holds, without chat.                                        *)
PublicationsDef ==
  {[channel |-> NoChannel, users |-> <<>>, chat |-> NoChat],
   [channel |-> c1, users |-> <<u1>>, chat |-> k1],
   [channel |-> c2, users |-> <<u2, u1>>, chat |-> NoChat]}

(* Two publications are enough to tell the last one from the one before.   *)
FewPublicationsDef ==
  {[channel |-> NoChannel, users |-> <<>>, chat |-> NoChat],
   [channel |-> c1, users |-> <<u1>>, chat |-> k1]}
=============================================================================
