--------------------------- MODULE MCVoiceSession ---------------------------
(* Small instances of VoiceSession for TLC.                                *)
EXTENDS VoiceSession

CONSTANTS a, b, me, you

(* One other user, already in the first channel.                           *)
InitialMembersDef == [c \in Channels |-> IF c = a THEN {you} ELSE {}]

(* Discord at its best: members move only when the daemon can tell.        *)
NoRaces == {}
(* The user hops about, and Discord lags behind.                           *)
SwitchRaces == {"hasty", "early", "empty"}
(* The two races that lose a join or a leave.                              *)
RosterRaces == {"hasty", "early"}
(* Discord lists no one in a channel the user has just joined.             *)
EmptyRaces == {"empty"}
=============================================================================
