------------------------------ MODULE MCParts ------------------------------
(* Small instances of four parts that share no state with each other: the  *)
(* preview segment, the avatar downloads, the configuration and the way to *)
(* a session.  A behaviour runs one of them; the others rest in one         *)
(* initial state.                                                          *)
EXTENDS FrameShm, AvatarCache, ConfigControl, Authorize

VARIABLE part

(* Two frames of one size, and a small one.                                 *)
FramesDef == {[val |-> 1, size |-> 1], [val |-> 2, size |-> 1], [val |-> 3, size |-> 0]}

(* The game's profile differs from the rest in one file.                    *)
TextsDef == {[on |-> {}, profile |-> {"visible"}], [on |-> {"visible", "chat"}, profile |-> {}]}

(* What is hard about Discord, the process and its disk.                    *)
WorldsDef == {{}, {"errordata"}, {"sigpipe"}, {"unwritable"}, {"silent"}}

PartsVars == <<part, frVars, avVars, cfVars, auVars>>

PartsInit ==
    /\ part \in {"frames", "avatars", "config", "authorize"}
    /\ FrInit /\ AvInit /\ CfInit /\ AuInit
    \* A game's overlay only reads: it runs with the tray, sigaw-ctl without it.
    /\ IF part = "config"
       THEN \A c \in CfClients : cfClient[c] = "idle" <=> cfPc["overlay"] = "absent"
       ELSE /\ cfFile = CfMissing /\ ~cfDir /\ cfPc["overlay"] = "absent"
            /\ \A c \in CfClients : cfClient[c] = "idle"
    /\ part # "authorize" => ~auUp /\ auChat /\ auWorld = {}

PartsNext ==
    /\ UNCHANGED part
    /\ \/ part = "frames" /\ FrNext /\ UNCHANGED <<avVars, cfVars, auVars>>
       \/ part = "avatars" /\ AvNext /\ UNCHANGED <<frVars, cfVars, auVars>>
       \/ part = "config" /\ CfNext /\ UNCHANGED <<frVars, avVars, auVars>>
       \/ part = "authorize" /\ AuNext /\ UNCHANGED <<frVars, avVars, cfVars>>

(* The fairness of each part's own specification.                           *)
PartsSpec ==
    /\ PartsInit /\ [][PartsNext]_PartsVars
    /\ WF_frVars(part = "frames" /\ FrWriterStep)
    /\ WF_frVars(part = "frames" /\ FrReaderStep)
    /\ SF_frVars(part = "frames" /\ ProbeComes)
    /\ WF_avVars(part = "avatars" /\ AvRequester)
    /\ WF_avVars(part = "avatars" /\ AvWorkerStep)
    /\ WF_cfVars(part = "config" /\ CfDaemonStep)
    /\ WF_cfVars(part = "config" /\ CfOverlayStep)
    /\ \A p \in CfParties : SF_cfVars(part = "config" /\ WatchConfig(p, TRUE))
    /\ WF_auVars(part = "authorize" /\ AuDaemonStep)

PartsTypeOK == FrTypeOK /\ AvTypeOK /\ CfTypeOK /\ AuTypeOK
=============================================================================
