----------------------------- MODULE Authorize -----------------------------
(***************************************************************************)
(* How the daemon gets from its start to a session with Discord: connect,  *)
(* handshake, the cached token or the popup, the exchange of the code, the *)
(* token's file, and the waits for Discord or for the user in between      *)
(* (daemon/discord_ipc.h, the reconnection loop of daemon/main.cpp).       *)
(* The session itself is the module VoiceSession; here it is one state.    *)
(***************************************************************************)
EXTENDS Integers

CONSTANTS
    AuWorlds,   \* sets of what may be hard: "errordata", "sigpipe", "unwritable", "silent"
    AuTurns     \* bound on what the user and Discord do of their own accord

ASSUME AuAssumption ==
    /\ AuWorlds \subseteq SUBSET {"errordata", "sigpipe", "unwritable", "silent"}
    /\ AuTurns \in Nat

VARIABLES
    auUp,       \* Discord runs
    auLink,     \* the connection is open at both ends
    auPc,       \* where the daemon is
    auFile,     \* the token's file
    auHeld,     \* the token in use: authorize's token, access_token_
    auScope,    \* scopes_ has messages.read
    auChat,     \* daemon_chat_requested(config)
    auAsked,    \* require_messages_read of this authorize
    auWorld,    \* which of AuWorlds
    auApproval, \* the user's approval: none, given, or lost by the code, see below
    auLeft      \* what is left of AuTurns

auVars == <<auUp, auLink, auPc, auFile, auHeld, auScope, auChat, auAsked, auWorld, auApproval,
            auLeft>>

(* A token is known by whether Discord accepts it and what it allows.       *)
NoToken == [ok |-> FALSE, chat |-> FALSE, is |-> FALSE]
Issued(chat) == [ok |-> TRUE, chat |-> chat, is |-> TRUE]
Refuse(t) == [t EXCEPT !.ok = FALSE]

AuInit ==
    /\ auUp \in BOOLEAN /\ auLink = FALSE /\ auPc = "connect"
    /\ auFile = NoToken /\ auHeld = NoToken /\ auScope = FALSE
    /\ auChat \in BOOLEAN /\ auAsked = FALSE
    /\ auWorld \in AuWorlds /\ auApproval = "none" /\ auLeft = AuTurns

AuTurn == auLeft > 0 /\ auLeft' = auLeft - 1
At(pc) == auPc = pc
To(pc) == auPc' = pc

(* disconnect(), and the new DiscordIpc of the next round.                  *)
Disconnects == auLink' = FALSE /\ auHeld' = NoToken /\ auScope' = FALSE

(* A send to a peer that is gone returns false, or ends the daemon: it does *)
(* not handle SIGPIPE, and only a library of the tray may ignore it.        *)
SendFails(pc) == To(IF "sigpipe" \in auWorld THEN "dead" ELSE pc)

-----------------------------------------------------------------------------
(* connect() and handshake(); a failure of either waits five seconds.       *)
Connect ==
    /\ At("connect")
    /\ IF auUp THEN auLink' = TRUE /\ To("hello") ELSE UNCHANGED auLink /\ To("retry")
    /\ UNCHANGED <<auUp, auFile, auHeld, auScope, auChat, auAsked, auWorld, auApproval, auLeft>>

SendHello ==
    /\ At("hello")
    /\ IF auLink THEN To("ready") ELSE SendFails("retry")
    /\ UNCHANGED <<auUp, auLink, auFile, auHeld, auScope, auChat, auAsked, auWorld, auApproval,
                   auLeft>>

(* READY, then authorize with what the configuration asks for now; the      *)
(* cached token, if any, is tried first.                                   *)
Ready ==
    /\ At("ready") /\ auLink
    /\ auAsked' = auChat /\ auHeld' = auFile
    /\ To(IF auFile.is THEN "cached" ELSE "ask")
    /\ UNCHANGED <<auUp, auLink, auFile, auScope, auChat, auWorld, auApproval, auLeft>>

(* Discord hangs up, or says something else.                                *)
NotReady ==
    /\ At("ready")
    /\ IF auLink THEN AuTurn ELSE UNCHANGED auLeft
    /\ To("retry")
    /\ UNCHANGED <<auUp, auLink, auFile, auHeld, auScope, auChat, auAsked, auWorld, auApproval>>

RetryElapsed ==
    /\ At("retry")
    /\ To("connect") /\ Disconnects
    /\ UNCHANGED <<auUp, auFile, auChat, auAsked, auWorld, auApproval, auLeft>>

-----------------------------------------------------------------------------
(* authenticate(token): "cached" and "fresh" send, "cachedsent" and         *)
(* "freshsent" wait for the reply, with no timeout and no controls.         *)
Authenticates(pc) == pc \in {"cached", "fresh"}
Authenticating(pc) == pc \in {"cachedsent", "freshsent"}

(* clear_saved_token(), which ignores that the file cannot be removed.      *)
ForgetsToken == auFile' \in {NoToken} \cup (IF "silent" \in auWorld THEN {auFile} ELSE {})

(* What authorize does when authenticate fails: the file is removed; after  *)
(* a cached token the user is asked, after a new one the daemon gives up.   *)
(* Nothing tells a refused token from a connection that ended.              *)
AuthFails(cached) ==
    /\ ForgetsToken
    /\ auHeld' = NoToken /\ auScope' = FALSE
    /\ auLink' = (auLink /\ cached)
    /\ To(IF cached THEN "ask" ELSE "required")

(* What ApprovalKept excepts: the user approved, and must do so again.      *)
Loses == auApproval' = IF auApproval = "given" THEN "lost" ELSE auApproval

(* An approval whose token is not in its file yet goes with the attempt.    *)
Unsaved == auPc \in {"asking", "exchange"}
LosesUnsaved == IF Unsaved THEN Loses ELSE UNCHANGED auApproval

SendToken ==
    /\ Authenticates(auPc)
    /\ IF auLink
       THEN To(IF At("cached") THEN "cachedsent" ELSE "freshsent")
            /\ UNCHANGED <<auLink, auFile, auHeld, auScope, auApproval>>
       ELSE IF "sigpipe" \in auWorld
       THEN To("dead") /\ Disconnects /\ UNCHANGED <<auFile, auApproval>>
       ELSE AuthFails(At("cached")) /\ Loses
    /\ UNCHANGED <<auUp, auChat, auAsked, auWorld, auLeft>>

(* Success and MissingScope both go on to the session.                      *)
TokenAccepted ==
    /\ Authenticating(auPc) /\ auLink /\ auHeld.ok
    /\ auScope' = auHeld.chat /\ To("session")
    /\ UNCHANGED <<auUp, auLink, auFile, auHeld, auChat, auAsked, auWorld, auApproval, auLeft>>

(* Any reply to AUTHENTICATE with "data" counts as accepted, an error that  *)
(* carries data too.                                                       *)
TokenRefused ==
    /\ Authenticating(auPc) /\ auLink /\ ~auHeld.ok
    /\ IF "errordata" \in auWorld
       THEN To("session") /\ UNCHANGED <<auLink, auFile, auHeld, auScope>>
       ELSE AuthFails(At("cachedsent"))
    /\ UNCHANGED <<auUp, auChat, auAsked, auWorld, auApproval, auLeft>>

AuthCut ==
    /\ Authenticating(auPc) /\ ~auLink
    /\ AuthFails(At("cachedsent")) /\ Loses
    /\ UNCHANGED <<auUp, auChat, auAsked, auWorld, auLeft>>

-----------------------------------------------------------------------------
(* AUTHORIZE shows the popup.  Failed and TimedOut disconnect, and the      *)
(* daemon waits for the user.                                              *)
GivesUp == To("required") /\ Disconnects

SendAuthorize ==
    /\ At("ask")
    /\ IF auLink THEN To("asking") /\ UNCHANGED <<auLink, auHeld, auScope>>
       ELSE SendFails("required") /\ Disconnects
    /\ UNCHANGED <<auUp, auFile, auChat, auAsked, auWorld, auApproval, auLeft>>

(* The user approves, or refuses.                                          *)
Approve ==
    /\ At("asking") /\ auLink /\ auApproval # "given" /\ AuTurn
    /\ auApproval' = "given"
    /\ UNCHANGED <<auUp, auLink, auPc, auFile, auHeld, auScope, auChat, auAsked, auWorld>>

Deny ==
    /\ At("asking") /\ auLink /\ auApproval # "given" /\ AuTurn
    /\ GivesUp
    /\ UNCHANGED <<auUp, auFile, auChat, auAsked, auWorld, auApproval>>

(* The reply with the code comes.                                          *)
Approved ==
    /\ At("asking") /\ auLink /\ auApproval = "given"
    /\ To("exchange")
    /\ UNCHANGED <<auUp, auLink, auFile, auHeld, auScope, auChat, auAsked, auWorld, auApproval,
                   auLeft>>

(* A plausible bug: the default of no timeout.                              *)
AuthorizeEndsCut ==
    /\ At("asking") /\ ~auLink
    /\ GivesUp /\ Loses
    /\ UNCHANGED <<auUp, auFile, auChat, auAsked, auWorld, auLeft>>

(* kDiscordAuthorizeTimeoutMs has passed, or the connection ended: also     *)
(* when the reply is on its way.                                           *)
AuthorizeEnds ==
    /\ At("asking")
    /\ GivesUp /\ Loses
    /\ UNCHANGED <<auUp, auFile, auChat, auAsked, auWorld, auLeft>>

(* exchange_token() over HTTP, then save_token(); the token may allow less  *)
(* than was asked for.  A file that cannot be made throws; a write that     *)
(* fails is not noticed, and leaves the file empty or as it was.            *)
Exchange ==
    /\ At("exchange")
    /\ IF "unwritable" \in auWorld
       THEN To("dead") /\ Loses /\ UNCHANGED <<auFile, auHeld>>
       ELSE /\ \E chat \in {FALSE, auAsked} :
                 /\ auHeld' = Issued(chat)
                 /\ \/ auFile' = Issued(chat) /\ UNCHANGED auApproval
                    \/ "silent" \in auWorld /\ auFile' \in {NoToken, auFile} /\ Loses
            /\ To("fresh")
    /\ UNCHANGED <<auUp, auLink, auScope, auChat, auAsked, auWorld, auLeft>>

ExchangeFails ==
    /\ At("exchange")
    /\ GivesUp /\ Loses
    /\ UNCHANGED <<auUp, auFile, auChat, auAsked, auWorld, auLeft>>

-----------------------------------------------------------------------------
(* The controls: tray, configuration and sigaw-ctl, read in every wait but  *)
(* those for replies, and in the session.                                  *)
Listening == auPc \in {"retry", "asking", "required", "session"}

(* A plausible bug: every round asked for from outside forgets the token.   *)
RoundsForgetting(reauthenticate) ==
    /\ To("connect") /\ Disconnects
    /\ ForgetsToken
    /\ IF reauthenticate THEN auApproval' = "none" ELSE LosesUnsaved

(* A new round; "Reauthenticate" forgets the token first.                   *)
Rounds(reauthenticate) ==
    /\ To("connect") /\ Disconnects
    /\ IF reauthenticate THEN ForgetsToken /\ auApproval' = "none"
       ELSE LosesUnsaved /\ UNCHANGED auFile

ControlReconnect(reauthenticate) ==
    /\ Listening /\ AuTurn
    /\ Rounds(reauthenticate)
    /\ UNCHANGED <<auUp, auChat, auAsked, auWorld>>

(* Chat is switched in tray or file: a new round where it is wanted now and *)
(* not allowed, daemon_requires_reconnect and plan_action.                  *)
ControlChat ==
    /\ Listening /\ AuTurn
    /\ auChat' = ~auChat
    /\ IF auChat' /\ ~auScope THEN Rounds(FALSE)
       ELSE UNCHANGED <<auLink, auPc, auFile, auHeld, auScope, auApproval>>
    /\ UNCHANGED <<auUp, auAsked, auWorld>>

(* Another client_id: the token's file is not bound to the old one.         *)
ControlClient ==
    /\ Listening /\ AuTurn
    /\ To("connect") /\ Disconnects
    /\ auFile' = Refuse(auFile) /\ auApproval' = "none"
    /\ UNCHANGED <<auUp, auChat, auAsked, auWorld>>

ControlQuit ==
    /\ Listening /\ AuTurn
    /\ To("stopped") /\ Disconnects /\ LosesUnsaved
    /\ UNCHANGED <<auUp, auFile, auChat, auAsked, auWorld>>

(* The session ends with its connection: two seconds, then a new round.     *)
SessionEnds ==
    /\ At("session") /\ ~auLink
    /\ SendFails("retry") \/ To("retry")
    /\ Disconnects
    /\ UNCHANGED <<auUp, auFile, auChat, auAsked, auWorld, auApproval, auLeft>>

-----------------------------------------------------------------------------
(* Discord comes and goes, hangs up, or no longer accepts the token.        *)
DiscordStarts ==
    /\ ~auUp /\ auUp' = TRUE
    /\ UNCHANGED <<auLink, auPc, auFile, auHeld, auScope, auChat, auAsked, auWorld, auApproval,
                   auLeft>>

DiscordEnds(stays) ==
    /\ auUp /\ AuTurn
    /\ auUp' = stays /\ auLink' = FALSE
    /\ UNCHANGED <<auPc, auFile, auHeld, auScope, auChat, auAsked, auWorld, auApproval>>

Revoke ==
    /\ auFile.ok \/ auHeld.ok
    /\ AuTurn
    /\ auFile' = Refuse(auFile) /\ auHeld' = Refuse(auHeld) /\ auApproval' = "none"
    /\ UNCHANGED <<auUp, auLink, auPc, auScope, auChat, auAsked, auWorld>>

(* The daemon dies anywhere, within save_token() with the file emptied; the *)
(* user or the service manager starts it.                                  *)
Killed ==
    /\ auPc \notin {"dead", "stopped"} /\ AuTurn
    /\ To("dead") /\ Disconnects /\ LosesUnsaved
    /\ auFile' \in {auFile} \cup (IF At("exchange") THEN {NoToken} ELSE {})
    /\ UNCHANGED <<auUp, auChat, auAsked, auWorld>>

Restarted ==
    /\ auPc \in {"dead", "stopped"} /\ AuTurn
    /\ To("connect") /\ Disconnects
    /\ UNCHANGED <<auUp, auFile, auChat, auAsked, auWorld, auApproval>>

AuDaemonStep ==
    \/ Connect \/ SendHello \/ Ready \/ NotReady \/ RetryElapsed
    \/ SendToken \/ TokenAccepted \/ TokenRefused \/ AuthCut
    \/ SendAuthorize \/ Approved \/ AuthorizeEnds \/ Exchange \/ ExchangeFails \/ SessionEnds

AuUser ==
    \/ Approve \/ Deny
    \/ \E reauthenticate \in BOOLEAN : ControlReconnect(reauthenticate)
    \/ ControlChat \/ ControlClient \/ ControlQuit
    \/ Killed \/ Restarted

AuDiscord == DiscordStarts \/ (\E stays \in BOOLEAN : DiscordEnds(stays)) \/ Revoke

AuNext == AuDaemonStep \/ AuUser \/ AuDiscord

(* The daemon goes on, and Discord answers or hangs up where it is waited   *)
(* for without a timeout: READY and AUTHENTICATE.  Not so the popup.        *)
AuSpec == AuInit /\ [][AuNext]_auVars /\ WF_auVars(AuDaemonStep)

-----------------------------------------------------------------------------
AuPlaces == {"connect", "hello", "ready", "retry", "cached", "cachedsent", "fresh", "freshsent",
             "ask", "asking", "exchange", "required", "session", "stopped", "dead"}
AuTokens == [ok : BOOLEAN, chat : BOOLEAN, is : BOOLEAN]

AuTypeOK ==
    /\ auUp \in BOOLEAN /\ auLink \in BOOLEAN /\ auPc \in AuPlaces
    /\ auFile \in AuTokens /\ auHeld \in AuTokens
    /\ auScope \in BOOLEAN /\ auChat \in BOOLEAN /\ auAsked \in BOOLEAN
    /\ auWorld \in AuWorlds /\ auApproval \in {"none", "given", "lost"} /\ auLeft \in 0 .. AuTurns

(* "Approve the authorization in Discord (one-time)" (daemon/main.cpp:130): *)
(* after an approval, and until the user revokes it, reauthenticates or     *)
(* configures another client, either its code is on its way to a token, or  *)
(* the token is in its file, a session runs with that token, and neither    *)
(* popup nor tray bothers the user again, whatever restarts, crashes,       *)
(* timeouts and reconnections follow.  It is one-time but for the approvals *)
(* the code loses: with the attempt, until the token is saved (a timeout, a *)
(* cut, a control or a death in AUTHORIZE or the exchange, an exchange that *)
(* fails); in a save that fails, with or without an exception; and, saved,  *)
(* when the connection ends during AUTHENTICATE.                           *)
ApprovalKept ==
    auApproval = "given" =>
        \/ Unsaved
        \/ /\ auFile.ok
           /\ auPc \notin {"ask", "required"}
           /\ auPc \in {"cached", "cachedsent", "fresh", "freshsent", "session"} => auHeld = auFile

(* When nobody does anything any more and Discord runs, the daemon is in a  *)
(* session or, without an approval, waits for the user: no wait, retry or   *)
(* missing scope keeps it in between.                                      *)
SignsIn ==
    <>[](\/ ~auUp \/ auPc \in {"session", "stopped", "dead"}
         \/ auPc = "required" /\ auApproval # "given")
=============================================================================
