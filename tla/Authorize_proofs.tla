-------------------------- MODULE Authorize_proofs --------------------------
(***************************************************************************)
(* Proofs about Authorize: its types, and that an approval is kept, for    *)
(* any worlds and any number of steps of the user and of Discord.          *)
(***************************************************************************)
EXTENDS Authorize, TLAPS

(* What each step uses of the operators it is written with.                *)
LEMMA AuTokenTypes ==
    /\ NoToken \in AuTokens
    /\ \A chat \in BOOLEAN : Issued(chat) \in AuTokens
    /\ \A t \in AuTokens : Refuse(t) \in AuTokens
BY DEF NoToken, Issued, Refuse, AuTokens

(* What is left of the bound stays within it.                              *)
LEMMA AuTurnType == AuTypeOK /\ AuTurn => auLeft' \in 0 .. AuTurns
<1> SUFFICES ASSUME auLeft \in 0 .. AuTurns, auLeft > 0, auLeft' = auLeft - 1
             PROVE  auLeft' \in 0 .. AuTurns
    BY DEF AuTypeOK, AuTurn
<1> QED BY AuAssumption DEF AuAssumption

LEMMA AuTypeInit == AuInit => AuTypeOK
<1>1. AuTurns \in 0 .. AuTurns
    BY AuAssumption DEF AuAssumption
<1> QED BY <1>1, AuTokenTypes DEF AuInit, AuTypeOK, AuPlaces

(* Every step keeps every variable among its values.                       *)
LEMMA AuTypeStep == AuTypeOK /\ [AuNext]_auVars => AuTypeOK'
<1> SUFFICES ASSUME AuTypeOK, [AuNext]_auVars
             PROVE  AuTypeOK'
    OBVIOUS
<1> USE AuTokenTypes, AuTurnType
<1>1. CASE Connect
    BY <1>1 DEF Connect, At, To, AuTypeOK, AuPlaces
<1>2. CASE SendHello
    BY <1>2 DEF SendHello, SendFails, At, To, AuTypeOK, AuPlaces
<1>3. CASE Ready
    BY <1>3 DEF Ready, At, To, AuTypeOK, AuPlaces
<1>4. CASE NotReady
    BY <1>4 DEF NotReady, At, To, AuTypeOK, AuPlaces
<1>5. CASE RetryElapsed
    BY <1>5 DEF RetryElapsed, Disconnects, At, To, AuTypeOK, AuPlaces
<1>6. CASE SendToken
    BY <1>6 DEF SendToken, AuthFails, ForgetsToken, Loses, Disconnects, At, To, AuTypeOK, AuPlaces
<1>7. CASE TokenAccepted
    <2>1. auHeld.chat \in BOOLEAN
        BY DEF AuTypeOK, AuTokens
    <2> QED BY <1>7, <2>1 DEF TokenAccepted, To, AuTypeOK, AuPlaces
<1>8. CASE TokenRefused
    BY <1>8 DEF TokenRefused, AuthFails, ForgetsToken, At, To, AuTypeOK, AuPlaces
<1>9. CASE AuthCut
    BY <1>9 DEF AuthCut, AuthFails, ForgetsToken, Loses, At, To, AuTypeOK, AuPlaces
<1>10. CASE SendAuthorize
    BY <1>10 DEF SendAuthorize, SendFails, Disconnects, At, To, AuTypeOK, AuPlaces
<1>11. CASE AuthorizeEnds
    BY <1>11 DEF AuthorizeEnds, GivesUp, Loses, Disconnects, To, AuTypeOK, AuPlaces
<1>12. CASE Exchange
    BY <1>12 DEF Exchange, Loses, To, AuTypeOK, AuPlaces
<1>13. CASE ExchangeFails
    BY <1>13 DEF ExchangeFails, GivesUp, Loses, Disconnects, To, AuTypeOK, AuPlaces
<1>14. CASE SessionEnds
    BY <1>14 DEF SessionEnds, SendFails, Disconnects, To, AuTypeOK, AuPlaces
<1>18. CASE Approved
    BY <1>18 DEF Approved, To, AuTypeOK, AuPlaces
<1>15. CASE AuUser
    <2>1. CASE Approve
        BY <2>1 DEF Approve, To, AuTypeOK, AuPlaces
    <2>2. CASE Deny
        BY <2>2 DEF Deny, GivesUp, Disconnects, To, AuTypeOK, AuPlaces
    <2>3. ASSUME NEW reauthenticate \in BOOLEAN, ControlReconnect(reauthenticate)
          PROVE  AuTypeOK'
        BY <2>3 DEF ControlReconnect, Rounds, ForgetsToken, LosesUnsaved, Loses, Disconnects, To, AuTypeOK, AuPlaces
    <2>4. CASE ControlChat
        BY <2>4 DEF ControlChat, Rounds, LosesUnsaved, Loses, Disconnects, To, AuTypeOK, AuPlaces
    <2>5. CASE ControlClient
        BY <2>5 DEF ControlClient, Disconnects, To, AuTypeOK, AuPlaces
    <2>6. CASE ControlQuit
        BY <2>6 DEF ControlQuit, LosesUnsaved, Loses, Disconnects, To, AuTypeOK, AuPlaces
    <2>7. CASE Killed
        BY <2>7 DEF Killed, LosesUnsaved, Loses, Disconnects, To, AuTypeOK, AuPlaces
    <2>8. CASE Restarted
        BY <2>8 DEF Restarted, Disconnects, To, AuTypeOK, AuPlaces
    <2> QED BY <1>15, <2>1, <2>2, <2>3, <2>4, <2>5, <2>6, <2>7, <2>8 DEF AuUser
<1>16. CASE AuDiscord
    <2>1. CASE DiscordStarts
        BY <2>1 DEF DiscordStarts, AuTypeOK
    <2>2. ASSUME NEW stays \in BOOLEAN, DiscordEnds(stays)
          PROVE  AuTypeOK'
        BY <2>2 DEF DiscordEnds, AuTypeOK
    <2>3. CASE Revoke
        BY <2>3 DEF Revoke, AuTypeOK
    <2> QED BY <1>16, <2>1, <2>2, <2>3 DEF AuDiscord
<1>17. CASE UNCHANGED auVars
    BY <1>17 DEF auVars, AuTypeOK
<1> QED BY <1>1, <1>2, <1>3, <1>4, <1>5, <1>6, <1>7, <1>8, <1>9, <1>10, <1>11, <1>12, <1>13,
           <1>14, <1>15, <1>16, <1>17, <1>18 DEF AuNext, AuDaemonStep

(* Type correctness, for any worlds and any number of turns.               *)
THEOREM AuTypeCorrect == AuSpec => []AuTypeOK
BY AuTypeInit, AuTypeStep, PTL DEF AuSpec

-----------------------------------------------------------------------------
(* The approval.  ApprovalKept says what the token in use is only where it *)
(* is used; whether a token is accepted or refused is decided by its .ok,  *)
(* which the file of an approval has (Good), and Ready looks at .is.       *)
Good == auFile.ok => auFile.is

AuInv == AuTypeOK /\ ApprovalKept /\ Good

LEMMA AuInvInit == AuInit => AuInv
<1> SUFFICES ASSUME AuInit PROVE AuInv
    OBVIOUS
<1>1. ApprovalKept /\ Good
    BY DEF AuInit, ApprovalKept, Good, NoToken
<1> QED BY <1>1, AuTypeInit DEF AuInv

LEMMA AuInvStep == AuInv /\ [AuNext]_auVars => AuInv'
<1> SUFFICES ASSUME AuInv, [AuNext]_auVars
             PROVE  ApprovalKept' /\ Good'
    BY AuTypeStep DEF AuInv
<1>t. /\ NoToken.ok = FALSE /\ NoToken.is = FALSE
      /\ \A chat : Issued(chat).ok = TRUE /\ Issued(chat).is = TRUE
      /\ Refuse(auFile).ok = FALSE
    BY DEF NoToken, Issued, Refuse, AuInv, AuTypeOK, AuTokens
<1> USE DEF AuInv, ApprovalKept, Unsaved, Good
<1>1. CASE Connect
    BY <1>1 DEF Connect, At, To
<1>2. CASE SendHello
    BY <1>2 DEF SendHello, SendFails, At, To
<1>3. CASE Ready
    BY <1>3 DEF Ready, At, To
<1>4. CASE NotReady
    BY <1>4 DEF NotReady, At, To
<1>5. CASE RetryElapsed
    BY <1>5 DEF RetryElapsed, At, To
<1>6. CASE SendToken
    BY <1>6, <1>t DEF SendToken, Authenticates, AuthFails, ForgetsToken, Loses, Disconnects, At, To
<1>7. CASE TokenAccepted
    BY <1>7 DEF TokenAccepted, Authenticating, To
<1>8. CASE TokenRefused
    \* A token with an approval is not refused.
    BY <1>8, <1>t DEF TokenRefused, Authenticating, AuthFails, ForgetsToken, To
<1>9. CASE AuthCut
    BY <1>9, <1>t DEF AuthCut, Authenticating, AuthFails, ForgetsToken, Loses, To
<1>10. CASE SendAuthorize
    BY <1>10 DEF SendAuthorize, SendFails, At, To
<1>11. CASE AuthorizeEnds
    BY <1>11 DEF AuthorizeEnds, GivesUp, Loses, At, To
<1>12. CASE Exchange
    BY <1>12, <1>t DEF Exchange, Loses, At, To
<1>13. CASE ExchangeFails
    BY <1>13 DEF ExchangeFails, GivesUp, Loses, At, To
<1>14. CASE SessionEnds
    BY <1>14 DEF SessionEnds, SendFails, At, To
<1>18. CASE Approved
    BY <1>18 DEF Approved, At, To
<1>15. CASE AuUser
    <2>1. CASE Approve \/ Deny
        BY <2>1 DEF Approve, Deny, GivesUp, At, To
    <2>2. ASSUME NEW reauthenticate \in BOOLEAN, ControlReconnect(reauthenticate)
          PROVE  ApprovalKept' /\ Good'
        BY <2>2, <1>t DEF ControlReconnect, Rounds, ForgetsToken, LosesUnsaved, Loses, To
    <2>3. CASE ControlChat
        BY <2>3, <1>t DEF ControlChat, Rounds, LosesUnsaved, Loses, To
    <2>4. CASE ControlClient
        BY <2>4, <1>t DEF ControlClient, To
    <2>5. CASE ControlQuit \/ Killed \/ Restarted
        BY <2>5, <1>t DEF ControlQuit, Killed, Restarted, LosesUnsaved, Loses, At, To
    <2> QED BY <1>15, <2>1, <2>2, <2>3, <2>4, <2>5 DEF AuUser
<1>16. CASE AuDiscord
    <2>1. CASE DiscordStarts
        BY <2>1 DEF DiscordStarts
    <2>2. ASSUME NEW stays \in BOOLEAN, DiscordEnds(stays)
          PROVE  ApprovalKept' /\ Good'
        BY <2>2 DEF DiscordEnds
    <2>3. CASE Revoke
        BY <2>3, <1>t DEF Revoke
    <2> QED BY <1>16, <2>1, <2>2, <2>3 DEF AuDiscord
<1>17. CASE UNCHANGED auVars
    BY <1>17 DEF auVars
<1> QED BY <1>1, <1>2, <1>3, <1>4, <1>5, <1>6, <1>7, <1>8, <1>9, <1>10, <1>11, <1>12, <1>13,
           <1>14, <1>15, <1>16, <1>17, <1>18 DEF AuNext, AuDaemonStep

(* After an approval, and until the user takes it back, its code is on its *)
(* way to a token or nothing asks again and sessions run with the saved    *)
(* token, but for the approvals the code loses: until the token is saved,  *)
(* in a save that fails, silently too, and when the connection ends during *)
(* AUTHENTICATE.                                                           *)
THEOREM ApprovalStays == AuSpec => []ApprovalKept
<1>1. AuInv => ApprovalKept
    BY DEF AuInv
<1> QED BY <1>1, AuInvInit, AuInvStep, PTL DEF AuSpec
=============================================================================
