-------------------------- MODULE VoiceSession_proofs --------------------------
(* Theorems about VoiceSession and their proofs.                           *)
EXTENDS VoiceSession, SequenceTheorems, FiniteSetTheorems, TLAPS

-----------------------------------------------------------------------------
(* Events and what is in flight.                                           *)

StatusEvts == {"CREATE", "UPDATE", "DELETE"}
VoiceEvts == {"CREATE", "UPDATE", "DELETE", "START", "STOP"}

LEMMA Kinds ==
  /\ DOMAIN VoiceKinds = 1..5 /\ Len(VoiceKinds) = 5
  /\ DOMAIN ChatKinds = 1..3 /\ Len(ChatKinds) = 3
  /\ VoiceKinds[1] = "CREATE" /\ VoiceKinds[2] = "UPDATE" /\ VoiceKinds[3] = "DELETE"
  /\ VoiceKinds[4] = "START" /\ VoiceKinds[5] = "STOP"
  /\ ChatKinds[1] = "MSG_CREATE" /\ ChatKinds[2] = "MSG_UPDATE" /\ ChatKinds[3] = "MSG_DELETE"
BY DEF VoiceKinds, ChatKinds

LEMMA KindSets ==
  /\ {VoiceKinds[i] : i \in DOMAIN VoiceKinds} = VoiceEvts
  /\ {ChatKinds[i] : i \in DOMAIN ChatKinds} = ChatEvts
<1>1. \A i \in 1..5 : i = 1 \/ i = 2 \/ i = 3 \/ i = 4 \/ i = 5
  OBVIOUS
<1>2. \A i \in 1..3 : i = 1 \/ i = 2 \/ i = 3
  OBVIOUS
<1>3. {VoiceKinds[i] : i \in 1..5} = VoiceEvts
  <2>1. \A i \in 1..5 : VoiceKinds[i] \in VoiceEvts
    BY <1>1, Kinds DEF VoiceEvts
  <2>2. \A e \in VoiceEvts : \E i \in 1..5 : VoiceKinds[i] = e
    BY Kinds DEF VoiceEvts
  <2> QED BY <2>1, <2>2
<1>4. {ChatKinds[i] : i \in 1..3} = ChatEvts
  <2>1. \A i \in 1..3 : ChatKinds[i] \in ChatEvts
    BY <1>2, Kinds DEF ChatEvts
  <2>2. \A e \in ChatEvts : \E i \in 1..3 : ChatKinds[i] = e
    BY Kinds DEF ChatEvts
  <2> QED BY <2>1, <2>2
<1> QED BY <1>3, <1>4, Kinds

LEMMA EventIs ==
  /\ \A c \in Channels \cup {NoChannel} : Event("SELECT", c, Self) \in Events
  /\ \A evt \in VoiceEvts, c \in Channels, u \in Users : Event(evt, c, u) \in Events
  /\ \A evt \in ChatEvts, c \in Channels, m \in Messages : Event(evt, c, m) \in Events
BY KindSets DEF Event, Events

LEMMA EventHas ==
  ASSUME NEW e \in Events
  PROVE  \/ e.evt = "SELECT" /\ e.ch \in Channels \cup {NoChannel} /\ e.who = Self
         \/ e.evt \in VoiceEvts /\ e.ch \in Channels /\ e.who \in Users
         \/ e.evt \in ChatEvts /\ e.ch \in Channels /\ e.who \in Messages
BY KindSets DEF Events

(* The socket and the inbox, as far as the order of events goes.           *)
Queues == stream \in Seq(Events) /\ inbox \in Seq(Events)

LEMMA TypeQueues == ASSUME TypeOK PROVE Queues
BY DEF TypeOK, Queues

LEMMA FlightType == ASSUME Queues PROVE InFlight \in Seq(Events)
BY ConcatProperties DEF Queues, InFlight

LEMMA FlightReceive ==
  ASSUME Queues, inbox' = inbox \o stream, stream' = <<>>
  PROVE  InFlight' = InFlight /\ Queues'
<1>1. inbox \o stream \in Seq(Events)
  BY ConcatProperties DEF Queues
<1>2. (inbox \o stream) \o <<>> = inbox \o stream
  BY <1>1, ConcatEmptySeq
<1> QED BY <1>1, <1>2, EmptySeq DEF InFlight, Queues

LEMMA FlightAppend ==
  ASSUME Queues, NEW e \in Events, inbox' = inbox, stream' = Append(stream, e)
  PROVE  InFlight' = Append(InFlight, e) /\ Queues'
<1>1. <<e>> \in Seq(Events)
  OBVIOUS
<1>2. InFlight' = (inbox \o stream) \o <<e>>
  BY <1>1, AppendIsConcat, ConcatAssociative DEF Queues, InFlight
<1> QED BY <1>2, FlightType, AppendIsConcat, AppendProperties DEF Queues, InFlight

LEMMA FlightNext ==
  ASSUME Queues, NEW e, NextEvent(e)
  PROVE  /\ InFlight # <<>> /\ e = Head(InFlight) /\ e \in Events
         /\ InFlight' = Tail(InFlight) /\ Queues'
<1>1. CASE inbox # <<>> /\ e = Head(inbox) /\ inbox' = Tail(inbox) /\ UNCHANGED stream
  <2>1. e \in Events /\ Tail(inbox) \in Seq(Events)
    BY <1>1, HeadTailProperties DEF Queues
  <2>2. Head(inbox \o stream) = Head(inbox) /\ Tail(inbox \o stream) = Tail(inbox) \o stream
    BY <1>1, ConcatProperties, HeadTailProperties DEF Queues
  <2>3. inbox \o stream # <<>>
    BY <1>1, ConcatProperties, EmptySeq DEF Queues
  <2> QED BY <1>1, <2>1, <2>2, <2>3 DEF InFlight, Queues
<1>2. CASE /\ inbox = <<>> /\ stream # <<>> /\ e = Head(stream) /\ stream' = Tail(stream)
           /\ UNCHANGED inbox
  <2>1. e \in Events /\ Tail(stream) \in Seq(Events)
    BY <1>2, HeadTailProperties DEF Queues
  <2>2. <<>> \o stream = stream /\ <<>> \o Tail(stream) = Tail(stream)
    BY <2>1, ConcatEmptySeq DEF Queues
  <2> QED BY <1>2, <2>1, <2>2 DEF InFlight, Queues
<1> QED BY <1>1, <1>2 DEF NextEvent

(* There is a last event among some.                                       *)
LEMMA MaxIndex ==
  ASSUME NEW n \in Nat, NEW S \in SUBSET (1..n), S # {}
  PROVE  \E i \in S : \A j \in S : j <= i
<1> DEFINE T == {n - i : i \in S}
           R == {ss \in Nat \X Nat : ss[1] < ss[2]}
<1>1. T \subseteq Nat /\ T # {}
  <2>1. \A i \in S : n - i \in Nat
    OBVIOUS
  <2> QED BY <2>1
<1>2. IsWellFoundedOn(R, Nat)
  BY NatLessThanWellFounded DEF OpToRel
<1>3. PICK m \in T : \A p \in T : ~(<<p, m>> \in R)
  <2> HIDE DEF T, R
  <2> QED BY <1>1, <1>2, WFMin
<1>4. m \in Nat /\ \A p \in T : p \in Nat /\ m <= p
  <2>1. \A p \in Nat : <<p, m>> \in R <=> p < m
    <3>1. m \in Nat
      BY <1>1, <1>3
    <3> QED BY <3>1
  <2>2. T \subseteq Nat /\ m \in T
    BY <1>1, <1>3
  <2> HIDE DEF T, R
  <2>3. ASSUME NEW p \in T PROVE p \in Nat /\ m <= p
    <3>1. p \in Nat /\ m \in Nat
      BY <2>2
    <3>2. ~(p < m)
      BY <1>3, <2>1, <3>1
    <3> QED BY <3>1, <3>2
  <2> QED BY <2>2, <2>3
<1>5. PICK i \in S : m = n - i
  BY <1>3
<1>6. \A j \in S : m <= n - j
  BY <1>4
<1>7. \A j \in S : j <= i
  <2> HIDE DEF T, R
  <2> QED BY <1>5, <1>6
<1> QED BY <1>7

LEMMA ObservedType ==
  ASSUME NEW q \in Seq(Events), NEW old \in Users
  PROVE  ObservedLocal(q, old) \in Users
<1> DEFINE W == {i \in DOMAIN q : q[i].evt \in StatusEvts}
<1>1. CASE W = {}
  BY <1>1 DEF ObservedLocal, StatusEvts
<1>2. CASE W # {}
  <2>1. \E i \in W : \A j \in W : j <= i
    <3>1. Len(q) \in Nat /\ W \in SUBSET (1..Len(q))
      BY LenProperties
    <3> QED BY <1>2, <3>1, MaxIndex
  <2> DEFINE i == CHOOSE i \in W : \A j \in W : j <= i
  <2>2. i \in W
    BY <2>1
  <2>3. q[i] \in Events /\ q[i].evt \in StatusEvts
    <3>1. i \in 1..Len(q)
      BY <2>2, LenProperties
    <3> QED BY <2>2, <3>1, ElementOfSeq
  <2>4. q[i].who \in Users
    BY <2>3, EventHas DEF StatusEvts, ChatEvts, VoiceEvts
  <2>5. ObservedLocal(q, old) = q[i].who
    BY <1>2 DEF ObservedLocal, StatusEvts
  <2> QED BY <2>4, <2>5
<1> QED BY <1>1, <1>2

-----------------------------------------------------------------------------
(* Type correctness.                                                       *)

LEMMA TypeInit == Init => TypeInv
<1> SUFFICES ASSUME Init PROVE TypeInv
  OBVIOUS
<1>1. members \in [Channels -> SUBSET Users]
  BY SessionAssumption DEF Init
<1>2. NoVoice \in VoiceStates
  BY DEF NoVoice, VoiceStates
<1>3. /\ MaxAttempts \in Nat \ {0} /\ MaxRefusals \in Nat /\ Self \in Users
  BY SessionAssumption
<1>4. IsFiniteSet(posted) /\ posted \in SUBSET Messages /\ late \in SUBSET Messages
  BY FS_EmptySet DEF Init
<1>5. <<>> \in Seq(Events)
  BY EmptySeq
<1>6. /\ stream \in Seq(Events) /\ inbox \in Seq(Events)
      /\ refused \in 0..MaxRefusals /\ attempts \in 0..MaxAttempts /\ k \in 1..5
      /\ local \in Users /\ voice \in VoiceStates /\ shown \in VoiceStates
  BY <1>2, <1>3, <1>5 DEF Init
<1>7. /\ pc \in Labels /\ job = "start" /\ chatRet = "publish"
      /\ {subscribed, pending, activeChat, subscribedChat, target} \subseteq Channels \cup {NoChannel}
  BY DEF Init, Labels
<1>8. /\ {first, changed, want, fileWant} \subseteq BOOLEAN /\ waiting \in BOOLEAN
      /\ up \in BOOLEAN /\ connected \in BOOLEAN /\ scope \in BOOLEAN
      /\ sel \in Channels \cup {NoChannel}
  BY DEF Init
<1> QED BY <1>1, <1>4, <1>6, <1>7, <1>8 DEF TypeInv, TypeOK

(* What a request leaves in the socket and the inbox.                      *)
LEMMA RpcType ==
  ASSUME TypeOK, RpcOk \/ RpcFails
  PROVE  /\ Queues' /\ up' \in BOOLEAN /\ connected' \in BOOLEAN
         /\ refused' \in 0..MaxRefusals /\ local' \in Users
<1>0. \/ /\ Receive /\ UNCHANGED <<up, connected>>
         /\ refused' = refused \/ (refused < MaxRefusals /\ refused' = refused + 1)
      \/ /\ ~up /\ connected' \in {connected, FALSE}
         /\ UNCHANGED <<inbox, stream, local, up, refused>>
  BY DEF RpcOk, RpcFails
<1>1. CASE /\ Receive /\ UNCHANGED <<up, connected>>
           /\ refused' = refused \/ (refused < MaxRefusals /\ refused' = refused + 1)
  <2>1. Queues'
    BY <1>1, TypeQueues, FlightReceive DEF Receive
  <2>2. local' \in Users
    BY <1>1, ObservedType DEF Receive, TypeOK
  <2>3. MaxRefusals \in Nat
    BY SessionAssumption
  <2> QED BY <1>1, <2>1, <2>2, <2>3 DEF TypeOK
<1>2. CASE ~up /\ connected' \in {connected, FALSE}
               /\ UNCHANGED <<inbox, stream, local, up, refused>>
  BY <1>2 DEF TypeOK, Queues
<1> QED BY <1>0, <1>1, <1>2

LEMMA SelectedType ==
  ASSUME TypeOK
  PROVE  Selected \in VoiceStates /\ NoVoice \in VoiceStates
         /\ Selected.ch = sel /\ Selected.chat = {} /\ Selected.speaking = {}
         /\ Selected.users = (IF sel = NoChannel THEN {} ELSE members[sel])
         /\ NoVoice.ch = NoChannel /\ NoVoice.users = {} /\ NoVoice.chat = {}
         /\ NoVoice.speaking = {}
<1>1. sel # NoChannel => members[sel] \in SUBSET Users
  BY DEF TypeOK
<1> QED BY <1>1 DEF Selected, NoVoice, VoiceStates, TypeOK

LEMMA GetType ==
  ASSUME TypeOK, NEW s \in {Selected, NoVoice}, Get(s)
  PROVE  /\ s \in VoiceStates /\ s.chat = {}
         /\ Queues' /\ up' \in BOOLEAN /\ connected' \in BOOLEAN
         /\ refused' \in 0..MaxRefusals /\ local' \in Users
BY RpcType, SelectedType DEF Get

(* Discord's steps.                                                        *)
DiscordFrame == UNCHANGED <<inbox, local, connected, refused, voiceVars, chatVars, controlVars,
                            configVars, shown>>

LEMMA DiscordType ==
  ASSUME TypeInv, DiscordFrame, sel' \in Channels \cup {NoChannel},
         members' \in [Channels -> SUBSET Users], posted' \in SUBSET Messages,
         late' \in SUBSET Messages, IsFiniteSet(posted'), stream' \in Seq(Events), up' \in BOOLEAN
  PROVE  TypeInv'
BY DEF TypeInv, TypeOK, DiscordFrame, voiceVars, chatVars, controlVars, configVars

LEMMA EmitType ==
  ASSUME TypeOK, NEW evt, NEW c, NEW who, Event(evt, c, who) \in Events, Emit(evt, c, who)
  PROVE  stream' \in Seq(Events)
BY AppendProperties DEF Emit, TypeOK

LEMMA SelectChannelType ==
  ASSUME TypeInv, NEW c \in Channels \cup {NoChannel}, SelectChannel(c) PROVE TypeInv'
<1> DEFINE left == {d \in Channels : Self \in members[d]} \ {c}
           deletes == IF "empty" \in Races THEN {} ELSE {d \in left : <<"DELETE", d>> \in subs}
           tell == IF <<"SELECT", NoChannel>> \in subs THEN <<Event("SELECT", c, Self)>> ELSE <<>>
           gone == <<Event("DELETE", CHOOSE d \in deletes : TRUE, Self)>>
<1>1. tell \in Seq(Events)
  BY EventIs, EmptySeq
<1>2. deletes # {} => gone \in Seq(Events)
  <2> SUFFICES ASSUME deletes # {} PROVE gone \in Seq(Events)
    OBVIOUS
  <2>1. (CHOOSE d \in deletes : TRUE) \in Channels
    OBVIOUS
  <2>2. Event("DELETE", CHOOSE d \in deletes : TRUE, Self) \in Events
    BY <2>1, EventIs, SessionAssumption DEF VoiceEvts
  <2> QED BY <2>2
<1>3. /\ DiscordFrame /\ sel' = c /\ UNCHANGED <<posted, late, up>>
      /\ stream' = IF ~up THEN stream
                   ELSE IF deletes = {} THEN stream \o tell ELSE stream \o gone \o tell
  BY DEF SelectChannel, DiscordFrame
<1>4. members' \in [Channels -> SUBSET Users]
  BY SessionAssumption DEF SelectChannel, TypeInv, TypeOK
<1>5. stream' \in Seq(Events)
  <2> HIDE DEF tell, gone, deletes
  <2>1. stream \in Seq(Events)
    BY DEF TypeInv, TypeOK
  <2>2. CASE deletes # {}
    <3>1. stream \o gone \in Seq(Events)
      BY <1>2, <2>1, <2>2, ConcatProperties
    <3> QED BY <1>1, <1>3, <2>1, <2>2, <3>1, ConcatProperties
  <2>3. CASE deletes = {}
    BY <1>1, <1>3, <2>1, <2>3, ConcatProperties
  <2> QED BY <2>2, <2>3
<1> QED BY <1>3, <1>4, <1>5, DiscordType DEF TypeInv, TypeOK

LEMMA MoveType ==
  ASSUME TypeInv, NEW u \in Users, NEW c \in Channels,
         Join(u, c) \/ Leave(u, c) \/ \E evt \in {"UPDATE", "START", "STOP"} : Change(u, c, evt)
  PROVE  TypeInv'
<1>1. DiscordFrame /\ UNCHANGED <<sel, posted, late, up>>
  BY DEF Join, Leave, Change, Move, DiscordFrame
<1>2. members' \in [Channels -> SUBSET Users]
  BY DEF Join, Leave, Change, TypeInv, TypeOK
<1>3. \A evt \in VoiceEvts : Event(evt, c, u) \in Events
  BY EventIs
<1>4. stream' \in Seq(Events)
  BY <1>3, EmitType DEF Join, Leave, Change, TypeInv, VoiceEvts
<1> QED BY <1>1, <1>2, <1>4, DiscordType DEF TypeInv, TypeOK

LEMMA PostType ==
  ASSUME TypeInv, NEW m \in Messages, NEW evt \in ChatEvts, Post(m, evt)
  PROVE  TypeInv'
<1>1. DiscordFrame /\ UNCHANGED <<sel, members, up>>
  BY DEF Post, DiscordFrame
<1>2. IsFiniteSet(posted') /\ posted' \in SUBSET Messages
  BY FS_AddElement DEF Post, TypeInv, TypeOK
<1>3. late' \in SUBSET Messages
  BY DEF Post, TypeInv, TypeOK
<1>4. m[1] \in Channels
  BY DEF Messages
<1>5. Event(evt, m[1], m) \in Events /\ Emit(evt, m[1], m)
  BY <1>4, EventIs DEF Post
<1>6. stream' \in Seq(Events)
  BY <1>5, EmitType DEF TypeInv
<1> QED BY <1>1, <1>2, <1>3, <1>6, DiscordType DEF TypeInv, TypeOK

LEMMA OutsideType ==
  ASSUME TypeInv, Discord \/ EditConfig \/ TrayTogglesChat \/ Reconnect \/ RetryDue
  PROVE  TypeInv'
<1>1. CASE Discord
  <2>1. CASE Hangup
    BY <2>1 DEF Hangup, TypeInv, TypeOK, discordVars, voiceVars, chatVars, controlVars, configVars
  <2> QED BY <1>1, <2>1, SelectChannelType, MoveType, PostType DEF Discord, ChatEvts
<1>2. CASE EditConfig \/ RetryDue
  BY <1>2 DEF EditConfig, RetryDue, TypeInv, TypeOK, discordVars, socketVars, voiceVars, chatVars,
              controlVars, configVars
<1>3. CASE TrayTogglesChat \/ Reconnect
  BY <1>3 DEF TrayTogglesChat, Reconnect, Goto, TypeInv, TypeOK, Labels, discordVars, socketVars,
              voiceVars, chatVars, configVars
<1> QED BY <1>1, <1>2, <1>3

Returns == {"publish", "drain", "ctl"}

(* Steps that only move the daemon's thread.                               *)
LEMMA ControlType ==
  ASSUME TypeInv, UNCHANGED <<discordVars, socketVars, voiceVars, chatVars, scope, shown, job, target>>,
         pc' \in Labels \ {"sub", "subscribed"}, k' \in 1..5, chatRet' \in Returns,
         first' \in BOOLEAN, changed' \in BOOLEAN, want' \in BOOLEAN, fileWant' \in BOOLEAN
  PROVE  TypeInv'
BY DEF TypeInv, TypeOK, Returns, discordVars, socketVars, voiceVars, chatVars

LEMMA ControlWas ==
  ASSUME TypeInv
  PROVE  /\ k \in 1..5 /\ chatRet \in Returns /\ Returns \subseteq Labels \ {"sub", "subscribed"}
         /\ first \in BOOLEAN /\ changed \in BOOLEAN /\ want \in BOOLEAN /\ fileWant \in BOOLEAN
BY DEF TypeInv, TypeOK, Returns, Labels

LEMMA SessionType ==
  ASSUME TypeInv, StartSession \/ SubscribeSelect \/ LoopTop \/ DrainDone \/ Publish
                  \/ ConfigUnchanged \/ ConfigChanged \/ ControlIdle \/ Cleanup
  PROVE  TypeInv'
<1>1. CASE StartSession
  <2>1. /\ <<>> \in Seq(Events) /\ 0 \in 0..MaxRefusals /\ Self \in Users
    BY EmptySeq, SessionAssumption
  <2>2. want' \in BOOLEAN /\ scope' \in BOOLEAN
    BY <1>1 DEF StartSession, TypeInv, TypeOK
  <2> QED BY <1>1, <2>1, <2>2 DEF StartSession, TypeInv, TypeOK, Labels, discordVars, voiceVars,
             chatVars
<1>2. CASE SubscribeSelect
  <2>1. RpcOk \/ RpcFails
    BY <1>2 DEF SubscribeSelect
  <2> QED BY <1>2, <2>1, RpcType DEF SubscribeSelect, Goto, TypeInv, TypeOK, Labels, Queues,
             discordVars, voiceVars, chatVars, configVars
<1>3. CASE LoopTop \/ ConfigUnchanged \/ ConfigChanged \/ ControlIdle
  BY <1>3, ControlType, ControlWas DEF LoopTop, ConfigUnchanged, ConfigChanged, ControlIdle, Goto,
     Labels, Returns, configVars
<1>4. CASE DrainDone
  BY <1>4 DEF DrainDone, Goto, TypeInv, TypeOK, Labels, discordVars, voiceVars, chatVars, configVars
<1>5. CASE Publish
  <2>1. PICK kept \in SUBSET voice.chat :
          /\ voice' = [voice EXCEPT !.chat = kept]
          /\ shown' = IF changed \/ kept # voice.chat THEN voice' ELSE shown
    BY <1>5 DEF Publish
  <2>2. voice' \in VoiceStates /\ shown' \in VoiceStates
    BY <2>1 DEF TypeInv, TypeOK, VoiceStates
  <2> QED BY <1>5, <2>2 DEF Publish, TypeInv, TypeOK, Labels, discordVars, socketVars, chatVars,
             configVars
<1>6. CASE Cleanup
  <2>1. 0 \in 0..MaxAttempts
    BY SessionAssumption
  <2> QED BY <1>6, <2>1, EmptySeq, SelectedType DEF Cleanup, ClearPending, Goto, TypeInv, TypeOK,
             Labels, discordVars, configVars
<1> QED BY <1>1, <1>2, <1>3, <1>4, <1>5, <1>6

(* Requests that change subscriptions.                                     *)
LEMMA SubscriptionType ==
  ASSUME TypeInv, Unsubscribe \/ Subscribe \/ ChatUnsubscribe \/ ChatSubscribe
  PROVE  TypeInv'
<1>1. RpcOk \/ RpcFails
  BY DEF Unsubscribe, Subscribe, ChatUnsubscribe, ChatSubscribe
<1>2. Queues' /\ up' \in BOOLEAN /\ connected' \in BOOLEAN
      /\ refused' \in 0..MaxRefusals /\ local' \in Users
  BY <1>1, RpcType DEF TypeInv
<1>3. k' \in 1..5 /\ pc' \in Labels
  BY Kinds DEF Unsubscribe, Subscribe, ChatUnsubscribe, ChatSubscribe, TypeInv, TypeOK, Labels
<1>4. UNCHANGED <<discordVars, voiceVars, activeChat, job, target, chatRet, first, changed,
                  configVars, shown>>
      /\ (subscribedChat' = subscribedChat \/ subscribedChat' = voice.ch)
  BY DEF Unsubscribe, Subscribe, ChatUnsubscribe, ChatSubscribe, chatVars
<1>5. voice.ch \in Channels \cup {NoChannel}
  BY DEF TypeInv, TypeOK, VoiceStates
<1>6. pc' \in {"sub", "subscribed"} => job \in {"start", "select", "resync"}
  BY DEF Unsubscribe, Subscribe, ChatUnsubscribe, ChatSubscribe, TypeInv, TypeOK
<1> QED BY <1>2, <1>3, <1>4, <1>5, <1>6
        DEF TypeInv, TypeOK, Queues, discordVars, voiceVars, configVars

LEMMA AfterType ==
  ASSUME TypeInv, AfterUnsubscribe \/ AfterSubscribe \/ SyncIdle \/ RefreshChat \/ ClearChatState
  PROVE  TypeInv'
<1>0. 0 \in 0..MaxAttempts /\ MaxAttempts \in 0..MaxAttempts
  BY SessionAssumption
<1>1. CASE AfterUnsubscribe
  BY <1>0, <1>1, SelectedType DEF AfterUnsubscribe, ClearPending, TypeInv, TypeOK, Labels,
     discordVars, socketVars, chatVars, configVars
<1>2. CASE AfterSubscribe
  <2>1. pc' \in Labels \ {"sub", "subscribed"}
    BY <1>2 DEF AfterSubscribe, Labels, TypeInv
  <2>2. /\ voice' \in VoiceStates /\ attempts' \in 0..MaxAttempts
        /\ {subscribed', pending'} \subseteq Channels \cup {NoChannel} /\ waiting' \in BOOLEAN
    BY <1>0, <1>2, SelectedType DEF AfterSubscribe, TypeInv, TypeOK
  <2> QED BY <1>2, <2>1, <2>2 DEF AfterSubscribe, TypeInv, TypeOK, discordVars, socketVars,
             chatVars, configVars
<1>3. CASE SyncIdle \/ RefreshChat
  <2>1. /\ pc' \in Labels \ {"sub", "subscribed"} /\ k' \in 1..5 /\ chatRet' \in Returns
        /\ changed' \in BOOLEAN
    <3>1. {"chat", "chatUnsub", "chatCleared"} \subseteq Labels \ {"sub", "subscribed"}
          /\ "publish" \in Returns
      BY DEF Labels, Returns
    <3>2. CASE SyncIdle
      BY <3>1, <3>2, ControlWas DEF SyncIdle
    <3>3. CASE RefreshChat
      <4>1. changed' \in BOOLEAN
        BY <3>3, ControlWas DEF RefreshChat, Goto, HadChat
      <4> QED BY <3>1, <3>3, <4>1, ControlWas DEF RefreshChat, Goto
    <3> QED BY <1>3, <3>2, <3>3
  <2>2. UNCHANGED <<discordVars, socketVars, voiceVars, chatVars, configVars, shown, job, target,
                    first>>
    BY <1>3 DEF SyncIdle, RefreshChat, Goto
  <2> QED BY <2>1, <2>2, ControlType, ControlWas DEF configVars
<1>4. CASE ClearChatState
  <2>1. voice.ch \in Channels \cup {NoChannel} /\ voice' \in VoiceStates
    BY <1>4 DEF ClearChatState, TypeInv, TypeOK, VoiceStates
  <2>2. activeChat' \in Channels \cup {NoChannel} /\ subscribedChat' = NoChannel
    BY <1>4, <2>1 DEF ClearChatState
  <2>3. pc' \in Labels
    BY <1>4 DEF ClearChatState, Goto, TypeInv, TypeOK, Labels
  <2> QED BY <1>4, <2>1, <2>2, <2>3 DEF ClearChatState, Goto, TypeInv, TypeOK, discordVars,
             socketVars, configVars
<1> QED BY <1>1, <1>2, <1>3, <1>4

LEMMA SettleType ==
  ASSUME TypeInv, NEW s \in VoiceStates, local' \in Users, Settle(s)
  PROVE  /\ voice' \in VoiceStates /\ pending' \in Channels \cup {NoChannel}
         /\ attempts' \in 0..MaxAttempts /\ waiting' \in BOOLEAN /\ changed' \in BOOLEAN
         /\ pc' = "chat" /\ UNCHANGED <<job, k, target>>
<1>1. [s EXCEPT !.users = {local'}] \in VoiceStates
  BY DEF VoiceStates
<1>2. MaxAttempts \in Nat
  BY SessionAssumption
<1>3. attempts \in Nat /\ (attempts > 1 => attempts - 1 \in 0..MaxAttempts)
  BY <1>2 DEF TypeInv, TypeOK
<1>4. voice' \in VoiceStates /\ changed' \in BOOLEAN
  BY <1>1 DEF Settle, TypeInv, TypeOK
<1>5. \/ ClearPending
      \/ attempts > 1 /\ attempts' = attempts - 1 /\ waiting' = TRUE /\ pending' = pending
  BY DEF Settle
<1>6. 0 \in 0..MaxAttempts
  BY <1>2
<1>7. /\ attempts' \in 0..MaxAttempts /\ waiting' \in BOOLEAN
      /\ pending' \in Channels \cup {NoChannel}
  BY <1>3, <1>5, <1>6 DEF ClearPending, TypeInv, TypeOK
<1> QED BY <1>4, <1>7 DEF Settle

LEMMA GetStepType ==
  ASSUME TypeInv, FirstGet \/ Sync \/ SyncAgain
  PROVE  TypeInv'
<1>1. PICK s \in {Selected, NoVoice} : Get(s) /\
        \/ /\ FirstGet /\ voice' = s /\ target' = s.ch
           /\ pc' = IF s.ch = NoChannel THEN "chat" ELSE "sub"
        \/ /\ Sync
           /\ \/ EnterUnsub("abandon")
                 /\ UNCHANGED <<voice, pending, attempts, waiting, target, changed>>
              \/ /\ s.ch \notin {NoChannel, pending} /\ Schedule(s.ch, "resync")
                 /\ UNCHANGED <<voice, pending, attempts, waiting, changed>>
              \/ Settle(s)
        \/ /\ SyncAgain
           /\ \/ Goto("chat") /\ UNCHANGED <<voice, pending, attempts, waiting>>
              \/ Settle(s) /\ UNCHANGED <<chatRet, first>>
  BY DEF FirstGet, Sync, SyncAgain
<1>2. /\ s \in VoiceStates /\ s.ch \in Channels \cup {NoChannel}
      /\ Queues' /\ up' \in BOOLEAN /\ connected' \in BOOLEAN
      /\ refused' \in 0..MaxRefusals /\ local' \in Users
  BY <1>1, GetType DEF TypeInv, VoiceStates
<1>3. CASE FirstGet
  <2>1. voice' = s /\ target' = s.ch /\ pc' \in {"chat", "sub"}
    BY <1>1, <1>3 DEF Sync, SyncAgain, FirstGet
  <2> QED BY <1>2, <1>3, <2>1 DEF FirstGet, TypeInv, TypeOK, Labels, Queues, discordVars, chatVars,
             configVars
<1>4. CASE Sync
  <2>1. /\ voice' \in VoiceStates /\ pending' \in Channels \cup {NoChannel}
        /\ attempts' \in 0..MaxAttempts /\ waiting' \in BOOLEAN /\ changed' \in BOOLEAN
        /\ target' \in Channels \cup {NoChannel} /\ k' \in 1..5 /\ pc' \in Labels
        /\ job' \in {"start", "select", "resync", "deselect", "abandon"}
        /\ pc' \in {"sub", "subscribed"} => job' \in {"start", "select", "resync"}
    <3>1. CASE Settle(s)
      BY <1>2, <3>1, SettleType DEF TypeInv, TypeOK, Labels
    <3>2. CASE /\ EnterUnsub("abandon")
               /\ UNCHANGED <<voice, pending, attempts, waiting, target, changed>>
      BY <3>2 DEF EnterUnsub, TypeInv, TypeOK, Labels
    <3>3. CASE /\ Schedule(s.ch, "resync")
               /\ UNCHANGED <<voice, pending, attempts, waiting, changed>>
      BY <1>2, <3>3 DEF Schedule, EnterUnsub, TypeInv, TypeOK, Labels
    <3> QED BY <1>1, <1>4, <3>1, <3>2, <3>3 DEF Sync, FirstGet, SyncAgain
  <2> QED BY <1>2, <1>4, <2>1 DEF Sync, TypeInv, TypeOK, Queues, discordVars, chatVars, configVars
<1>5. CASE SyncAgain
  <2>1. /\ voice' \in VoiceStates /\ pending' \in Channels \cup {NoChannel}
        /\ attempts' \in 0..MaxAttempts /\ waiting' \in BOOLEAN /\ changed' \in BOOLEAN
        /\ UNCHANGED <<target, k, job, chatRet, first>> /\ pc' = "chat"
    <3>1. CASE Settle(s) /\ UNCHANGED <<chatRet, first>>
      BY <1>2, <3>1, SettleType
    <3>2. CASE Goto("chat") /\ UNCHANGED <<voice, pending, attempts, waiting>>
      BY <3>2 DEF Goto, TypeInv, TypeOK
    <3> QED BY <1>1, <1>5, <3>1, <3>2 DEF Sync, FirstGet, SyncAgain
  <2> QED BY <1>2, <1>5, <2>1 DEF SyncAgain, TypeInv, TypeOK, Labels, Queues, discordVars, chatVars,
             configVars
<1> QED BY <1>3, <1>4, <1>5

LEMMA DispatchType == ASSUME TypeInv, Dispatch PROVE TypeInv'
<1>1. PICK e : NextEvent(e) /\ (HandleSelect(e) \/ HandleVoice(e) \/ HandleChat(e))
  BY DEF Dispatch
<1>2. e \in Events /\ Queues' /\ local' \in Users
  <2>1. Queues
    BY TypeQueues DEF TypeInv
  <2>2. e \in Events /\ Queues'
    BY <1>1, <2>1, FlightNext
  <2>3. <<e>> \in Seq(Events)
    BY <2>2
  <2>4. local' \in Users
    BY <1>1, <2>3, ObservedType DEF NextEvent, TypeInv, TypeOK
  <2> QED BY <2>2, <2>4
<1>3. /\ voice' \in VoiceStates /\ changed' \in BOOLEAN /\ target' \in Channels \cup {NoChannel}
      /\ job' \in {"start", "select", "resync", "deselect", "abandon"}
      /\ k' \in 1..5 /\ pc' \in Labels
      /\ pc' \in {"sub", "subscribed"} => job' \in {"start", "select", "resync"}
  <2>1. CASE HandleSelect(e)
    <3>1. e.ch \in Channels \cup {NoChannel}
      BY <1>2, EventHas
    <3> QED BY <2>1, <3>1 DEF HandleSelect, EnterUnsub, Schedule, TypeInv, TypeOK, Labels
  <2>2. CASE HandleVoice(e)
    <3>1. e.who \in Users
      BY <1>2, <2>2, EventHas DEF HandleVoice, ChatEvts
    <3>2. voice' \in VoiceStates
      BY <2>2, <3>1 DEF HandleVoice, AppliedVoice, TypeInv, TypeOK, VoiceStates
    <3> QED BY <2>2, <3>2 DEF HandleVoice, TypeInv, TypeOK
  <2>3. CASE HandleChat(e)
    <3>1. e.who \in Messages
      BY <1>2, <2>3, EventHas DEF HandleChat, VoiceEvts
    <3>2. voice' \in VoiceStates
      BY <2>3, <3>1 DEF HandleChat, TypeInv, TypeOK, VoiceStates
    <3> QED BY <2>3, <3>2 DEF HandleChat, TypeInv, TypeOK
  <2> QED BY <1>1, <2>1, <2>2, <2>3
<1> QED BY <1>2, <1>3 DEF Dispatch, TypeInv, TypeOK, Queues, discordVars, chatVars, configVars

LEMMA TypeStep == ASSUME TypeInv, [Next]_vars PROVE TypeInv'
<1>1. CASE UNCHANGED vars
  BY <1>1 DEF vars, TypeInv, TypeOK, discordVars, socketVars, voiceVars, chatVars, controlVars,
              configVars
<1> QED BY <1>1, OutsideType, SessionType, SubscriptionType, AfterType, GetStepType, DispatchType
        DEF Next, Daemon

(* The daemon's state has the right types, whatever Discord sends.         *)
THEOREM TypeCorrect == Spec => []TypeOK
<1>1. TypeInv /\ [Next]_vars => TypeInv'
  BY TypeStep
<1>2. TypeInv => TypeOK
  BY DEF TypeInv
<1> QED BY <1>1, <1>2, TypeInit, PTL DEF Spec

-----------------------------------------------------------------------------
(* The daemon's own bookkeeping.                                           *)

(* Labels at which no multi-step operation is under way.                   *)
Calm == {"sync", "chat", "top", "drain", "publish", "config", "ctl", "cleanup"}

viewVars == <<voice, subscribed, pending, attempts, activeChat, subscribedChat, job, target, k>>

LEMMA ViewInit == Init => ViewInv
BY DEF Init, ViewInv, ViewOK, SwitchOK, ChatSubOK, Starting, Switching, NoVoice

LEMMA ViewFrame == ASSUME ViewInv, UNCHANGED <<pc, viewVars>> PROVE ViewInv'
BY DEF ViewInv, ViewOK, SwitchOK, ChatSubOK, viewVars

(* The thread moves on, and nothing else.                                  *)
LEMMA ViewMove ==
  ASSUME ViewInv, UNCHANGED viewVars, pc \notin Switching, pc' \in Calm
  PROVE  ViewInv'
BY DEF ViewInv, ViewOK, SwitchOK, ChatSubOK, viewVars, Calm, Switching, Starting

LEMMA CalmReturns == ASSUME TypeInv PROVE chatRet \in Calm /\ Returns \subseteq Calm
BY DEF Calm, TypeInv, TypeOK, Returns

LEMMA CalmIs ==
  ASSUME NEW l \in Calm
  PROVE  /\ l \notin Switching /\ l \notin Starting
         /\ l \notin {"syncAgain", "chatUnsub", "chatCleared", "chatSub"}
BY DEF Calm, Switching, Starting

(* Only the chat of the view changes.                                      *)
LEMMA ChatOnly ==
  ASSUME TypeInv, NEW S \in SUBSET voice.chat, voice' = [voice EXCEPT !.chat = S]
  PROVE  /\ voice' \in VoiceStates /\ voice'.ch = voice.ch /\ voice'.users = voice.users
         /\ voice'.chat = S
         /\ voice = NoVoice => voice' = NoVoice
         /\ S = voice.chat => voice' = voice
<1>0. voice \in VoiceStates
  BY DEF TypeInv, TypeOK
<1>1. voice.chat \subseteq Messages
  BY <1>0 DEF VoiceStates
<1>2. /\ voice' \in VoiceStates /\ voice'.ch = voice.ch /\ voice'.users = voice.users
      /\ voice'.chat = S
  BY <1>0, <1>1 DEF VoiceStates
<1>3. S = voice.chat => voice' = voice
  BY <1>0 DEF VoiceStates
<1>4. voice = NoVoice => S = voice.chat
  BY DEF NoVoice
<1> QED BY <1>2, <1>3, <1>4

LEMMA ViewOutside ==
  ASSUME TypeInv, ViewInv, Discord \/ EditConfig \/ TrayTogglesChat \/ Reconnect \/ RetryDue
  PROVE  ViewInv'
<1>1. CASE TrayTogglesChat \/ Reconnect
  <2>1. /\ pc \in {"top", "ctl"} /\ pc' \in {"chat", "cleanup"}
        /\ UNCHANGED <<voiceVars, chatVars, job, target, k>>
    BY <1>1 DEF TrayTogglesChat, Reconnect, Goto
  <2> QED BY <2>1, ViewMove DEF viewVars, voiceVars, chatVars, Calm, Switching
<1>2. CASE Discord \/ EditConfig
  <2>1. UNCHANGED <<voiceVars, chatVars, controlVars>>
    BY <1>2 DEF Discord, EditConfig, SelectChannel, Join, Leave, Change, Move, Post, Hangup
  <2> QED BY <2>1, ViewFrame DEF viewVars, voiceVars, chatVars, controlVars
<1>3. CASE RetryDue
  BY <1>3, ViewFrame DEF RetryDue, viewVars, chatVars, controlVars
<1> QED BY <1>1, <1>2, <1>3

LEMMA ViewSession ==
  ASSUME TypeInv, ViewInv,
         \/ StartSession \/ SubscribeSelect \/ LoopTop \/ DrainDone \/ Publish \/ SyncIdle
         \/ ConfigUnchanged \/ ConfigChanged \/ ControlIdle \/ Cleanup
  PROVE  ViewInv'
<1>1. CASE StartSession \/ SubscribeSelect
  <2>1. /\ pc \in Starting /\ pc' \in {"subscribeSelect", "firstGet"} /\ UNCHANGED viewVars
    BY <1>1 DEF StartSession, SubscribeSelect, Goto, viewVars, voiceVars, chatVars, Starting
  <2> QED BY <2>1 DEF ViewInv, ViewOK, SwitchOK, ChatSubOK, viewVars, Switching, Starting
<1>2. CASE LoopTop \/ DrainDone \/ SyncIdle \/ ConfigUnchanged \/ ConfigChanged \/ ControlIdle
  <2>1. pc \in Calm /\ pc' \in Calm /\ UNCHANGED viewVars
    BY <1>2 DEF LoopTop, DrainDone, SyncIdle, ConfigUnchanged, ConfigChanged, ControlIdle, Goto,
       viewVars, voiceVars, chatVars, Calm
  <2> QED BY <2>1, ViewMove DEF Calm, Switching
<1>3. CASE Publish
  <2>1. PICK kept \in SUBSET voice.chat : voice' = [voice EXCEPT !.chat = kept]
    BY <1>3 DEF Publish
  <2>2. voice'.ch = voice.ch /\ (voice = NoVoice => voice' = NoVoice)
    BY <2>1, ChatOnly
  <2>3. /\ pc = "publish" /\ pc' \in {"top", "config"}
        /\ UNCHANGED <<subscribed, pending, attempts, chatVars, job, k, target>>
    BY <1>3 DEF Publish
  <2> QED BY <2>2, <2>3 DEF ViewInv, ViewOK, SwitchOK, ChatSubOK, Switching, Starting, chatVars
<1>4. CASE Cleanup
  BY <1>4 DEF Cleanup, ClearPending, Goto, ViewInv, ViewOK, SwitchOK, ChatSubOK, Switching, Starting,
              NoVoice
<1> QED BY <1>1, <1>2, <1>3, <1>4

LEMMA ViewSwitch ==
  ASSUME TypeInv, ViewInv, Unsubscribe \/ Subscribe \/ AfterUnsubscribe \/ AfterSubscribe
  PROVE  ViewInv'
<1>1. CASE Unsubscribe \/ Subscribe
  <2>1. /\ UNCHANGED <<voiceVars, chatVars, job, target>>
        /\ \/ pc = "unsub" /\ pc' \in {"unsub", "unsubscribed"}
           \/ pc = "sub" /\ pc' \in {"sub", "subscribed"}
        /\ pc' = "unsubscribed" => k' = 1
    BY <1>1 DEF Unsubscribe, Subscribe
  <2> QED BY <2>1 DEF ViewInv, ViewOK, SwitchOK, ChatSubOK, Switching, Starting, voiceVars, chatVars
<1>2. CASE AfterUnsubscribe
  <2>1. /\ pc = "unsubscribed" /\ subscribed' = NoChannel /\ UNCHANGED <<chatVars, job, k, target>>
    BY <1>2 DEF AfterUnsubscribe
  <2>2. CASE job \in {"select", "resync"} /\ pc' = "sub" /\ UNCHANGED <<voice, pending, attempts>>
    BY <2>1, <2>2 DEF ViewInv, ViewOK, SwitchOK, ChatSubOK, Switching, Starting, chatVars
  <2>3. CASE /\ pc' \in {"drain", "chat"} /\ pending' = NoChannel
             /\ voice' = NoVoice \/ (job = "abandon" /\ voice' = voice)
    BY <2>1, <2>3 DEF ViewInv, ViewOK, SwitchOK, ChatSubOK, Switching, Starting, chatVars, NoVoice
  <2>4. \/ job \in {"select", "resync"} /\ pc' = "sub" /\ UNCHANGED <<voice, pending, attempts>>
        \/ /\ pc' \in {"drain", "chat"} /\ pending' = NoChannel
           /\ voice' = NoVoice \/ (job = "abandon" /\ voice' = voice)
    BY <1>2 DEF AfterUnsubscribe, ClearPending
  <2> QED BY <2>2, <2>3, <2>4
<1>3. CASE AfterSubscribe
  <2>1. /\ pc = "subscribed" /\ subscribed' = target /\ UNCHANGED <<chatVars, job, k, target>>
        /\ \/ UNCHANGED <<voice, pending>> /\ job = "start" /\ pc' = "chat"
           \/ voice' = NoVoice /\ pending' = target /\ attempts' = MaxAttempts
              /\ pc' \in {"sync", "drain", "syncAgain"}
    <3>1. job \in {"start", "select", "resync"}
      BY <1>3 DEF AfterSubscribe, TypeInv
    <3> QED BY <1>3, <3>1 DEF AfterSubscribe
  <2>2. target # NoChannel /\ (job = "start" => voice.ch = target /\ pending = NoChannel)
    BY <2>1 DEF ViewInv, SwitchOK, Switching, TypeInv
  <2> QED BY <2>1, <2>2 DEF ViewInv, ViewOK, SwitchOK, ChatSubOK, Switching, Starting, chatVars, NoVoice
<1> QED BY <1>1, <1>2, <1>3

LEMMA ViewChat ==
  ASSUME TypeInv, ViewInv, RefreshChat \/ ChatUnsubscribe \/ ClearChatState \/ ChatSubscribe
  PROVE  ViewInv'
<1>1. CASE RefreshChat
  <2>1. CASE pc' = chatRet /\ UNCHANGED viewVars
    BY <1>1, <2>1, ViewMove, CalmReturns DEF RefreshChat, Switching
  <2>2. CASE /\ pc' = IF subscribedChat # NoChannel THEN "chatUnsub" ELSE "chatCleared"
             /\ k' = 1 /\ UNCHANGED <<voiceVars, chatVars, job, target>>
    BY <1>1, <2>2 DEF RefreshChat, ViewInv, ViewOK, SwitchOK, ChatSubOK, Switching, Starting,
       voiceVars, chatVars
  <2> QED BY <1>1, <2>1, <2>2 DEF RefreshChat, Goto, viewVars, voiceVars, chatVars
<1>2. CASE ChatUnsubscribe
  <2>1. /\ pc = "chatUnsub" /\ UNCHANGED <<voiceVars, chatVars, job, target>>
        /\ \/ pc' = "chatUnsub" /\ k' = k + 1 /\ k < 3
           \/ pc' = "chatCleared" /\ k' = 1
    BY <1>2, Kinds DEF ChatUnsubscribe
  <2>2. k \in 1..5
    BY DEF TypeInv, TypeOK
  <2> QED BY <2>1, <2>2 DEF ViewInv, ViewOK, SwitchOK, ChatSubOK, Switching, Starting,
             voiceVars, chatVars
<1>3. CASE ClearChatState
  <2>1. /\ pc = "chatCleared" /\ subscribedChat' = NoChannel
        /\ voice' = [voice EXCEPT !.chat = {}]
        /\ UNCHANGED <<subscribed, pending, attempts, job, target, k>>
        /\ \/ pc' = "chatSub" /\ activeChat' = voice.ch /\ voice.ch # NoChannel
           \/ pc' = chatRet /\ activeChat' = NoChannel
    BY <1>3 DEF ClearChatState, Goto, ChatWanted
  <2>2. voice'.ch = voice.ch /\ (voice = NoVoice => voice' = NoVoice)
    BY <2>1, ChatOnly
  <2>3. CASE pc' = "chatSub"
    <3>1. activeChat' = voice.ch /\ voice.ch # NoChannel
      BY <2>1, <2>3, CalmReturns, CalmIs
    <3>2. ViewOK'
      BY <2>1, <2>2, <2>3 DEF ViewInv, ViewOK, Switching, Starting
    <3>3. SwitchOK' /\ ChatSubOK'
      BY <2>1, <2>2, <2>3, <3>1 DEF ViewInv, SwitchOK, ChatSubOK, Switching
    <3> QED BY <3>2, <3>3 DEF ViewInv
  <2>4. CASE pc' = chatRet /\ activeChat' = NoChannel
    <3>1. pc' \in Calm
      BY <2>4, CalmReturns
    <3> QED BY <2>1, <2>2, <2>4, <3>1, CalmIs
            DEF ViewInv, ViewOK, SwitchOK, ChatSubOK, Switching, Starting
  <2> QED BY <2>1, <2>3, <2>4
<1>4. CASE ChatSubscribe
  <2>1. /\ pc = "chatSub" /\ UNCHANGED <<voiceVars, activeChat, job, target>>
        /\ \/ pc' = "chatSub" /\ k' = k + 1 /\ k < 3 /\ subscribedChat' = subscribedChat
           \/ pc' = chatRet /\ k' = 1 /\ subscribedChat' \in {subscribedChat, voice.ch}
    BY <1>4, Kinds DEF ChatSubscribe
  <2>2. k \in 1..5
    BY DEF TypeInv, TypeOK
  <2>3. CASE pc' = "chatSub"
    <3>1. k' = k + 1 /\ k < 3 /\ subscribedChat' = subscribedChat
      BY <2>1, <2>3, CalmReturns, CalmIs
    <3> QED BY <2>1, <2>2, <2>3, <3>1
            DEF ViewInv, ViewOK, SwitchOK, ChatSubOK, Switching, Starting, voiceVars
  <2>4. CASE pc' = chatRet
    <3>1. pc' \in Calm
      BY <2>4, CalmReturns
    <3> QED BY <2>1, <2>4, <3>1, CalmIs
            DEF ViewInv, ViewOK, SwitchOK, ChatSubOK, Switching, Starting, voiceVars
  <2> QED BY <2>1, <2>3, <2>4
<1> QED BY <1>1, <1>2, <1>3, <1>4

LEMMA SameView ==
  ASSUME NEW v \in VoiceStates, NEW w \in VoiceStates,
         v.ch = w.ch, v.users = w.users, v.speaking = w.speaking, v.chat = w.chat
  PROVE  v = w
BY DEF VoiceStates

LEMMA GetIs ==
  ASSUME TypeInv, NEW s \in {Selected, NoVoice}
  PROVE  /\ s \in VoiceStates /\ s.ch \in Channels \cup {NoChannel}
         /\ s.ch = NoChannel => s = NoVoice
<1>1. s \in VoiceStates
  BY SelectedType DEF TypeInv
<1>2. sel = NoChannel => Selected = NoVoice
  BY SelectedType, SameView DEF TypeInv
<1>3. s.ch \in Channels \cup {NoChannel}
  BY <1>1 DEF VoiceStates
<1>4. Selected.ch = sel
  BY SelectedType DEF TypeInv
<1> QED BY <1>1, <1>2, <1>3, <1>4

LEMMA ViewGet ==
  ASSUME TypeInv, ViewInv, FirstGet \/ Sync \/ SyncAgain
  PROVE  ViewInv'
<1>1. CASE FirstGet
  <2>1. PICK s \in {Selected, NoVoice} :
          /\ voice' = s /\ target' = s.ch
          /\ pc' = IF s.ch = NoChannel THEN "chat" ELSE "sub"
    BY <1>1 DEF FirstGet
  <2>2. /\ pc = "firstGet" /\ job' = "start" /\ k' = 1
        /\ UNCHANGED <<subscribed, pending, attempts, chatVars>>
    BY <1>1 DEF FirstGet
  <2>3. s.ch = NoChannel => s = NoVoice
    BY GetIs
  <2> QED BY <2>1, <2>2, <2>3 DEF ViewInv, ViewOK, SwitchOK, ChatSubOK, Switching, Starting, chatVars
<1>2. ASSUME NEW s \in VoiceStates, Settle(s), s.ch # NoChannel, pc \notin Switching,
             UNCHANGED <<subscribed, chatVars>>
      PROVE  ViewInv'
  <2>1. /\ pc' = "chat" /\ UNCHANGED <<job, k, target>>
        /\ \/ pending' = NoChannel /\ voice'.ch = s.ch
           \/ UNCHANGED <<voice, pending>>
    BY <1>2 DEF Settle, ClearPending, VoiceStates
  <2> QED BY <1>2, <2>1 DEF ViewInv, ViewOK, SwitchOK, ChatSubOK, Switching, Starting, chatVars
<1>3. CASE Sync
  <2>1. PICK s \in {Selected, NoVoice} :
          \/ /\ s.ch = NoChannel /\ EnterUnsub("abandon")
             /\ UNCHANGED <<voice, pending, attempts, target>>
          \/ /\ s.ch \notin {NoChannel, pending} /\ Schedule(s.ch, "resync")
             /\ UNCHANGED <<voice, pending, attempts>>
          \/ s.ch # NoChannel /\ Settle(s)
    BY <1>3 DEF Sync
  <2>2. pc = "sync" /\ pending # NoChannel /\ UNCHANGED <<subscribed, chatVars>>
    BY <1>3 DEF Sync
  <2>3. CASE /\ EnterUnsub("abandon") /\ UNCHANGED <<voice, pending, attempts, target>>
    BY <2>2, <2>3 DEF EnterUnsub, ViewInv, ViewOK, SwitchOK, ChatSubOK, Switching, Starting, chatVars
  <2>4. CASE /\ s.ch \notin {NoChannel, pending} /\ Schedule(s.ch, "resync")
             /\ UNCHANGED <<voice, pending, attempts>>
    BY <2>2, <2>4 DEF Schedule, EnterUnsub, ViewInv, ViewOK, SwitchOK, ChatSubOK, Switching,
       Starting, chatVars
  <2>5. CASE s.ch # NoChannel /\ Settle(s)
    BY <1>2, <2>2, <2>5, GetIs DEF Switching
  <2> QED BY <2>1, <2>3, <2>4, <2>5
<1>4. CASE SyncAgain
  <2>1. PICK s \in {Selected, NoVoice} :
          \/ Goto("chat") /\ UNCHANGED <<voice, pending, attempts>>
          \/ s.ch # NoChannel /\ Settle(s)
    BY <1>4 DEF SyncAgain
  <2>2. pc = "syncAgain" /\ UNCHANGED <<subscribed, chatVars>>
    BY <1>4 DEF SyncAgain
  <2>3. CASE Goto("chat") /\ UNCHANGED <<voice, pending, attempts>>
    BY <2>2, <2>3, ViewMove DEF Goto, viewVars, chatVars, Calm, Switching
  <2>4. CASE s.ch # NoChannel /\ Settle(s)
    BY <1>2, <2>2, <2>4, GetIs DEF Switching
  <2> QED BY <2>1, <2>3, <2>4
<1> QED BY <1>1, <1>3, <1>4

LEMMA ViewDispatch == ASSUME TypeInv, ViewInv, Dispatch PROVE ViewInv'
<1>1. PICK e : HandleSelect(e) \/ HandleVoice(e) \/ HandleChat(e)
  BY DEF Dispatch
<1>2. pc = "drain" /\ UNCHANGED <<subscribed, pending, attempts, chatVars>>
  BY DEF Dispatch
<1>3. CASE HandleSelect(e)
  BY <1>2, <1>3 DEF HandleSelect, Schedule, EnterUnsub, ViewInv, ViewOK, SwitchOK, ChatSubOK,
     Switching, Starting, chatVars
<1>4. CASE HandleVoice(e) \/ HandleChat(e)
  <2>1. /\ voice'.ch = voice.ch /\ (voice.ch = NoChannel => voice' = voice)
        /\ UNCHANGED <<pc, job, k, target>>
    BY <1>4 DEF HandleVoice, HandleChat, AppliedVoice, TypeInv, TypeOK, VoiceStates
  <2> QED BY <1>2, <2>1 DEF ViewInv, ViewOK, SwitchOK, ChatSubOK, Switching, Starting, chatVars
<1> QED BY <1>1, <1>3, <1>4

LEMMA ViewStep == ASSUME TypeInv, ViewInv, [Next]_vars PROVE ViewInv'
<1>1. CASE UNCHANGED vars
  BY <1>1, ViewFrame DEF vars, viewVars, voiceVars, chatVars, controlVars
<1> QED BY <1>1, ViewOutside, ViewSession, ViewSwitch, ViewChat, ViewGet, ViewDispatch
        DEF Next, Daemon

LEMMA ViewCorrect == Spec => [](TypeInv /\ ViewInv)
<1>1. Init => TypeInv /\ ViewInv
  BY TypeInit, ViewInit
<1>2. TypeInv /\ ViewInv /\ [Next]_vars => TypeInv' /\ ViewInv'
  BY TypeStep, ViewStep
<1> QED BY <1>1, <1>2, PTL DEF Spec
-----------------------------------------------------------------------------
(* What is shown is what the daemon believes subscribed.                   *)

LEMMA ShownFrame ==
  ASSUME ShownInv, UNCHANGED subscribed, voice'.ch = voice.ch, pc \in Switching => pc' \in Switching
  PROVE  ShownInv'
BY DEF ShownInv

(* Steps that leave both the channel shown and the one subscribed alone.   *)
LEMMA ShownKept ==
  ASSUME TypeInv,
         \/ Discord \/ EditConfig \/ TrayTogglesChat \/ Reconnect \/ RetryDue
         \/ StartSession \/ SubscribeSelect \/ LoopTop \/ DrainDone \/ Publish \/ SyncIdle
         \/ ConfigUnchanged \/ ConfigChanged \/ ControlIdle
         \/ RefreshChat \/ ChatUnsubscribe \/ ClearChatState \/ ChatSubscribe
         \/ Unsubscribe \/ Subscribe
  PROVE  /\ UNCHANGED <<subscribed, pending>> /\ voice'.ch = voice.ch
         /\ voice'.users = voice.users
         /\ pc \in Switching => pc' \in Switching
<1>1. CASE Discord \/ EditConfig
  BY <1>1 DEF Discord, EditConfig, SelectChannel, Join, Leave, Change, Move, Post, Hangup,
     voiceVars, controlVars
<1>2. CASE TrayTogglesChat \/ Reconnect \/ RetryDue \/ StartSession \/ SubscribeSelect
  BY <1>2 DEF TrayTogglesChat, Reconnect, RetryDue, StartSession, SubscribeSelect, Goto,
     voiceVars, controlVars, Switching
<1>3. CASE LoopTop \/ DrainDone \/ SyncIdle \/ ConfigUnchanged \/ ConfigChanged \/ ControlIdle
  BY <1>3 DEF LoopTop, DrainDone, SyncIdle, ConfigUnchanged, ConfigChanged, ControlIdle, Goto,
     voiceVars, Switching
<1>4. CASE RefreshChat \/ ChatUnsubscribe \/ ChatSubscribe
  BY <1>4 DEF RefreshChat, ChatUnsubscribe, ChatSubscribe, voiceVars, Switching
<1>5. CASE Unsubscribe \/ Subscribe
  BY <1>5 DEF Unsubscribe, Subscribe, voiceVars, Switching
<1>6. CASE Publish
  <2>1. PICK kept \in SUBSET voice.chat : voice' = [voice EXCEPT !.chat = kept]
    BY <1>6 DEF Publish
  <2> QED BY <1>6, <2>1, ChatOnly DEF Publish, Switching
<1>7. CASE ClearChatState
  <2>1. voice' = [voice EXCEPT !.chat = {}] /\ {} \in SUBSET voice.chat
    BY <1>7 DEF ClearChatState
  <2> QED BY <1>7, <2>1, ChatOnly DEF ClearChatState, Switching
<1> QED BY <1>1, <1>2, <1>3, <1>4, <1>5, <1>6, <1>7

LEMMA ShownStep ==
  ASSUME MaxAttempts > 1, TypeInv, ViewInv, ShownInv, [Next]_vars
  PROVE  ShownInv'
<1>1. CASE UNCHANGED vars
  BY <1>1, ShownFrame DEF vars, voiceVars, controlVars
<1>2. CASE FirstGet
  <2>1. PICK s \in {Selected, NoVoice} :
          voice' = s /\ pc' = IF s.ch = NoChannel THEN "chat" ELSE "sub"
    BY <1>2 DEF FirstGet
  <2> QED BY <2>1 DEF ShownInv, Switching
<1>3. CASE AfterUnsubscribe
  <2>1. \/ pc' = "sub" \/ voice' = NoVoice \/ (job = "abandon" /\ voice' = voice)
    BY <1>3 DEF AfterUnsubscribe
  <2>2. job = "abandon" => voice.ch = NoChannel
    BY <1>3 DEF AfterUnsubscribe, ViewInv, SwitchOK, Switching
  <2> QED BY <2>1, <2>2 DEF ShownInv, Switching, NoVoice
<1>4. CASE AfterSubscribe
  <2>1. \/ voice' = NoVoice
        \/ job = "start" /\ voice' = voice /\ subscribed' = target
    BY <1>4 DEF AfterSubscribe
  <2>2. job = "start" => voice.ch = target
    BY <1>4 DEF AfterSubscribe, ViewInv, SwitchOK, Switching
  <2> QED BY <2>1, <2>2 DEF ShownInv, NoVoice
<1>5. CASE Sync
  <2>1. PICK s \in {Selected, NoVoice} :
          \/ EnterUnsub("abandon") \/ Schedule(s.ch, "resync")
          \/ s.ch # NoChannel /\ s.ch = pending /\ Settle(s)
    BY <1>5 DEF Sync
  <2>2. pc = "sync" /\ UNCHANGED subscribed /\ subscribed = pending
    BY <1>5 DEF Sync, ViewInv, ViewOK, Switching
  <2>3. CASE EnterUnsub("abandon") \/ Schedule(s.ch, "resync")
    BY <2>3 DEF EnterUnsub, Schedule, ShownInv, Switching
  <2>4. CASE s.ch # NoChannel /\ s.ch = pending /\ Settle(s)
    <3>1. voice'.ch = s.ch \/ voice' = voice
      BY <2>4, GetIs DEF Settle, VoiceStates
    <3> QED BY <2>2, <2>4, <3>1 DEF ShownInv, Switching
  <2> QED BY <2>1, <2>3, <2>4
<1>6. CASE SyncAgain
  <2>1. PICK s \in {Selected, NoVoice} : Settle(s) \/ voice' = voice
    BY <1>6 DEF SyncAgain
  <2>2. /\ pc = "syncAgain" /\ UNCHANGED subscribed /\ subscribed = pending /\ attempts > 1
    BY <1>6 DEF SyncAgain, ViewInv, ViewOK, Switching
  <2>3. voice' = voice \/ (voice' = s /\ s.ch = pending)
    BY <2>1, <2>2 DEF Settle
  <2> QED BY <2>2, <2>3 DEF ShownInv, Switching
<1>7. CASE Dispatch
  <2>1. PICK e : HandleSelect(e) \/ HandleVoice(e) \/ HandleChat(e)
    BY <1>7 DEF Dispatch
  <2>2. pc = "drain" /\ UNCHANGED subscribed
    BY <1>7 DEF Dispatch
  <2>3. voice'.ch = voice.ch
    BY <2>1 DEF HandleSelect, HandleVoice, HandleChat, AppliedVoice, TypeInv, TypeOK, VoiceStates
  <2> QED BY <2>2, <2>3, ShownFrame DEF Switching
<1>8. CASE Cleanup
  BY <1>8 DEF Cleanup, ShownInv, NoVoice
<1> QED BY <1>1, <1>2, <1>3, <1>4, <1>5, <1>6, <1>7, <1>8, ShownKept, ShownFrame DEF Next, Daemon

(* It takes a retry: with one attempt the daemon may show a channel it has *)
(* not subscribed.                                                         *)
LEMMA ShownCorrect == ASSUME MaxAttempts > 1 PROVE Spec => []ShownInv
<1>1. Init => ShownInv
  BY DEF Init, ShownInv, NoVoice
<1>2. TypeInv /\ ViewInv /\ ShownInv /\ [Next]_vars => ShownInv'
  BY ShownStep
<1> QED BY <1>1, <1>2, ViewCorrect, PTL DEF Spec
-----------------------------------------------------------------------------
(* Subscriptions: what Discord has been asked for.                         *)

OtherSubs == {s \in subs : s[1] # "SELECT"}

(* The third conjunct of SubsInv.                                          *)
AsAsked == up /\ refused = 0 =>
             /\ OtherSubs = VoiceAsked \cup ChatAsked
             /\ pc \notin {"offline", "subscribeSelect"} => <<"SELECT", NoChannel>> \in subs

(* The other two.                                                          *)
QuietInv == /\ pc \in {"offline", "subscribeSelect"} => subs = {} /\ stream = <<>> /\ inbox = <<>>
            /\ pc = "offline" => ~up

LEMMA SubsSplit == SubsInv <=> QuietInv /\ AsAsked
BY DEF SubsInv, QuietInv, AsAsked, OtherSubs

LEMMA KindsDiffer ==
  /\ \A i, j \in 1..5 : VoiceKinds[i] = VoiceKinds[j] => i = j
  /\ \A i, j \in 1..3 : ChatKinds[i] = ChatKinds[j] => i = j
  /\ \A i \in 1..5, j \in 1..3 : VoiceKinds[i] # ChatKinds[j]
  /\ \A i \in 1..5 : VoiceKinds[i] # "SELECT"
  /\ \A i \in 1..3 : ChatKinds[i] # "SELECT"
BY DEF VoiceKinds, ChatKinds

LEMMA AskedNone ==
  ASSUME NEW kinds
  PROVE  /\ \A I : Asked(kinds, I, NoChannel) = {}
         /\ \A c : Asked(kinds, {}, c) = {}
BY DEF Asked

(* One more request, one fewer.                                            *)
LEMMA AskedVoice ==
  ASSUME NEW i \in 1..5, NEW c, c # NoChannel
  PROVE  /\ Asked(VoiceKinds, i..5, c) \ {<<VoiceKinds[i], c>>} = Asked(VoiceKinds, (i + 1)..5, c)
         /\ Asked(VoiceKinds, 1..(i - 1), c) \cup {<<VoiceKinds[i], c>>} = Asked(VoiceKinds, 1..i, c)
<1>1. \A I : Asked(VoiceKinds, I, c) = {<<VoiceKinds[j], c>> : j \in I}
  BY DEF Asked
<1>2. i..5 = {i} \cup ((i + 1)..5) /\ 1..i = (1..(i - 1)) \cup {i}
  OBVIOUS
<1>3. \A j \in (i + 1)..5 : VoiceKinds[j] # VoiceKinds[i]
  BY KindsDiffer
<1>4. {<<VoiceKinds[j], c>> : j \in i..5} \ {<<VoiceKinds[i], c>>} = {<<VoiceKinds[j], c>> : j \in (i + 1)..5}
  BY <1>2, <1>3
<1>5. {<<VoiceKinds[j], c>> : j \in 1..(i - 1)} \cup {<<VoiceKinds[i], c>>} = {<<VoiceKinds[j], c>> : j \in 1..i}
  BY <1>2
<1> QED BY <1>1, <1>4, <1>5

LEMMA AskedChat ==
  ASSUME NEW i \in 1..3, NEW c, c # NoChannel
  PROVE  /\ Asked(ChatKinds, i..3, c) \ {<<ChatKinds[i], c>>} = Asked(ChatKinds, (i + 1)..3, c)
         /\ Asked(ChatKinds, 1..(i - 1), c) \cup {<<ChatKinds[i], c>>} = Asked(ChatKinds, 1..i, c)
<1>1. \A I : Asked(ChatKinds, I, c) = {<<ChatKinds[j], c>> : j \in I}
  BY DEF Asked
<1>2. i..3 = {i} \cup ((i + 1)..3) /\ 1..i = (1..(i - 1)) \cup {i}
  OBVIOUS
<1>3. \A j \in (i + 1)..3 : ChatKinds[j] # ChatKinds[i]
  BY KindsDiffer
<1>4. {<<ChatKinds[j], c>> : j \in i..3} \ {<<ChatKinds[i], c>>} = {<<ChatKinds[j], c>> : j \in (i + 1)..3}
  BY <1>2, <1>3
<1>5. {<<ChatKinds[j], c>> : j \in 1..(i - 1)} \cup {<<ChatKinds[i], c>>} = {<<ChatKinds[j], c>> : j \in 1..i}
  BY <1>2
<1> QED BY <1>1, <1>4, <1>5

LEMMA AskedKinds ==
  ASSUME TypeInv, ViewInv
  PROVE  /\ \A s \in VoiceAsked : s[1] \in VoiceEvts
         /\ \A s \in ChatAsked : s[1] \in ChatEvts
<1>1. /\ \A i \in 1..5 : VoiceKinds[i] \in VoiceEvts
      /\ \A i \in 1..3 : ChatKinds[i] \in ChatEvts
  BY KindSets, Kinds
<1>2. ASSUME NEW I \in SUBSET (1..5), NEW c, NEW s \in Asked(VoiceKinds, I, c)
      PROVE  s[1] \in VoiceEvts
  <2>1. PICK i \in I : s = <<VoiceKinds[i], c>>
    BY <1>2 DEF Asked
  <2> QED BY <1>1, <2>1
<1>3. ASSUME NEW I \in SUBSET (1..3), NEW c, NEW s \in Asked(ChatKinds, I, c)
      PROVE  s[1] \in ChatEvts
  <2>1. PICK i \in I : s = <<ChatKinds[i], c>>
    BY <1>3 DEF Asked
  <2> QED BY <1>1, <2>1
<1>4. k \in 1..5 /\ (pc \in {"chatUnsub", "chatSub"} => k <= 3)
  BY DEF TypeInv, TypeOK, ViewInv, ChatSubOK
<1>5. \A s \in VoiceAsked : s[1] \in VoiceEvts
  <2>1. k..5 \in SUBSET (1..5) /\ 1..(k - 1) \in SUBSET (1..5)
    BY <1>4
  <2> QED BY <1>2, <2>1 DEF VoiceAsked
<1>6. \A s \in ChatAsked : s[1] \in ChatEvts
  <2>1. /\ pc \in {"chatUnsub", "chatSub"} =>
             k..3 \in SUBSET (1..3) /\ 1..(k - 1) \in SUBSET (1..3)
        /\ 1..3 \in SUBSET (1..3)
    BY <1>4
  <2> QED BY <1>3, <2>1 DEF ChatAsked
<1> QED BY <1>5, <1>6

(* Nothing of this changes while the thread is elsewhere.                  *)
Chatting == {"chatUnsub", "chatCleared", "chatSub"}

LEMMA AskedOutside ==
  /\ pc \notin Switching => VoiceAsked = Asked(VoiceKinds, 1..5, subscribed)
  /\ pc \notin Chatting => ChatAsked = Asked(ChatKinds, 1..3, subscribedChat)
BY DEF VoiceAsked, ChatAsked, Switching, Chatting

LEMMA AskedOutsideNext ==
  /\ pc' \notin Switching => VoiceAsked' = Asked(VoiceKinds, 1..5, subscribed')
  /\ pc' \notin Chatting => ChatAsked' = Asked(ChatKinds, 1..3, subscribedChat')
BY DEF VoiceAsked, ChatAsked, Switching, Chatting

LEMMA SubsFrame ==
  ASSUME AsAsked, UNCHANGED <<subs, refused, VoiceAsked, ChatAsked>>, up' => up,
         pc \in {"offline", "subscribeSelect"} => pc' = pc
  PROVE  AsAsked'
BY DEF AsAsked, OtherSubs

(* A refused request, or a closed connection: nothing more is claimed.     *)
LEMMA SubsFailed == ASSUME TypeInv, RpcFails PROVE AsAsked'
<1>1. refused' = refused + 1 \/ ~up'
  BY DEF RpcFails
<1>2. refused \in Nat
  BY SessionAssumption DEF TypeInv, TypeOK
<1> QED BY <1>1, <1>2 DEF AsAsked

LEMMA RpcKeeps ==
  ASSUME RpcOk \/ RpcFails
  PROVE  /\ up' = up
         /\ RpcOk => up /\ refused' = refused
         /\ RpcFails /\ TypeInv => ~up' \/ refused' # 0
<1>1. TypeInv => refused \in Nat
  BY SessionAssumption DEF TypeInv, TypeOK
<1>2. RpcFails => up' = up
  BY DEF RpcFails
<1>3. RpcOk => up /\ up' = up /\ refused' = refused
  BY DEF RpcOk
<1>4. RpcFails => ~up' \/ refused' = refused + 1
  BY DEF RpcFails
<1> QED BY <1>1, <1>2, <1>3, <1>4
(* The thread leaves these labels for good, until the next session.        *)
LEMMA NeverBack ==
  ASSUME TypeInv,
         \/ SubscribeSelect \/ FirstGet \/ Unsubscribe \/ AfterUnsubscribe \/ Subscribe
         \/ AfterSubscribe \/ SyncIdle \/ Sync \/ SyncAgain
         \/ RefreshChat \/ ChatUnsubscribe \/ ClearChatState \/ ChatSubscribe
         \/ LoopTop \/ Dispatch \/ DrainDone \/ Publish
         \/ ConfigUnchanged \/ ConfigChanged \/ ControlIdle \/ TrayTogglesChat \/ Reconnect
  PROVE  /\ pc' \notin {"offline", "subscribeSelect"}
         /\ SubscribeSelect \/ pc \notin {"offline", "subscribeSelect"}
<1>0. chatRet \notin {"offline", "subscribeSelect"}
  BY DEF TypeInv, TypeOK
<1>1. CASE SubscribeSelect \/ FirstGet \/ Unsubscribe \/ Subscribe \/ SyncIdle
  BY <1>1 DEF SubscribeSelect, FirstGet, Unsubscribe, Subscribe, SyncIdle, Goto
<1>2. CASE AfterUnsubscribe \/ AfterSubscribe
  BY <1>2 DEF AfterUnsubscribe, AfterSubscribe, TypeInv
<1>3. CASE Sync \/ SyncAgain
  BY <1>3 DEF Sync, SyncAgain, Goto, EnterUnsub, Schedule, Settle
<1>4. CASE RefreshChat \/ ChatUnsubscribe \/ ClearChatState \/ ChatSubscribe
  BY <1>0, <1>4 DEF RefreshChat, ChatUnsubscribe, ClearChatState, ChatSubscribe, Goto
<1>5. CASE LoopTop \/ DrainDone \/ Publish \/ ConfigUnchanged \/ ConfigChanged \/ ControlIdle
           \/ TrayTogglesChat \/ Reconnect
  BY <1>5 DEF LoopTop, DrainDone, Publish, ConfigUnchanged, ConfigChanged, ControlIdle,
     TrayTogglesChat, Reconnect, Goto
<1>6. CASE Dispatch
  BY <1>6 DEF Dispatch, HandleSelect, HandleVoice, HandleChat, EnterUnsub, Schedule
<1> QED BY <1>1, <1>2, <1>3, <1>4, <1>5, <1>6

(* What Discord does leaves the daemon's labels and requests alone.        *)
LEMMA OutsideFrame ==
  ASSUME Discord \/ EditConfig \/ RetryDue
  PROVE  /\ UNCHANGED <<controlVars, voice, subscribed, pending, chatVars, subs, refused, inbox,
                        attempts, shown, local, connected>>
         /\ up' => up
<1>1. CASE Discord
  <2>1. CASE Hangup
    BY <2>1 DEF Hangup, voiceVars
  <2>2. ASSUME NEW c \in Channels \cup {NoChannel}, SelectChannel(c)
        PROVE  /\ UNCHANGED <<controlVars, voiceVars, chatVars, subs, up, refused, inbox, shown,
                              local, connected>>
    BY <2>2 DEF SelectChannel
  <2>3. ASSUME NEW u \in Users, NEW c \in Channels,
               Join(u, c) \/ Leave(u, c) \/ \E evt \in {"UPDATE", "START", "STOP"} : Change(u, c, evt)
        PROVE  /\ UNCHANGED <<controlVars, voiceVars, chatVars, subs, up, refused, inbox, shown,
                              local, connected>>
    BY <2>3 DEF Join, Leave, Change, Move
  <2>4. ASSUME NEW m \in Messages, NEW evt \in ChatEvts, Post(m, evt)
        PROVE  /\ UNCHANGED <<controlVars, voiceVars, chatVars, subs, up, refused, inbox, shown,
                              local, connected>>
    BY <2>4 DEF Post
  <2> QED BY <1>1, <2>1, <2>2, <2>3, <2>4 DEF Discord, ChatEvts, voiceVars
<1>2. CASE EditConfig \/ RetryDue
  BY <1>2 DEF EditConfig, RetryDue, socketVars, voiceVars
<1> QED BY <1>1, <1>2

(* Nothing is sent that was not asked for.                                 *)
LEMMA NothingSent == ASSUME Discord, subs = {}, Queues PROVE stream' = stream
<1>1. ASSUME NEW c \in Channels \cup {NoChannel}, SelectChannel(c) PROVE stream' = stream
  <2>1. stream \o <<>> = stream
    BY ConcatEmptySeq DEF Queues
  <2> QED BY <1>1, <2>1 DEF SelectChannel
<1>2. ASSUME NEW evt, NEW c, NEW who, Emit(evt, c, who) PROVE stream' = stream
  BY <1>2 DEF Emit
<1>3. ASSUME NEW u \in Users, NEW c \in Channels, Join(u, c) \/ Leave(u, c) PROVE stream' = stream
  BY <1>2, <1>3 DEF Join, Leave
<1>4. ASSUME NEW u \in Users, NEW c \in Channels, NEW evt, Change(u, c, evt)
      PROVE  stream' = stream
  BY <1>2, <1>4 DEF Change
<1>5. ASSUME NEW m \in Messages, NEW evt, Post(m, evt) PROVE stream' = stream
  BY <1>2, <1>5 DEF Post
<1>6. CASE Hangup
  BY <1>6 DEF Hangup
<1> QED BY <1>1, <1>3, <1>4, <1>5, <1>6 DEF Discord

LEMMA QuietStep == ASSUME TypeInv, QuietInv, [Next]_vars PROVE QuietInv'
<1>1. CASE UNCHANGED vars
  BY <1>1 DEF vars, QuietInv, socketVars, controlVars
<1>2. CASE Discord
  <2>1. UNCHANGED <<pc, subs, inbox>> /\ (up' => up)
    BY <1>2, OutsideFrame DEF controlVars
  <2>2. subs = {} => stream' = stream
    BY <1>2, NothingSent, TypeQueues DEF TypeInv
  <2> QED BY <2>1, <2>2 DEF QuietInv
<1>3. CASE EditConfig \/ RetryDue
  BY <1>3 DEF EditConfig, RetryDue, QuietInv, socketVars, controlVars
<1>4. CASE StartSession \/ Cleanup
  BY <1>4 DEF StartSession, Cleanup, Goto, QuietInv
<1> QED BY <1>1, <1>2, <1>3, <1>4, NeverBack DEF Next, Daemon, QuietInv
(* Steps that ask for nothing and change no subscription.                  *)
LEMMA AsAskedQuiet ==
  ASSUME TypeInv, ViewInv, AsAsked, UNCHANGED <<subs, refused, subscribed, subscribedChat>>,
         up' => up, pc \notin {"offline", "subscribeSelect"},
         pc \notin Switching \cup Chatting, pc' \notin Switching \cup Chatting
  PROVE  AsAsked'
BY AskedOutside, AskedOutsideNext DEF AsAsked, OtherSubs

LEMMA AsAskedOutside ==
  ASSUME TypeInv, ViewInv, AsAsked,
         \/ Discord \/ EditConfig \/ RetryDue \/ TrayTogglesChat \/ Reconnect
         \/ LoopTop \/ DrainDone \/ Publish \/ SyncIdle
         \/ ConfigUnchanged \/ ConfigChanged \/ ControlIdle
  PROVE  AsAsked'
<1>1. CASE Discord \/ EditConfig \/ RetryDue
  <2>1. /\ UNCHANGED <<subs, refused, pc, k, subscribed, target, subscribedChat, voice>>
        /\ up' => up
    BY <1>1, OutsideFrame DEF controlVars, chatVars
  <2>2. VoiceAsked' = VoiceAsked /\ ChatAsked' = ChatAsked
    BY <2>1 DEF VoiceAsked, ChatAsked
  <2> QED BY <2>1, <2>2, SubsFrame
<1>2. CASE TrayTogglesChat \/ Reconnect \/ LoopTop \/ DrainDone \/ Publish \/ SyncIdle
           \/ ConfigUnchanged \/ ConfigChanged \/ ControlIdle
  <2>1. UNCHANGED <<subs, refused, subscribed, subscribedChat, up>>
    BY <1>2 DEF TrayTogglesChat, Reconnect, LoopTop, DrainDone, Publish, SyncIdle, ConfigUnchanged,
       ConfigChanged, ControlIdle, socketVars, voiceVars, chatVars
  <2>2. pc \in Calm /\ pc' \in Calm
    BY <1>2 DEF TrayTogglesChat, Reconnect, LoopTop, DrainDone, Publish, SyncIdle, ConfigUnchanged,
       ConfigChanged, ControlIdle, Goto, Calm
  <2>3. \A l \in Calm : l \notin Switching \cup Chatting /\ l \notin {"offline", "subscribeSelect"}
    BY DEF Calm, Switching, Chatting
  <2> QED BY <2>1, <2>2, <2>3, AsAskedQuiet
<1> QED BY <1>1, <1>2

LEMMA AsAskedSession ==
  ASSUME TypeInv, ViewInv, SubsInv, StartSession \/ SubscribeSelect \/ FirstGet \/ Cleanup
  PROVE  AsAsked'
<1>1. CASE StartSession
  <2>1. UNCHANGED <<subscribed, subscribedChat>> /\ subs' = {} /\ pc' = "subscribeSelect"
        /\ pc \in Starting
    BY <1>1 DEF StartSession, voiceVars, chatVars, Starting
  <2>2. subscribed' = NoChannel /\ subscribedChat' = NoChannel
    BY <2>1 DEF ViewInv, ViewOK
  <2>3. pc' \notin Switching \cup Chatting
    BY <2>1 DEF Switching, Chatting
  <2>4. VoiceAsked' = {} /\ ChatAsked' = {}
    BY <2>2, <2>3, AskedNone, AskedOutsideNext
  <2> QED BY <2>1, <2>4 DEF AsAsked, OtherSubs
<1>2. CASE SubscribeSelect
  <2>1. /\ pc = "subscribeSelect" /\ pc' = "firstGet" /\ subs = {}
        /\ UNCHANGED <<subscribed, subscribedChat>>
    BY <1>2 DEF SubscribeSelect, Goto, voiceVars, chatVars, SubsInv
  <2>2. subscribed' = NoChannel /\ subscribedChat' = NoChannel
    BY <2>1 DEF ViewInv, ViewOK, Starting
  <2>3. pc' \notin Switching \cup Chatting
    BY <2>1 DEF Switching, Chatting
  <2>4. VoiceAsked' = {} /\ ChatAsked' = {}
    BY <2>2, <2>3, AskedNone, AskedOutsideNext
  <2>5. CASE RpcFails
    BY <2>5, SubsFailed
  <2>6. CASE subs' = subs \cup {<<"SELECT", NoChannel>>}
    BY <2>1, <2>4, <2>6 DEF AsAsked, OtherSubs
  <2> QED BY <1>2, <2>5, <2>6 DEF SubscribeSelect
<1>3. CASE FirstGet
  <2>1. PICK s \in {Selected, NoVoice} :
          Get(s) /\ target' = s.ch /\ pc' = IF s.ch = NoChannel THEN "chat" ELSE "sub"
    BY <1>3 DEF FirstGet
  <2>2. /\ pc = "firstGet" /\ k' = 1 /\ UNCHANGED <<subs, subscribed, subscribedChat>>
    BY <1>3 DEF FirstGet, chatVars
  <2>3. subscribed = NoChannel /\ subscribedChat = NoChannel
    BY <2>2 DEF ViewInv, ViewOK, Starting
  <2>4. VoiceAsked = {} /\ ChatAsked = {}
    BY <2>2, <2>3, AskedNone, AskedOutside DEF Switching, Chatting
  <2>5. VoiceAsked' = {}
    <3>1. CASE pc' = "sub"
      BY <2>2, <3>1, AskedNone DEF VoiceAsked
    <3>2. CASE pc' = "chat"
      BY <2>2, <2>3, <3>2, AskedNone, AskedOutsideNext DEF Switching
    <3> QED BY <2>1, <3>1, <3>2
  <2>6. ChatAsked' = {}
    BY <2>1, <2>2, <2>3, AskedNone, AskedOutsideNext DEF Chatting
  <2>7. RpcFails \/ (up /\ up' = up /\ refused' = refused)
    BY <2>1 DEF Get, RpcOk
  <2>8. CASE up /\ up' = up /\ refused' = refused
    BY <2>1, <2>2, <2>4, <2>5, <2>6, <2>8 DEF SubsInv, AsAsked, OtherSubs
  <2> QED BY <2>7, <2>8, SubsFailed
<1>4. CASE Cleanup
  <2>1. ~up'
    BY <1>4 DEF Cleanup
  <2> QED BY <2>1 DEF AsAsked
<1> QED BY <1>1, <1>2, <1>3, <1>4

(* Requests about the voice channel.                                       *)
LEMMA AsAskedVoice ==
  ASSUME TypeInv, ViewInv, AsAsked, Unsubscribe \/ Subscribe
  PROVE  AsAsked'
<1>0. /\ k \in 1..5 /\ VoiceKinds[k] # "SELECT"
      /\ ~RpcFails => up /\ up' = up /\ refused' = refused
      /\ UNCHANGED <<subscribed, target, subscribedChat>>
      /\ pc \in {"unsub", "sub"} /\ pc' \in Switching
  <2>1. ~RpcFails => RpcOk
    BY DEF Unsubscribe, Subscribe
  <2> QED BY <2>1, KindsDiffer DEF Unsubscribe, Subscribe, RpcOk, TypeInv, TypeOK, voiceVars, chatVars,
             Switching
<1>1. CASE RpcFails
  BY <1>1, SubsFailed
<1>2. ChatAsked' = ChatAsked
  BY <1>0, AskedOutside, AskedOutsideNext DEF Switching, Chatting
<1>3. CASE Unsubscribe /\ ~RpcFails
  <2>1. /\ pc = "unsub" /\ subs' = subs \ {<<VoiceKinds[k], subscribed>>}
        /\ \/ k < 5 /\ k' = k + 1 /\ pc' = "unsub"
           \/ k = 5 /\ pc' = "unsubscribed"
    BY <1>0, <1>3, Kinds DEF Unsubscribe
  <2>2. subscribed # NoChannel
    BY <2>1 DEF ViewInv, SwitchOK
  <2>3. VoiceAsked = Asked(VoiceKinds, k..5, subscribed)
    BY <2>1 DEF VoiceAsked
  <2>4. VoiceAsked \ {<<VoiceKinds[k], subscribed>>} = Asked(VoiceKinds, (k + 1)..5, subscribed)
    BY <1>0, <2>2, <2>3, AskedVoice
  <2>5. VoiceAsked' = Asked(VoiceKinds, (k + 1)..5, subscribed)
    <3>1. CASE k < 5 /\ k' = k + 1 /\ pc' = "unsub"
      BY <1>0, <3>1 DEF VoiceAsked
    <3>2. CASE k = 5 /\ pc' = "unsubscribed"
      <4>1. (k + 1)..5 = {}
        BY <3>2
      <4> QED BY <3>2, <4>1, AskedNone DEF VoiceAsked
    <3> QED BY <2>1, <3>1, <3>2
  <2>6. <<VoiceKinds[k], subscribed>> \notin ChatAsked
    <3>1. VoiceKinds[k] \in VoiceEvts
      BY <1>0, KindSets, Kinds
    <3> QED BY <3>1, AskedKinds DEF VoiceEvts, ChatEvts
  <2>7. OtherSubs' = OtherSubs \ {<<VoiceKinds[k], subscribed>>}
    BY <2>1 DEF OtherSubs
  <2>8. <<"SELECT", NoChannel>> \in subs => <<"SELECT", NoChannel>> \in subs'
    BY <1>0, <2>1
  <2> QED BY <1>0, <1>2, <1>3, <2>1, <2>4, <2>5, <2>6, <2>7, <2>8 DEF AsAsked, Switching
<1>4. CASE Subscribe /\ ~RpcFails
  <2>1. /\ pc = "sub" /\ subs' = subs \cup {<<VoiceKinds[k], target>>}
        /\ \/ k < 5 /\ k' = k + 1 /\ pc' = "sub"
           \/ k = 5 /\ pc' = "subscribed"
    BY <1>0, <1>4, Kinds DEF Subscribe
  <2>2. target # NoChannel
    BY <2>1 DEF ViewInv, SwitchOK, Switching, TypeInv
  <2>3. VoiceAsked = Asked(VoiceKinds, 1..(k - 1), target)
    BY <2>1 DEF VoiceAsked
  <2>4. VoiceAsked \cup {<<VoiceKinds[k], target>>} = Asked(VoiceKinds, 1..k, target)
    BY <1>0, <2>2, <2>3, AskedVoice
  <2>5. VoiceAsked' = Asked(VoiceKinds, 1..k, target)
    <3>1. CASE k < 5 /\ k' = k + 1 /\ pc' = "sub"
      <4>1. k' - 1 = k
        BY <1>0, <3>1
      <4> QED BY <1>0, <3>1, <4>1 DEF VoiceAsked
    <3>2. CASE k = 5 /\ pc' = "subscribed"
      BY <1>0, <3>2 DEF VoiceAsked
    <3> QED BY <2>1, <3>1, <3>2
  <2>7. OtherSubs' = OtherSubs \cup {<<VoiceKinds[k], target>>}
    BY <1>0, <2>1 DEF OtherSubs
  <2> QED BY <1>0, <1>2, <1>4, <2>1, <2>4, <2>5, <2>7 DEF AsAsked, Switching
<1> QED BY <1>1, <1>3, <1>4
LEMMA AsAskedAfter ==
  ASSUME TypeInv, ViewInv, AsAsked, AfterUnsubscribe \/ AfterSubscribe
  PROVE  AsAsked'
<1>0. /\ UNCHANGED <<subs, up, refused, subscribedChat, k, target>>
      /\ pc \in Switching /\ pc' \notin Chatting \cup {"unsub", "unsubscribed", "subscribed"}
  BY DEF AfterUnsubscribe, AfterSubscribe, socketVars, chatVars, Switching, Chatting, TypeInv
<1>1. ChatAsked' = ChatAsked
  BY <1>0, AskedOutside, AskedOutsideNext DEF Switching, Chatting
<1>2. VoiceAsked' = VoiceAsked
  <2>1. CASE AfterUnsubscribe
    <3>1. pc = "unsubscribed" /\ subscribed' = NoChannel /\ k = 1
      BY <2>1 DEF AfterUnsubscribe, ViewInv, ChatSubOK
    <3>2. VoiceAsked = {}
      BY <3>1 DEF VoiceAsked
    <3>3. CASE pc' = "sub"
      <4>1. 1..(k' - 1) = {}
        BY <1>0, <3>1
      <4> QED BY <3>2, <3>3, <4>1, AskedNone DEF VoiceAsked
    <3>4. CASE pc' \notin Switching
      BY <3>1, <3>2, <3>4, AskedNone, AskedOutsideNext
    <3> QED BY <1>0, <3>3, <3>4 DEF Switching
  <2>2. CASE AfterSubscribe
    <3>1. pc = "subscribed" /\ subscribed' = target /\ pc' \notin Switching
      BY <2>2 DEF AfterSubscribe, Switching, TypeInv
    <3> QED BY <3>1, AskedOutsideNext DEF VoiceAsked
  <2> QED BY <2>1, <2>2
<1> QED BY <1>0, <1>1, <1>2, SubsFrame DEF Switching

(* Entering a switch asks for nothing yet.                                 *)
LEMMA AskedEntering ==
  ASSUME pc \notin Switching, UNCHANGED subscribed,
         \/ EnterUnsub("deselect") \/ EnterUnsub("abandon")
         \/ \E c, next : Schedule(c, next)
  PROVE  VoiceAsked' = VoiceAsked /\ pc' \notin Chatting \cup {"offline", "subscribeSelect"}
<1>1. VoiceAsked = Asked(VoiceKinds, 1..5, subscribed)
  BY AskedOutside
<1>2. \/ /\ k' = 1
         /\ \/ pc' = "unsub"
            \/ pc' = "unsubscribed" /\ subscribed = NoChannel
      \/ pc' = "subscribed" /\ target' = subscribed
  BY DEF EnterUnsub, Schedule
<1>3. CASE k' = 1 /\ pc' = "unsub"
  BY <1>1, <1>3 DEF VoiceAsked, Chatting
<1>4. CASE pc' = "unsubscribed" /\ subscribed = NoChannel
  BY <1>1, <1>4, AskedNone DEF VoiceAsked, Chatting
<1>5. CASE pc' = "subscribed" /\ target' = subscribed
  BY <1>1, <1>5 DEF VoiceAsked, Chatting
<1> QED BY <1>2, <1>3, <1>4, <1>5

LEMMA AsAskedSync ==
  ASSUME TypeInv, ViewInv, AsAsked, Sync \/ SyncAgain \/ Dispatch
  PROVE  AsAsked'
<1>0. /\ UNCHANGED <<subs, subscribed, subscribedChat>> /\ pc \in {"sync", "syncAgain", "drain"}
      /\ RpcFails \/ (up' = up /\ refused' = refused)
  BY DEF Sync, SyncAgain, Dispatch, Get, RpcOk, chatVars
<1>1. \/ EnterUnsub("deselect") \/ EnterUnsub("abandon") \/ \E c, next : Schedule(c, next)
      \/ pc' = "chat" \/ pc' = pc
  BY DEF Sync, SyncAgain, Dispatch, HandleSelect, HandleVoice, HandleChat, Goto, Settle
<1>2. pc \notin Switching \cup Chatting \cup {"offline", "subscribeSelect"}
  BY <1>0 DEF Switching, Chatting
<1>3. VoiceAsked' = VoiceAsked /\ pc' \notin Chatting \cup {"offline", "subscribeSelect"}
  <2>1. CASE pc' = "chat" \/ pc' = pc
    BY <1>0, <1>2, <2>1, AskedOutside, AskedOutsideNext DEF Switching, Chatting
  <2>2. CASE EnterUnsub("deselect") \/ EnterUnsub("abandon") \/ \E c, next : Schedule(c, next)
    BY <1>0, <1>2, <2>2, AskedEntering
  <2> QED BY <1>1, <2>1, <2>2
<1>4. ChatAsked' = ChatAsked
  BY <1>0, <1>2, <1>3, AskedOutside, AskedOutsideNext
<1>5. CASE RpcFails
  BY <1>5, SubsFailed
<1>6. CASE up' = up /\ refused' = refused
  BY <1>0, <1>2, <1>3, <1>4, <1>6, SubsFrame
<1> QED BY <1>0, <1>5, <1>6

(* Requests about the chat.                                                *)
LEMMA AsAskedChat ==
  ASSUME TypeInv, ViewInv, AsAsked, RefreshChat \/ ChatUnsubscribe \/ ClearChatState \/ ChatSubscribe
  PROVE  AsAsked'
<1>0. /\ UNCHANGED <<subscribed>> /\ pc \in {"chat"} \cup Chatting /\ pc \notin Switching
      /\ pc' \notin Switching \cup {"offline", "subscribeSelect"}
  <2>1. \A l \in Calm : l \notin Switching /\ l \notin {"offline", "subscribeSelect"}
    BY DEF Calm, Switching
  <2> QED BY <2>1, CalmReturns DEF RefreshChat, ChatUnsubscribe, ClearChatState, ChatSubscribe, Goto,
             voiceVars, Chatting, Switching
<1>1. VoiceAsked' = VoiceAsked
  BY <1>0, AskedOutside, AskedOutsideNext
<1>2. chatRet \notin Chatting
  BY DEF TypeInv, TypeOK, Chatting
<1>3. CASE RefreshChat
  <2>1. /\ pc = "chat" /\ UNCHANGED <<subs, up, refused, subscribedChat>>
        /\ \/ pc' = chatRet
           \/ pc' = "chatUnsub" /\ k' = 1
           \/ pc' = "chatCleared" /\ subscribedChat = NoChannel
    BY <1>3 DEF RefreshChat, Goto, socketVars, chatVars
  <2>2. ChatAsked = Asked(ChatKinds, 1..3, subscribedChat)
    BY <2>1, AskedOutside DEF Chatting
  <2>3. CASE pc' = chatRet
    BY <1>1, <1>2, <2>1, <2>2, <2>3, AskedOutsideNext, SubsFrame
  <2>4. CASE pc' = "chatUnsub" /\ k' = 1
    <3>1. ChatAsked' = ChatAsked
      BY <2>1, <2>2, <2>4 DEF ChatAsked
    <3> QED BY <1>1, <2>1, <3>1, SubsFrame
  <2>5. CASE pc' = "chatCleared" /\ subscribedChat = NoChannel
    <3>1. ChatAsked' = ChatAsked
      BY <2>1, <2>2, <2>5, AskedNone DEF ChatAsked
    <3> QED BY <1>1, <2>1, <3>1, SubsFrame
  <2> QED BY <2>1, <2>3, <2>4, <2>5
<1>4. CASE ClearChatState
  <2>1. /\ pc = "chatCleared" /\ UNCHANGED <<subs, up, refused, k>> /\ subscribedChat' = NoChannel
        /\ pc' \in {"chatSub", chatRet} /\ k = 1
    BY <1>4 DEF ClearChatState, Goto, socketVars, ViewInv, ChatSubOK
  <2>2. ChatAsked = {}
    BY <2>1 DEF ChatAsked
  <2>3. CASE pc' = "chatSub"
    <3>1. 1..(k' - 1) = {}
      BY <2>1
    <3>2. ChatAsked' = {}
      BY <2>3, <3>1, AskedNone DEF ChatAsked
    <3> QED BY <1>1, <2>1, <2>2, <3>2, SubsFrame
  <2>4. CASE pc' = chatRet
    <3>1. ChatAsked' = {}
      BY <1>2, <2>1, <2>4, AskedNone, AskedOutsideNext
    <3> QED BY <1>1, <2>1, <2>2, <3>1, SubsFrame
  <2> QED BY <2>1, <2>3, <2>4
<1>5. CASE (ChatUnsubscribe \/ ChatSubscribe) /\ RpcFails
  BY <1>5, SubsFailed
<1>6. CASE ChatUnsubscribe /\ ~RpcFails
  <2>0. RpcOk
    BY <1>6 DEF ChatUnsubscribe
  <2>1. /\ pc = "chatUnsub" /\ subs' = subs \ {<<ChatKinds[k], subscribedChat>>}
        /\ up' = up /\ refused' = refused /\ up /\ UNCHANGED subscribedChat
        /\ \/ k < 3 /\ k' = k + 1 /\ pc' = "chatUnsub"
           \/ ~(k < 3) /\ pc' = "chatCleared"
    BY <1>6, <2>0, Kinds DEF ChatUnsubscribe, RpcOk, chatVars
  <2>2. subscribedChat # NoChannel /\ k \in 1..3
    BY <2>1 DEF ViewInv, ChatSubOK, TypeInv, TypeOK
  <2>3. ChatAsked = Asked(ChatKinds, k..3, subscribedChat)
    BY <2>1 DEF ChatAsked
  <2>4. ChatAsked \ {<<ChatKinds[k], subscribedChat>>} = Asked(ChatKinds, (k + 1)..3, subscribedChat)
    BY <2>2, <2>3, AskedChat
  <2>5. ChatAsked' = Asked(ChatKinds, (k + 1)..3, subscribedChat)
    <3>1. CASE k < 3 /\ k' = k + 1 /\ pc' = "chatUnsub"
      BY <2>1, <3>1 DEF ChatAsked
    <3>2. CASE ~(k < 3) /\ pc' = "chatCleared"
      <4>1. (k + 1)..3 = {}
        BY <2>2, <3>2
      <4> QED BY <3>2, <4>1, AskedNone DEF ChatAsked
    <3> QED BY <2>1, <3>1, <3>2
  <2>6. ChatKinds[k] \in ChatEvts /\ ChatKinds[k] # "SELECT"
    BY <2>2, KindSets, Kinds, KindsDiffer
  <2>7. <<ChatKinds[k], subscribedChat>> \notin VoiceAsked
    BY <2>6, AskedKinds DEF VoiceEvts, ChatEvts
  <2>8. OtherSubs' = OtherSubs \ {<<ChatKinds[k], subscribedChat>>}
    BY <2>1 DEF OtherSubs
  <2>9. <<"SELECT", NoChannel>> \in subs => <<"SELECT", NoChannel>> \in subs'
    BY <2>1, <2>6
  <2> QED BY <1>0, <1>1, <2>1, <2>4, <2>5, <2>7, <2>8, <2>9 DEF AsAsked, Chatting
<1>7. CASE ChatSubscribe /\ ~RpcFails
  <2>0. RpcOk
    BY <1>7 DEF ChatSubscribe
  <2>1. /\ pc = "chatSub" /\ subs' = subs \cup {<<ChatKinds[k], voice.ch>>}
        /\ up' = up /\ refused' = refused /\ up /\ voice' = voice
        /\ \/ k < 3 /\ k' = k + 1 /\ pc' = "chatSub"
           \/ ~(k < 3) /\ pc' = chatRet /\ subscribedChat' = voice.ch
    BY <1>7, <2>0, Kinds DEF ChatSubscribe, RpcOk, voiceVars
  <2>2. voice.ch # NoChannel /\ k \in 1..3
    BY <2>1 DEF ViewInv, ChatSubOK, TypeInv, TypeOK
  <2>3. ChatAsked = Asked(ChatKinds, 1..(k - 1), voice.ch)
    BY <2>1 DEF ChatAsked
  <2>4. ChatAsked \cup {<<ChatKinds[k], voice.ch>>} = Asked(ChatKinds, 1..k, voice.ch)
    BY <2>2, <2>3, AskedChat
  <2>5. ChatAsked' = Asked(ChatKinds, 1..k, voice.ch)
    <3>1. CASE k < 3 /\ k' = k + 1 /\ pc' = "chatSub"
      <4>1. k' - 1 = k
        BY <2>2, <3>1
      <4> QED BY <2>1, <3>1, <4>1 DEF ChatAsked
    <3>2. CASE ~(k < 3) /\ pc' = chatRet /\ subscribedChat' = voice.ch
      <4>1. k = 3
        BY <2>2, <3>2
      <4> QED BY <1>2, <3>2, <4>1, AskedOutsideNext
    <3> QED BY <2>1, <3>1, <3>2
  <2>6. ChatKinds[k] # "SELECT"
    BY <2>2, KindsDiffer
  <2>8. OtherSubs' = OtherSubs \cup {<<ChatKinds[k], voice.ch>>}
    BY <2>1, <2>6 DEF OtherSubs
  <2> QED BY <1>0, <1>1, <2>1, <2>4, <2>5, <2>8 DEF AsAsked, Chatting
<1> QED BY <1>3, <1>4, <1>5, <1>6, <1>7

LEMMA SubsStep == ASSUME TypeInv, ViewInv, SubsInv, [Next]_vars PROVE SubsInv'
<1>1. QuietInv /\ AsAsked
  BY SubsSplit
<1>2. QuietInv'
  BY <1>1, QuietStep
<1>3. AsAsked'
  <2>1. CASE UNCHANGED vars
    <3>1. VoiceAsked' = VoiceAsked /\ ChatAsked' = ChatAsked
      BY <2>1 DEF vars, voiceVars, chatVars, controlVars, VoiceAsked, ChatAsked
    <3> QED BY <1>1, <2>1, <3>1, SubsFrame DEF vars, socketVars, controlVars
  <2> QED BY <1>1, <2>1, AsAskedOutside, AsAskedSession, AsAskedVoice, AsAskedAfter, AsAskedSync,
             AsAskedChat DEF Next, Daemon
<1>4. (QuietInv /\ AsAsked)' <=> SubsInv'
  BY SubsSplit, PTL
<1> QED BY <1>2, <1>3, <1>4

LEMMA SubsCorrect == Spec => [](TypeInv /\ ViewInv /\ SubsInv)
<1>1. Init => SubsInv
  BY DEF Init, SubsInv
<1>2. TypeInv /\ ViewInv /\ SubsInv /\ [Next]_vars => SubsInv'
  BY SubsStep
<1> QED BY <1>1, <1>2, ViewCorrect, PTL DEF Spec

(* No subscription leaks across switches, abandoned syncs and reconnects:  *)
(* between requests Discord sends the events of the channel the daemon     *)
(* believes subscribed, and of the chat it believes subscribed, and no     *)
(* others, unless a request was refused.                                   *)
THEOREM NoSubscriptionLeaks == Spec => []SubscriptionsExact
<1>1. SubsInv => SubscriptionsExact
  <2> SUFFICES ASSUME SubsInv, pc \in {"top", "publish", "config", "ctl"}, up, refused = 0
               PROVE  {s \in subs : s[1] # "SELECT"} =
                        Asked(VoiceKinds, DOMAIN VoiceKinds, subscribed)
                          \cup Asked(ChatKinds, DOMAIN ChatKinds, subscribedChat)
    BY DEF SubscriptionsExact, Asked
  <2> QED BY AskedOutside, Kinds DEF SubsInv, Switching, Chatting
<1> QED BY <1>1, SubsCorrect, PTL

(* What is shown is being kept current: however the user switches, Discord *)
(* sends every kind of event of the channel on the overlay whenever the    *)
(* daemon is between two requests or reads events, unless it refused a     *)
(* request of the session.  The daemon makes more than one attempt.        *)
THEOREM ShownStaysHeard ==
  ASSUME MaxAttempts > 1
  PROVE  Spec => []ShownIsHeard
<1>1. SubsInv /\ ShownInv => ShownIsHeard
  <2> SUFFICES ASSUME SubsInv, ShownInv,
                      pc \in {"chat", "publish", "top", "drain", "config", "ctl"},
                      up, refused = 0, voice.ch # NoChannel
               PROVE  {<<VoiceKinds[i], voice.ch>> : i \in DOMAIN VoiceKinds} \subseteq subs
    BY DEF ShownIsHeard
  <2>1. subscribed = voice.ch
    BY DEF ShownInv, Switching
  <2>2. VoiceAsked = Asked(VoiceKinds, DOMAIN VoiceKinds, voice.ch)
    BY <2>1, Kinds DEF VoiceAsked
  <2>3. VoiceAsked \subseteq subs
    BY DEF SubsInv
  <2> QED BY <2>2, <2>3 DEF Asked
<1> QED BY <1>1, ShownCorrect, SubsCorrect, PTL
-----------------------------------------------------------------------------
(* What is published is what the daemon knows.                             *)

NoFlips == flips = 0

LEMMA FlipsKept ==
  ASSUME [Next]_vars
  PROVE  flips' = flips \/ flips < MaxFlips
<1>1. CASE UNCHANGED vars
  BY <1>1 DEF vars, counterVars
<1>2. CASE Discord
  BY <1>2 DEF Discord, SelectChannel, Join, Leave, Change, Move, Post, Hangup
<1>3. CASE EditConfig \/ TrayTogglesChat \/ Reconnect \/ RetryDue
  BY <1>3 DEF EditConfig, TrayTogglesChat, Reconnect, RetryDue, counterVars
<1>4. CASE Daemon
  BY <1>4 DEF Daemon, StartSession, SubscribeSelect, FirstGet, Unsubscribe, AfterUnsubscribe,
     Subscribe, AfterSubscribe, SyncIdle, Sync, SyncAgain, RefreshChat, ChatUnsubscribe,
     ClearChatState, ChatSubscribe, LoopTop, Dispatch, DrainDone, Publish, ConfigUnchanged,
     ConfigChanged, ControlIdle, Cleanup, counterVars
<1> QED BY <1>1, <1>2, <1>3, <1>4 DEF Next

LEMMA MarkFrame ==
  ASSUME MarkInv,
         UNCHANGED <<pc, job, voice, shown, changed, want, fileWant, chatRet>>
  PROVE  MarkInv'
BY DEF MarkInv

LEMMA MarkSession ==
  ASSUME TypeInv, ViewInv, MarkInv,
         StartSession \/ SubscribeSelect \/ FirstGet \/ LoopTop \/ DrainDone \/ Publish \/ Cleanup
         \/ ConfigUnchanged \/ ConfigChanged \/ ControlIdle \/ Reconnect
  PROVE  MarkInv'
<1>1. CASE StartSession \/ SubscribeSelect
  <2>1. /\ pc \in {"offline", "subscribeSelect"} /\ pc' \in {"subscribeSelect", "firstGet"}
        /\ changed' = TRUE /\ UNCHANGED chatRet /\ fileWant' = fileWant /\ want' \in {want, fileWant}
    BY <1>1 DEF StartSession, SubscribeSelect, Goto, MarkInv, configVars, TypeInv, TypeOK
  <2> QED BY <2>1 DEF MarkInv, Switching
<1>2. CASE FirstGet
  <2>1. /\ changed' = TRUE /\ chatRet' = "publish" /\ pc' \in {"sub", "chat"}
        /\ fileWant' = fileWant /\ want' = want
    BY <1>2 DEF FirstGet, configVars, MarkInv, TypeInv, TypeOK
  <2> QED BY <2>1 DEF MarkInv, Switching
<1>3. CASE LoopTop \/ DrainDone \/ ConfigUnchanged \/ ControlIdle \/ Reconnect
  <2>1. /\ UNCHANGED <<voice, shown, chatRet, fileWant>> /\ want' \in {want, fileWant}
        /\ \/ pc = "top" /\ pc' \in {"drain", "cleanup"}
           \/ pc = "drain" /\ pc' \in {"sync", "cleanup"} /\ changed' = changed
           \/ pc = "config" /\ pc' = "ctl" /\ changed' = changed
           \/ pc = "ctl" /\ pc' \in {"top", "cleanup"} /\ changed' = changed
    BY <1>3 DEF LoopTop, DrainDone, ConfigUnchanged, ControlIdle, Reconnect, Goto, configVars, voiceVars
  <2> QED BY <2>1 DEF MarkInv, Switching
<1>4. CASE ConfigChanged
  BY <1>4 DEF ConfigChanged, MarkInv
<1>5. CASE Publish
  <2>1. PICK kept \in SUBSET voice.chat :
          /\ voice' = [voice EXCEPT !.chat = kept]
          /\ shown' = IF changed \/ kept # voice.chat THEN voice' ELSE shown
    BY <1>5 DEF Publish
  <2>2. /\ pc = "publish" /\ pc' \in {"top", "config"}
        /\ UNCHANGED <<chatRet, want, fileWant, changed>>
    BY <1>5 DEF Publish, configVars
  <2>3. ~changed => shown = voice
    BY <2>2 DEF MarkInv
  <2>4. kept = voice.chat => voice' = voice
    BY <2>1, ChatOnly
  <2>5. shown' = voice'
    BY <2>1, <2>3, <2>4
  <2> QED BY <2>2, <2>5 DEF MarkInv, Switching
<1>6. CASE Cleanup
  BY <1>6 DEF Cleanup, Goto, configVars, MarkInv, Switching
<1> QED BY <1>1, <1>2, <1>3, <1>4, <1>5, <1>6

LEMMA MarkSwitch ==
  ASSUME TypeInv, ViewInv, MarkInv,
         Unsubscribe \/ Subscribe \/ AfterUnsubscribe \/ AfterSubscribe \/ SyncIdle \/ Sync
         \/ SyncAgain \/ Dispatch
  PROVE  MarkInv'
<1>1. CASE Unsubscribe \/ Subscribe
  <2>1. /\ UNCHANGED <<voice, shown, changed, job, chatRet, want, fileWant>>
        /\ pc \in Switching /\ pc' \in Switching
    BY <1>1 DEF Unsubscribe, Subscribe, voiceVars, configVars, Switching
  <2> QED BY <2>1 DEF MarkInv, Switching
<1>2. CASE AfterUnsubscribe
  <2>1. /\ pc = "unsubscribed" /\ UNCHANGED <<shown, job, chatRet, want, fileWant>>
        /\ pc' \in {"sub", "drain", "chat"}
        /\ \/ UNCHANGED <<voice, changed>>
           \/ voice' = NoVoice /\ changed' = (changed \/ voice.ch # NoChannel)
    BY <1>2 DEF AfterUnsubscribe, configVars
  <2>2. job # "start" /\ (voice.ch = NoChannel => voice = NoVoice)
    BY <2>1 DEF ViewInv, ViewOK, SwitchOK
  <2>3. ~changed' => ~changed /\ voice' = voice
    BY <2>1, <2>2
  <2> QED BY <2>1, <2>2, <2>3 DEF MarkInv, Switching
<1>3. CASE AfterSubscribe
  <2>1. /\ pc = "subscribed" /\ UNCHANGED <<shown, job, chatRet, want, fileWant>>
        /\ pc' \in {"chat", "sync", "drain", "syncAgain"}
        /\ changed' = (changed \/ job = "select") /\ voice' \in {voice, NoVoice}
        /\ job \in {"start", "select", "resync"}
    BY <1>3 DEF AfterSubscribe, configVars, TypeInv
  <2>2. job = "resync" => voice = NoVoice
    BY <2>1 DEF ViewInv, ViewOK, SwitchOK, Switching
  <2>3. job = "start" => changed
    BY <2>1 DEF MarkInv, Switching
  <2>4. ~changed' => ~changed /\ voice' = voice
    BY <2>1, <2>2, <2>3
  <2> QED BY <2>1, <2>4 DEF MarkInv, Switching
<1>4. CASE SyncIdle
  BY <1>4 DEF SyncIdle, MarkInv, voiceVars, configVars, Switching
<1>5. CASE Sync \/ SyncAgain
  <2>1. /\ pc \in {"sync", "syncAgain"} /\ UNCHANGED <<shown, want, fileWant>>
        /\ chatRet' \in {chatRet, "publish"}
        /\ \/ pc' = "chat"
           \/ pc' \in Switching /\ job' # "start"
        /\ UNCHANGED <<voice, changed>> \/ changed' = TRUE
    BY <1>5 DEF Sync, SyncAgain, Settle, EnterUnsub, Schedule, Goto, configVars, Switching
  <2> QED BY <2>1 DEF MarkInv, Switching
<1>6. CASE Dispatch
  <2>1. PICK e : HandleSelect(e) \/ HandleVoice(e) \/ HandleChat(e)
    BY <1>6 DEF Dispatch
  <2>2. pc = "drain" /\ UNCHANGED <<shown, chatRet, want, fileWant>>
    BY <1>6 DEF Dispatch, configVars
  <2>3. changed \in BOOLEAN
    BY DEF TypeInv, TypeOK
  <2>4. ~changed' => ~changed /\ voice' = voice
    BY <2>1, <2>3 DEF HandleSelect, HandleVoice, HandleChat
  <2>5. pc' = pc \/ (pc' \in Switching /\ job' # "start")
    BY <2>1 DEF HandleSelect, HandleVoice, HandleChat, EnterUnsub, Schedule, Switching
  <2> QED BY <2>2, <2>4, <2>5 DEF MarkInv, Switching
<1> QED BY <1>1, <1>2, <1>3, <1>4, <1>5, <1>6

LEMMA MarkChat ==
  ASSUME TypeInv, ViewInv, MarkInv, RefreshChat \/ ChatUnsubscribe \/ ClearChatState \/ ChatSubscribe
  PROVE  MarkInv'
<1>0. chatRet = "publish"
  BY DEF MarkInv
<1>1. CASE RefreshChat
  <2>1. /\ pc = "chat" /\ UNCHANGED <<voice, shown, chatRet, want, fileWant>>
        /\ \/ pc' = "publish" /\ changed' = changed
           \/ pc' \in {"chatUnsub", "chatCleared"} /\ changed' = (changed \/ HadChat)
    BY <1>0, <1>1 DEF RefreshChat, Goto, voiceVars, configVars
  <2>2. voice.chat # {} => HadChat
    BY DEF HadChat
  <2> QED BY <2>1, <2>2 DEF MarkInv, Switching
<1>2. CASE ChatUnsubscribe \/ ChatSubscribe
  <2>1. /\ UNCHANGED <<voice, shown, chatRet, want, fileWant, changed>>
        /\ \/ pc = "chatUnsub" /\ pc' \in {"chatUnsub", "chatCleared"}
           \/ pc = "chatSub" /\ pc' \in {"chatSub", "publish"}
    BY <1>0, <1>2 DEF ChatUnsubscribe, ChatSubscribe, voiceVars, configVars
  <2> QED BY <2>1 DEF MarkInv, Switching
<1>3. CASE ClearChatState
  <2>1. /\ pc = "chatCleared" /\ UNCHANGED <<shown, chatRet, want, fileWant, changed>>
        /\ voice' = [voice EXCEPT !.chat = {}] /\ pc' \in {"chatSub", "publish"}
    BY <1>0, <1>3 DEF ClearChatState, Goto, configVars
  <2>2. {} \in SUBSET voice.chat
    OBVIOUS
  <2>3. voice.chat = {} => voice' = voice
    BY <2>1, <2>2, ChatOnly
  <2> QED BY <2>1, <2>3 DEF MarkInv, Switching
<1> QED BY <1>1, <1>2, <1>3

LEMMA MarkStep ==
  ASSUME MaxFlips = 0, NoFlips, TypeInv, ViewInv, MarkInv, [Next]_vars
  PROVE  MarkInv' /\ NoFlips'
<1>0. ~(flips < MaxFlips)
  BY DEF NoFlips
<1>1. NoFlips'
  BY <1>0, FlipsKept DEF NoFlips
<1>2. CASE UNCHANGED vars
  <2>1. UNCHANGED <<pc, job, voice, shown, changed, want, fileWant, chatRet>>
    BY <1>2 DEF vars, voiceVars, controlVars, configVars
  <2> QED BY <1>1, <2>1, MarkFrame
<1>3. CASE Discord \/ RetryDue
  <2>1. UNCHANGED <<controlVars, voice, shown, want, fileWant>>
    <3>1. CASE Discord
      BY <3>1, OutsideFrame
         DEF Discord, SelectChannel, Join, Leave, Change, Move, Post, Hangup, configVars
    <3>2. CASE RetryDue
      BY <3>2, OutsideFrame DEF RetryDue, configVars
    <3> QED BY <1>3, <3>1, <3>2
  <2>2. UNCHANGED <<pc, job, voice, shown, changed, want, fileWant, chatRet>>
    BY <2>1 DEF controlVars
  <2> QED BY <1>1, <2>2, MarkFrame
<1>4. CASE EditConfig \/ TrayTogglesChat
  BY <1>0, <1>4 DEF EditConfig, TrayTogglesChat
<1> QED BY <1>1, <1>2, <1>3, <1>4, MarkSession, MarkSwitch, MarkChat DEF Next, Daemon

(* As long as the chat option stays as it is, every change the loop makes  *)
(* to the view is published before the loop comes round.                   *)
THEOREM ChangesArePublished ==
  ASSUME MaxFlips = 0
  PROVE  Spec => []ShownIsCurrent
<1>1. Init => MarkInv /\ NoFlips
  BY DEF Init, MarkInv, Switching, NoFlips
<1>2. NoFlips /\ TypeInv /\ ViewInv /\ MarkInv /\ [Next]_vars => MarkInv' /\ NoFlips'
  BY MarkStep
<1>3. MarkInv => ShownIsCurrent
  BY DEF MarkInv, ShownIsCurrent
<1> QED BY <1>1, <1>2, <1>3, ViewCorrect, PTL DEF Spec
-----------------------------------------------------------------------------
(* What the events in flight lead to.                                      *)

LEMMA AtEnd ==
  ASSUME NEW q \in Seq(Events), NEW e \in Events
  PROVE  /\ Len(q) \in Nat /\ DOMAIN q = 1..Len(q)
         /\ Append(q, e) \in Seq(Events) /\ DOMAIN Append(q, e) = 1..(Len(q) + 1)
         /\ \A i \in 1..Len(q) : Append(q, e)[i] = q[i] /\ q[i] \in Events
         /\ Append(q, e)[Len(q) + 1] = e
BY AppendProperties, LenProperties, ElementOfSeq

LEMMA AtStart ==
  ASSUME NEW q \in Seq(Events), q # <<>>
  PROVE  /\ Len(q) \in Nat \ {0} /\ DOMAIN q = 1..Len(q) /\ q[1] = Head(q)
         /\ Tail(q) \in Seq(Events) /\ DOMAIN Tail(q) = 1..(Len(q) - 1)
         /\ \A i \in 1..(Len(q) - 1) : Tail(q)[i] = q[i + 1]
         /\ \A i \in 1..Len(q) : q[i] \in Events
<1>1. Len(q) \in Nat \ {0} /\ DOMAIN q = 1..Len(q)
  BY EmptySeq, LenProperties
<1>2. Tail(q) \in Seq(Events) /\ Len(Tail(q)) = Len(q) - 1
  BY HeadTailProperties
<1>3. DOMAIN Tail(q) = 1..(Len(q) - 1)
  BY <1>1, <1>2, LenProperties
<1>4. \A i \in 1..(Len(q) - 1) : Tail(q)[i] = q[i + 1]
  BY <1>1, <1>2, HeadTailProperties
<1> QED BY <1>1, <1>2, <1>3, <1>4, ElementOfSeq

LEMMA LeadsAppend ==
  ASSUME NEW q \in Seq(Events), NEW e \in Events
  PROVE  /\ e.evt = "SELECT" => LeadsTo(Append(q, e), e.ch)
         /\ e.evt # "SELECT" => \A c : LeadsTo(q, c) => LeadsTo(Append(q, e), c)
<1>1. CASE e.evt = "SELECT"
  BY <1>1, AtEnd DEF LeadsTo
<1>2. ASSUME e.evt # "SELECT", NEW c, LeadsTo(q, c) PROVE LeadsTo(Append(q, e), c)
  <2>1. PICK i \in DOMAIN q : /\ q[i].evt = "SELECT" /\ q[i].ch = c
                              /\ \A j \in DOMAIN q : j > i => q[j].evt # "SELECT"
    BY <1>2 DEF LeadsTo
  <2>2. \A j \in 1..(Len(q) + 1) : j \in 1..Len(q) \/ j = Len(q) + 1
    BY AtEnd
  <2>3. \A j \in DOMAIN Append(q, e) : j > i => Append(q, e)[j].evt # "SELECT"
    BY <1>2, <2>1, <2>2, AtEnd
  <2>4. i \in DOMAIN Append(q, e) /\ Append(q, e)[i] = q[i]
    BY <2>1, AtEnd
  <2> QED BY <2>1, <2>3, <2>4 DEF LeadsTo
<1> QED BY <1>1, <1>2

LEMMA NoneAppend ==
  ASSUME NEW q \in Seq(Events), NEW e \in Events, NEW evts, None(q, evts), e.evt \notin evts
  PROVE  None(Append(q, e), evts)
<1>1. \A j \in 1..(Len(q) + 1) : j \in 1..Len(q) \/ j = Len(q) + 1
  BY AtEnd
<1> QED BY <1>1, AtEnd DEF None

LEMMA NoneTail ==
  ASSUME NEW q \in Seq(Events), q # <<>>, NEW evts, None(q, evts)
  PROVE  None(Tail(q), evts) /\ Head(q).evt \notin evts
<1>1. \A i \in 1..(Len(q) - 1) : i + 1 \in 1..Len(q)
  BY AtStart
<1>2. 1 \in 1..Len(q)
  BY AtStart
<1> QED BY <1>1, <1>2, AtStart DEF None

LEMMA LeadsTail ==
  ASSUME NEW q \in Seq(Events), q # <<>>, NEW c, LeadsTo(q, c)
  PROVE  \/ LeadsTo(Tail(q), c)
         \/ Head(q).evt = "SELECT" /\ Head(q).ch = c /\ None(Tail(q), {"SELECT"})
<1>1. PICK i \in DOMAIN q : /\ q[i].evt = "SELECT" /\ q[i].ch = c
                            /\ \A j \in DOMAIN q : j > i => q[j].evt # "SELECT"
  BY DEF LeadsTo
<1>2. \A j \in DOMAIN Tail(q) : j + 1 \in DOMAIN q /\ Tail(q)[j] = q[j + 1] /\ j \in Nat
  BY AtStart
<1>3. CASE i = 1
  BY <1>1, <1>2, <1>3, AtStart DEF None
<1>4. CASE i # 1
  <2>1. i - 1 \in DOMAIN Tail(q) /\ Tail(q)[i - 1] = q[i]
    BY <1>1, <1>4, AtStart
  <2>2. \A j \in DOMAIN Tail(q) : j > i - 1 => j + 1 > i
    BY <1>1, <1>2, AtStart
  <2>3. \A j \in DOMAIN Tail(q) : j > i - 1 => Tail(q)[j].evt # "SELECT"
    BY <1>1, <1>2, <2>2
  <2> QED BY <1>1, <2>1, <2>3 DEF LeadsTo
<1> QED BY <1>3, <1>4

LEMMA EmptyFlight ==
  /\ \A evts : None(<<>>, evts)
  /\ \A c : ~LeadsTo(<<>>, c)
BY DEF None, LeadsTo

LEMMA FlightEmpty == ASSUME inbox = <<>>, stream = <<>> PROVE InFlight = <<>>
BY DEF InFlight

LEMMA FlightKept == ASSUME UNCHANGED <<inbox, stream>> PROVE InFlight' = InFlight
BY DEF InFlight

(* A request does not change what is in flight.                            *)
LEMMA FlightRpc ==
  ASSUME Queues, RpcOk \/ RpcFails
  PROVE  InFlight' = InFlight
<1>1. Receive \/ UNCHANGED <<inbox, stream>>
  BY DEF RpcOk, RpcFails
<1> QED BY <1>1, FlightReceive, FlightKept DEF Receive
(* What Discord sends.                                                     *)
LEMMA FlightEmit ==
  ASSUME Queues, NEW evt, NEW c, NEW who, Event(evt, c, who) \in Events, inbox' = inbox,
         Emit(evt, c, who)
  PROVE  \/ InFlight' = InFlight /\ ~(up /\ <<evt, c>> \in subs)
         \/ up /\ <<evt, c>> \in subs /\ InFlight' = Append(InFlight, Event(evt, c, who))
BY FlightAppend, FlightKept DEF Emit

LEMMA FlightSelect ==
  ASSUME TypeInv, NEW c \in Channels \cup {NoChannel}, SelectChannel(c), up,
         <<"SELECT", NoChannel>> \in subs
  PROVE  \/ /\ InFlight' = Append(InFlight, Event("SELECT", c, Self))
            /\ "empty" \in Races
               \/ \A d \in Channels \ {c} : Self \in members[d] => <<"DELETE", d>> \notin subs
         \/ \E d \in Channels \ {c} :
              /\ Self \in members[d] /\ <<"DELETE", d>> \in subs /\ "empty" \notin Races
              /\ InFlight' = Append(Append(InFlight, Event("DELETE", d, Self)),
                                    Event("SELECT", c, Self))
<1> DEFINE left == {d \in Channels : Self \in members[d]} \ {c}
           deletes == IF "empty" \in Races THEN {} ELSE {d \in left : <<"DELETE", d>> \in subs}
           e == Event("SELECT", c, Self)
           d0 == CHOOSE d \in deletes : TRUE
           gone == Event("DELETE", d0, Self)
<1>1. /\ inbox' = inbox
      /\ stream' = IF deletes = {} THEN stream \o <<e>> ELSE stream \o <<gone>> \o <<e>>
  BY DEF SelectChannel
<1>2. e \in Events /\ Queues
  BY EventIs, TypeQueues DEF TypeInv
<1>3. /\ deletes = {} => "empty" \in Races
                         \/ \A d \in Channels \ {c} : Self \in members[d] => <<"DELETE", d>> \notin subs
      /\ deletes # {} => /\ d0 \in Channels \ {c} /\ Self \in members[d0] /\ <<"DELETE", d0>> \in subs
                         /\ "empty" \notin Races
  OBVIOUS
<1>4. deletes # {} => gone \in Events
  BY <1>3, EventIs, SessionAssumption DEF VoiceEvts
<1>5. InFlight \in Seq(Events) /\ stream \in Seq(Events) /\ inbox \in Seq(Events)
  BY <1>2, FlightType DEF Queues
<1> HIDE DEF deletes, e, gone, d0
<1>6. \A x \in Events : <<x>> \in Seq(Events)
  OBVIOUS
<1>7. \A x \in Events, q \in Seq(Events) : q \o <<x>> = Append(q, x) /\ Append(q, x) \in Seq(Events)
  BY AppendIsConcat, AppendProperties
<1>8. CASE deletes = {}
  <2>1. InFlight' = inbox \o (stream \o <<e>>)
    BY <1>1, <1>8 DEF InFlight
  <2>2. InFlight' = InFlight \o <<e>>
    BY <1>2, <1>5, <1>6, <2>1, ConcatAssociative DEF InFlight
  <2> QED BY <1>2, <1>3, <1>5, <1>7, <1>8, <2>2 DEF e
<1>9. CASE deletes # {}
  <2>1. InFlight' = inbox \o ((stream \o <<gone>>) \o <<e>>)
    BY <1>1, <1>9 DEF InFlight
  <2>2. stream \o <<gone>> \in Seq(Events)
    BY <1>4, <1>5, <1>7, <1>9
  <2>3. InFlight' = (inbox \o (stream \o <<gone>>)) \o <<e>>
    BY <1>2, <1>5, <1>6, <2>1, <2>2, ConcatAssociative
  <2>4. inbox \o (stream \o <<gone>>) = InFlight \o <<gone>>
    BY <1>4, <1>5, <1>6, <1>9, ConcatAssociative DEF InFlight
  <2>5. InFlight' = Append(Append(InFlight, gone), e)
    BY <1>2, <1>4, <1>5, <1>7, <1>9, <2>3, <2>4
  <2> QED BY <1>3, <1>9, <2>5 DEF e, gone
<1> QED BY <1>8, <1>9

LEMMA SocketDown ==
  ASSUME NEW c \in Channels \cup {NoChannel}, SelectChannel(c), ~up
  PROVE  UNCHANGED <<inbox, stream, up>>
BY DEF SelectChannel
-----------------------------------------------------------------------------
(* The channel the daemon is going to is the user's.                       *)

LEMMA SelectFrame ==
  ASSUME SelectInv, InFlight' = InFlight, UNCHANGED <<sel, refused>>, up' => up,
         pc \in Starting => pc' \in Starting, pc \notin Starting => Belief' = Belief
  PROVE  SelectInv'
BY DEF SelectInv, LeadsTo, None

LEMMA SelectFailed == ASSUME TypeInv, RpcFails PROVE SelectInv'
BY RpcKeeps DEF SelectInv

(* Steps of the thread between its multi-step operations.                  *)
LEMMA BeliefKept ==
  ASSUME UNCHANGED pending, voice'.ch = voice.ch, pc \notin Switching, pc' \notin Switching
  PROVE  Belief' = Belief
BY DEF Belief

LEMMA BeliefSwitching ==
  ASSUME UNCHANGED <<job, target>>, pc \in Switching, pc' \in Switching
  PROVE  Belief' = Belief
BY DEF Belief

(* What a post makes Discord send.                                         *)
LEMMA PostIs ==
  ASSUME TypeInv, NEW m \in Messages, NEW evt \in ChatEvts, Post(m, evt)
  PROVE  /\ Event(evt, m[1], m) \in Events /\ Emit(evt, m[1], m) /\ m[1] \in Channels
         /\ UNCHANGED <<sel, members>>
<1>1. m[1] \in Channels
  BY DEF Messages
<1> QED BY <1>1, EventIs DEF Post

LEMMA SelectDiscord ==
  ASSUME TypeInv, SubsInv, SelectInv, Discord \/ EditConfig \/ RetryDue
  PROVE  SelectInv'
<1>1. /\ UNCHANGED <<pc, job, target, pending, voice, refused, inbox>> /\ (up' => up)
      /\ Belief' = Belief
  BY OutsideFrame DEF controlVars, Belief
<1>2. Queues /\ InFlight \in Seq(Events)
  BY TypeQueues, FlightType DEF TypeInv
<1>3. ASSUME NEW e \in Events, e.evt # "SELECT", InFlight' = Append(InFlight, e), sel' = sel
      PROVE  SelectInv'
  <2>1. /\ LeadsTo(InFlight, sel) => LeadsTo(InFlight', sel)
        /\ None(InFlight, {"SELECT"}) => None(InFlight', {"SELECT"})
    BY <1>2, <1>3, LeadsAppend, NoneAppend
  <2> QED BY <1>1, <1>3, <2>1 DEF SelectInv, LeadsTo, None
<1>4. ASSUME InFlight' = InFlight, sel' = sel PROVE SelectInv'
  BY <1>1, <1>4, SelectFrame
<1>5. ASSUME NEW evt, evt # "SELECT", NEW c, NEW who, Event(evt, c, who) \in Events,
             Emit(evt, c, who), sel' = sel
      PROVE  SelectInv'
  <2>1. \/ InFlight' = InFlight
        \/ InFlight' = Append(InFlight, Event(evt, c, who))
    BY <1>1, <1>2, <1>5, FlightEmit
  <2>2. Event(evt, c, who).evt # "SELECT"
    BY <1>5 DEF Event
  <2> QED BY <1>3, <1>4, <1>5, <2>1, <2>2
<1>6. ASSUME NEW c \in Channels \cup {NoChannel}, SelectChannel(c) PROVE SelectInv'
  <2>1. sel' = c
    BY <1>6 DEF SelectChannel
  <2>2. CASE ~up
    BY <1>1, <2>2 DEF SelectInv
  <2>3. CASE pc \in {"offline", "subscribeSelect"}
    <3>1. inbox = <<>> /\ stream = <<>> /\ subs = {}
      BY <2>3 DEF SubsInv
    <3>2. stream' = stream
      <4>1. Discord
        BY <1>6 DEF Discord
      <4> QED BY <1>2, <3>1, <4>1, NothingSent
    <3>3. InFlight' = <<>>
      BY <1>1, <3>1, <3>2 DEF InFlight
    <3>4. pc' \in Starting
      BY <1>1, <2>3 DEF Starting
    <3> QED BY <3>3, <3>4, EmptyFlight DEF SelectInv, None
  <2>4. CASE up /\ refused # 0
    BY <1>1, <2>4 DEF SelectInv
  <2>5. CASE up /\ refused = 0 /\ pc \notin {"offline", "subscribeSelect"}
    <3>1. <<"SELECT", NoChannel>> \in subs
      BY <2>5 DEF SubsInv
    <3>2. PICK q \in Seq(Events) : InFlight' = Append(q, Event("SELECT", c, Self))
      <4>1. \A d \in Channels : Event("DELETE", d, Self) \in Events
        BY EventIs, SessionAssumption DEF VoiceEvts
      <4>2. \A d \in Channels : Append(InFlight, Event("DELETE", d, Self)) \in Seq(Events)
        BY <1>2, <4>1, AppendProperties
      <4> QED BY <1>2, <1>6, <2>5, <3>1, <4>2, FlightSelect
    <3>3. LeadsTo(InFlight', c)
      <4>1. Event("SELECT", c, Self) \in Events
        BY EventIs
      <4>2. Event("SELECT", c, Self).evt = "SELECT" /\ Event("SELECT", c, Self).ch = c
        BY DEF Event
      <4> QED BY <3>2, <4>1, <4>2, LeadsAppend
    <3> QED BY <2>1, <3>3 DEF SelectInv, LeadsTo
  <2> QED BY <2>2, <2>3, <2>4, <2>5
<1>7. ASSUME NEW u \in Users, NEW c \in Channels,
             Join(u, c) \/ Leave(u, c) \/ \E evt \in {"UPDATE", "START", "STOP"} : Change(u, c, evt)
      PROVE  SelectInv'
  <2>1. \A evt \in VoiceEvts : Event(evt, c, u) \in Events
    BY EventIs
  <2>2. PICK evt \in VoiceEvts : Emit(evt, c, u) /\ sel' = sel
    BY <1>7 DEF Join, Leave, Change, Move, VoiceEvts
  <2> QED BY <1>5, <2>1, <2>2 DEF VoiceEvts
<1>8. ASSUME NEW m \in Messages, NEW evt \in ChatEvts, Post(m, evt) PROVE SelectInv'
  <2>1. Event(evt, m[1], m) \in Events /\ Emit(evt, m[1], m) /\ sel' = sel
    BY <1>8, PostIs
  <2> QED BY <1>5, <1>8, <2>1 DEF ChatEvts
<1>9. CASE Hangup \/ EditConfig \/ RetryDue
  <2>1. UNCHANGED <<stream, sel>>
    BY <1>9 DEF Hangup, EditConfig, RetryDue, discordVars, socketVars
  <2> QED BY <1>1, <1>4, <2>1, FlightKept
<1> QED BY <1>6, <1>7, <1>8, <1>9 DEF Discord, ChatEvts

LEMMA SelectSession ==
  ASSUME TypeInv, ViewInv, SubsInv, SelectInv,
         \/ StartSession \/ SubscribeSelect \/ LoopTop \/ DrainDone \/ Publish \/ SyncIdle \/ Cleanup
         \/ ConfigUnchanged \/ ConfigChanged \/ ControlIdle \/ TrayTogglesChat \/ Reconnect
  PROVE  SelectInv'
<1>1. CASE StartSession
  <2>1. InFlight' = <<>> /\ pc' \in Starting
    BY <1>1 DEF StartSession, InFlight, Starting
  <2> QED BY <2>1, EmptyFlight DEF SelectInv, None
<1>2. CASE SubscribeSelect
  <2>1. /\ pc \in Starting /\ pc' \in Starting /\ sel' = sel /\ (RpcOk \/ RpcFails)
    BY <1>2 DEF SubscribeSelect, Goto, Starting, discordVars
  <2>2. CASE RpcOk
    <3>1. InFlight' = InFlight /\ up' = up /\ refused' = refused
      BY <2>2, FlightRpc, TypeQueues, RpcKeeps DEF TypeInv
    <3> QED BY <2>1, <3>1, SelectFrame
  <2> QED BY <2>1, <2>2, SelectFailed
<1>3. CASE LoopTop \/ DrainDone \/ Publish \/ SyncIdle \/ ConfigUnchanged \/ ConfigChanged
           \/ ControlIdle \/ TrayTogglesChat \/ Reconnect
  <2>1. UNCHANGED <<inbox, stream, up, refused, sel, pending>>
    BY <1>3 DEF LoopTop, DrainDone, Publish, SyncIdle, ConfigUnchanged, ConfigChanged, ControlIdle,
       TrayTogglesChat, Reconnect, discordVars, socketVars, voiceVars
  <2>2. pc \in Calm /\ pc' \in Calm
    BY <1>3 DEF LoopTop, DrainDone, Publish, SyncIdle, ConfigUnchanged, ConfigChanged, ControlIdle,
       TrayTogglesChat, Reconnect, Goto, Calm
  <2>3. voice'.ch = voice.ch
    BY <1>3, ShownKept
  <2>4. Belief' = Belief
    BY <2>1, <2>2, <2>3, CalmIs, BeliefKept
  <2>5. InFlight' = InFlight
    BY <2>1, FlightKept
  <2> QED BY <2>1, <2>2, <2>4, <2>5, CalmIs, SelectFrame
<1>4. CASE Cleanup
  <2>1. ~up'
    BY <1>4 DEF Cleanup
  <2> QED BY <2>1 DEF SelectInv
<1> QED BY <1>1, <1>2, <1>3, <1>4
LEMMA SelectSwitch ==
  ASSUME TypeInv, ViewInv, SelectInv, Unsubscribe \/ Subscribe \/ AfterUnsubscribe \/ AfterSubscribe
  PROVE  SelectInv'
<1>1. CASE Unsubscribe \/ Subscribe
  <2>1. /\ pc \in Switching /\ pc' \in Switching /\ UNCHANGED <<job, target, sel>>
        /\ RpcOk \/ RpcFails
    BY <1>1 DEF Unsubscribe, Subscribe, discordVars, Switching
  <2>2. CASE RpcOk
    <3>1. InFlight' = InFlight /\ up' = up /\ refused' = refused
      BY <2>2, FlightRpc, TypeQueues, RpcKeeps DEF TypeInv
    <3>2. Belief' = Belief
      BY <2>1, BeliefSwitching
    <3>3. pc \notin Starting
      BY <2>1 DEF Switching, Starting
    <3> QED BY <2>1, <3>1, <3>2, <3>3, SelectFrame
  <2> QED BY <2>1, <2>2, SelectFailed
<1>2. CASE AfterUnsubscribe \/ AfterSubscribe
  <2>1. /\ UNCHANGED <<inbox, stream, up, refused, sel, job, target>> /\ pc \in Switching
    BY <1>2 DEF AfterUnsubscribe, AfterSubscribe, discordVars, socketVars, Switching
  <2>2. Belief' = Belief
    <3>1. CASE AfterUnsubscribe
      <4>1. /\ pc = "unsubscribed"
            /\ \/ job \in {"select", "resync"} /\ pc' = "sub"
               \/ job = "deselect" /\ pending' = NoChannel /\ voice' = NoVoice /\ pc' = "drain"
               \/ job = "abandon" /\ pending' = NoChannel /\ voice' = voice /\ pc' = "chat"
        BY <3>1 DEF AfterUnsubscribe, ClearPending
      <4>2. job = "abandon" => voice.ch = NoChannel
        BY <2>1 DEF ViewInv, SwitchOK
      <4> QED BY <2>1, <4>1, <4>2 DEF Belief, Switching, NoVoice
    <3>2. CASE AfterSubscribe
      <4>1. /\ pc = "subscribed" /\ pc' \notin Switching /\ job \in {"start", "select", "resync"}
            /\ \/ UNCHANGED <<voice, pending>> /\ job = "start"
               \/ pending' = target
        BY <3>2 DEF AfterSubscribe, Switching, TypeInv
      <4>2. target # NoChannel /\ (job = "start" => voice.ch = target /\ pending = NoChannel)
        BY <2>1, <4>1 DEF ViewInv, SwitchOK
      <4> QED BY <2>1, <4>1, <4>2 DEF Belief
    <3> QED BY <1>2, <3>1, <3>2
  <2>3. pc \notin Starting
    BY <2>1 DEF Switching, Starting
  <2> QED BY <2>1, <2>2, <2>3, FlightKept, SelectFrame
<1> QED BY <1>1, <1>2

LEMMA SelectChat ==
  ASSUME TypeInv, ViewInv, SelectInv,
         RefreshChat \/ ChatUnsubscribe \/ ClearChatState \/ ChatSubscribe
  PROVE  SelectInv'
<1>1. /\ UNCHANGED <<sel, pending>> /\ voice'.ch = voice.ch
      /\ pc \in {"chat"} \cup Chatting /\ pc' \in Calm \cup Chatting
  <2>1. voice'.ch = voice.ch /\ pending' = pending
    BY ShownKept
  <2> QED BY <2>1, CalmReturns
          DEF RefreshChat, ChatUnsubscribe, ClearChatState, ChatSubscribe, Goto, discordVars, Chatting
<1>2. pc \notin Switching \cup Starting /\ pc' \notin Switching
  BY <1>1, CalmIs DEF Chatting, Switching, Starting
<1>3. Belief' = Belief
  BY <1>1, <1>2, BeliefKept
<1>4. RpcFails \/ (InFlight' = InFlight /\ up' = up /\ refused' = refused)
  <2>1. CASE RefreshChat \/ ClearChatState
    BY <2>1, FlightKept DEF RefreshChat, ClearChatState, socketVars
  <2>2. CASE ChatUnsubscribe \/ ChatSubscribe
    <3>1. RpcOk \/ RpcFails
      BY <2>2 DEF ChatUnsubscribe, ChatSubscribe
    <3> QED BY <3>1, FlightRpc, TypeQueues, RpcKeeps DEF TypeInv
  <2> QED BY <2>1, <2>2
<1> QED BY <1>1, <1>2, <1>3, <1>4, SelectFrame, SelectFailed

(* A snapshot says where the user is.                                      *)
LEMMA SelectGet ==
  ASSUME TypeInv, ViewInv, SelectInv, FirstGet \/ Sync \/ SyncAgain
  PROVE  SelectInv'
<1>1. PICK s \in {Selected, NoVoice} :
        /\ Get(s)
        /\ \/ /\ FirstGet /\ voice' = s /\ target' = s.ch
              /\ pc' = IF s.ch = NoChannel THEN "chat" ELSE "sub"
           \/ /\ Sync
              /\ \/ s.ch = NoChannel /\ EnterUnsub("abandon")
                 \/ Schedule(s.ch, "resync")
                 \/ s.ch = pending /\ Settle(s)
           \/ /\ SyncAgain
              /\ \/ s.ch = NoChannel /\ Goto("chat") /\ UNCHANGED <<voice, pending>>
                 \/ Settle(s)
  BY DEF FirstGet, Sync, SyncAgain
<1>2. CASE RpcFails
  BY <1>2, SelectFailed
<1>3. CASE RpcOk /\ s = Selected
  <2>1. InFlight' = InFlight /\ up' = up /\ refused' = refused /\ sel' = sel
    <3>1. sel' = sel
      BY DEF FirstGet, Sync, SyncAgain, discordVars
    <3> QED BY <1>3, <3>1, FlightRpc, TypeQueues, RpcKeeps DEF TypeInv
  <2>2. s.ch = sel /\ s \in VoiceStates
    BY <1>3, SelectedType DEF TypeInv
  <2>3. CASE FirstGet
    <3>1. /\ voice' = s /\ target' = s.ch /\ job' = "start" /\ pending' = NoChannel
          /\ pc' = IF s.ch = NoChannel THEN "chat" ELSE "sub"
      BY <1>1, <2>3 DEF FirstGet, Sync, SyncAgain, ViewInv, ViewOK, Starting
    <3>2. Belief' = sel
      BY <2>2, <3>1 DEF Belief, Switching
    <3> QED BY <2>1, <3>2 DEF SelectInv, LeadsTo, None
  <2>4. CASE Sync
    <3>1. pc = "sync" /\ pc \notin Switching \cup Starting
      BY <2>4 DEF Sync, Switching, Starting
    <3>2. CASE s.ch = NoChannel /\ EnterUnsub("abandon")
      <4>1. Belief' = sel
        BY <2>2, <3>2 DEF EnterUnsub, Belief, Switching
      <4> QED BY <2>1, <4>1 DEF SelectInv, LeadsTo, None
    <3>3. CASE Schedule(s.ch, "resync")
      <4>1. Belief' = sel
        BY <2>2, <3>3 DEF Schedule, EnterUnsub, Belief, Switching
      <4> QED BY <2>1, <4>1 DEF SelectInv, LeadsTo, None
    <3>4. CASE s.ch = pending /\ Settle(s)
      <4>1. pc' = "chat" /\ (pending' = pending \/ (pending' = NoChannel /\ voice'.ch = s.ch))
        BY <2>2, <3>4 DEF Settle, ClearPending, VoiceStates
      <4>2. pending # NoChannel
        BY <2>4 DEF Sync
      <4>3. Belief' = sel
        BY <2>2, <3>4, <4>1, <4>2 DEF Belief, Switching
      <4> QED BY <2>1, <4>3 DEF SelectInv, LeadsTo, None
    <3> QED BY <1>1, <2>4, <3>1, <3>2, <3>3, <3>4 DEF FirstGet, SyncAgain
  <2>5. CASE SyncAgain
    <3>1. pc = "syncAgain" /\ pc \notin Switching \cup Starting
      BY <2>5 DEF SyncAgain, Switching, Starting
    <3>2. pc' = "chat" /\ (UNCHANGED <<voice, pending>> \/ (pending' = NoChannel /\ voice'.ch = s.ch))
      <4>1. CASE Settle(s)
        BY <2>2, <4>1 DEF Settle, ClearPending, VoiceStates
      <4>2. CASE Goto("chat") /\ UNCHANGED <<voice, pending>>
        BY <4>2 DEF Goto
      <4> QED BY <1>1, <2>5, <3>1, <4>1, <4>2 DEF FirstGet, Sync
    <3>3. Belief' = sel \/ Belief' = Belief
      BY <2>2, <3>1, <3>2 DEF Belief, Switching
    <3> QED BY <2>1, <3>1, <3>3 DEF SelectInv, LeadsTo, None
  <2> QED BY <2>3, <2>4, <2>5
<1> QED BY <1>1, <1>2, <1>3 DEF Get

LEMMA SelectDispatch == ASSUME TypeInv, ViewInv, SelectInv, Dispatch PROVE SelectInv'
<1>1. PICK e : NextEvent(e) /\ (HandleSelect(e) \/ HandleVoice(e) \/ HandleChat(e))
  BY DEF Dispatch
<1>2. /\ pc = "drain" /\ UNCHANGED <<sel, up, refused, pending>>
  BY DEF Dispatch, discordVars
<1>3. /\ InFlight # <<>> /\ e = Head(InFlight) /\ e \in Events /\ InFlight' = Tail(InFlight)
      /\ InFlight \in Seq(Events)
  BY <1>1, FlightNext, FlightType, TypeQueues DEF TypeInv
<1>4. pc \notin Switching \cup Starting
  BY <1>2 DEF Switching, Starting
<1>5. CASE e.evt # "SELECT"
  <2>1. voice'.ch = voice.ch /\ pc' = pc
    BY <1>1, <1>5 DEF HandleSelect, HandleVoice, HandleChat, AppliedVoice, TypeInv, TypeOK, VoiceStates
  <2>2. Belief' = Belief
    BY <1>2, <1>4, <2>1, BeliefKept
  <2>3. LeadsTo(InFlight, sel) => LeadsTo(InFlight', sel)
    BY <1>3, <1>5, LeadsTail
  <2>4. None(InFlight, {"SELECT"}) => None(InFlight', {"SELECT"})
    BY <1>3, NoneTail
  <2> QED BY <1>2, <1>4, <2>2, <2>3, <2>4 DEF SelectInv, LeadsTo, None
<1>6. CASE e.evt = "SELECT"
  <2>1. HandleSelect(e)
    BY <1>1, <1>6 DEF HandleVoice, HandleChat
  <2>2. Belief' = e.ch
    <3>1. CASE e.ch = NoChannel /\ EnterUnsub("deselect")
      BY <3>1 DEF EnterUnsub, Belief, Switching
    <3>2. CASE UNCHANGED pc /\ pending = NoChannel /\ voice.ch = e.ch
      BY <1>2, <1>4, <2>1, <3>2 DEF HandleSelect, Belief
    <3>3. CASE Schedule(e.ch, "select")
      BY <3>3 DEF Schedule, EnterUnsub, Belief, Switching
    <3> QED BY <2>1, <3>1, <3>2, <3>3 DEF HandleSelect
  <2>3. None(InFlight, {"SELECT"}) => FALSE
    BY <1>3, <1>6, NoneTail
  <2>4. LeadsTo(InFlight, sel) => LeadsTo(InFlight', sel)
                                  \/ (e.ch = sel /\ None(InFlight', {"SELECT"}))
    BY <1>3, LeadsTail
  <2> QED BY <1>2, <2>2, <2>3, <2>4 DEF SelectInv, LeadsTo, None
<1> QED BY <1>5, <1>6

LEMMA SelectStep ==
  ASSUME TypeInv, ViewInv, SubsInv, SelectInv, [Next]_vars
  PROVE  SelectInv'
<1>1. CASE UNCHANGED vars
  <2>1. UNCHANGED <<pc, job, target, pending, voice, inbox, stream, up, refused, sel>>
    BY <1>1 DEF vars, discordVars, socketVars, voiceVars, controlVars
  <2>2. Belief' = Belief /\ InFlight' = InFlight
    BY <2>1 DEF Belief, InFlight
  <2> QED BY <2>1, <2>2, SelectFrame
<1> QED BY <1>1, SelectDiscord, SelectSession, SelectSwitch, SelectChat, SelectGet, SelectDispatch
        DEF Next, Daemon

(* Unless Discord refused a request, no switch is lost among the requests, *)
(* replies and retries of another: once there is nothing left to do, the   *)
(* daemon shows the user's channel, or none with the user, whatever races  *)
(* were run.                                                               *)
THEOREM NoSwitchIsLost == Spec => []ChannelAgrees
<1>1. Init => SelectInv
  BY DEF Init, SelectInv
<1>2. TypeInv /\ ViewInv /\ SubsInv /\ SelectInv /\ [Next]_vars => SelectInv'
  BY SelectStep
<1>3. SelectInv => ChannelAgrees
  <2> SUFFICES ASSUME SelectInv, Settled, refused = 0 PROVE voice.ch = sel
    BY DEF ChannelAgrees
  <2>1. up /\ pc = "top" /\ pending = NoChannel /\ InFlight = <<>>
    BY FlightEmpty DEF Settled
  <2>2. ~LeadsTo(InFlight, sel)
    BY <2>1, EmptyFlight
  <2> QED BY <2>1, <2>2 DEF SelectInv, Belief, Switching, Starting
<1> QED BY <1>1, <1>2, <1>3, SubsCorrect, PTL DEF Spec
-----------------------------------------------------------------------------
(* The messages shown are the channel's, but for the late ones.            *)

Adds == {"MSG_CREATE", "MSG_UPDATE"}

Shows(v, L) == \A m \in v.chat : m[1] = v.ch \/ m \in L

(* The third and fourth conjuncts of ChatInv.                              *)
FlightOK == voice.ch # NoChannel \/ Drained => OnlyOf(InFlight, voice.ch, late)
SilentOK == NoChatYet => None(InFlight, ChatEvts) /\ \A s \in subs : s[1] \notin ChatEvts

LEMMA ChatSplit ==
  /\ ChatInv <=> Shows(voice, late) /\ Shows(shown, late) /\ FlightOK /\ SilentOK
  /\ ChatInv' <=> Shows(voice', late') /\ Shows(shown', late') /\ FlightOK' /\ SilentOK'
BY DEF ChatInv, ChatOnlyLate, Shows, FlightOK, SilentOK

LEMMA OnlyNone == ASSUME NEW q, None(q, ChatEvts), NEW c, NEW L PROVE OnlyOf(q, c, L)
BY DEF OnlyOf, None, ChatEvts

(* What is all late is of every channel.                                   *)
LEMMA OnlyLate ==
  ASSUME NEW q \in Seq(Events), NEW c, NEW L, OnlyOf(q, NoChannel, L)
  PROVE  OnlyOf(q, c, L)
<1> SUFFICES ASSUME NEW i \in DOMAIN q, q[i].evt \in Adds
             PROVE  q[i].who[1] = c \/ q[i].who \in L
  BY DEF OnlyOf, Adds
<1>1. q[i] \in Events
  BY ElementOfSeq, LenProperties
<1>2. q[i].who \in Messages
  BY <1>1, EventHas DEF Adds, VoiceEvts
<1>3. q[i].who[1] # NoChannel
  BY <1>2, SessionAssumption DEF Messages
<1> QED BY <1>3 DEF OnlyOf, Adds

LEMMA OnlyAppend ==
  ASSUME NEW q \in Seq(Events), NEW e \in Events, NEW c, NEW L, OnlyOf(q, c, L),
         e.evt \in Adds => e.who[1] = c \/ e.who \in L
  PROVE  OnlyOf(Append(q, e), c, L)
<1>1. \A j \in 1..(Len(q) + 1) : j \in 1..Len(q) \/ j = Len(q) + 1
  BY AtEnd
<1> QED BY <1>1, AtEnd DEF OnlyOf, Adds

LEMMA OnlyTail ==
  ASSUME NEW q \in Seq(Events), q # <<>>, NEW c, NEW L, OnlyOf(q, c, L)
  PROVE  /\ OnlyOf(Tail(q), c, L)
         /\ Head(q).evt \in Adds => Head(q).who[1] = c \/ Head(q).who \in L
<1>1. \A i \in 1..(Len(q) - 1) : i + 1 \in 1..Len(q)
  BY AtStart
<1>2. 1 \in 1..Len(q)
  BY AtStart
<1> QED BY <1>1, <1>2, AtStart DEF OnlyOf, Adds

(* The view, the inbox and the socket keep what they have.                 *)
LEMMA ChatFrame ==
  ASSUME ChatInv, InFlight' = InFlight, UNCHANGED late,
         voice'.ch = voice.ch, voice'.chat \subseteq voice.chat,
         shown' = shown \/ shown' = voice', Drained' => Drained, SilentOK'
  PROVE  ChatInv'
<1>1. FlightOK'
  BY ChatSplit DEF FlightOK
<1> QED BY <1>1, ChatSplit DEF Shows

(* No channel is shown before the step, or none afterwards.                *)
LEMMA ChatNext ==
  ASSUME ChatInv, TypeInv, Drained, InFlight' = InFlight, UNCHANGED late,
         voice'.chat = {} \/ voice' = voice, shown' = shown, ~NoChatYet'
  PROVE  ChatInv'
<1>1. OnlyOf(InFlight, NoChannel, late)
  BY ChatSplit DEF FlightOK, Drained
<1>2. InFlight \in Seq(Events)
  BY FlightType, TypeQueues DEF TypeInv
<1>3. FlightOK' /\ SilentOK'
  BY <1>1, <1>2, OnlyLate DEF FlightOK, SilentOK
<1>4. Shows(voice', late)
  BY ChatSplit DEF Shows
<1> QED BY <1>3, <1>4, ChatSplit

(* A change of channel where Discord does not tell of it.                  *)
LEMMA SelectUnheard ==
  ASSUME TypeInv, NEW c \in Channels \cup {NoChannel}, SelectChannel(c),
         <<"SELECT", NoChannel>> \notin subs
  PROVE  \/ InFlight' = InFlight
         \/ \E d \in Channels : InFlight' = Append(InFlight, Event("DELETE", d, Self))
<1> DEFINE left == {d \in Channels : Self \in members[d]} \ {c}
           deletes == IF "empty" \in Races THEN {} ELSE {d \in left : <<"DELETE", d>> \in subs}
           d0 == CHOOSE d \in deletes : TRUE
           gone == Event("DELETE", d0, Self)
<1>1. /\ inbox' = inbox
      /\ stream' = IF ~up THEN stream ELSE IF deletes = {} THEN stream \o <<>>
                   ELSE stream \o <<gone>> \o <<>>
  BY DEF SelectChannel
<1>2. Queues
  BY TypeQueues DEF TypeInv
<1>3. deletes # {} => d0 \in Channels /\ gone \in Events
  BY EventIs, SessionAssumption DEF VoiceEvts
<1> HIDE DEF deletes
<1>4. deletes # {} => Append(stream, gone) = stream \o <<gone>> /\ Append(stream, gone) \in Seq(Events)
  BY <1>2, <1>3, AppendIsConcat, AppendProperties DEF Queues
<1>5. CASE ~up \/ deletes = {}
  BY <1>1, <1>2, <1>5, ConcatEmptySeq, FlightKept DEF Queues
<1>6. CASE up /\ deletes # {}
  <2>1. stream' = Append(stream, gone)
    BY <1>1, <1>4, <1>6, ConcatEmptySeq
  <2> QED BY <1>1, <1>2, <1>3, <1>6, <2>1, FlightAppend
<1> QED BY <1>5, <1>6

(* What chat a step of Discord's may leave in flight.                      *)
Fits(q) == /\ voice.ch # NoChannel \/ Drained => OnlyOf(q, voice.ch, late)
           /\ NoChatYet => None(q, ChatEvts)

LEMMA FitsAppend ==
  ASSUME NEW q \in Seq(Events), NEW e \in Events, e.evt \notin ChatEvts, Fits(q)
  PROVE  Fits(Append(q, e))
<1>1. e.evt \notin Adds
  BY DEF Adds, ChatEvts
<1>2. OnlyOf(q, voice.ch, late) => OnlyOf(Append(q, e), voice.ch, late)
  BY <1>1, OnlyAppend
<1>3. None(q, ChatEvts) => None(Append(q, e), ChatEvts)
  BY NoneAppend
<1> QED BY <1>2, <1>3 DEF Fits

LEMMA ChatFits ==
  ASSUME ChatInv, UNCHANGED <<pc, job, voice, shown, subs, late>>, Fits(InFlight')
  PROVE  ChatInv'
<1>1. Drained' = Drained /\ NoChatYet' = NoChatYet
  BY DEF Drained, NoChatYet
<1>2. FlightOK' /\ SilentOK'
  BY <1>1, ChatSplit DEF FlightOK, SilentOK, Fits
<1> QED BY <1>2, ChatSplit

LEMMA ChatPost ==
  ASSUME TypeInv, ChatInv, UNCHANGED <<pc, job, voice, shown, subs, inbox>>,
         NEW m \in Messages, NEW evt \in ChatEvts, Post(m, evt)
  PROVE  ChatInv'
<1> DEFINE e == Event(evt, m[1], m)
<1>1. e \in Events /\ Emit(evt, m[1], m) /\ e.evt = evt /\ e.who = m
  BY PostIs DEF Event
<1>2. Queues /\ InFlight \in Seq(Events)
  BY TypeQueues, FlightType DEF TypeInv
<1>3. /\ late \subseteq late'
      /\ up /\ <<evt, m[1]>> \in subs /\ evt \in Adds => m[1] = voice.ch \/ m \in late'
  BY DEF Post, Adds
<1>4. OnlyOf(InFlight, voice.ch, late) => OnlyOf(InFlight, voice.ch, late')
  BY <1>3 DEF OnlyOf
<1>5. Shows(voice', late') /\ Shows(shown', late')
  BY <1>3, ChatSplit DEF Shows
<1>6. \/ InFlight' = InFlight
      \/ up /\ <<evt, m[1]>> \in subs /\ InFlight' = Append(InFlight, e)
  BY <1>1, <1>2, FlightEmit
<1>7. OnlyOf(InFlight, voice.ch, late) => OnlyOf(InFlight', voice.ch, late')
  <2>1. CASE up /\ <<evt, m[1]>> \in subs /\ InFlight' = Append(InFlight, e)
    <3>1. e.evt \in Adds => e.who[1] = voice.ch \/ e.who \in late'
      BY <1>1, <1>3, <2>1
    <3> HIDE DEF e
    <3> QED BY <1>1, <1>2, <1>4, <2>1, <3>1, OnlyAppend
  <2> QED BY <1>4, <1>6, <2>1
<1>8. Drained' = Drained /\ NoChatYet' = NoChatYet
  BY DEF Drained, NoChatYet
<1>9. FlightOK'
  BY <1>7, <1>8, ChatSplit DEF FlightOK
<1>10. SilentOK'
  <2>1. SUFFICES ASSUME NoChatYet PROVE None(InFlight', ChatEvts) /\ \A s \in subs' : s[1] \notin ChatEvts
    BY <1>8 DEF SilentOK
  <2>2. None(InFlight, ChatEvts) /\ \A s \in subs : s[1] \notin ChatEvts
    BY <2>1, ChatSplit DEF SilentOK
  <2>3. InFlight' = InFlight
    BY <1>6, <2>2
  <2> QED BY <2>2, <2>3
<1> QED BY <1>5, <1>9, <1>10, ChatSplit

LEMMA ChatDiscord ==
  ASSUME TypeInv, ChatInv, Discord \/ EditConfig \/ RetryDue
  PROVE  ChatInv'
<1>1. UNCHANGED <<pc, job, voice, shown, subs, inbox>>
  <2>1. UNCHANGED <<pc, job, voice, shown, inbox>>
    BY OutsideFrame DEF controlVars
  <2>2. UNCHANGED subs
    BY DEF Discord, SelectChannel, Join, Leave, Change, Move, Post, Hangup, EditConfig, RetryDue,
       socketVars
  <2> QED BY <2>1, <2>2
<1>2. Queues /\ InFlight \in Seq(Events)
  BY TypeQueues, FlightType DEF TypeInv
<1>3. Fits(InFlight)
  BY ChatSplit DEF Fits, FlightOK, SilentOK
<1>4. ASSUME NEW c \in Channels \cup {NoChannel}, SelectChannel(c) PROVE ChatInv'
  <2>1. late' = late
    BY <1>4 DEF SelectChannel
  <2>2. /\ \A d \in Channels : Event("DELETE", d, Self) \in Events
                               /\ Event("DELETE", d, Self).evt \notin ChatEvts
        /\ Event("SELECT", c, Self) \in Events /\ Event("SELECT", c, Self).evt \notin ChatEvts
    BY EventIs, SessionAssumption DEF VoiceEvts, ChatEvts, Event
  <2>3. \A d \in Channels : /\ Append(InFlight, Event("DELETE", d, Self)) \in Seq(Events)
                            /\ Fits(Append(InFlight, Event("DELETE", d, Self)))
    BY <1>2, <1>3, <2>2, FitsAppend, AppendProperties
  <2>4. Fits(Append(InFlight, Event("SELECT", c, Self)))
    BY <1>2, <1>3, <2>2, FitsAppend
  <2>5. \A d \in Channels :
          Fits(Append(Append(InFlight, Event("DELETE", d, Self)), Event("SELECT", c, Self)))
    BY <2>2, <2>3, FitsAppend
  <2>6. Fits(InFlight')
    <3>1. CASE ~up
      BY <1>3, <1>4, <3>1, SocketDown, FlightKept
    <3>2. CASE up /\ <<"SELECT", NoChannel>> \in subs
      BY <1>4, <2>4, <2>5, <3>2, FlightSelect
    <3>3. CASE <<"SELECT", NoChannel>> \notin subs
      BY <1>3, <1>4, <2>3, <3>3, SelectUnheard
    <3> QED BY <3>1, <3>2, <3>3
  <2> QED BY <1>1, <2>1, <2>6, ChatFits
<1>5. ASSUME NEW u \in Users, NEW c \in Channels,
             Join(u, c) \/ Leave(u, c) \/ \E evt \in {"UPDATE", "START", "STOP"} : Change(u, c, evt)
      PROVE  ChatInv'
  <2>1. \A evt \in VoiceEvts : Event(evt, c, u) \in Events /\ Event(evt, c, u).evt \notin ChatEvts
    BY EventIs DEF Event, VoiceEvts, ChatEvts
  <2>2. PICK evt \in VoiceEvts : Emit(evt, c, u) /\ late' = late
    BY <1>5 DEF Join, Leave, Change, Move, VoiceEvts
  <2>3. InFlight' = InFlight \/ InFlight' = Append(InFlight, Event(evt, c, u))
    BY <1>1, <1>2, <2>1, <2>2, FlightEmit
  <2>4. Fits(InFlight')
    BY <1>2, <1>3, <2>1, <2>3, FitsAppend
  <2> QED BY <1>1, <2>2, <2>4, ChatFits
<1>6. ASSUME NEW m \in Messages, NEW evt \in ChatEvts, Post(m, evt) PROVE ChatInv'
  BY <1>1, <1>6, ChatPost
<1>7. CASE Hangup \/ EditConfig \/ RetryDue
  <2>1. UNCHANGED <<stream, late>>
    BY <1>7 DEF Hangup, EditConfig, RetryDue, socketVars, discordVars
  <2> QED BY <1>1, <1>3, <2>1, FlightKept, ChatFits
<1> QED BY <1>4, <1>5, <1>6, <1>7 DEF Discord, ChatEvts

LEMMA NoVoiceShows ==
  /\ \A L : Shows(NoVoice, L)
  /\ NoVoice.ch = NoChannel
  /\ \A v, L : v.chat = {} => Shows(v, L)
BY DEF Shows, NoVoice

(* Nothing is in flight.                                                   *)
LEMMA ChatEmpty ==
  ASSUME ChatInv, InFlight' = <<>>, UNCHANGED late, Shows(voice', late), Shows(shown', late),
         NoChatYet' => subs' = {}
  PROVE  ChatInv'
BY EmptyFlight, OnlyNone, ChatSplit DEF FlightOK, SilentOK

LEMMA CalmNoChatYet == ASSUME pc' \in Calm PROVE ~NoChatYet'
BY DEF Calm, NoChatYet, Switching

LEMMA ChatSession ==
  ASSUME TypeInv, ViewInv, ChatInv,
         \/ StartSession \/ SubscribeSelect \/ LoopTop \/ DrainDone \/ Publish \/ SyncIdle \/ Cleanup
         \/ ConfigUnchanged \/ ConfigChanged \/ ControlIdle \/ TrayTogglesChat \/ Reconnect
  PROVE  ChatInv'
<1>0. late' = late
  BY DEF StartSession, SubscribeSelect, LoopTop, DrainDone, Publish, SyncIdle, Cleanup,
     ConfigUnchanged, ConfigChanged, ControlIdle, TrayTogglesChat, Reconnect, discordVars
<1>1. CASE StartSession
  <2>1. InFlight' = <<>> /\ UNCHANGED <<voice, shown>> /\ subs' = {}
    BY <1>1, FlightEmpty DEF StartSession, InFlight, voiceVars
  <2> QED BY <1>0, <2>1, ChatSplit, ChatEmpty
<1>2. CASE SubscribeSelect
  <2>1. /\ pc = "subscribeSelect" /\ pc' = "firstGet" /\ UNCHANGED <<voice, shown>>
        /\ RpcOk \/ RpcFails
        /\ subs' \subseteq subs \cup {<<"SELECT", NoChannel>>}
    BY <1>2 DEF SubscribeSelect, Goto, voiceVars
  <2>2. InFlight' = InFlight
    BY <2>1, FlightRpc, TypeQueues DEF TypeInv
  <2>3. Drained
    BY <2>1 DEF ViewInv, ViewOK, Drained, NoVoice, Starting, Switching
  <2>4. None(InFlight, ChatEvts) /\ \A s \in subs : s[1] \notin ChatEvts
    BY <2>1, ChatSplit DEF SilentOK, NoChatYet
  <2>5. SilentOK'
    BY <2>1, <2>2, <2>4 DEF SilentOK, ChatEvts
  <2> QED BY <1>0, <2>1, <2>2, <2>3, <2>5, ChatFrame
<1>3. CASE LoopTop \/ Publish \/ SyncIdle \/ ConfigUnchanged \/ ConfigChanged \/ ControlIdle
           \/ TrayTogglesChat \/ Reconnect
  <2>1. UNCHANGED <<inbox, stream>>
    BY <1>3 DEF LoopTop, Publish, SyncIdle, ConfigUnchanged, ConfigChanged, ControlIdle,
       TrayTogglesChat, Reconnect, socketVars
  <2>2. pc \in Calm /\ pc' \in Calm /\ pc # "drain"
    BY <1>3 DEF LoopTop, Publish, SyncIdle, ConfigUnchanged, ConfigChanged, ControlIdle,
       TrayTogglesChat, Reconnect, Goto, Calm
  <2>3. voice'.ch = voice.ch /\ voice'.chat \subseteq voice.chat /\ (shown' = shown \/ shown' = voice')
    <3>1. CASE Publish
      <4>1. PICK kept \in SUBSET voice.chat :
              /\ voice' = [voice EXCEPT !.chat = kept]
              /\ shown' = IF changed \/ kept # voice.chat THEN voice' ELSE shown
        BY <3>1 DEF Publish
      <4> QED BY <4>1, ChatOnly
    <3>2. CASE ~Publish
      BY <1>3, <3>2 DEF LoopTop, SyncIdle, ConfigUnchanged, ConfigChanged, ControlIdle,
         TrayTogglesChat, Reconnect, voiceVars
    <3> QED BY <3>1, <3>2
  <2>4. Drained' => Drained
    BY <2>2, <2>3, CalmIs DEF Drained
  <2>5. SilentOK'
    BY <2>2, CalmNoChatYet DEF SilentOK
  <2> QED BY <1>0, <2>1, <2>3, <2>4, <2>5, FlightKept, ChatFrame
<1>4. CASE DrainDone
  <2>1. /\ inbox = <<>> /\ stream = <<>> /\ UNCHANGED <<inbox, stream, voice, shown>>
        /\ pc' \in {"sync", "cleanup"}
    BY <1>4 DEF DrainDone, voiceVars, Goto
  <2>2. InFlight' = <<>>
    BY <2>1, FlightEmpty, FlightKept
  <2>3. ~NoChatYet'
    BY <2>1 DEF NoChatYet, Switching
  <2> QED BY <1>0, <2>1, <2>2, <2>3, ChatSplit, ChatEmpty
<1>5. CASE Cleanup
  <2>1. InFlight' = <<>> /\ voice' = NoVoice /\ shown' = NoVoice /\ subs' = {}
    BY <1>5, FlightEmpty DEF Cleanup, InFlight
  <2> QED BY <1>0, <2>1, ChatEmpty, NoVoiceShows
<1> QED BY <1>1, <1>2, <1>3, <1>4, <1>5

LEMMA ChatSwitch ==
  ASSUME TypeInv, ViewInv, ChatInv, Unsubscribe \/ Subscribe \/ AfterUnsubscribe \/ AfterSubscribe
  PROVE  ChatInv'
<1>0. late' = late
  BY DEF Unsubscribe, Subscribe, AfterUnsubscribe, AfterSubscribe, discordVars
<1>1. CASE Unsubscribe \/ Subscribe
  <2>1. /\ pc \in Switching /\ pc' \in Switching /\ UNCHANGED <<job, voice, shown>>
        /\ RpcOk \/ RpcFails
        /\ \A s \in subs' : s \in subs \/ s[1] \in VoiceEvts
    <3>1. \A i \in DOMAIN VoiceKinds : VoiceKinds[i] \in VoiceEvts
      BY KindSets
    <3>2. k \in DOMAIN VoiceKinds
      BY Kinds DEF TypeInv, TypeOK
    <3> QED BY <1>1, <3>1, <3>2 DEF Unsubscribe, Subscribe, voiceVars, Switching
  <2>2. InFlight' = InFlight
    BY <2>1, FlightRpc, TypeQueues DEF TypeInv
  <2>3. (Drained' => Drained) /\ (NoChatYet' => NoChatYet)
    BY <2>1 DEF Drained, NoChatYet, Switching
  <2>4. SilentOK'
    BY <2>1, <2>2, <2>3, ChatSplit DEF SilentOK, ChatEvts, VoiceEvts
  <2> QED BY <1>0, <2>1, <2>2, <2>3, <2>4, ChatFrame
<1>2. CASE AfterUnsubscribe
  <2>1. /\ UNCHANGED <<inbox, stream, shown, job>> /\ pc = "unsubscribed"
        /\ \/ job \in {"select", "resync"} /\ pc' = "sub" /\ voice' = voice
           \/ job = "deselect" /\ voice' = NoVoice /\ pc' = "drain"
           \/ job = "abandon" /\ voice' = voice /\ pc' = "chat"
    BY <1>2 DEF AfterUnsubscribe, socketVars
  <2>2. InFlight' = InFlight
    BY <2>1, FlightKept
  <2>3. SilentOK'
    BY <2>1 DEF SilentOK, NoChatYet, Switching
  <2>4. CASE job \in {"select", "resync"} /\ pc' = "sub" /\ voice' = voice
    <3>1. Drained' => Drained
      BY <2>1, <2>4 DEF Drained, Switching
    <3> QED BY <1>0, <2>1, <2>2, <2>3, <2>4, <3>1, ChatFrame
  <2>5. CASE job = "deselect" /\ voice' = NoVoice /\ pc' = "drain"
    <3>1. ~Drained'
      BY <2>5 DEF Drained, Switching
    <3>2. FlightOK'
      BY <2>5, <3>1, NoVoiceShows DEF FlightOK
    <3> QED BY <1>0, <2>1, <2>3, <2>5, <3>2, NoVoiceShows, ChatSplit
  <2>6. CASE job = "abandon" /\ voice' = voice
    <3>1. Drained
      BY <2>1, <2>6 DEF Drained, ViewInv, SwitchOK, Switching
    <3> QED BY <1>0, <2>1, <2>2, <2>3, <2>6, <3>1, ChatFrame
  <2> QED BY <2>1, <2>4, <2>5, <2>6
<1>3. CASE AfterSubscribe
  <2>1. /\ UNCHANGED <<inbox, stream, shown, job>> /\ pc = "subscribed"
        /\ \/ job = "start" /\ voice' = voice
           \/ voice' = NoVoice
        /\ job \in {"start", "select", "resync"}
        /\ job = "select" => pc' = "drain" /\ voice' = NoVoice
        /\ pc' \notin Switching \cup {"subscribeSelect", "firstGet"}
    BY <1>3 DEF AfterSubscribe, socketVars, TypeInv, Switching
  <2>2. InFlight' = InFlight
    BY <2>1, FlightKept
  <2>3. ~NoChatYet'
    BY <2>1 DEF NoChatYet
  <2>4. CASE job = "select"
    <3>1. ~Drained'
      BY <2>1, <2>4 DEF Drained, Switching
    <3>2. FlightOK' /\ SilentOK'
      BY <2>1, <2>3, <2>4, <3>1, NoVoiceShows DEF FlightOK, SilentOK
    <3> QED BY <1>0, <2>1, <2>4, <3>2, NoVoiceShows, ChatSplit
  <2>5. CASE job = "start"
    <3>1. None(InFlight, ChatEvts)
      BY <2>1, <2>5, ChatSplit DEF SilentOK, NoChatYet, Switching
    <3>2. FlightOK' /\ SilentOK'
      BY <1>0, <2>2, <2>3, <3>1, OnlyNone DEF FlightOK, SilentOK
    <3>3. Shows(voice', late)
      BY <2>1, NoVoiceShows, ChatSplit
    <3> QED BY <1>0, <2>1, <3>2, <3>3, ChatSplit
  <2>6. CASE job = "resync"
    <3>1. Drained
      BY <2>1, <2>6 DEF Drained, ViewInv, SwitchOK, Switching
    <3>2. voice'.chat = {}
      BY <2>1, <2>6 DEF NoVoice
    <3> QED BY <1>0, <2>1, <2>2, <2>3, <3>1, <3>2, ChatNext
  <2> QED BY <2>1, <2>4, <2>5, <2>6
<1> QED BY <1>1, <1>2, <1>3

LEMMA ChatChat ==
  ASSUME TypeInv, ViewInv, ChatInv, RefreshChat \/ ChatUnsubscribe \/ ClearChatState \/ ChatSubscribe
  PROVE  ChatInv'
<1>1. /\ UNCHANGED <<shown, late>> /\ pc \in {"chat"} \cup Chatting /\ pc' \in Calm \cup Chatting
  BY CalmReturns
     DEF RefreshChat, ChatUnsubscribe, ClearChatState, ChatSubscribe, Goto, Chatting, discordVars
<1>2. /\ pc \notin Switching /\ pc' \notin Switching /\ pc # "drain"
      /\ pc' \notin {"subscribeSelect", "firstGet"}
  BY <1>1, CalmIs, CalmNoChatYet DEF Chatting, Switching, Calm
<1>3. voice'.ch = voice.ch /\ voice'.chat \subseteq voice.chat
  <2>1. CASE ClearChatState
    <3>1. voice' = [voice EXCEPT !.chat = {}] /\ {} \in SUBSET voice.chat
      BY <2>1 DEF ClearChatState
    <3> QED BY <3>1, ChatOnly
  <2>2. CASE RefreshChat \/ ChatUnsubscribe \/ ChatSubscribe
    BY <2>2 DEF RefreshChat, ChatUnsubscribe, ChatSubscribe, voiceVars
  <2> QED BY <2>1, <2>2
<1>4. InFlight' = InFlight
  <2>1. CASE RefreshChat \/ ClearChatState
    BY <2>1, FlightKept DEF RefreshChat, ClearChatState, socketVars
  <2>2. CASE ChatUnsubscribe \/ ChatSubscribe
    <3>1. RpcOk \/ RpcFails
      BY <2>2 DEF ChatUnsubscribe, ChatSubscribe
    <3> QED BY <3>1, FlightRpc, TypeQueues DEF TypeInv
  <2> QED BY <2>1, <2>2
<1>5. (Drained' => Drained) /\ SilentOK'
  BY <1>2, <1>3 DEF Drained, SilentOK, NoChatYet
<1> QED BY <1>1, <1>3, <1>4, <1>5, ChatFrame

(* A snapshot has no chat, and is only taken when what is in flight is all *)
(* late, or no chat at all.                                                *)
LEMMA ChatGet ==
  ASSUME TypeInv, ViewInv, ChatInv, FirstGet \/ Sync \/ SyncAgain
  PROVE  ChatInv'
<1>1. PICK s \in {Selected, NoVoice} : Get(s) /\ (voice' = s \/ voice' = voice \/ Settle(s))
  BY DEF FirstGet, Sync, SyncAgain, voiceVars
<1>2. s.chat = {} /\ s \in VoiceStates
  BY <1>1, GetType DEF TypeInv
<1>3. voice' = voice \/ voice'.chat = {}
  BY <1>1, <1>2 DEF Settle, VoiceStates
<1>4. InFlight' = InFlight /\ shown' = shown /\ subs' = subs /\ late' = late
  <2>1. RpcOk \/ RpcFails
    BY <1>1 DEF Get
  <2>2. shown' = shown /\ subs' = subs /\ late' = late
    BY DEF FirstGet, Sync, SyncAgain, discordVars
  <2> QED BY <2>1, <2>2, FlightRpc, TypeQueues DEF TypeInv
<1>5. CASE FirstGet
  <2>1. pc = "firstGet"
    BY <1>5 DEF FirstGet
  <2>2. None(InFlight, ChatEvts) /\ \A x \in subs : x[1] \notin ChatEvts
    BY <2>1, ChatSplit DEF SilentOK, NoChatYet
  <2>3. FlightOK' /\ SilentOK'
    BY <1>4, <2>2, OnlyNone DEF FlightOK, SilentOK
  <2>4. Shows(voice', late)
    BY <1>3, ChatSplit, NoVoiceShows
  <2> QED BY <1>4, <2>3, <2>4, ChatSplit
<1>6. CASE Sync \/ SyncAgain
  <2>1. pc \in {"sync", "syncAgain"} /\ voice.ch = NoChannel
    BY <1>6 DEF Sync, SyncAgain, ViewInv, ViewOK
  <2>2. Drained
    BY <2>1 DEF Drained, Switching
  <2>3. ~NoChatYet'
    <3>1. pc' = "chat" \/ job' \in {"abandon", "resync"}
      BY <1>6 DEF Sync, SyncAgain, Settle, Goto, EnterUnsub, Schedule
    <3>2. pc' \notin {"subscribeSelect", "firstGet"}
      BY <1>6 DEF Sync, SyncAgain, Settle, Goto, EnterUnsub, Schedule
    <3> QED BY <3>1, <3>2 DEF NoChatYet, Switching
  <2> QED BY <1>3, <1>4, <2>2, <2>3, ChatNext
<1> QED BY <1>5, <1>6

LEMMA ChatDispatch == ASSUME TypeInv, ViewInv, ChatInv, Dispatch PROVE ChatInv'
<1>1. PICK e : NextEvent(e) /\ (HandleSelect(e) \/ HandleVoice(e) \/ HandleChat(e))
  BY DEF Dispatch
<1>2. pc = "drain" /\ shown' = shown /\ late' = late
  BY DEF Dispatch, discordVars
<1>3. /\ InFlight # <<>> /\ e = Head(InFlight) /\ e \in Events /\ InFlight' = Tail(InFlight)
      /\ InFlight \in Seq(Events)
  BY <1>1, FlightNext, FlightType, TypeQueues DEF TypeInv
<1>4. voice.ch # NoChannel =>
        /\ OnlyOf(InFlight', voice.ch, late)
        /\ e.evt \in Adds => e.who[1] = voice.ch \/ e.who \in late
  BY <1>3, OnlyTail, ChatSplit DEF FlightOK
<1>5. ~Drained' /\ ~NoChatYet'
  <2>1. pc' = pc \/ (pc' \in Switching /\ job' \in {"select", "deselect"})
    BY <1>1 DEF HandleSelect, HandleVoice, HandleChat, EnterUnsub, Schedule, Switching
  <2> QED BY <1>2, <2>1 DEF Drained, NoChatYet, Switching
<1>6. /\ voice'.ch = voice.ch
      /\ \/ voice'.chat \subseteq voice.chat
         \/ voice.ch # NoChannel /\ e.evt \in Adds /\ voice'.chat = voice.chat \cup {e.who}
  <2>1. CASE HandleSelect(e)
    BY <2>1 DEF HandleSelect
  <2>2. CASE HandleVoice(e)
    BY <2>2 DEF HandleVoice, AppliedVoice, TypeInv, TypeOK, VoiceStates
  <2>3. CASE HandleChat(e)
    BY <2>3 DEF HandleChat, TypeInv, TypeOK, VoiceStates, Adds
  <2> QED BY <1>1, <2>1, <2>2, <2>3
<1>7. Shows(voice, late) /\ Shows(shown, late)
  BY ChatSplit
<1>8. Shows(voice', late)
  BY <1>4, <1>6, <1>7 DEF Shows
<1>9. FlightOK' /\ SilentOK'
  BY <1>2, <1>4, <1>5, <1>6 DEF FlightOK, SilentOK
<1> QED BY <1>2, <1>7, <1>8, <1>9, ChatSplit

LEMMA ChatStep ==
  ASSUME TypeInv, ViewInv, ChatInv, [Next]_vars
  PROVE  ChatInv'
<1>1. CASE UNCHANGED vars
  <2>1. UNCHANGED <<pc, job, voice, shown, inbox, stream, subs, late>>
    BY <1>1 DEF vars, socketVars, voiceVars, controlVars, discordVars
  <2>2. Fits(InFlight')
    BY <2>1, FlightKept, ChatSplit DEF Fits, FlightOK, SilentOK
  <2> QED BY <2>1, <2>2, ChatFits
<1> QED BY <1>1, ChatDiscord, ChatSession, ChatSwitch, ChatChat, ChatGet, ChatDispatch
        DEF Next, Daemon

(* A message shown beside the members of another channel was sent when the *)
(* daemon had stopped showing its own: whatever is refused or lost and     *)
(* whoever posts when, no message sent before survives a switch, the chat  *)
(* option, the unsubscribing or a reconnection in inbox, socket or view.   *)
THEOREM ChatFollowsChannel == Spec => []ChatOnlyLate
<1>1. Init => ChatInv
  <2>1. SUFFICES ASSUME Init PROVE ChatInv
    OBVIOUS
  <2>2. InFlight = <<>> /\ voice = NoVoice /\ shown = NoVoice /\ subs = {}
    BY <2>1, FlightEmpty DEF Init
  <2>3. FlightOK /\ SilentOK
    BY <2>2, EmptyFlight, OnlyNone DEF FlightOK, SilentOK
  <2> QED BY <2>2, <2>3, NoVoiceShows, ChatSplit
<1>2. TypeInv /\ ViewInv /\ ChatInv /\ [Next]_vars => ChatInv'
  BY ChatStep
<1>3. ChatInv => ChatOnlyLate
  BY DEF ChatInv
<1> QED BY <1>1, <1>2, <1>3, ViewCorrect, PTL DEF Spec
-----------------------------------------------------------------------------
(* The people shown are the people there: what replaying events does.      *)

OneSelect(q) ==
  \A i, j \in DOMAIN q : q[i].evt = "SELECT" /\ q[j].evt = "SELECT" => i = j

LEMMA OneAppend ==
  ASSUME NEW q \in Seq(Events), NEW e \in Events,
         None(q, {"SELECT"}) \/ (e.evt # "SELECT" /\ OneSelect(q))
  PROVE  OneSelect(Append(q, e))
<1>1. \A j \in 1..(Len(q) + 1) : j \in 1..Len(q) \/ j = Len(q) + 1
  BY AtEnd
<1>2. CASE None(q, {"SELECT"})
  BY <1>1, <1>2, AtEnd DEF OneSelect, None
<1>3. CASE e.evt # "SELECT" /\ OneSelect(q)
  BY <1>1, <1>3, AtEnd DEF OneSelect
<1> QED BY <1>2, <1>3

LEMMA OneTail ==
  ASSUME NEW q \in Seq(Events), q # <<>>, OneSelect(q)
  PROVE  OneSelect(Tail(q)) /\ (Head(q).evt = "SELECT" => None(Tail(q), {"SELECT"}))
<1>1. \A i \in DOMAIN Tail(q) : i \in Nat /\ i # 0 /\ i + 1 \in DOMAIN q /\ Tail(q)[i] = q[i + 1]
  BY AtStart
<1>2. ASSUME NEW i \in DOMAIN Tail(q), NEW j \in DOMAIN Tail(q),
             Tail(q)[i].evt = "SELECT", Tail(q)[j].evt = "SELECT"
      PROVE  i = j
  <2>1. i + 1 = j + 1
    BY <1>1, <1>2 DEF OneSelect
  <2> QED BY <1>1, <2>1
<1>3. ASSUME Head(q).evt = "SELECT", NEW i \in DOMAIN Tail(q) PROVE Tail(q)[i].evt # "SELECT"
  <2>1. 1 \in DOMAIN q /\ q[1].evt = "SELECT" /\ i + 1 # 1
    BY <1>1, <1>3, AtStart
  <2> QED BY <1>1, <2>1 DEF OneSelect
<1> QED BY <1>2, <1>3 DEF OneSelect, None

LEMMA ReplayedNone ==
  ASSUME NEW q, None(q, StatusEvts), NEW u, NEW S
  PROVE  Replayed(q, u, S) <=> u \in S
BY DEF Replayed, None, StatusEvts

(* One more event at the end.                                              *)
LEMMA ReplayedAppend ==
  ASSUME NEW q \in Seq(Events), NEW e \in Events, NEW u, NEW S
  PROVE  /\ e.who = u /\ e.evt \in {"CREATE", "UPDATE"} => Replayed(Append(q, e), u, S)
         /\ e.who = u /\ e.evt = "DELETE" => ~Replayed(Append(q, e), u, S)
         /\ e.who # u \/ e.evt \notin StatusEvts =>
              (Replayed(Append(q, e), u, S) <=> Replayed(q, u, S))
<1> DEFINE p == Append(q, e)
           n == Len(q) + 1
<1>1. /\ n \in Nat \ {0} /\ DOMAIN p = 1..n /\ p[n] = e
      /\ \A i \in DOMAIN q : i \in DOMAIN p /\ i < n /\ p[i] = q[i]
      /\ \A i \in DOMAIN p : i \in DOMAIN q \/ i = n
  BY AtEnd
<1> HIDE DEF p, n
<1>2. n \in DOMAIN p /\ \A i \in DOMAIN p : i <= n
  BY <1>1
<1>3. CASE e.who = u /\ e.evt \in {"CREATE", "UPDATE"}
  <2>1. \A j \in DOMAIN p : ~(j > n)
    BY <1>1
  <2>2. Replayed(p, u, S)
    BY <1>1, <1>2, <1>3, <2>1 DEF Replayed
  <2> QED BY <1>3, <2>2 DEF p, StatusEvts
<1>4. CASE e.who = u /\ e.evt = "DELETE"
  <2>1. \A i \in DOMAIN p : i # n => n > i
    BY <1>1
  <2>2. ~Replayed(p, u, S)
    BY <1>1, <1>2, <1>4, <2>1 DEF Replayed
  <2> QED BY <1>4, <2>2 DEF p, StatusEvts
<1>5. CASE e.who # u \/ e.evt \notin StatusEvts
  <2>1. \A i \in DOMAIN p : p[i].who = u /\ p[i].evt \in StatusEvts => i \in DOMAIN q /\ p[i] = q[i]
    BY <1>1, <1>5
  <2>2. Replayed(p, u, S) <=> Replayed(q, u, S)
    BY <1>1, <2>1 DEF Replayed, StatusEvts
  <2> QED BY <1>5, <2>2 DEF p, StatusEvts
<1> QED BY <1>3, <1>4, <1>5 DEF StatusEvts

(* The first event is applied.                                             *)
LEMMA ReplayedTail ==
  ASSUME NEW q \in Seq(Events), q # <<>>, NEW u, NEW S, NEW T,
         /\ Head(q).who = u /\ Head(q).evt \in {"CREATE", "UPDATE"} => u \in T
         /\ Head(q).who = u /\ Head(q).evt = "DELETE" => u \notin T
         /\ Head(q).who # u \/ Head(q).evt \notin StatusEvts => (u \in T <=> u \in S)
  PROVE  Replayed(Tail(q), u, T) <=> Replayed(q, u, S)
<1> DEFINE e == Head(q)
           p == Tail(q)
           D == {i \in DOMAIN q : i # 1}
<1>1. /\ 1 \in DOMAIN q /\ q[1] = e /\ DOMAIN q \subseteq Nat
      /\ \A i \in DOMAIN p : i \in Nat /\ i + 1 \in D /\ p[i] = q[i + 1]
      /\ \A i \in D : i - 1 \in DOMAIN p /\ p[i - 1] = q[i] /\ i > 1 /\ i \in Nat
  BY AtStart
<1> DEFINE Later == \E i \in D : /\ q[i].who = u /\ q[i].evt \in {"CREATE", "UPDATE"}
                                 /\ \A j \in D : j > i => q[j].who # u \/ q[j].evt # "DELETE"
           Gone == \E j \in D : q[j].who = u /\ q[j].evt = "DELETE"
<1> HIDE DEF e, p, D
<1>2. Replayed(p, u, T) <=> Later \/ (u \in T /\ ~Gone)
  <2>1. (\E i \in DOMAIN p : /\ p[i].who = u /\ p[i].evt \in {"CREATE", "UPDATE"}
                             /\ \A j \in DOMAIN p : j > i => p[j].who # u \/ p[j].evt # "DELETE")
        <=> Later
    <3>1. ASSUME NEW i \in DOMAIN p, p[i].who = u, p[i].evt \in {"CREATE", "UPDATE"},
                 \A j \in DOMAIN p : j > i => p[j].who # u \/ p[j].evt # "DELETE"
          PROVE  Later
      <4>0. i \in Nat /\ \A j \in D : j \in Nat
        BY <1>1
      <4>1. \A j \in D : j > i + 1 => j - 1 > i
        BY <4>0
      <4>2. \A j \in D : j > i + 1 => q[j].who # u \/ q[j].evt # "DELETE"
        BY <1>1, <3>1, <4>1
      <4> QED BY <1>1, <3>1, <4>2
    <3>2. ASSUME Later
          PROVE  \E i \in DOMAIN p : /\ p[i].who = u /\ p[i].evt \in {"CREATE", "UPDATE"}
                             /\ \A j \in DOMAIN p : j > i => p[j].who # u \/ p[j].evt # "DELETE"
      <4>1. PICK i \in D : /\ q[i].who = u /\ q[i].evt \in {"CREATE", "UPDATE"}
                           /\ \A j \in D : j > i => q[j].who # u \/ q[j].evt # "DELETE"
        BY <3>2
      <4>0. i \in Nat /\ \A j \in DOMAIN p : j \in Nat
        BY <1>1
      <4>2. \A j \in DOMAIN p : j > i - 1 => j + 1 > i
        BY <4>0
      <4>3. \A j \in DOMAIN p : j > i - 1 => p[j].who # u \/ p[j].evt # "DELETE"
        BY <1>1, <4>1, <4>2
      <4> QED BY <1>1, <4>1, <4>3
    <3> HIDE DEF Later
    <3> QED BY <3>1, <3>2
  <2>2. (\A i \in DOMAIN p : p[i].who # u \/ p[i].evt # "DELETE") <=> ~Gone
    <3>1. ASSUME NEW i \in DOMAIN p, p[i].who = u, p[i].evt = "DELETE" PROVE Gone
      BY <1>1, <3>1
    <3>2. ASSUME NEW j \in D, q[j].who = u, q[j].evt = "DELETE"
          PROVE  \E i \in DOMAIN p : p[i].who = u /\ p[i].evt = "DELETE"
      BY <1>1, <3>2
    <3> QED BY <3>1, <3>2
  <2> QED BY <2>1, <2>2 DEF Replayed
<1>3. Replayed(q, u, S) <=>
        \/ Later
        \/ ~Gone /\ e.who = u /\ e.evt \in {"CREATE", "UPDATE"}
        \/ ~Gone /\ u \in S /\ (e.who # u \/ e.evt # "DELETE")
  <2>1. \A i \in DOMAIN q : i = 1 \/ i \in D
    BY DEF D
  <2>2. D \subseteq DOMAIN q
    BY DEF D
  <2>3. \A j \in D : j > 1
    BY <1>1
  <2>4. (\A i \in DOMAIN q : q[i].who # u \/ q[i].evt # "DELETE")
        <=> ~Gone /\ (e.who # u \/ e.evt # "DELETE")
    BY <1>1, <2>1, <2>2
  <2>5. (\E i \in DOMAIN q : /\ q[i].who = u /\ q[i].evt \in {"CREATE", "UPDATE"}
                             /\ \A j \in DOMAIN q : j > i => q[j].who # u \/ q[j].evt # "DELETE")
        <=> Later \/ (~Gone /\ e.who = u /\ e.evt \in {"CREATE", "UPDATE"})
    <3>1. ASSUME NEW i \in DOMAIN q, q[i].who = u, q[i].evt \in {"CREATE", "UPDATE"},
                 \A j \in DOMAIN q : j > i => q[j].who # u \/ q[j].evt # "DELETE"
          PROVE  Later \/ (~Gone /\ e.who = u /\ e.evt \in {"CREATE", "UPDATE"})
      <4>1. CASE i = 1
        BY <1>1, <2>2, <2>3, <3>1, <4>1
      <4>2. CASE i \in D
        BY <2>2, <3>1, <4>2
      <4> QED BY <2>1, <4>1, <4>2
    <3>2. ASSUME ~Gone, e.who = u, e.evt \in {"CREATE", "UPDATE"}
          PROVE  /\ 1 \in DOMAIN q /\ q[1].who = u /\ q[1].evt \in {"CREATE", "UPDATE"}
                 /\ \A j \in DOMAIN q : j > 1 => q[j].who # u \/ q[j].evt # "DELETE"
      BY <1>1, <2>1, <3>2
    <3>3. ASSUME NEW i \in D, q[i].who = u, q[i].evt \in {"CREATE", "UPDATE"},
                 \A j \in D : j > i => q[j].who # u \/ q[j].evt # "DELETE"
          PROVE  /\ i \in DOMAIN q
                 /\ \A j \in DOMAIN q : j > i => q[j].who # u \/ q[j].evt # "DELETE"
      <4>1. ~(1 > i)
        BY <1>1
      <4> QED BY <2>1, <2>2, <3>3, <4>1
    <3> QED BY <3>1, <3>2, <3>3
  <2> HIDE DEF Later, Gone
  <2>6. Replayed(q, u, S) <=>
          \/ (Later \/ (~Gone /\ e.who = u /\ e.evt \in {"CREATE", "UPDATE"}))
          \/ (u \in S /\ (~Gone /\ (e.who # u \/ e.evt # "DELETE")))
    BY <2>4, <2>5 DEF Replayed
  <2> QED BY <2>6
<1>4. /\ e.who = u /\ e.evt \in {"CREATE", "UPDATE"} => u \in T
      /\ e.who = u /\ e.evt = "DELETE" => u \notin T
      /\ e.who # u \/ e.evt \notin StatusEvts => (u \in T <=> u \in S)
  BY DEF e
<1> HIDE DEF Later, Gone
<1>5. Replayed(p, u, T) <=> Replayed(q, u, S)
  <2>1. CASE e.who = u /\ e.evt \in {"CREATE", "UPDATE"}
    BY <1>2, <1>3, <1>4, <2>1
  <2>2. CASE e.who = u /\ e.evt = "DELETE"
    BY <1>2, <1>3, <1>4, <2>2
  <2>3. CASE e.who # u \/ e.evt \notin StatusEvts
    BY <1>2, <1>3, <1>4, <2>3 DEF StatusEvts
  <2> QED BY <2>1, <2>2, <2>3 DEF StatusEvts
<1> QED BY <1>5 DEF p

(* The inbox and the stream, as a set and as a sequence.                   *)
LEMMA UndeliveredIs ==
  ASSUME Queues, \A e \in Undelivered : e.evt # "SELECT"
  PROVE  None(InFlight, {"SELECT"})
<1>1. /\ Len(InFlight) = Len(inbox) + Len(stream) /\ DOMAIN InFlight = 1..Len(InFlight)
      /\ \A i \in 1..Len(InFlight) :
           InFlight[i] = IF i <= Len(inbox) THEN inbox[i] ELSE stream[i - Len(inbox)]
  BY ConcatProperties, LenProperties, FlightType DEF Queues, InFlight
<1>2. /\ DOMAIN inbox = 1..Len(inbox) /\ DOMAIN stream = 1..Len(stream)
      /\ Len(inbox) \in Nat /\ Len(stream) \in Nat
  BY LenProperties DEF Queues
<1>3. ASSUME NEW i \in DOMAIN InFlight PROVE InFlight[i] \in Undelivered
  <2>1. CASE i <= Len(inbox)
    BY <1>1, <1>2, <2>1 DEF Undelivered
  <2>2. CASE ~(i <= Len(inbox))
    <3>1. i - Len(inbox) \in DOMAIN stream /\ InFlight[i] = stream[i - Len(inbox)]
      BY <1>1, <1>2, <2>2
    <3> QED BY <3>1 DEF Undelivered
  <2> QED BY <2>1, <2>2
<1> QED BY <1>3 DEF None
-----------------------------------------------------------------------------
(* The people shown are the people there.                                  *)

(* Nothing this theorem excludes happens, and the daemon may retry.        *)
NoRace == /\ {"hasty", "early", "empty"} \cap Races = {}
          /\ MaxRefusals = 0 /\ MaxAttempts > 1

Leads(q, S, T) == \A u \in Users : Replayed(q, u, S) <=> u \in T

(* The conjuncts of RosterInv.                                             *)
Here == sel # NoChannel => Self \in members[sel]
FirstOK == pc \in {"subscribeSelect", "firstGet"} => first
OneSwitch == /\ OneSelect(InFlight)
             /\ \/ pending # NoChannel
                \/ pc \in Switching /\ job # "start"
                => None(InFlight, {"SELECT"})
JobsOK == /\ pc \in Switching => job \in {"start", "select", "deselect"}
          /\ pc # "syncAgain"
BeforeOK == pc = "firstGet" => None(InFlight, StatusEvts)
StartOK == pc \in Switching /\ job = "start" =>
             /\ first /\ sel = target /\ voice.users = members[sel]
             /\ Leads(InFlight, voice.users, members[sel])
SyncOK == pc = "sync" /\ pending # NoChannel => Leads(InFlight, members[sel], members[sel])
PeopleOK == pc \notin Switching /\ voice.ch = sel /\ sel # NoChannel =>
              Leads(InFlight, voice.users, members[sel])
WhileUp == OneSwitch /\ JobsOK /\ BeforeOK /\ StartOK /\ SyncOK /\ PeopleOK

LEMMA RosterSplit ==
  /\ RosterInv <=> Here /\ FirstOK /\ (up => WhileUp)
  /\ RosterInv' <=> Here' /\ FirstOK' /\ (up' => WhileUp')
BY DEF RosterInv, RosterFrom, Here, FirstOK, WhileUp, OneSwitch, JobsOK, BeforeOK, StartOK, SyncOK,
   PeopleOK, OneSelect, Leads, StatusEvts

(* The last three in the next state.                                       *)
LEMMA LeadsNext ==
  /\ StartOK' <=> (pc' \in Switching /\ job' = "start" =>
                     /\ first' /\ sel' = target' /\ voice'.users = members'[sel']
                     /\ Leads(InFlight', voice'.users, members'[sel']))
  /\ SyncOK' <=> (pc' = "sync" /\ pending' # NoChannel =>
                    Leads(InFlight', members'[sel'], members'[sel']))
  /\ PeopleOK' <=> (pc' \notin Switching /\ voice'.ch = sel' /\ sel' # NoChannel =>
                      Leads(InFlight', voice'.users, members'[sel']))
BY DEF StartOK, SyncOK, PeopleOK, Leads, Replayed

LEMMA NoRefusal == ASSUME NoRace, TypeInv PROVE refused = 0 /\ (RpcFails => ~up')
<1>1. refused = 0
  BY DEF NoRace, TypeInv, TypeOK
<1>2. MaxRefusals = 0
  BY DEF NoRace
<1>3. RpcFails => refused < MaxRefusals \/ (~up /\ up' = up)
  BY DEF RpcFails
<1> QED BY <1>1, <1>2, <1>3

(* The user is among the people of the channel they are in.                *)
LEMMA RosterHere ==
  ASSUME NoRace, TypeInv, Here, FirstOK, [Next]_vars
  PROVE  Here' /\ FirstOK'
<1>1. CASE UNCHANGED vars
  BY <1>1 DEF vars, discordVars, controlVars, Here, FirstOK
<1>2. CASE Discord
  <2>1. FirstOK'
    BY <1>2, OutsideFrame DEF FirstOK, controlVars
  <2>2. "empty" \notin Races /\ members \in [Channels -> SUBSET Users]
    BY DEF NoRace, TypeInv, TypeOK
  <2>3. ASSUME NEW c \in Channels \cup {NoChannel}, SelectChannel(c) PROVE Here'
    BY <2>2, <2>3 DEF SelectChannel, Here
  <2>4. ASSUME NEW u \in Users, NEW c \in Channels, Join(u, c) PROVE Here'
    BY <2>2, <2>4 DEF Join, Move, Here
  <2>5. ASSUME NEW u \in Users, NEW c \in Channels, Leave(u, c) PROVE Here'
    BY <2>2, <2>5 DEF Leave, Move, Here
  <2>6. ASSUME NEW u \in Users, NEW c \in Channels, NEW evt, Change(u, c, evt) PROVE Here'
    BY <2>6 DEF Change, Move, Here
  <2>7. ASSUME NEW m \in Messages, NEW evt, Post(m, evt) PROVE Here'
    BY <2>7 DEF Post, Here
  <2>8. CASE Hangup
    <3>1. UNCHANGED <<sel, members>>
      BY <2>8 DEF Hangup, discordVars
    <3> QED BY <2>1, <3>1 DEF Here
  <2> QED BY <1>2, <2>1, <2>3, <2>4, <2>5, <2>6, <2>7, <2>8 DEF Discord
<1>3. CASE EditConfig \/ RetryDue
  BY <1>3 DEF EditConfig, RetryDue, discordVars, controlVars, Here, FirstOK
<1>4. CASE StartSession \/ SubscribeSelect
  BY <1>4 DEF StartSession, SubscribeSelect, Goto, discordVars, Here, FirstOK
<1>5. CASE \/ FirstGet \/ Unsubscribe \/ Subscribe \/ SyncIdle \/ LoopTop \/ DrainDone \/ Publish
           \/ ConfigUnchanged \/ ConfigChanged \/ ControlIdle \/ TrayTogglesChat \/ Reconnect \/ Cleanup
  BY <1>5 DEF FirstGet, Unsubscribe, Subscribe, SyncIdle, LoopTop, DrainDone, Publish,
     ConfigUnchanged, ConfigChanged, ControlIdle, TrayTogglesChat, Reconnect, Cleanup, Goto,
     discordVars, Here, FirstOK
<1>6. CASE AfterUnsubscribe \/ AfterSubscribe
  BY <1>6 DEF AfterUnsubscribe, AfterSubscribe, TypeInv, discordVars, Here, FirstOK
<1>7. CASE Sync \/ SyncAgain
  BY <1>7 DEF Sync, SyncAgain, Goto, EnterUnsub, Schedule, Settle, discordVars, Here, FirstOK
<1>8. CASE RefreshChat \/ ChatUnsubscribe \/ ClearChatState \/ ChatSubscribe
  <2>1. chatRet \notin {"subscribeSelect", "firstGet"}
    BY DEF TypeInv, TypeOK
  <2> QED BY <1>8, <2>1 DEF RefreshChat, ChatUnsubscribe, ClearChatState, ChatSubscribe, Goto,
             discordVars, Here, FirstOK
<1>9. CASE Dispatch
  BY <1>9 DEF Dispatch, HandleSelect, HandleVoice, HandleChat, EnterUnsub, Schedule,
     discordVars, Here, FirstOK
<1> QED BY <1>1, <1>2, <1>3, <1>4, <1>5, <1>6, <1>7, <1>8, <1>9 DEF Next, Daemon

(* Discord's steps.                                                        *)
LEMMA ReplayedSame ==
  ASSUME NEW q, NEW u, NEW S, NEW T, u \in S <=> u \in T
  PROVE  Replayed(q, u, S) <=> Replayed(q, u, T)
BY DEF Replayed

(* Discord sends the events of the channel subscribed, and no others.      *)
LEMMA SentOf ==
  ASSUME NoRace, TypeInv, ViewInv, SubsInv, up, pc \notin Switching,
         NEW evt \in VoiceEvts, NEW c \in Channels
  PROVE  <<evt, c>> \in subs <=> c = subscribed
<1>1. c # NoChannel /\ evt # "SELECT" /\ evt \notin ChatEvts
  BY SessionAssumption DEF VoiceEvts, ChatEvts
<1>2. OtherSubs = Asked(VoiceKinds, 1..5, subscribed) \cup ChatAsked
  BY NoRefusal, AskedOutside, SubsSplit DEF AsAsked
<1>3. <<evt, c>> \in subs <=> <<evt, c>> \in Asked(VoiceKinds, 1..5, subscribed)
  <2>1. <<evt, c>>[1] = evt
    OBVIOUS
  <2>2. <<evt, c>> \notin ChatAsked
    BY <1>1, <2>1, AskedKinds
  <2>3. <<evt, c>> \in subs <=> <<evt, c>> \in OtherSubs
    BY <1>1, <2>1 DEF OtherSubs
  <2> QED BY <1>2, <2>2, <2>3
<1>4. PICK i \in 1..5 : VoiceKinds[i] = evt
  BY KindSets, Kinds
<1> QED BY <1>1, <1>3, <1>4 DEF Asked

(* What is subscribed is where the user is.                                *)
LEMMA SubscribedThere ==
  ASSUME NoRace, TypeInv, ViewInv, ShownInv, SelectInv, WhileUp, up, pc \notin Switching,
         \/ pc = "sync" /\ pending # NoChannel
         \/ voice.ch = sel /\ sel # NoChannel
  PROVE  subscribed = sel
<1>1. CASE voice.ch = sel /\ sel # NoChannel
  BY <1>1 DEF ShownInv
<1>2. CASE pc = "sync" /\ pending # NoChannel
  <2>1. subscribed = pending /\ Belief = pending /\ pc \notin Starting
    BY <1>2 DEF ViewInv, ViewOK, Belief, Starting
  <2>2. None(InFlight, {"SELECT"})
    BY <1>2 DEF WhileUp, OneSwitch
  <2>3. ~LeadsTo(InFlight, sel)
    BY <2>2 DEF None, LeadsTo
  <2> QED BY <2>1, <2>3, NoRefusal DEF SelectInv
<1> QED BY <1>1, <1>2

(* Someone's state changes in c, and Discord says so to whom it may        *)
(* concern.                                                                *)
LEMMA RosterSent ==
  ASSUME NoRace, TypeInv, ViewInv, SubsInv, ShownInv, SelectInv, WhileUp, up,
         NEW u \in Users, NEW c \in Channels, NEW evt \in VoiceEvts, Emit(evt, c, u),
         UNCHANGED <<pc, job, target, first, pending, voice, subscribed, inbox, sel>>,
         ~(pc \in Switching /\ job = "start"),
         \A d \in Channels : d # c => members'[d] = members[d],
         \A v \in Users : v # u \/ evt \notin StatusEvts => (v \in members'[c] <=> v \in members[c]),
         evt \in {"CREATE", "UPDATE"} => u \in members'[c],
         evt = "DELETE" => u \notin members'[c]
  PROVE  WhileUp'
<1> DEFINE e == Event(evt, c, u)
<1>1. /\ e \in Events /\ e.evt = evt /\ e.who = u /\ evt # "SELECT" /\ evt \notin {"SELECT"}
      /\ Queues /\ InFlight \in Seq(Events)
  BY EventIs, TypeQueues, FlightType DEF Event, VoiceEvts, TypeInv
<1>2. InFlight' = InFlight \/ InFlight' = Append(InFlight, e)
  BY <1>1, FlightEmit
<1>3. pc \notin Switching => InFlight' = IF c = subscribed THEN Append(InFlight, e) ELSE InFlight
  BY <1>1, SentOf, FlightEmit
<1> HIDE DEF e
<1>4. OneSwitch'
  <2>1. OneSelect(InFlight')
    BY <1>1, <1>2, OneAppend DEF WhileUp, OneSwitch
  <2>2. None(InFlight, {"SELECT"}) => None(InFlight', {"SELECT"})
    BY <1>1, <1>2, NoneAppend
  <2> QED BY <2>1, <2>2 DEF WhileUp, OneSwitch, OneSelect, None
<1>5. JobsOK' /\ StartOK'
  BY DEF WhileUp, JobsOK, StartOK
<1>6. BeforeOK'
  <2>1. pc = "firstGet" => InFlight' = InFlight
    <3>1. pc = "firstGet" => pc \notin Switching /\ subscribed = NoChannel /\ c # NoChannel
      BY SessionAssumption DEF ViewInv, ViewOK, Starting, Switching
    <3> QED BY <1>3, <3>1
  <2> QED BY <2>1 DEF WhileUp, BeforeOK, None
<1>7. ASSUME pc \notin Switching, subscribed = sel, sel # NoChannel, NEW S, NEW T,
             Leads(InFlight, S, members[sel]),
             \A v \in Users : c # sel \/ v # u \/ evt \notin StatusEvts => (v \in T <=> v \in S)
      PROVE  Leads(InFlight', T, members'[sel])
  <2>1. CASE c # sel
    <3>1. sel \in Channels
      BY <1>7 DEF TypeInv, TypeOK
    <3>2. InFlight' = InFlight /\ members'[sel] = members[sel]
      BY <1>3, <1>7, <2>1, <3>1
    <3> QED BY <1>7, <2>1, <3>2, ReplayedSame DEF Leads
  <2>2. CASE c = sel
    <3>1. InFlight' = Append(InFlight, e)
      BY <1>3, <1>7, <2>2
    <3>2. ASSUME NEW v \in Users PROVE Replayed(InFlight', v, T) <=> v \in members'[c]
      <4>1. CASE v = u /\ evt \in StatusEvts
        BY <1>1, <3>1, <4>1, ReplayedAppend DEF StatusEvts
      <4>2. CASE v # u \/ evt \notin StatusEvts
        <5>1. Replayed(InFlight', v, T) <=> Replayed(InFlight, v, T)
          BY <1>1, <3>1, <4>2, ReplayedAppend
        <5>2. Replayed(InFlight, v, T) <=> Replayed(InFlight, v, S)
          BY <1>7, <4>2, ReplayedSame
        <5>3. Replayed(InFlight, v, S) <=> v \in members[c]
          BY <1>7, <2>2 DEF Leads
        <5> QED BY <4>2, <5>1, <5>2, <5>3
      <4> QED BY <4>1, <4>2
    <3> QED BY <2>2, <3>2 DEF Leads
  <2> QED BY <2>1, <2>2
<1>8. SyncOK'
  <2> SUFFICES ASSUME pc = "sync", pending # NoChannel
               PROVE  Leads(InFlight', members'[sel], members'[sel])
    BY DEF SyncOK, Leads, Replayed
  <2>1. pc \notin Switching /\ subscribed = sel /\ subscribed = pending
    BY SubscribedThere DEF Switching, ViewInv, ViewOK
  <2>2. Leads(InFlight, members[sel], members[sel])
    BY DEF WhileUp, SyncOK
  <2>3. \A v \in Users : c # sel \/ v # u \/ evt \notin StatusEvts
                         => (v \in members'[sel] <=> v \in members[sel])
    <3>1. sel \in Channels
      BY <2>1 DEF TypeInv, TypeOK
    <3> QED BY <3>1
  <2> QED BY <1>7, <2>1, <2>2, <2>3
<1>9. PeopleOK'
  <2> SUFFICES ASSUME pc \notin Switching, voice.ch = sel, sel # NoChannel
               PROVE  Leads(InFlight', voice.users, members'[sel])
    BY DEF PeopleOK, Leads, Replayed
  <2>1. subscribed = sel /\ Leads(InFlight, voice.users, members[sel])
    BY SubscribedThere DEF WhileUp, PeopleOK
  <2> QED BY <1>7, <2>1
<1> QED BY <1>4, <1>5, <1>6, <1>8, <1>9 DEF WhileUp

(* Only the thread moves, from one place between operations to another.    *)
LEMMA RosterFrame ==
  ASSUME WhileUp, InFlight' = InFlight, UNCHANGED <<sel, members, pending, job, target, first>>,
         voice'.ch = voice.ch, voice'.users = voice.users,
         \/ pc' = pc
         \/ pc \in Switching /\ pc' \in Switching
         \/ pc \notin Switching /\ pc' \notin Switching \cup {"syncAgain", "firstGet", "sync"}
  PROVE  WhileUp'
<1>1. OneSwitch' /\ JobsOK'
  BY DEF WhileUp, OneSwitch, JobsOK, OneSelect, None, Switching
<1>2. BeforeOK' /\ StartOK'
  BY DEF WhileUp, BeforeOK, StartOK, Leads, Replayed, None, Switching
<1>3. SyncOK' /\ PeopleOK'
  BY DEF WhileUp, SyncOK, PeopleOK, Leads, Replayed, Switching
<1> QED BY <1>1, <1>2, <1>3 DEF WhileUp

LEMMA RosterSelects ==
  ASSUME NoRace, TypeInv, ViewInv, SubsInv, SelectInv, WhileUp, up,
         NEW c \in Channels \cup {NoChannel}, SelectChannel(c)
  PROVE  WhileUp'
<1>1. /\ UNCHANGED <<pc, job, target, first, pending, voice, subscribed, inbox>> /\ sel' = c /\ c # sel
      /\ Discord
  BY DEF SelectChannel, voiceVars, controlVars, Discord
<1>2. /\ pc \notin Switching /\ pending = NoChannel /\ None(InFlight, {"SELECT"})
      /\ Queues /\ InFlight \in Seq(Events)
  <2>1. CaughtUp /\ Queues
    BY TypeQueues DEF SelectChannel, NoRace, TypeInv
  <2> QED BY <2>1, UndeliveredIs, FlightType DEF CaughtUp, Switching
<1>3. voice.ch # c \/ c = NoChannel
  <2>1. CASE pc \in Starting
    BY <2>1, SessionAssumption DEF ViewInv, ViewOK, NoVoice
  <2>2. CASE pc \notin Starting
    <3>1. ~LeadsTo(InFlight, sel)
      BY <1>2 DEF None, LeadsTo
    <3>2. Belief = sel
      BY <2>2, <3>1, NoRefusal DEF SelectInv
    <3> QED BY <1>1, <1>2, <3>2 DEF Belief
  <2> QED BY <2>1, <2>2
<1>4. OneSelect(InFlight') /\ (pc = "firstGet" => None(InFlight', StatusEvts))
  <2>1. CASE pc \in {"offline", "subscribeSelect"}
    <3>1. inbox = <<>> /\ stream = <<>> /\ subs = {}
      BY <2>1 DEF SubsInv
    <3>2. InFlight' = <<>>
      BY <1>1, <1>2, <3>1, NothingSent DEF InFlight
    <3> QED BY <2>1, <3>2 DEF OneSelect
  <2>2. CASE pc \notin {"offline", "subscribeSelect"}
    <3> DEFINE e == Event("SELECT", c, Self)
               gone(d) == Event("DELETE", d, Self)
    <3>1. <<"SELECT", NoChannel>> \in subs
      BY <2>2, NoRefusal DEF SubsInv
    <3>2. /\ e \in Events /\ e.evt = "SELECT"
          /\ \A d \in Channels : gone(d) \in Events /\ gone(d).evt = "DELETE"
      BY EventIs, SessionAssumption DEF Event, VoiceEvts
    <3>3. /\ \/ InFlight' = Append(InFlight, e)
             \/ \E d \in Channels : InFlight' = Append(Append(InFlight, gone(d)), e)
          /\ pc = "firstGet" => InFlight' = Append(InFlight, e)
      <4>1. \/ InFlight' = Append(InFlight, e)
            \/ \E d \in Channels : /\ <<"DELETE", d>> \in subs
                                   /\ InFlight' = Append(Append(InFlight, gone(d)), e)
        BY <3>1, FlightSelect
      <4>2. pc = "firstGet" => \A d \in Channels : <<"DELETE", d>> \notin subs
        <5>1. pc = "firstGet" => subscribed = NoChannel
          BY DEF ViewInv, ViewOK, Starting
        <5> QED BY <1>2, <5>1, SentOf, SessionAssumption DEF VoiceEvts
      <4> QED BY <4>1, <4>2
    <3> HIDE DEF e, gone
    <3>4. CASE InFlight' = Append(InFlight, e)
      <4>1. OneSelect(InFlight')
        BY <1>2, <3>2, <3>4, OneAppend
      <4>2. pc = "firstGet" => None(InFlight, StatusEvts) /\ e.evt \notin StatusEvts
        BY <3>2 DEF WhileUp, BeforeOK, StatusEvts
      <4> QED BY <1>2, <3>2, <3>4, <4>1, <4>2, NoneAppend
    <3>5. ASSUME pc # "firstGet", NEW d \in Channels, InFlight' = Append(Append(InFlight, gone(d)), e)
          PROVE  OneSelect(InFlight')
      <4>1. Append(InFlight, gone(d)) \in Seq(Events)
        BY <1>2, <3>2, AppendProperties
      <4>2. None(Append(InFlight, gone(d)), {"SELECT"})
        BY <1>2, <3>2, NoneAppend
      <4> QED BY <3>2, <3>5, <4>1, <4>2, OneAppend
    <3> QED BY <3>3, <3>4, <3>5
  <2> QED BY <2>1, <2>2
<1>5. OneSwitch' /\ JobsOK' /\ BeforeOK'
  BY <1>1, <1>2, <1>4 DEF WhileUp, OneSwitch, JobsOK, BeforeOK, OneSelect, None
<1>6. StartOK' /\ SyncOK' /\ PeopleOK'
  BY <1>1, <1>2, <1>3 DEF StartOK, SyncOK, PeopleOK
<1> QED BY <1>5, <1>6 DEF WhileUp

LEMMA RosterDiscord ==
  ASSUME NoRace, TypeInv, ViewInv, SubsInv, ShownInv, SelectInv, WhileUp,
         Discord \/ EditConfig \/ RetryDue, up'
  PROVE  WhileUp'
<1>1. /\ UNCHANGED <<pc, job, target, first, pending, voice, subscribed, inbox>> /\ up
  BY OutsideFrame DEF controlVars
<1>2. ASSUME NEW c \in Channels \cup {NoChannel}, SelectChannel(c) PROVE WhileUp'
  BY <1>1, <1>2, RosterSelects
<1>3. ASSUME NEW u \in Users, NEW c \in Channels,
             Join(u, c) \/ Leave(u, c) \/ \E evt \in {"UPDATE", "START", "STOP"} : Change(u, c, evt)
      PROVE  WhileUp'
  <2>1. /\ sel' = sel
        /\ "early" \in Races \/ ~(first /\ pc \in {"sub", "subscribed"} /\ job = "start")
    BY <1>3 DEF Join, Leave, Change, Move
  <2>2. ~(pc \in Switching /\ job = "start")
    <3>1. pc \in Switching /\ job = "start" => pc \in {"sub", "subscribed"} /\ first
      BY DEF ViewInv, SwitchOK, Switching, WhileUp, StartOK
    <3> QED BY <2>1, <3>1 DEF NoRace
  <2>3. PICK evt \in VoiceEvts :
          /\ Emit(evt, c, u)
          /\ \A d \in Channels : d # c => members'[d] = members[d]
          /\ \A v \in Users : v # u \/ evt \notin StatusEvts => (v \in members'[c] <=> v \in members[c])
          /\ evt \in {"CREATE", "UPDATE"} => u \in members'[c]
          /\ evt = "DELETE" => u \notin members'[c]
    <3>1. members \in [Channels -> SUBSET Users]
      BY DEF TypeInv, TypeOK
    <3>2. CASE Join(u, c)
      <4>1. Emit("CREATE", c, u) /\ members' = [members EXCEPT ![c] = @ \cup {u}]
        BY <3>2 DEF Join
      <4>2. /\ \A d \in Channels : d # c => members'[d] = members[d]
            /\ members'[c] = members[c] \cup {u}
        BY <3>1, <4>1
      <4>3. "CREATE" \in VoiceEvts \cap StatusEvts /\ "CREATE" # "DELETE"
        BY DEF VoiceEvts, StatusEvts
      <4> QED BY <4>1, <4>2, <4>3
    <3>3. CASE Leave(u, c)
      <4>1. Emit("DELETE", c, u) /\ members' = [members EXCEPT ![c] = @ \ {u}]
        BY <3>3 DEF Leave
      <4>2. /\ \A d \in Channels : d # c => members'[d] = members[d]
            /\ members'[c] = members[c] \ {u}
        BY <3>1, <4>1
      <4>3. "DELETE" \in VoiceEvts \cap StatusEvts /\ "DELETE" \notin {"CREATE", "UPDATE"}
        BY DEF VoiceEvts, StatusEvts
      <4> QED BY <4>1, <4>2, <4>3
    <3>4. CASE \E evt \in {"UPDATE", "START", "STOP"} : Change(u, c, evt)
      <4>1. PICK evt \in {"UPDATE", "START", "STOP"} : /\ Emit(evt, c, u) /\ members' = members
                                                       /\ u \in members[c]
        BY <3>4 DEF Change
      <4> QED BY <4>1 DEF VoiceEvts
    <3> QED BY <1>3, <3>2, <3>3, <3>4
  <2> QED BY <1>1, <2>1, <2>2, <2>3, RosterSent
<1>4. ASSUME NEW m \in Messages, NEW evt \in ChatEvts, Post(m, evt) PROVE WhileUp'
  <2>1. Event(evt, m[1], m) \in Events /\ Emit(evt, m[1], m)
    BY <1>4, PostIs
  <2>2. UNCHANGED <<sel, members>>
    BY <1>4, PostIs
  <2> DEFINE e == Event(evt, m[1], m)
  <2>3. InFlight' = InFlight \/ InFlight' = Append(InFlight, e)
    BY <1>1, <2>1, FlightEmit, TypeQueues DEF TypeInv
  <2>4. e \in Events /\ e.evt \notin StatusEvts \cup {"SELECT"} /\ InFlight \in Seq(Events)
    BY <1>4, <2>1, FlightType, TypeQueues DEF Event, ChatEvts, StatusEvts, TypeInv
  <2> HIDE DEF e
  <2>5. CASE InFlight' = InFlight
    BY <1>1, <2>2, <2>5, RosterFrame
  <2>6. CASE InFlight' = Append(InFlight, e)
    <3>1. /\ OneSelect(InFlight) => OneSelect(InFlight')
          /\ None(InFlight, {"SELECT"}) => None(InFlight', {"SELECT"})
          /\ None(InFlight, StatusEvts) => None(InFlight', StatusEvts)
      BY <2>4, <2>6, OneAppend, NoneAppend
    <3>2. \A u, S : Replayed(InFlight', u, S) <=> Replayed(InFlight, u, S)
      BY <2>4, <2>6, ReplayedAppend
    <3>3. \A S, T : Leads(InFlight, S, T) => Leads(InFlight', S, T)
      BY <3>2 DEF Leads
    <3>4. OneSwitch' /\ JobsOK' /\ BeforeOK'
      BY <1>1, <3>1 DEF WhileUp, OneSwitch, JobsOK, BeforeOK, OneSelect, None
    <3>5. StartOK' /\ SyncOK' /\ PeopleOK'
      <4>1. StartOK /\ SyncOK /\ PeopleOK
        BY DEF WhileUp
      <4>2. StartOK'
        BY <1>1, <2>2, <3>3, <4>1, LeadsNext DEF StartOK
      <4>3. SyncOK'
        BY <1>1, <2>2, <3>3, <4>1, LeadsNext DEF SyncOK
      <4>4. PeopleOK'
        BY <1>1, <2>2, <3>3, <4>1, LeadsNext DEF PeopleOK
      <4> QED BY <4>2, <4>3, <4>4
    <3> QED BY <3>4, <3>5 DEF WhileUp
  <2> QED BY <2>3, <2>5, <2>6
<1>5. CASE Hangup \/ EditConfig \/ RetryDue
  <2>1. UNCHANGED <<stream, sel, members>>
    BY <1>5 DEF Hangup, EditConfig, RetryDue, discordVars, socketVars
  <2> QED BY <1>1, <2>1, FlightKept, RosterFrame
<1> QED BY <1>2, <1>3, <1>4, <1>5 DEF Discord, ChatEvts

(* A request that is answered; the others end the session, if none may be  *)
(* refused.                                                                *)
LEMMA RosterRpc ==
  ASSUME NoRace, TypeInv, RpcOk \/ RpcFails, up'
  PROVE  RpcOk /\ up /\ InFlight' = InFlight
BY NoRefusal, FlightRpc, RpcKeeps, TypeQueues DEF TypeInv

(* Steps that leave the channel and the people shown alone.                *)
LEMMA RosterQuiet ==
  ASSUME NoRace, TypeInv, ViewInv, SubsInv, WhileUp, up,
         \/ LoopTop \/ Publish \/ SyncIdle \/ ConfigUnchanged \/ ConfigChanged \/ ControlIdle
         \/ TrayTogglesChat \/ Reconnect \/ RefreshChat \/ ClearChatState
         \/ ChatUnsubscribe \/ ChatSubscribe \/ Unsubscribe \/ Subscribe,
         up'
  PROVE  WhileUp'
<1>1. pending' = pending /\ voice'.ch = voice.ch /\ voice'.users = voice.users
  BY ShownKept
<1>2. CASE LoopTop \/ SyncIdle \/ ConfigUnchanged \/ ConfigChanged \/ ControlIdle
           \/ TrayTogglesChat \/ Reconnect
  <2>1. /\ UNCHANGED <<inbox, stream, sel, members, job, target, first>>
        /\ pc \notin Switching /\ pc' \notin Switching \cup {"syncAgain", "firstGet", "sync"}
    BY <1>2 DEF LoopTop, SyncIdle, ConfigUnchanged, ConfigChanged, ControlIdle, TrayTogglesChat,
       Reconnect, Goto, discordVars, socketVars, Switching
  <2> QED BY <1>1, <2>1, FlightKept, RosterFrame
<1>3. CASE Publish
  <2>1. /\ UNCHANGED <<inbox, stream, sel, members, job, target>>
        /\ pc = "publish" /\ pc' \in {"top", "config"}
    BY <1>3 DEF Publish, discordVars, socketVars
  <2>2. InFlight' = InFlight
    BY <2>1, FlightKept
  <2>3. OneSwitch' /\ JobsOK' /\ BeforeOK'
    BY <1>1, <2>1, <2>2 DEF WhileUp, OneSwitch, JobsOK, BeforeOK, OneSelect, None, Switching
  <2>4. StartOK' /\ SyncOK' /\ PeopleOK'
    BY <1>1, <2>1, <2>2, LeadsNext DEF WhileUp, PeopleOK, Switching
  <2> QED BY <2>3, <2>4 DEF WhileUp
<1>4. CASE RefreshChat \/ ClearChatState
  <2>1. /\ UNCHANGED <<inbox, stream, sel, members, job, target, first>>
        /\ pc \in {"chat", "chatCleared"}
        /\ pc' \in {"chatUnsub", "chatCleared", "chatSub", chatRet}
    BY <1>4 DEF RefreshChat, ClearChatState, Goto, discordVars, socketVars
  <2>2. chatRet \in {"publish", "drain", "ctl"}
    BY DEF TypeInv, TypeOK
  <2>3. pc \notin Switching /\ pc' \notin Switching \cup {"syncAgain", "firstGet", "sync"}
    BY <2>1, <2>2 DEF Switching
  <2> QED BY <1>1, <2>1, <2>3, FlightKept, RosterFrame
<1>5. CASE ChatUnsubscribe \/ ChatSubscribe
  <2>1. /\ UNCHANGED <<sel, members, job, target, first>> /\ (RpcOk \/ RpcFails)
        /\ pc \in {"chatUnsub", "chatSub"}
        /\ pc' \in {"chatUnsub", "chatCleared", "chatSub", chatRet}
    BY <1>5 DEF ChatUnsubscribe, ChatSubscribe, discordVars
  <2>2. chatRet \in {"publish", "drain", "ctl"}
    BY DEF TypeInv, TypeOK
  <2>3. pc \notin Switching /\ pc' \notin Switching \cup {"syncAgain", "firstGet", "sync"}
    BY <2>1, <2>2 DEF Switching
  <2> QED BY <1>1, <2>1, <2>3, RosterRpc, RosterFrame
<1>6. CASE Unsubscribe \/ Subscribe
  <2>1. /\ UNCHANGED <<sel, members, job, target, first>> /\ (RpcOk \/ RpcFails)
        /\ pc \in Switching /\ pc' \in Switching
    BY <1>6 DEF Unsubscribe, Subscribe, discordVars, Switching
  <2> QED BY <1>1, <2>1, RosterRpc, RosterFrame
<1> QED BY <1>2, <1>3, <1>4, <1>5, <1>6

LEMMA ReplayedEmpty == \A S : Leads(<<>>, S, S)
BY DEF Leads, Replayed

(* A session begins and ends; the loop has read all there is.              *)
LEMMA RosterSession ==
  ASSUME NoRace, TypeInv, ViewInv, SubsInv, Here, up => WhileUp,
         StartSession \/ SubscribeSelect \/ DrainDone \/ Cleanup, up'
  PROVE  WhileUp'
<1>1. CASE StartSession \/ SubscribeSelect
  <2>1. pc \in Starting /\ pc' \in {"subscribeSelect", "firstGet"}
        /\ UNCHANGED <<voice, pending>>
    BY <1>1 DEF StartSession, SubscribeSelect, Goto, voiceVars, Starting
  <2>2. voice'.ch = NoChannel /\ pending' = NoChannel
    BY <2>1 DEF ViewInv, ViewOK, NoVoice
  <2>3. InFlight' = <<>>
    <3>1. CASE StartSession
      BY <3>1 DEF StartSession, InFlight
    <3>2. CASE SubscribeSelect
      <4>1. InFlight = <<>>
        BY <3>2, FlightEmpty DEF SubscribeSelect, SubsInv
      <4>2. RpcOk \/ RpcFails
        BY <3>2 DEF SubscribeSelect
      <4> QED BY <4>1, <4>2, RosterRpc
    <3> QED BY <1>1, <3>1, <3>2
  <2>4. OneSwitch' /\ JobsOK' /\ BeforeOK'
    BY <2>1, <2>2, <2>3 DEF OneSwitch, JobsOK, BeforeOK, OneSelect, None, Switching
  <2>5. StartOK' /\ SyncOK' /\ PeopleOK'
    BY <2>1, <2>2, LeadsNext DEF Switching
  <2> QED BY <2>4, <2>5 DEF WhileUp
<1>2. CASE DrainDone
  <2>1. /\ UNCHANGED <<inbox, stream, sel, members, pending, voice, up>> /\ InFlight = <<>>
        /\ pc = "drain" /\ pc' \in {"sync", "cleanup"}
    BY <1>2, FlightEmpty DEF DrainDone, Goto, discordVars, voiceVars
  <2>2. InFlight' = InFlight /\ WhileUp
    BY <2>1, FlightKept
  <2>3. OneSwitch' /\ JobsOK' /\ BeforeOK'
    BY <2>1, <2>2 DEF WhileUp, OneSwitch, JobsOK, BeforeOK, OneSelect, None, Switching
  <2>4. StartOK' /\ SyncOK' /\ PeopleOK'
    BY <2>1, <2>2, LeadsNext, ReplayedEmpty DEF WhileUp, PeopleOK, Switching
  <2> QED BY <2>3, <2>4 DEF WhileUp
<1> QED BY <1>1, <1>2 DEF Cleanup

(* A switch is carried through, and the first snapshot kept.               *)
LEMMA RosterAfter ==
  ASSUME NoRace, TypeInv, ViewInv, Here, WhileUp, AfterUnsubscribe \/ AfterSubscribe, up'
  PROVE  WhileUp'
<1>1. /\ UNCHANGED <<inbox, stream, sel, members, job, target, first>> /\ InFlight' = InFlight
      /\ pc \in Switching
  BY FlightKept DEF AfterUnsubscribe, AfterSubscribe, discordVars, socketVars, Switching
<1>2. job \in {"start", "select", "deselect"}
  BY <1>1 DEF WhileUp, JobsOK
<1>3. CASE AfterUnsubscribe
  <2>1. pc = "unsubscribed" /\ job \in {"select", "deselect"}
    BY <1>2, <1>3 DEF AfterUnsubscribe, ViewInv, SwitchOK
  <2>2. \/ job = "select" /\ pc' = "sub" /\ UNCHANGED <<voice, pending>>
        \/ job = "deselect" /\ pc' = "drain" /\ voice'.ch = NoChannel /\ pending' = NoChannel
    BY <1>3, <2>1 DEF AfterUnsubscribe, ClearPending, NoVoice
  <2>3. None(InFlight, {"SELECT"}) /\ OneSelect(InFlight)
    BY <1>1, <2>1 DEF WhileUp, OneSwitch
  <2>4. OneSwitch' /\ JobsOK' /\ BeforeOK'
    BY <1>1, <2>1, <2>2, <2>3 DEF OneSwitch, JobsOK, BeforeOK, OneSelect, None, Switching
  <2>5. StartOK' /\ SyncOK' /\ PeopleOK'
    BY <1>1, <2>1, <2>2, LeadsNext DEF Switching
  <2> QED BY <2>4, <2>5 DEF WhileUp
<1>4. CASE AfterSubscribe /\ job = "start"
  <2>1. /\ voice.ch = target /\ target # NoChannel /\ pending = NoChannel
        /\ sel = target /\ voice.users = members[sel] /\ Leads(InFlight, voice.users, members[sel])
    BY <1>1, <1>4 DEF ViewInv, SwitchOK, WhileUp, StartOK
  <2>2. voice.users # {}
    BY <2>1 DEF Here
  <2>3. pc' = "chat" /\ UNCHANGED <<voice, pending>>
    BY <1>4, <2>2 DEF AfterSubscribe
  <2>4. OneSwitch' /\ JobsOK' /\ BeforeOK'
    BY <1>1, <2>1, <2>3 DEF WhileUp, OneSwitch, JobsOK, BeforeOK, OneSelect, None, Switching
  <2>5. StartOK' /\ SyncOK' /\ PeopleOK'
    BY <1>1, <2>1, <2>3, LeadsNext DEF Switching
  <2> QED BY <2>4, <2>5 DEF WhileUp
<1>5. CASE AfterSubscribe /\ job # "start"
  <2>1. pc = "subscribed" /\ job = "select"
    BY <1>2, <1>5 DEF AfterSubscribe, TypeInv
  <2>2. pc' = "drain" /\ voice'.ch = NoChannel
    BY <1>5, <2>1 DEF AfterSubscribe, NoVoice
  <2>3. None(InFlight, {"SELECT"}) /\ OneSelect(InFlight)
    BY <1>1, <2>1 DEF WhileUp, OneSwitch
  <2>4. OneSwitch' /\ JobsOK' /\ BeforeOK'
    BY <1>1, <2>2, <2>3 DEF OneSwitch, JobsOK, BeforeOK, OneSelect, None, Switching
  <2>5. StartOK' /\ SyncOK' /\ PeopleOK'
    BY <1>1, <2>2, LeadsNext DEF Switching
  <2> QED BY <2>4, <2>5 DEF WhileUp
<1> QED BY <1>3, <1>4, <1>5

(* A snapshot shows the people there now; what was in flight before it     *)
(* leads from them to them.                                                *)
LEMMA RosterGet ==
  ASSUME NoRace, TypeInv, ViewInv, SelectInv, Here, FirstOK, WhileUp,
         FirstGet \/ Sync \/ SyncAgain, up'
  PROVE  WhileUp'
<1>1. RpcOk \/ RpcFails
  BY DEF FirstGet, Sync, SyncAgain, Get
<1>2. /\ up /\ InFlight' = InFlight /\ UNCHANGED <<sel, members>> /\ ~RpcFails
  <2>1. UNCHANGED <<sel, members>>
    BY DEF FirstGet, Sync, SyncAgain, discordVars
  <2> QED BY <1>1, <2>1, NoRefusal, RosterRpc
<1>3. ~SyncAgain
  BY DEF SyncAgain, WhileUp, JobsOK
<1>4. /\ Selected.ch = sel
      /\ sel # NoChannel => Selected.users = members[sel]
  BY DEF Selected, NoVoice
<1>5. CASE FirstGet
  <2>1. /\ pc = "firstGet" /\ voice' = Selected /\ target' = sel /\ job' = "start" /\ UNCHANGED <<pending, first>>
        /\ pc' = IF sel = NoChannel THEN "chat" ELSE "sub"
    BY <1>2, <1>4, <1>5 DEF FirstGet, Get
  <2>2. first /\ pending = NoChannel
    BY <2>1 DEF FirstOK, ViewInv, ViewOK, Starting
  <2>3. sel # NoChannel => Leads(InFlight, members[sel], members[sel])
    <3>1. None(InFlight, StatusEvts)
      BY <2>1 DEF WhileUp, BeforeOK
    <3> QED BY <3>1, ReplayedNone DEF Leads
  <2>4. OneSwitch' /\ JobsOK' /\ BeforeOK'
    BY <1>2, <2>1, <2>2 DEF WhileUp, OneSwitch, JobsOK, BeforeOK, OneSelect, None, Switching
  <2>5. StartOK' /\ SyncOK' /\ PeopleOK'
    BY <1>2, <1>4, <2>1, <2>2, <2>3, LeadsNext DEF Switching
  <2> QED BY <2>4, <2>5 DEF WhileUp
<1>6. CASE Sync
  <2>1. pc = "sync" /\ pending # NoChannel /\ UNCHANGED first
    BY <1>6 DEF Sync
  <2>2. sel = pending
    <3>1. None(InFlight, {"SELECT"})
      BY <2>1 DEF WhileUp, OneSwitch
    <3>2. ~LeadsTo(InFlight, sel)
      BY <3>1 DEF None, LeadsTo
    <3> QED BY <1>2, <2>1, <3>2, NoRefusal DEF SelectInv, Belief, Switching, Starting
  <2>3. Selected.users # {} /\ Leads(InFlight, members[sel], members[sel])
    BY <1>4, <2>1, <2>2 DEF Here, WhileUp, SyncOK
  <2>4. Settle(Selected)
    BY <1>2, <1>4, <1>6, <2>1, <2>2 DEF Sync, Get
  <2>5. voice' = Selected /\ pending' = NoChannel /\ pc' = "chat"
    BY <1>4, <2>2, <2>3, <2>4 DEF Settle, ClearPending
  <2>6. OneSwitch' /\ JobsOK' /\ BeforeOK'
    BY <1>2, <2>5 DEF WhileUp, OneSwitch, JobsOK, BeforeOK, OneSelect, None, Switching
  <2>7. StartOK' /\ SyncOK' /\ PeopleOK'
    BY <1>2, <1>4, <2>1, <2>2, <2>3, <2>5, LeadsNext DEF Switching
  <2> QED BY <2>6, <2>7 DEF WhileUp
<1> QED BY <1>3, <1>5, <1>6

(* What the first event in flight does to the people shown is what         *)
(* replaying it means.                                                     *)
LEMMA RosterDispatch ==
  ASSUME NoRace, TypeInv, ViewInv, WhileUp, Dispatch, up'
  PROVE  WhileUp'
<1>1. PICK e : NextEvent(e) /\ (HandleSelect(e) \/ HandleVoice(e) \/ HandleChat(e))
  BY DEF Dispatch
<1>2. /\ pc = "drain" /\ pc \notin Switching /\ UNCHANGED <<sel, members, pending, first>>
  BY DEF Dispatch, discordVars, Switching
<1>3. /\ InFlight # <<>> /\ e = Head(InFlight) /\ e \in Events /\ InFlight' = Tail(InFlight)
      /\ InFlight \in Seq(Events)
  BY <1>1, FlightNext, FlightType, TypeQueues DEF TypeInv
<1>4. /\ OneSelect(InFlight') /\ (e.evt = "SELECT" => None(InFlight', {"SELECT"}))
      /\ None(InFlight, {"SELECT"}) => None(InFlight', {"SELECT"})
  BY <1>3, OneTail, NoneTail DEF WhileUp, OneSwitch
<1>5. CASE e.evt = "SELECT"
  <2>1. HandleSelect(e)
    BY <1>1, <1>5 DEF HandleVoice, HandleChat
  <2>2. /\ voice' = voice
        /\ \/ UNCHANGED <<pc, job, target>>
           \/ pc' \in Switching /\ job' = "deselect"
           \/ pc' \in Switching /\ job' = "select"
    BY <2>1 DEF HandleSelect, Schedule, EnterUnsub, Switching
  <2>3. OneSwitch' /\ JobsOK' /\ BeforeOK'
    BY <1>2, <1>4, <1>5, <2>2 DEF OneSwitch, JobsOK, BeforeOK, OneSelect, None, Switching
  <2>4. \A S, T : Leads(InFlight, S, T) => Leads(InFlight', S, T)
    <3>1. e.evt \notin StatusEvts
      BY <1>5 DEF StatusEvts
    <3>2. \A u, S : Replayed(InFlight', u, S) <=> Replayed(InFlight, u, S)
      BY <1>3, <3>1, ReplayedTail DEF StatusEvts
    <3> QED BY <3>2 DEF Leads
  <2>5. StartOK' /\ SyncOK'
    BY <1>2, <2>2, LeadsNext DEF Switching
  <2>6. PeopleOK'
    BY <1>2, <2>2, <2>4, LeadsNext DEF WhileUp, PeopleOK
  <2> QED BY <2>3, <2>5, <2>6 DEF WhileUp
<1>6. CASE e.evt # "SELECT"
  <2>1. /\ HandleVoice(e) \/ HandleChat(e)
        /\ UNCHANGED <<pc, job, target>>
    BY <1>1, <1>6 DEF HandleSelect, HandleVoice, HandleChat
  <2>2. voice'.ch = voice.ch
    BY <2>1 DEF HandleVoice, HandleChat, AppliedVoice, TypeInv, TypeOK, VoiceStates
  <2>3. ASSUME voice.ch # NoChannel
        PROVE  voice'.users = CASE e.evt \in {"CREATE", "UPDATE"} -> voice.users \cup {e.who}
                                [] e.evt = "DELETE" -> voice.users \ {e.who}
                                [] OTHER -> voice.users
    <3>1. voice \in VoiceStates
      BY DEF TypeInv, TypeOK
    <3>2. CASE HandleVoice(e)
      BY <2>3, <3>1, <3>2 DEF HandleVoice, AppliedVoice, VoiceStates
    <3>3. CASE HandleChat(e)
      <4>1. voice'.users = voice.users
        BY <3>1, <3>3 DEF HandleChat, VoiceStates
      <4>2. e.evt \notin {"CREATE", "UPDATE", "DELETE"}
        BY <3>3 DEF HandleChat
      <4> QED BY <4>1, <4>2
    <3> QED BY <2>1, <3>2, <3>3
  <2>4. ASSUME voice.ch # NoChannel, NEW u
        PROVE  Replayed(InFlight', u, voice'.users) <=> Replayed(InFlight, u, voice.users)
    <3>1. CASE e.who = u /\ e.evt \in {"CREATE", "UPDATE"}
      <4>1. u \in voice'.users
        BY <2>3, <2>4, <3>1
      <4> QED BY <1>3, <3>1, <4>1, ReplayedTail DEF StatusEvts
    <3>2. CASE e.who = u /\ e.evt = "DELETE"
      <4>1. u \notin voice'.users
        BY <2>3, <2>4, <3>2
      <4> QED BY <1>3, <3>2, <4>1, ReplayedTail DEF StatusEvts
    <3>3. CASE e.who # u \/ e.evt \notin StatusEvts
      <4>1. u \in voice'.users <=> u \in voice.users
        BY <2>3, <2>4, <3>3 DEF StatusEvts
      <4> QED BY <1>3, <3>3, <4>1, ReplayedTail DEF StatusEvts
    <3> QED BY <3>1, <3>2, <3>3 DEF StatusEvts
  <2>5. OneSwitch' /\ JobsOK' /\ BeforeOK'
    BY <1>2, <1>4, <2>1 DEF WhileUp, OneSwitch, JobsOK, BeforeOK, OneSelect, None
  <2>6. StartOK' /\ SyncOK'
    BY <1>2, <2>1, LeadsNext
  <2>7. PeopleOK'
    <3> SUFFICES ASSUME voice.ch = sel, sel # NoChannel
                 PROVE  Leads(InFlight', voice'.users, members[sel])
      BY <1>2, <2>1, <2>2, LeadsNext
    <3>1. Leads(InFlight, voice.users, members[sel])
      BY <1>2 DEF WhileUp, PeopleOK
    <3> QED BY <2>4, <3>1 DEF Leads
  <2> QED BY <2>5, <2>6, <2>7 DEF WhileUp
<1> QED BY <1>5, <1>6

LEMMA RosterStep ==
  ASSUME NoRace, TypeInv, ViewInv, SubsInv, ShownInv, SelectInv, RosterInv, [Next]_vars
  PROVE  RosterInv'
<1>1. Here /\ FirstOK /\ (up => WhileUp)
  BY RosterSplit
<1>2. Here' /\ FirstOK'
  BY <1>1, RosterHere
<1>3. ASSUME up' PROVE WhileUp'
  <2>1. CASE UNCHANGED vars
    <3>1. /\ UNCHANGED <<pc, job, target, pending, voice, inbox, stream, sel, members, first, up>>
      BY <2>1 DEF vars, discordVars, socketVars, voiceVars, controlVars
    <3>2. InFlight' = InFlight /\ WhileUp
      BY <1>1, <1>3, <3>1, FlightKept
    <3> QED BY <3>1, <3>2, RosterFrame
  <2>2. CASE Discord \/ EditConfig \/ RetryDue
    <3>1. up
      BY <1>3, <2>2, OutsideFrame
    <3> QED BY <1>1, <1>3, <2>2, <3>1, RosterDiscord
  <2>3. CASE StartSession \/ SubscribeSelect \/ DrainDone \/ Cleanup
    BY <1>1, <1>3, <2>3, RosterSession
  <2>4. CASE FirstGet \/ Sync \/ SyncAgain
    <3>1. up
      BY <1>3, <2>4, RosterRpc DEF FirstGet, Sync, SyncAgain, Get
    <3> QED BY <1>1, <1>3, <2>4, <3>1, RosterGet
  <2>5. CASE AfterUnsubscribe \/ AfterSubscribe
    <3>1. up
      BY <1>3, <2>5 DEF AfterUnsubscribe, AfterSubscribe, socketVars
    <3> QED BY <1>1, <1>3, <2>5, <3>1, RosterAfter
  <2>6. CASE Dispatch
    <3>1. up
      BY <1>3, <2>6 DEF Dispatch
    <3> QED BY <1>1, <1>3, <2>6, <3>1, RosterDispatch
  <2>7. CASE LoopTop \/ Publish \/ SyncIdle \/ ConfigUnchanged \/ ConfigChanged \/ ControlIdle
             \/ TrayTogglesChat \/ Reconnect \/ RefreshChat \/ ClearChatState
    <3>1. up
      BY <1>3, <2>7 DEF LoopTop, Publish, SyncIdle, ConfigUnchanged, ConfigChanged, ControlIdle,
         TrayTogglesChat, Reconnect, RefreshChat, ClearChatState, socketVars
    <3> QED BY <1>1, <1>3, <2>7, <3>1, RosterQuiet
  <2>8. CASE ChatUnsubscribe \/ ChatSubscribe \/ Unsubscribe \/ Subscribe
    <3>1. up
      BY <1>3, <2>8, RosterRpc DEF ChatUnsubscribe, ChatSubscribe, Unsubscribe, Subscribe
    <3> QED BY <1>1, <1>3, <2>8, <3>1, RosterQuiet
  <2> QED BY <2>1, <2>2, <2>3, <2>4, <2>5, <2>6, <2>7, <2>8 DEF Next, Daemon
<1> QED BY <1>2, <1>3, RosterSplit

(* If the user lets the daemon catch up before switching again, no one     *)
(* moves between the first snapshot of a session and its subscription,     *)
(* Discord lists the user where they are and refuses nothing, then no join *)
(* and no leave is lost: at rest the overlay shows exactly the people in   *)
(* the user's channel, through any number of switches and reconnects.      *)
THEOREM PeopleAgree ==
  ASSUME {"hasty", "early", "empty"} \cap Races = {}, MaxRefusals = 0, MaxAttempts > 1
  PROVE  Spec => []RosterAgrees
<1>0. NoRace
  BY DEF NoRace
<1>1. Init => ShownInv /\ SelectInv /\ RosterInv
  <2> SUFFICES ASSUME Init PROVE ShownInv /\ SelectInv /\ RosterInv
    OBVIOUS
  <2>1. ShownInv /\ SelectInv /\ ~up
    BY DEF Init, ShownInv, SelectInv, NoVoice
  <2>2. Here
    <3>1. sel \in Channels \cup {NoChannel} /\ Self \in Users
      BY SessionAssumption DEF Init
    <3> QED BY <1>0, <3>1 DEF Init, NoRace, Here
  <2>3. FirstOK
    BY DEF Init, FirstOK
  <2> QED BY <2>1, <2>2, <2>3, RosterSplit
<1>2. TypeInv /\ ViewInv /\ ShownInv /\ [Next]_vars => ShownInv'
  BY ShownStep
<1>3. TypeInv /\ ViewInv /\ SubsInv /\ SelectInv /\ [Next]_vars => SelectInv'
  BY SelectStep
<1>4. TypeInv /\ ViewInv /\ SubsInv /\ ShownInv /\ SelectInv /\ RosterInv /\ [Next]_vars => RosterInv'
  BY <1>0, RosterStep
<1>5. TypeInv /\ SelectInv /\ RosterInv => RosterAgrees
  <2> SUFFICES ASSUME TypeInv, SelectInv, RosterInv, Settled
               PROVE  /\ voice.ch = sel
                      /\ sel # NoChannel => voice.users = members[sel]
    BY DEF RosterAgrees
  <2>1. up /\ pc = "top" /\ pending = NoChannel /\ InFlight = <<>>
    BY FlightEmpty DEF Settled
  <2>2. ~LeadsTo(InFlight, sel)
    BY <2>1, EmptyFlight
  <2>3. voice.ch = sel
    BY <1>0, <2>1, <2>2, NoRefusal DEF SelectInv, Belief, Switching, Starting
  <2>4. ASSUME sel # NoChannel PROVE voice.users = members[sel]
    <3>1. Leads(<<>>, voice.users, members[sel])
      BY <2>1, <2>3, <2>4, RosterSplit DEF WhileUp, PeopleOK, Switching
    <3>2. \A u \in Users : u \in voice.users <=> u \in members[sel]
      BY <3>1 DEF Leads, Replayed
    <3>3. voice.users \subseteq Users /\ members[sel] \subseteq Users
      BY <2>4 DEF TypeInv, TypeOK, VoiceStates
    <3> QED BY <3>2, <3>3
  <2> QED BY <2>3, <2>4
<1> QED BY <1>1, <1>2, <1>3, <1>4, <1>5, SubsCorrect, PTL DEF Spec

=============================================================================
