---------------------------- MODULE VoiceSession ----------------------------
(***************************************************************************)
(* One daemon and one Discord client: the reconnect loop of main.cpp from  *)
(* an authorised connection on, the voice and chat runtime it drives, the  *)
(* message inbox that sorts replies from dispatched events, and the view   *)
(* each iteration publishes.                                               *)
(*                                                                         *)
(* The daemon is one thread and every request to Discord blocks it.  The   *)
(* socket is first-in first-out, so the events received while a request    *)
(* waits are exactly those Discord sent before its reply: a request is one *)
(* step, taken at the moment Discord answers, that moves them to the inbox. *)
(* Discord (members, selection, subscriptions) is external, modelled from  *)
(* what the code asks of it.                                               *)
(***************************************************************************)
EXTENDS Integers, Sequences, FiniteSets

CONSTANTS
  Users, Self,            \* Discord users, and the one the daemon runs for
  Channels, NoChannel,    \* voice channels; the empty channel id
  MaxAttempts,            \* VoiceSyncConfig::max_attempts
  InitialMembers,         \* who is where when the daemon starts
  MaxSelects, MaxMoves, MaxPosts, MaxFlips, MaxDrops, MaxRefusals,  \* bounds of the environment
  Races                   \* which of AllRaces the environment may run

(* hasty: the user changes channel again before the daemon has caught up.  *)
(* early: members move between the first snapshot and its subscription.    *)
(* empty: Discord lists no one in a channel the user has just joined.      *)
AllRaces == {"hasty", "early", "empty"}

ASSUME SessionAssumption ==
  /\ Self \in Users /\ NoChannel \notin Channels
  /\ MaxAttempts \in Nat \ {0}
  /\ InitialMembers \in [Channels -> SUBSET Users]
  /\ {MaxSelects, MaxMoves, MaxPosts, MaxFlips, MaxDrops, MaxRefusals} \subseteq Nat
  /\ Races \subseteq AllRaces

VARIABLES
  sel, members, subs, stream, up, posted,   \* Discord, and the socket to the daemon
  inbox, local, connected, scope,           \* DiscordIpc: dispatches_, local_user_, connected_, scopes
  voice, subscribed, pending, attempts, waiting, activeChat, subscribedChat,  \* VoiceRuntimeState
  pc, job, k, target, chatRet, first, changed,  \* where the daemon's thread is
  want, fileWant,                           \* show_voice_channel_chat in memory and in the file
  shown,                                    \* what update_shm published last
  selects, moves, flips, drops,             \* counters behind the bounds
  refused,                                  \* requests of this session Discord answered with ERROR
  late                                      \* messages Discord sent from a channel not shown then

discordVars == <<sel, members, posted, late>>
socketVars == <<subs, stream, up, inbox, local, connected, refused>>
voiceVars == <<voice, subscribed, pending, attempts, waiting>>
chatVars == <<activeChat, subscribedChat>>
controlVars == <<pc, job, k, target, chatRet, first, changed>>
configVars == <<want, fileWant, scope>>
counterVars == <<selects, moves, flips, drops>>
vars == <<discordVars, socketVars, voiceVars, chatVars, controlVars, configVars, shown, counterVars>>

-----------------------------------------------------------------------------
(* Events, subscriptions and voice states.                                 *)

(* subscribe_channel and subscribe_channel_messages ask in this order.     *)
VoiceKinds == <<"CREATE", "UPDATE", "DELETE", "START", "STOP">>
ChatKinds == <<"MSG_CREATE", "MSG_UPDATE", "MSG_DELETE">>
ChatEvts == {"MSG_CREATE", "MSG_UPDATE", "MSG_DELETE"}

Messages == Channels \X (1..MaxPosts)

NoVoice == [ch |-> NoChannel, users |-> {}, speaking |-> {}, chat |-> {}]

Event(evt, ch, who) == [evt |-> evt, ch |-> ch, who |-> who]

(* Every event with data.user overwrites local_user_.                      *)
ObservedLocal(events, old) ==
  LET withUser == {i \in DOMAIN events : events[i].evt \in {"CREATE", "UPDATE", "DELETE"}}
  IN IF withUser = {} THEN old
     ELSE events[CHOOSE i \in withUser : \A j \in withUser : j <= i].who

(* Discord sends an event of kind evt in ch if that was subscribed.        *)
Emit(evt, ch, who) ==
  stream' = IF up /\ <<evt, ch>> \in subs THEN Append(stream, Event(evt, ch, who)) ELSE stream

Init ==
  /\ sel \in Channels \cup {NoChannel}
  /\ members = [c \in Channels |-> IF c = sel /\ "empty" \notin Races
                                   THEN InitialMembers[c] \cup {Self} ELSE InitialMembers[c]]
  /\ posted = {} /\ late = {} /\ subs = {} /\ stream = <<>> /\ up = FALSE
  /\ inbox = <<>> /\ local = Self /\ connected = FALSE /\ refused = 0 /\ scope = FALSE
  /\ voice = NoVoice /\ subscribed = NoChannel /\ pending = NoChannel
  /\ attempts = 0 /\ waiting = FALSE
  /\ activeChat = NoChannel /\ subscribedChat = NoChannel
  /\ pc = "offline" /\ job = "start" /\ k = 1 /\ target = NoChannel
  /\ chatRet = "publish" /\ first = TRUE /\ changed = FALSE
  /\ want \in BOOLEAN /\ fileWant = want
  /\ shown = NoVoice
  /\ selects = 0 /\ moves = 0 /\ flips = 0 /\ drops = 0

-----------------------------------------------------------------------------
(* Discord and the user.                                                   *)

Undelivered == {stream[i] : i \in DOMAIN stream} \cup {inbox[i] : i \in DOMAIN inbox}

CaughtUp == /\ pc \notin {"unsub", "unsubscribed", "sub", "subscribed"}
            /\ pending = NoChannel
            /\ \A e \in Undelivered : e.evt # "SELECT"

(* The user joins c or (NoChannel) leaves; Discord moves the voice state   *)
(* along unless it lags behind.                                            *)
SelectChannel(c) ==
  /\ c # sel /\ selects < MaxSelects
  /\ "hasty" \in Races \/ CaughtUp
  /\ selects' = selects + 1
  /\ sel' = c
  /\ members' = IF "empty" \in Races THEN members
                ELSE [d \in Channels |-> IF d = c THEN members[d] \cup {Self}
                                                  ELSE members[d] \ {Self}]
  /\ LET left == {d \in Channels : Self \in members[d]} \ {c}
         deletes == IF "empty" \in Races THEN {} ELSE {d \in left : <<"DELETE", d>> \in subs}
         tell == IF <<"SELECT", NoChannel>> \in subs THEN <<Event("SELECT", c, Self)>> ELSE <<>>
     IN stream' = IF ~up THEN stream
                  ELSE IF deletes = {} THEN stream \o tell
                  ELSE stream \o <<Event("DELETE", CHOOSE d \in deletes : TRUE, Self)>> \o tell
  /\ UNCHANGED <<posted, late, subs, up, inbox, local, connected, refused, voiceVars, chatVars,
                 controlVars, configVars, shown, moves, flips, drops>>

Move ==
  /\ moves < MaxMoves
  /\ moves' = moves + 1
  /\ "early" \in Races \/ ~(first /\ pc \in {"sub", "subscribed"} /\ job = "start")
  /\ UNCHANGED <<sel, posted, late, subs, up, inbox, local, connected, refused, voiceVars, chatVars,
                 controlVars, configVars, shown, selects, flips, drops>>

Join(u, c) ==
  /\ Move
  /\ u # Self \/ ("empty" \in Races /\ sel = c)
  /\ \A d \in Channels : u \notin members[d]
  /\ members' = [members EXCEPT ![c] = @ \cup {u}]
  /\ Emit("CREATE", c, u)

Leave(u, c) ==
  /\ Move
  /\ u \in members[c]
  /\ u # Self \/ ("empty" \in Races /\ sel # c)
  /\ members' = [members EXCEPT ![c] = @ \ {u}]
  /\ Emit("DELETE", c, u)

(* A mute, a rename, or a change of speaking state.                        *)
Change(u, c, evt) ==
  /\ Move
  /\ u \in members[c]
  /\ evt \in {"UPDATE", "START", "STOP"}
  /\ members' = members
  /\ Emit(evt, c, u)

(* A message is posted, edited or deleted in its channel.                  *)
Post(m, evt) ==
  /\ moves < MaxMoves
  /\ moves' = moves + 1
  /\ IF evt = "MSG_CREATE" THEN m[2] = Cardinality(posted) + 1 ELSE m \in posted
  /\ posted' = posted \cup {m}
  /\ Emit(evt, m[1], m)
  /\ late' = IF up /\ <<evt, m[1]>> \in subs /\ evt # "MSG_DELETE" /\ m[1] # voice.ch
             THEN late \cup {m} ELSE late
  /\ UNCHANGED <<sel, members, subs, up, inbox, local, connected, refused, voiceVars, chatVars,
                 controlVars, configVars, shown, selects, flips, drops>>

(* Discord quits: the daemon's socket will read end of file.               *)
Hangup ==
  /\ up
  /\ drops < MaxDrops
  /\ drops' = drops + 1
  /\ up' = FALSE
  /\ UNCHANGED <<discordVars, subs, stream, inbox, local, connected, refused, voiceVars, chatVars,
                 controlVars, configVars, shown, selects, moves, flips>>

(* The user edits show_voice_channel_chat in the config file.              *)
EditConfig ==
  /\ flips < MaxFlips
  /\ flips' = flips + 1
  /\ fileWant' = ~fileWant
  /\ UNCHANGED <<discordVars, socketVars, voiceVars, chatVars, controlVars, want, scope,
                 shown, selects, moves, drops>>

-----------------------------------------------------------------------------
(* Requests: send_request and wait_for_response.                           *)

(* Mutant: events that arrive while a request waits are dropped.           *)
ReceiveDropping ==
  /\ inbox' = inbox
  /\ stream' = <<>>
  /\ local' = ObservedLocal(stream, local)

Receive ==
  /\ inbox' = inbox \o stream
  /\ stream' = <<>>
  /\ local' = ObservedLocal(stream, local)

RpcOk == /\ up /\ Receive /\ UNCHANGED <<up, connected, refused>>

(* An ERROR reply, or a connection closed under the request; send() fails  *)
(* without clearing connected_, wait_for_response() clears it.             *)
RpcFails ==
  \/ /\ up /\ refused < MaxRefusals
     /\ refused' = refused + 1
     /\ Receive /\ UNCHANGED <<up, connected>>
  \/ /\ ~up
     /\ connected' \in {connected, FALSE}
     /\ UNCHANGED <<inbox, stream, local, up, refused>>

Goto(label) == pc' = label /\ UNCHANGED <<job, k, target, chatRet, first, changed>>

(* connect, handshake and authorize.  A token may carry messages.read when *)
(* chat is not wanted, and without it the session goes on without chat.    *)
StartSession ==
  /\ pc = "offline"
  /\ up' = TRUE /\ connected' = TRUE /\ refused' = 0
  /\ stream' = <<>> /\ inbox' = <<>> /\ subs' = {} /\ local' = Self
  /\ want' \in {want, fileWant}
  /\ scope' \in BOOLEAN
  /\ pc' = "subscribeSelect" /\ first' = TRUE /\ changed' = TRUE
  /\ UNCHANGED <<discordVars, voiceVars, chatVars, job, k, target, chatRet, fileWant,
                 shown, counterVars>>

(* subscribe_voice, whose result main ignores.                             *)
SubscribeSelect ==
  /\ pc = "subscribeSelect"
  /\ \/ RpcOk /\ subs' = subs \cup {<<"SELECT", NoChannel>>}
     \/ RpcFails /\ UNCHANGED subs
  /\ Goto("firstGet")
  /\ UNCHANGED <<discordVars, voiceVars, chatVars, configVars, shown, counterVars>>

(* get_selected_voice_channel answers with the selection and its members;  *)
(* a failed request reads as "in no channel".                              *)
Selected == [NoVoice EXCEPT !.ch = sel, !.users = IF sel = NoChannel THEN {} ELSE members[sel]]

Get(s) == \/ RpcOk /\ s = Selected
          \/ RpcFails /\ s = NoVoice

(* main's first snapshot, taken before the channel is subscribed.          *)
FirstGet ==
  /\ pc = "firstGet"
  /\ \E s \in {Selected, NoVoice} :
       /\ Get(s)
       /\ voice' = s
       /\ target' = s.ch
       /\ pc' = IF s.ch = NoChannel THEN "chat" ELSE "sub"
  /\ job' = "start" /\ k' = 1
  /\ chatRet' = "publish"
  /\ UNCHANGED <<discordVars, subs, subscribed, pending, attempts, waiting, chatVars, first,
                 changed, configVars, shown, counterVars>>

(* unsubscribe_channel: one request per kind, stopping at a failure.       *)
Unsubscribe ==
  /\ pc = "unsub"
  /\ \/ /\ RpcOk
        /\ subs' = subs \ {<<VoiceKinds[k], subscribed>>}
        /\ IF k < Len(VoiceKinds) THEN k' = k + 1 /\ pc' = pc
                                  ELSE k' = 1 /\ pc' = "unsubscribed"
     \/ RpcFails /\ UNCHANGED subs /\ k' = 1 /\ pc' = "unsubscribed"
  /\ UNCHANGED <<discordVars, voiceVars, chatVars, job, target, chatRet, first, changed,
                 configVars, shown, counterVars>>

(* subscribe_channel; no caller looks at its result.                       *)
Subscribe ==
  /\ pc = "sub"
  /\ \/ /\ RpcOk
        /\ subs' = subs \cup {<<VoiceKinds[k], target>>}
        /\ IF k < Len(VoiceKinds) THEN k' = k + 1 /\ pc' = pc
                                  ELSE k' = 1 /\ pc' = "subscribed"
     \/ RpcFails /\ UNCHANGED subs /\ k' = 1 /\ pc' = "subscribed"
  /\ UNCHANGED <<discordVars, voiceVars, chatVars, job, target, chatRet, first, changed,
                 configVars, shown, counterVars>>

-----------------------------------------------------------------------------
(* schedule_channel_sync, sync_pending_channel.                            *)

EnterUnsub(next) ==
  /\ job' = next
  /\ k' = 1
  /\ pc' = IF subscribed = NoChannel THEN "unsubscribed" ELSE "unsub"

(* Mutant: the channel being left is not unsubscribed.                     *)
ScheduleWithoutUnsubscribe(c, next) ==
  /\ target' = c /\ job' = next /\ k' = 1
  /\ pc' = IF subscribed = c THEN "subscribed" ELSE "sub"

Schedule(c, next) ==
  /\ target' = c
  /\ IF subscribed = c THEN job' = next /\ k' = 1 /\ pc' = "subscribed"
                       ELSE EnterUnsub(next)

ClearPending == pending' = NoChannel /\ attempts' = 0 /\ waiting' = FALSE

(* Mutant: leaving a channel does not reset state.voice.                   *)
AfterUnsubscribeKeepsVoice ==
  /\ pc = "unsubscribed"
  /\ subscribed' = NoChannel
  /\ \/ job \in {"select", "resync"} /\ pc' = "sub" /\ UNCHANGED <<pending, attempts, waiting>>
     \/ job = "deselect" /\ ClearPending /\ pc' = "drain"
     \/ job = "abandon" /\ ClearPending /\ pc' = "chat"
  /\ UNCHANGED <<voice, changed>>
  /\ UNCHANGED <<discordVars, socketVars, chatVars, job, k, target, chatRet, first,
                 configVars, shown, counterVars>>

(* What follows an unsubscribe: the rest of schedule_channel_sync, of a    *)
(* null VOICE_CHANNEL_SELECT, or of a sync that found no channel.          *)
AfterUnsubscribe ==
  /\ pc = "unsubscribed"
  /\ subscribed' = NoChannel
  /\ \/ /\ job \in {"select", "resync"}
        /\ pc' = "sub"
        /\ UNCHANGED <<voice, pending, attempts, waiting, changed>>
     \/ /\ job = "deselect"
        /\ ClearPending
        /\ voice' = NoVoice
        /\ changed' = (changed \/ voice.ch # NoChannel)
        /\ pc' = "drain"
     \/ /\ job = "abandon"
        /\ ClearPending
        /\ pc' = "chat"
        /\ UNCHANGED <<voice, changed>>
  /\ UNCHANGED <<discordVars, socketVars, chatVars, job, k, target, chatRet, first,
                 configVars, shown, counterVars>>

(* Mutant: the loop stops reading at a change of channel, with events left. *)
AfterSubscribeStopsReading ==
  /\ pc = "subscribed"
  /\ subscribed' = target
  /\ IF job = "start" /\ voice.users # {}
     THEN UNCHANGED <<voice, pending, attempts, waiting>>
     ELSE voice' = NoVoice /\ pending' = target /\ attempts' = MaxAttempts /\ waiting' = FALSE
  /\ pc' = IF job = "resync" THEN "syncAgain"
           ELSE IF job = "start" /\ voice.users # {} THEN "chat" ELSE "sync"
  /\ changed' = (changed \/ job = "select")
  /\ UNCHANGED <<discordVars, socketVars, chatVars, job, k, target, chatRet, first,
                 configVars, shown, counterVars>>

AfterSubscribe ==
  /\ pc = "subscribed"
  /\ subscribed' = target
  /\ IF job = "start" /\ voice.users # {}
     THEN UNCHANGED <<voice, pending, attempts, waiting>>
     ELSE voice' = NoVoice /\ pending' = target /\ attempts' = MaxAttempts /\ waiting' = FALSE
  /\ pc' = CASE job = "start" -> IF voice.users # {} THEN "chat" ELSE "sync"
             [] job = "select" -> "drain"
             [] job = "resync" -> "syncAgain"
  /\ changed' = (changed \/ job = "select")
  /\ UNCHANGED <<discordVars, socketVars, chatVars, job, k, target, chatRet, first,
                 configVars, shown, counterVars>>

(* Mutants: a snapshot of another channel is taken; the retries never end. *)
SettleAnyChannel(s) ==
  /\ IF s.users # {} THEN voice' = s /\ ClearPending /\ changed' = TRUE
     ELSE IF attempts > 1
     THEN attempts' = attempts - 1 /\ waiting' = TRUE /\ UNCHANGED <<voice, pending, changed>>
     ELSE voice' = [s EXCEPT !.users = {local'}] /\ ClearPending /\ changed' = TRUE
  /\ pc' = "chat"
  /\ UNCHANGED <<job, k, target>>

SettleRetriesPastZero(s) ==
  /\ IF s.ch = pending /\ s.users # {} THEN voice' = s /\ ClearPending /\ changed' = TRUE
     ELSE attempts' = attempts - 1 /\ waiting' = TRUE /\ UNCHANGED <<voice, pending, changed>>
  /\ pc' = "chat"
  /\ UNCHANGED <<job, k, target>>

(* The tail of sync_pending_channel, with the snapshot s it has obtained.  *)
Settle(s) ==
  /\ IF s.ch = pending /\ s.users # {}
     THEN voice' = s /\ ClearPending /\ changed' = TRUE
     ELSE IF attempts > 1
     THEN attempts' = attempts - 1 /\ waiting' = TRUE /\ UNCHANGED <<voice, pending, changed>>
     ELSE /\ voice' = IF s.users = {} THEN [s EXCEPT !.users = {local'}] ELSE s
          /\ ClearPending /\ changed' = TRUE
  /\ pc' = "chat"
  /\ UNCHANGED <<job, k, target>>

SyncIdle ==
  /\ pc = "sync"
  /\ pending = NoChannel \/ waiting
  /\ pc' = "chat" /\ chatRet' = "publish"
  /\ UNCHANGED <<discordVars, socketVars, voiceVars, chatVars, job, k, target, first, changed,
                 configVars, shown, counterVars>>

Sync ==
  /\ pc = "sync"
  /\ pending # NoChannel /\ ~waiting
  /\ \E s \in {Selected, NoVoice} :
       /\ Get(s)
       /\ \/ /\ s.ch = NoChannel
             /\ EnterUnsub("abandon")
             /\ UNCHANGED <<voice, pending, attempts, waiting, target, changed>>
          \/ /\ s.ch \notin {NoChannel, pending}
             /\ Schedule(s.ch, "resync")
             /\ UNCHANGED <<voice, pending, attempts, waiting, changed>>
          \/ /\ s.ch # NoChannel /\ s.ch = pending
             /\ Settle(s)
  /\ chatRet' = "publish"
  /\ UNCHANGED <<discordVars, subs, subscribed, chatVars, first, configVars, shown, counterVars>>

(* The second snapshot, after the pending channel was replaced.            *)
SyncAgain ==
  /\ pc = "syncAgain"
  /\ \E s \in {Selected, NoVoice} :
       /\ Get(s)
       /\ \/ /\ s.ch = NoChannel
             /\ Goto("chat")
             /\ UNCHANGED <<voice, pending, attempts, waiting>>
          \/ /\ s.ch # NoChannel
             /\ Settle(s)
             /\ UNCHANGED <<chatRet, first>>
  /\ UNCHANGED <<discordVars, subs, subscribed, chatVars, configVars, shown, counterVars>>

(* The retry interval passes.                                              *)
RetryDue ==
  /\ waiting
  /\ waiting' = FALSE
  /\ UNCHANGED <<discordVars, socketVars, voice, subscribed, pending, attempts, chatVars,
                 controlVars, configVars, shown, counterVars>>

-----------------------------------------------------------------------------
(* refresh_chat_state, clear_chat_state and unsubscribe_chat_events.       *)

ChatWanted == want /\ scope /\ voice.ch # NoChannel

HadChat == voice.chat # {} \/ activeChat # NoChannel \/ subscribedChat # NoChannel

RefreshChat ==
  /\ pc = "chat"
  /\ IF ChatWanted /\ activeChat = voice.ch
     THEN Goto(chatRet)
     ELSE /\ changed' = (changed \/ HadChat)
          /\ pc' = IF subscribedChat # NoChannel THEN "chatUnsub" ELSE "chatCleared"
          /\ k' = 1
          /\ UNCHANGED <<job, target, chatRet, first>>
  /\ UNCHANGED <<discordVars, socketVars, voiceVars, chatVars, configVars, shown, counterVars>>

ChatUnsubscribe ==
  /\ pc = "chatUnsub"
  /\ \/ /\ RpcOk
        /\ subs' = subs \ {<<ChatKinds[k], subscribedChat>>}
        /\ IF k < Len(ChatKinds) THEN k' = k + 1 /\ pc' = pc
                                 ELSE k' = 1 /\ pc' = "chatCleared"
     \/ RpcFails /\ UNCHANGED subs /\ k' = 1 /\ pc' = "chatCleared"
  /\ UNCHANGED <<discordVars, voiceVars, chatVars, job, target, chatRet, first, changed,
                 configVars, shown, counterVars>>

ClearChatState ==
  /\ pc = "chatCleared"
  /\ subscribedChat' = NoChannel
  /\ activeChat' = IF ChatWanted THEN voice.ch ELSE NoChannel
  /\ voice' = [voice EXCEPT !.chat = {}]
  /\ Goto(IF ChatWanted THEN "chatSub" ELSE chatRet)
  /\ UNCHANGED <<discordVars, socketVars, subscribed, pending, attempts, waiting, configVars,
                 shown, counterVars>>

ChatSubscribe ==
  /\ pc = "chatSub"
  /\ \/ /\ RpcOk
        /\ subs' = subs \cup {<<ChatKinds[k], voice.ch>>}
        /\ IF k < Len(ChatKinds)
           THEN k' = k + 1 /\ pc' = pc /\ UNCHANGED subscribedChat
           ELSE k' = 1 /\ pc' = chatRet /\ subscribedChat' = voice.ch
     \/ RpcFails /\ UNCHANGED <<subs, subscribedChat>> /\ k' = 1 /\ pc' = chatRet
  /\ UNCHANGED <<discordVars, voiceVars, activeChat, job, target, chatRet, first, changed,
                 configVars, shown, counterVars>>

-----------------------------------------------------------------------------
(* The event loop.                                                         *)

(* The head of the loop, where a tray menu choice may flip the chat option *)
(* (saved at once), or ask for a reload or a new authorisation.            *)
LoopTop ==
  /\ pc = "top" /\ connected
  /\ pc' = "drain" /\ changed' = FALSE
  /\ UNCHANGED <<discordVars, socketVars, voiceVars, chatVars, job, k, target, chatRet, first,
                 configVars, shown, counterVars>>

TrayTogglesChat ==
  /\ pc = "top" /\ connected
  /\ flips < MaxFlips
  /\ flips' = flips + 1
  /\ want' = ~want /\ fileWant' = ~want
  /\ changed' = FALSE
  /\ chatRet' = "drain"
  /\ pc' = IF want \/ scope THEN "chat" ELSE "cleanup"
  /\ UNCHANGED <<discordVars, socketVars, voiceVars, chatVars, job, k, target, first, scope,
                 shown, selects, moves, drops>>

Reconnect ==
  /\ pc \in {"top", "ctl"} /\ connected
  /\ drops < MaxDrops
  /\ drops' = drops + 1
  /\ want' \in {want, fileWant}
  /\ Goto("cleanup")
  /\ UNCHANGED <<discordVars, socketVars, voiceVars, chatVars, fileWant, scope, shown,
                 selects, moves, flips>>

(* poll_event: the inbox first, then the socket.                           *)
NextEvent(e) ==
  \/ /\ inbox # <<>>
     /\ e = Head(inbox)
     /\ inbox' = Tail(inbox)
     /\ UNCHANGED <<stream, local>>
  \/ /\ inbox = <<>> /\ stream # <<>>
     /\ e = Head(stream)
     /\ stream' = Tail(stream)
     /\ local' = ObservedLocal(<<e>>, local)
     /\ UNCHANGED inbox

(* process_voice_event for VOICE_CHANNEL_SELECT.                           *)
HandleSelect(e) ==
  /\ e.evt = "SELECT"
  /\ UNCHANGED <<voice, changed>>
  /\ \/ /\ e.ch = NoChannel
        /\ EnterUnsub("deselect")
        /\ UNCHANGED target
     \/ /\ e.ch # NoChannel
        /\ IF e.ch = subscribed /\ pending = NoChannel /\ voice.ch = e.ch /\ voice.users # {}
           THEN UNCHANGED <<pc, job, k, target>>
           ELSE Schedule(e.ch, "select")

(* process_voice_event for the per-channel events: they name no channel,   *)
(* so they apply to whatever channel is shown.                             *)
AppliedVoice(e) ==
  CASE e.evt \in {"CREATE", "UPDATE"} -> [voice EXCEPT !.users = @ \cup {e.who}]
    [] e.evt = "DELETE" -> [voice EXCEPT !.users = @ \ {e.who}, !.speaking = @ \ {e.who}]
    [] e.evt = "START" -> [voice EXCEPT !.speaking = @ \cup ({e.who} \cap voice.users)]
    [] e.evt = "STOP" -> [voice EXCEPT !.speaking = @ \ {e.who}]

(* Mutant: a departure does not set result.state_changed.                  *)
HandleVoiceQuietDelete(e) ==
  /\ e.evt \in {"CREATE", "UPDATE", "DELETE", "START", "STOP"}
  /\ voice' = IF voice.ch = NoChannel THEN voice ELSE AppliedVoice(e)
  /\ changed' = (changed \/ (voice' # voice /\ e.evt # "DELETE")
                        \/ (e.evt = "UPDATE" /\ voice.ch # NoChannel))
  /\ UNCHANGED <<pc, job, k, target>>

HandleVoice(e) ==
  /\ e.evt \in {"CREATE", "UPDATE", "DELETE", "START", "STOP"}
  /\ voice' = IF voice.ch = NoChannel THEN voice ELSE AppliedVoice(e)
  /\ changed' = (changed \/ voice' # voice \/ (e.evt = "UPDATE" /\ voice.ch # NoChannel))
  /\ UNCHANGED <<pc, job, k, target>>

(* main's filter and process_chat_event.                                   *)
HandleChat(e) ==
  /\ e.evt \in {"MSG_CREATE", "MSG_UPDATE", "MSG_DELETE"}
  /\ voice' = IF voice.ch = NoChannel \/ activeChat # voice.ch THEN voice
              ELSE IF e.evt = "MSG_DELETE" THEN [voice EXCEPT !.chat = @ \ {e.who}]
              ELSE [voice EXCEPT !.chat = @ \cup {e.who}]
  /\ changed' = (changed \/ voice' # voice
                 \/ (e.evt # "MSG_DELETE" /\ voice.ch # NoChannel /\ activeChat = voice.ch))
  /\ UNCHANGED <<pc, job, k, target>>

Dispatch ==
  /\ pc = "drain"
  /\ \E e \in Undelivered :
       /\ NextEvent(e)
       /\ HandleSelect(e) \/ HandleVoice(e) \/ HandleChat(e)
  /\ UNCHANGED <<discordVars, subs, up, connected, refused, subscribed, pending, attempts, waiting,
                 chatVars, chatRet, first, configVars, shown, counterVars>>

(* Mutant: end of file is taken for "nothing left to read".                *)
DrainDoneIgnoresClose ==
  /\ pc = "drain"
  /\ inbox = <<>> /\ stream = <<>>
  /\ Goto("sync")
  /\ UNCHANGED <<discordVars, socketVars, voiceVars, chatVars, configVars, shown, counterVars>>

(* Nothing left to read, or end of file.                                   *)
DrainDone ==
  /\ pc = "drain"
  /\ inbox = <<>> /\ stream = <<>>
  /\ connected' = (connected /\ up)
  /\ Goto(IF up THEN "sync" ELSE "cleanup")
  /\ UNCHANGED <<discordVars, subs, stream, up, inbox, local, refused, voiceVars, chatVars,
                 configVars, shown, counterVars>>

(* prune_expired_messages, and update_shm if anything changed.             *)
Publish ==
  /\ pc = "publish"
  /\ \E kept \in IF first THEN {voice.chat} ELSE SUBSET voice.chat :
       /\ voice' = [voice EXCEPT !.chat = kept]
       /\ shown' = IF changed \/ kept # voice.chat THEN voice' ELSE shown
  /\ pc' = IF first THEN "top" ELSE "config"
  /\ first' = FALSE
  /\ UNCHANGED <<discordVars, socketVars, subscribed, pending, attempts, waiting, chatVars,
                 job, k, target, chatRet, changed, configVars, counterVars>>

(* The watcher may or may not have noticed the file yet.                   *)
ConfigUnchanged ==
  /\ pc = "config"
  /\ Goto("ctl")
  /\ UNCHANGED <<discordVars, socketVars, voiceVars, chatVars, configVars, shown, counterVars>>

(* daemon_requires_reconnect, else another refresh_chat_state.             *)
ConfigChanged ==
  /\ pc = "config"
  /\ fileWant # want
  /\ want' = fileWant
  /\ chatRet' = "ctl"
  /\ pc' = IF ~want /\ fileWant /\ ~scope THEN "cleanup" ELSE "chat"
  /\ UNCHANGED <<discordVars, socketVars, voiceVars, chatVars, job, k, target, first, changed,
                 fileWant, scope, shown, counterVars>>

ControlIdle ==
  /\ pc = "ctl"
  /\ Goto("top")
  /\ UNCHANGED <<discordVars, socketVars, voiceVars, chatVars, configVars, shown, counterVars>>

(* Mutant: the chat half of the runtime survives the connection.           *)
CleanupKeepsChat ==
  /\ pc = "cleanup" \/ (pc = "top" /\ ~connected)
  /\ voice' = NoVoice /\ shown' = NoVoice
  /\ subscribed' = NoChannel /\ ClearPending
  /\ up' = FALSE /\ connected' = FALSE /\ subs' = {} /\ stream' = <<>> /\ inbox' = <<>>
  /\ Goto("offline")
  /\ UNCHANGED <<discordVars, local, refused, chatVars, configVars, counterVars>>

(* After the loop: runtime = {}, update_shm, and the connection goes away. *)
Cleanup ==
  /\ pc = "cleanup" \/ (pc = "top" /\ ~connected)
  /\ voice' = NoVoice /\ shown' = NoVoice
  /\ subscribed' = NoChannel /\ ClearPending
  /\ activeChat' = NoChannel /\ subscribedChat' = NoChannel
  /\ up' = FALSE /\ connected' = FALSE /\ subs' = {} /\ stream' = <<>> /\ inbox' = <<>>
  /\ Goto("offline")
  /\ UNCHANGED <<discordVars, local, refused, configVars, counterVars>>

-----------------------------------------------------------------------------
Discord ==
  \/ \E c \in Channels \cup {NoChannel} : SelectChannel(c)
  \/ \E u \in Users, c \in Channels : \/ Join(u, c) \/ Leave(u, c)
                                      \/ \E evt \in {"UPDATE", "START", "STOP"} : Change(u, c, evt)
  \/ \E m \in Messages, evt \in ChatEvts : Post(m, evt)
  \/ Hangup

Daemon ==
  \/ StartSession \/ SubscribeSelect \/ FirstGet
  \/ Unsubscribe \/ AfterUnsubscribe \/ Subscribe \/ AfterSubscribe
  \/ SyncIdle \/ Sync \/ SyncAgain
  \/ RefreshChat \/ ChatUnsubscribe \/ ClearChatState \/ ChatSubscribe
  \/ LoopTop \/ Dispatch \/ DrainDone \/ Publish
  \/ ConfigUnchanged \/ ConfigChanged \/ ControlIdle \/ Cleanup

Next ==
  \/ Discord
  \/ Daemon
  \/ EditConfig \/ TrayTogglesChat \/ Reconnect
  \/ RetryDue

Spec == Init /\ [][Next]_vars

(* The loop always comes round, Discord answers every request or hangs up, *)
(* and time passes.  Nothing is assumed of the user or of Discord's events. *)
FairSpec == Spec /\ WF_vars(Daemon) /\ WF_vars(RetryDue)

-----------------------------------------------------------------------------
(* Properties.                                                             *)

Labels == {"offline", "subscribeSelect", "firstGet", "unsub", "unsubscribed", "sub",
           "subscribed", "sync", "syncAgain", "chat", "chatUnsub", "chatCleared", "chatSub",
           "top", "drain", "publish", "config", "ctl", "cleanup"}

VoiceStates == [ch: Channels \cup {NoChannel}, users: SUBSET Users, speaking: SUBSET Users,
                chat: SUBSET Messages]

Events == [evt: {"SELECT"}, ch: Channels \cup {NoChannel}, who: {Self}]
          \cup [evt: {VoiceKinds[i] : i \in DOMAIN VoiceKinds}, ch: Channels, who: Users]
          \cup [evt: {ChatKinds[i] : i \in DOMAIN ChatKinds}, ch: Channels, who: Messages]

TypeOK ==
  /\ sel \in Channels \cup {NoChannel} /\ members \in [Channels -> SUBSET Users]
  /\ posted \in SUBSET Messages /\ late \in SUBSET Messages
  /\ stream \in Seq(Events) /\ inbox \in Seq(Events)
  /\ up \in BOOLEAN /\ connected \in BOOLEAN /\ refused \in 0..MaxRefusals /\ scope \in BOOLEAN
  /\ local \in Users
  /\ voice \in VoiceStates /\ shown \in VoiceStates
  /\ {subscribed, pending, activeChat, subscribedChat, target} \subseteq Channels \cup {NoChannel}
  /\ attempts \in 0..MaxAttempts /\ waiting \in BOOLEAN
  /\ pc \in Labels /\ job \in {"start", "select", "resync", "deselect", "abandon"}
  /\ k \in 1..5 /\ chatRet \in {"publish", "drain", "ctl"}
  /\ {first, changed, want, fileWant} \subseteq BOOLEAN

(* The daemon has nothing left to read, to sync or to publish.             *)
Settled == /\ pc = "top" /\ up /\ connected
           /\ stream = <<>> /\ inbox = <<>> /\ pending = NoChannel

(* At rest, the channel and the people shown are the ones Discord has: no  *)
(* join or leave got lost or was applied to the wrong channel between the  *)
(* snapshots and the event stream.  (The user's own entry may be missing   *)
(* from Discord's list: the local fallback adds it.)                       *)
RosterAgrees ==
  Settled => /\ voice.ch = sel
             /\ sel # NoChannel => voice.users \ {Self} = members[sel] \ {Self}
             /\ sel # NoChannel /\ Self \in members[sel] => Self \in voice.users

(* Unless Discord refused a request (a refused GET_SELECTED_VOICE_CHANNEL   *)
(* reads as "in no channel"), the daemon at rest shows the user's channel,  *)
(* or none with the user: no switch is lost among the requests, replies    *)
(* and retries of another.                                                 *)
ChannelAgrees == Settled /\ refused = 0 => voice.ch = sel

(* Between requests, and unless one was refused, Discord sends the events  *)
(* of the channel the daemon believes subscribed, and of no other: no      *)
(* subscription leaks across switches, abandoned syncs and reconnects.     *)
SubscriptionsExact ==
  pc \in {"top", "publish", "config", "ctl"} /\ up /\ refused = 0 =>
    {s \in subs : s[1] # "SELECT"} =
      {<<VoiceKinds[i], subscribed>> : i \in IF subscribed = NoChannel THEN {} ELSE DOMAIN VoiceKinds}
      \cup {<<ChatKinds[i], subscribedChat>> : i \in IF subscribedChat = NoChannel THEN {} ELSE DOMAIN ChatKinds}

(* Unless Discord refused a request of the session (its refusal to send    *)
(* events is ignored), it sends every kind of event of the channel shown,  *)
(* in the middle of the draining of events too: what the overlay displays  *)
(* is being kept current.                                                  *)
ShownIsHeard ==
  /\ pc \in {"chat", "publish", "top", "drain", "config", "ctl"}
  /\ up /\ refused = 0 /\ voice.ch # NoChannel
  => {<<VoiceKinds[i], voice.ch>> : i \in DOMAIN VoiceKinds} \subseteq subs

(* A message shown beside the members of another channel than its own was  *)
(* sent when the daemon had stopped showing its channel: no message sent   *)
(* before, nor one left in socket or inbox by an earlier channel, option   *)
(* or session, reaches the view of the next channel.                       *)
ChatOnlyLate == \A m \in shown.chat : m[1] = shown.ch \/ m \in late

(* "the latest voice channel chat messages" (README.md:32): chat shown      *)
(* beside the members of a channel was posted in that channel.             *)
ChatOfThisChannel == \A m \in shown.chat : m[1] = shown.ch

(* Every change the loop makes is published before the loop comes round    *)
(* (update_shm is "Called after any voice event", daemon/main.cpp:138).    *)
ShownIsCurrent == pc = "top" /\ connected => shown = voice

(* Once everyone has stopped moving (the bounds see to that), the overlay  *)
(* ends up showing, for good, the user's channel and the people in it:     *)
(* also after Discord went away and the daemon had to connect again.       *)
Converges ==
  <>[](/\ shown.ch = sel
       /\ sel # NoChannel => shown.users \ {Self} = members[sel] \ {Self})

(* Someone alone in a channel Discord lists as empty sees themselves.      *)
FallbackIsSelf ==
  Settled /\ sel # NoChannel /\ members[sel] = {} => voice.users \subseteq {Self}

-----------------------------------------------------------------------------
(* Why the safety properties hold: the invariants of the proofs.           *)

Switching == {"unsub", "unsubscribed", "sub", "subscribed"}
Starting == {"offline", "subscribeSelect", "firstGet"}

(* With this, TypeOK is inductive.                                         *)
TypeInv == /\ TypeOK
           /\ IsFiniteSet(posted)
           /\ pc \in {"sub", "subscribed"} => job \in {"start", "select", "resync"}

(* A session starts from an empty runtime; a view without a channel is     *)
(* empty; while a channel is pending there is none, and it is subscribed   *)
(* unless it is about to be.                                               *)
ViewOK ==
  /\ pc \in Starting =>
       /\ voice = NoVoice /\ subscribed = NoChannel /\ pending = NoChannel
       /\ activeChat = NoChannel /\ subscribedChat = NoChannel
  /\ voice.ch = NoChannel => voice = NoVoice
  /\ pending # NoChannel => voice.ch = NoChannel
  /\ pc \notin Switching /\ pending # NoChannel => subscribed = pending
  /\ pc = "syncAgain" => pending # NoChannel /\ attempts = MaxAttempts

(* The channel shown is the one the daemon believes subscribed.            *)
ShownInv == pc \notin Switching /\ voice.ch # NoChannel => subscribed = voice.ch

(* What each job has in hand while the daemon changes its subscriptions.   *)
SwitchOK ==
  /\ pc \in {"unsub", "unsubscribed"} => job # "start"
  /\ pc \in Switching /\ job \in {"start", "select", "resync"} => target # NoChannel
  /\ pc \in Switching /\ job = "start" => voice.ch = target /\ pending = NoChannel
                                       /\ activeChat = NoChannel /\ subscribedChat = NoChannel
  /\ pc \in Switching /\ job \in {"abandon", "resync"} => voice.ch = NoChannel
  /\ pc = "unsub" => subscribed # NoChannel
  /\ pc = "sub" => subscribed = NoChannel
  /\ pc = "subscribed" => subscribed \in {NoChannel, target}

(* The chat that is subscribed is the active one, and nobody else's.       *)
ChatSubOK ==
  /\ subscribedChat \in {NoChannel, activeChat}
  /\ pc = "chatUnsub" => subscribedChat # NoChannel
  /\ pc = "chatSub" => subscribedChat = NoChannel /\ activeChat = voice.ch /\ voice.ch # NoChannel
  /\ pc \in {"unsubscribed", "chatCleared"} => k = 1
  /\ pc \in {"chatUnsub", "chatSub"} => k <= 3

ViewInv == ViewOK /\ SwitchOK /\ ChatSubOK

(* What Discord has been asked for, in the middle of a switch too.         *)
Asked(kinds, I, c) == {<<kinds[i], c>> : i \in IF c = NoChannel THEN {} ELSE I}

VoiceAsked ==
  CASE pc = "unsub" -> Asked(VoiceKinds, k..5, subscribed)
    [] pc = "unsubscribed" -> {}
    [] pc = "sub" -> Asked(VoiceKinds, 1..(k - 1), target)
    [] pc = "subscribed" -> Asked(VoiceKinds, 1..5, target)
    [] OTHER -> Asked(VoiceKinds, 1..5, subscribed)

ChatAsked ==
  CASE pc = "chatUnsub" -> Asked(ChatKinds, k..3, subscribedChat)
    [] pc = "chatCleared" -> {}
    [] pc = "chatSub" -> Asked(ChatKinds, 1..(k - 1), voice.ch)
    [] OTHER -> Asked(ChatKinds, 1..3, subscribedChat)

SubsInv ==
  /\ pc \in {"offline", "subscribeSelect"} => subs = {} /\ stream = <<>> /\ inbox = <<>>
  /\ pc = "offline" => ~up
  /\ up /\ refused = 0 =>
       /\ {s \in subs : s[1] # "SELECT"} = VoiceAsked \cup ChatAsked
       /\ pc \notin {"offline", "subscribeSelect"} => <<"SELECT", NoChannel>> \in subs

(* If the chat option stays as it is: what is not published yet is marked. *)
MarkInv ==
  /\ fileWant = want /\ chatRet = "publish"
  /\ pc \in {"subscribeSelect", "firstGet"} \/ (pc \in Switching /\ job = "start") => changed
  /\ pc \notin {"offline", "cleanup"} /\ ~changed => shown = voice
  /\ pc \in {"top", "config", "ctl"} => shown = voice
  /\ pc \in {"chatUnsub", "chatCleared"} /\ voice.chat # {} => changed

(* Requests move events from the stream to the inbox: what is in flight is *)
(* the one after the other.                                                *)
InFlight == inbox \o stream

(* The last switch of channel in q leads to c.  There is none.             *)
LeadsTo(q, c) ==
  \E i \in DOMAIN q : /\ q[i].evt = "SELECT" /\ q[i].ch = c
                      /\ \A j \in DOMAIN q : j > i => q[j].evt # "SELECT"

None(q, evts) == \A i \in DOMAIN q : q[i].evt \notin evts

(* The channel the daemon is in, or is going to be in.                     *)
Belief ==
  IF pc \in Switching THEN IF job \in {"deselect", "abandon"} THEN NoChannel ELSE target
  ELSE IF pending # NoChannel THEN pending ELSE voice.ch

(* Where the user is can be told from what is in flight, or else is known. *)
SelectInv ==
  up /\ refused = 0 => \/ LeadsTo(InFlight, sel)
                       \/ /\ None(InFlight, {"SELECT"})
                          /\ pc \in Starting \/ Belief = sel

(* The messages q brings are of channel c, but for those in L.             *)
OnlyOf(q, c, L) ==
  \A i \in DOMAIN q : q[i].evt \in {"MSG_CREATE", "MSG_UPDATE"} => q[i].who[1] = c \/ q[i].who \in L

(* No channel is shown, and what was left from the last one has been read. *)
Drained == voice.ch = NoChannel /\ pc # "drain" /\ ~(pc \in Switching /\ job \in {"select", "deselect"})

NoChatYet == pc \in {"subscribeSelect", "firstGet"} \/ (pc \in Switching /\ job = "start")

(* Messages in flight, but for the late ones, are of the channel shown.    *)
(* What is left from another is drained before the next channel is shown,  *)
(* and a session starts with none.                                         *)
ChatInv ==
  /\ \A m \in voice.chat : m[1] = voice.ch \/ m \in late
  /\ ChatOnlyLate
  /\ voice.ch # NoChannel \/ Drained => OnlyOf(InFlight, voice.ch, late)
  /\ NoChatYet => None(InFlight, ChatEvts) /\ \A s \in subs : s[1] \notin ChatEvts

(* Who is in the channel once q has been applied to the users S.           *)
Replayed(q, u, S) ==
  \/ \E i \in DOMAIN q : /\ q[i].who = u /\ q[i].evt \in {"CREATE", "UPDATE"}
                         /\ \A j \in DOMAIN q : j > i => q[j].who # u \/ q[j].evt # "DELETE"
  \/ u \in S /\ \A i \in DOMAIN q : q[i].who # u \/ q[i].evt # "DELETE"

RosterFrom(S) == \A u \in Users : Replayed(InFlight, u, S) <=> u \in members[sel]

(* If no race is run: one switch of channel is dealt with at a time, and   *)
(* the events in flight lead from the people shown to the people there.    *)
RosterInv ==
  /\ sel # NoChannel => Self \in members[sel]
  /\ pc \in {"subscribeSelect", "firstGet"} => first
  /\ up =>
       /\ \A i, j \in DOMAIN InFlight :
            InFlight[i].evt = "SELECT" /\ InFlight[j].evt = "SELECT" => i = j
       /\ pending # NoChannel \/ (pc \in Switching /\ job # "start") => None(InFlight, {"SELECT"})
       /\ pc \in Switching => job \in {"start", "select", "deselect"}
       /\ pc # "syncAgain"
       /\ pc = "firstGet" => None(InFlight, {"CREATE", "UPDATE", "DELETE"})
       /\ pc \in Switching /\ job = "start" =>
            first /\ sel = target /\ voice.users = members[sel] /\ RosterFrom(voice.users)
       /\ pc = "sync" /\ pending # NoChannel => RosterFrom(members[sel])
       /\ pc \notin Switching /\ voice.ch = sel /\ sel # NoChannel => RosterFrom(voice.users)
=============================================================================
