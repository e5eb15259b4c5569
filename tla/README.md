# Verification of Sigaw

Sigaw shows who is in the user's Discord voice channel on top of a game. A
daemon talks to the local Discord client and publishes what it learns in a
shared memory segment; an overlay loaded into every game (a Vulkan layer or an
OpenGL hook) draws that segment at each frame. This directory holds TLA+
modules of the program, TLC configurations that check them on small instances,
and proofs that TLAPS checks for every value of the constants. Paths such as
`daemon/main.cpp` are below the repository's own `src/` directory.

## 1. The system

| Part | State it keeps | Operations | Talks to |
|---|---|---|---|
| Segment writer (`daemon/shm_writer.h`, `update_shm` in `daemon/main.cpp`) | one POSIX shared memory object: header with magic, version, sequence; channel name, count, chat block, 64 user slots | open, begin/end write, setters, close and unlink | readers, through memory only |
| Segment reader (`layer/shm_reader.h`) in every game and in `sigaw-ctl` | its mapping, the inode behind it, the time of the last probe | `read`: refresh the mapping, three seqlock attempts | writer, through memory only |
| Daemon main loop (`daemon/main.cpp`) | runtime state, config, what was authorised | connect, authorise, first snapshot, one iteration: tray, drain events, sync, chat, publish, config, control socket | all daemon parts, one thread |
| Voice runtime (`daemon/voice_runtime.h`) | channel, users, the subscribed channel, a pending sync with attempts and deadline | schedule a sync, run it, apply an event | Discord client |
| Chat runtime (`daemon/chat_runtime.h`) | messages with ages, at most 8 | upsert, delete, expire | voice runtime |
| Discord IPC (`daemon/discord_ipc.h`) | socket, inbox of dispatched events, local user, scopes, cached token | handshake, authorise, request/response, poll | Discord's Unix socket |
| Configuration (`common/config.h`, `common/config_watcher.h`) | options in memory, the file, an inotify watch | load, save, watch | daemon, overlays, user |
| Control socket, `sigaw-ctl` (`daemon/control_server.h`, `ctl/main.cpp`) | a listening socket | toggle, reload, quit, status | daemon, segment |
| Tray (`daemon/tray_actions.cpp`, `daemon/tray_icon.cpp`) | a queue of menu choices | plan an action | daemon |
| Avatar cache (`daemon/avatar_cache.h`) | job queue, queued keys, a worker thread, files | request, download, shut down | daemon, overlays (files) |
| Vulkan layer (`layer/layer_entry.c`) | tables of instances, devices, queues, swapchains; semaphores presents still wait for | hooks of create, destroy, acquire, present | application threads, renderer |
| Vulkan renderer (`layer/overlay_renderer.cpp`) | per device: command buffer, fence, staging, pool of semaphores | prepare, render, destroy | layer, segment reader |
| OpenGL hook (`layer/overlay_gl.cpp`) | a table of contexts, interposed symbols | swap buffers | segment reader |
| Preview frames (`common/overlay_frame_shm.h`) | a second seqlock with a payload of variable size | publish, read | tests only |
| Launcher, JSON and font helpers, screenshot tool | none | | |

What is hard in it:

* The segment is plain memory written by one process and copied by others
  while it is written; the sequence number is the only protection, and the
  writer may die or restart at any instruction.
* The daemon is one thread that blocks in requests to Discord. While it waits,
  events keep coming in on the same socket; they describe a past state by the
  time they are handled, and most of them do not name the channel they are
  about. Snapshot and event stream have to be put together without losing or
  inventing anyone, across channel switches, retries for empty rosters, refused
  requests and lost connections.
* The chat subscription follows the voice state along every path that changes
  it, and two writers change the option that controls it.
* In the present hook the layer submits its own work with semaphores on behalf
  of the application, any Vulkan call may fail half-way, and several threads
  use tables without a lock.
* Both overlays keep objects from frame to frame (staging memory, textures,
  pipelines, GL names) and skip work for a frame that did not change: each
  failure leaves some of them behind, and a later frame must make up for it.
  The GL overlay works inside the state of the game.
* One configuration file is written by the daemon (for the tray and for
  `sigaw-ctl`) and by the user's editor, and watched by the daemon and by every
  game, over watches that come and go.
* The way to a session crosses the user, Discord, a web request and a file, and
  each of them may fail in a way that must not cost the approval given once.

`PROJECT.json` lists the hazards one by one, each at its line.

## 2. Modules

### `SnapshotRegister` - what the segment promises

Each segment is a register of the view published last; a reader is attached to
at most one segment; a successful read returns, whole, what that segment holds
at one instant of the call. This is `ShmReader::read`'s comment
(`layer/shm_reader.h:46-50`) as an abstract specification.

### `VoiceShm` - writer, readers, crashes

Memory is modelled by words (`ChannelWord`, `CountWord`, `ChatWord` and one word
per user slot), which is enough to tell a mixture of two publications from
either. Between the two bumps of the sequence the writer stores its words in
any order and the reader copies them in any order. Nothing but the header's
sequence orders them, as in the code (plain stores, a `memcpy`, acquire and
release on the sequence).

| Code | Action |
|---|---|
| `ShmWriter::open` | `OpenName`, `SizeSegment`, `ZeroHeader`, `ZeroWord`, `StampHeader` |
| `update_shm` with `begin_write`, setters, `end_write` | `BeginWrite`, `ClearChat`, `WriteWord`, `EndWrite` |
| `ShmWriter::close` | `CloseShm` |
| SIGKILL, SIGPIPE and the like | `Crash`, enabled at every step |
| `ShmReader::refresh_mapping` | `ReadWithoutProbe` (deadline not due), `ReadWithProbe` |
| `ShmReader::read` | `CheckMagic`, `LoadSequence`, `CopyWord`, `RecheckSequence` |

`published` and `got` are history variables for the refinement. A segment that
a reader maps before it is sized faults (`rpc = "sigbus"`): the code does not
exclude it, and liveness excepts such a reader.

### `VoiceSession` - one daemon, one Discord client

The daemon is one thread, so its control is a program counter (`pc`) and every
request is one step, taken when Discord answers. The socket is first-in
first-out: what was sent before the reply (`stream`) goes to the inbox in that
step. Discord's members, selection and subscriptions are external state,
modelled from what the code asks of it.

| Code | Action |
|---|---|
| connect, handshake, authorise | `StartSession` |
| `subscribe_voice`, first `get_selected_voice_channel` | `SubscribeSelect`, `FirstGet` |
| `schedule_channel_sync` | `Schedule`, then `Unsubscribe`, `AfterUnsubscribe`, `Subscribe`, `AfterSubscribe` |
| `sync_pending_channel`, `add_local_user_fallback` | `SyncIdle`, `Sync`, `SyncAgain`, `Settle`, `Retry` |
| `refresh_chat_state`, `clear_chat_state`, `unsubscribe_chat_events` | `RefreshChat`, `ChatUnsubscribe`, `ClearChatState`, `ChatSubscribe` |
| `poll_event`, `process_voice_event`, `process_chat_event` | `Dispatch` with `HandleSelect`, `HandleVoice`, `HandleChat`; `DrainDone` |
| tray menu, reload, new authorisation | `TrayTogglesChat`, `Reconnect` |
| prune, `update_shm` | `Publish` |
| `ConfigWatcher::consume_change` and what follows | `ConfigUnchanged`, `ConfigChanged` |
| end of the connection | `Cleanup` |
| the user, Discord | `SelectChannel`, `Join`, `Leave`, `Change`, `Post`, `Hangup`, `EditConfig` |

How a session comes about is the module `Authorize`; here it is `StartSession`.

Abstracted: names, avatars, volumes and mute flags (an `UPDATE` counts as a
change and nothing more); the ages and the window of chat messages (any subset
may expire); the requests of profiles for chat (folded into `want`); the waits
before a connection and the authorisation (one step); at most one tray choice
per iteration. A session may have `messages.read` or not, whether or not chat is
wanted (`scope`): without it the daemon goes on without chat.

Three switches of `Races` say which hard environments may happen:

* `hasty` - the user changes channel again before the daemon has caught up;
* `early` - members move between the first snapshot and its subscription;
* `empty` - Discord lists no one in a channel the user has just joined.

They exist because the code loses track in `hasty` and `early`, and takes the wrong
identity in `empty` (findings below): `RosterAgrees` is checked without them in
`session`, and fails with the first two in `session_roster`; `FallbackIsSelf` is
about `empty` alone and fails in `session_fallback`. Everything that survives them
is checked with them (`session_switch`).

Messages are posted at any time, in a channel the daemon is leaving too. The history
variable `late` holds those that Discord sent from a channel the daemon was not
showing at that moment. `ChatOnlyLate` says that foreign chat is never anything
else, `ChatOfThisChannel` that there is none; the latter is false
(`session_chatlag`).

### `PresentPath` - the present hook and the renderer's semaphores

One device of one game. A present is drawn on (each swapchain by a submission
under the renderer's one fence), the last submission signals a semaphore from
the renderer's pool, and the real present waits for that semaphore instead of
the application's. The semaphore then waits in the slots of all images of that
present until one of three things: the images are acquired again (back to the
pool), swapchain or device go away, or the renderer is replaced (destroyed).
The hook is a program counter; another thread may acquire images of swapchains
outside the present between any two of its steps.

| Code (`layer/layer_entry.c`, `layer/overlay_renderer.cpp`) | Action |
|---|---|
| `sigaw_CreateDevice`, `sigaw_CreateSwapchainKHR` | `CreateDevice`, `CreateSwapchain` |
| `sigaw_DestroySwapchainKHR`, `sigaw_DestroyDevice` | `BeginDestroy...` (the idle wait), then `DestroySwapchain`, `DestroyDevice` |
| `sigaw_AcquireNextImageKHR`, `...2KHR` | `Acquire` |
| entry of `sigaw_QueuePresentKHR` | `BeginPresent` |
| no, first or kept context; Wine `disable` | `KeepContext`, `FirstContext`, `DisableContext` |
| present on a queue of another family | `BeginChangeFamily`, `ClearTracking`, `Recreate` |
| what to draw, `sigaw_overlay_acquire_present_semaphore` | `NothingToDraw`, `DrawSafely`, `TakeSemaphore`, `NewSemaphore`, `NoNewSemaphore` |
| `sigaw_overlay_render` for each swapchain | `RenderSkips` (returns 0 early), `Prepare` then, once the fence is signaled, `Render` or `RenderFails` |
| the real present | `Forward` |
| tracking, or draining and discarding | `Track`, `Drain`, `DiscardHand`, `NothingToTrack` |
| the GPU | `GpuDone`, `WaitDone` |

Abstracted: what is drawn; the two submissions of the copy path are one step
(the renderer waits between them itself) whose failures keep their different
effects; an image of a lost swapchain is not presented again; which available
semaphore is taken (the code takes the newest). The wine mode `native` stands for
`force` too: the code treats them alike. Not modelled: a second device, a present
on a queue of no known device and swapchain (the hook returns an error), two
presents at a time, and races inside the tables and vectors, which have no lock.

### `Compositor` - the panel onto a Vulkan image

What `PresentPath` calls `Prepare` and `Render`, for one swapchain and with the
objects the renderer keeps. A frame goes one of two routes (`prefer_gpu_composite`),
behind a signal semaphore or waiting for its own end (`behind`). The `ensure_`
functions are operators from a record of the objects to the set of its possible
results, since each creation may fail; they are composed in the order of the code.
`pending` is the submission the device executes, with what it uses: destroying or
overwriting that marks it `lost`.

| Code (`layer/overlay_renderer.cpp`) | Action |
|---|---|
| `prepare` | `CmpPrepare` |
| `render_overlay_copy` | `CopyEnsure` (`EnsureStaging`), `CopyRead`, `CopyBlend` |
| `sigaw_overlay_render`, GPU path | `GpuEnsure` (`EnsureUpload`, `EnsurePipeline`, `EnsureView`), `GpuDraw` |
| the last wait for the fence | `Finish` |
| `sigaw_overlay_resize` | `CmpRecreate` |
| the device | `Complete` |

Four habits of the environment (`CmpWorlds`) say what may happen besides: the panel
outgrows the staging memory (`grows`), memory cannot be allocated or mapped after
its buffer was made (`memory`; the write to null that follows is the place
`crashed`), a swapchain is recreated with another format
(`reformats`), or its images come back under the same handles (`reuses`). Where a
property excepts one of them, the code fails there (section 6).

### `GlHook` - the panel inside a game's OpenGL context

One context, and the game that owns it. A swap is one step, since the hook runs on
the game's thread; its parts are operators as in `Compositor`, because names are
chosen by the driver and creations fail. `bound` is the state of the context that
the hook touches, `owned` what the game made.

| Code (`layer/overlay_gl.cpp`) | Definition |
|---|---|
| `ensure_program`, `link_program`, `ensure_geometry` | `EnsureProgram`: `Flavoured`, `Linked`, `WithBuffer`, `WithVao`, `WithTexture` |
| `save_gl_state`, `upload_texture`, draw, `restore_gl_state` | `SaveState`, `Upload`, `Draw`, `RestoreState` |
| swap hooks | `SwapBuffers`, `SwapEmpty` |
| hooks of context destruction | `DestroyContext` with `DestroyResources` |
| the game | `GameMakes`, `GameDeletes`, `GameBinds` |

`drawn` is the panel that the last draw sampled. `GlGames` says what games may do:
bind textures to unit 0 (`rebinds`), leave another unit active (`switches`), use OES
vertex arrays (`oes`), destroy the context on a thread where it is not current
(`elsewhere`).

### `FrameShm` - preview frames

The second seqlock: a payload whose size makes the writer unlink its object and
make another one, and a reader that maps by name, probes at most every 250 ms,
and skips a sequence it has read. Header and pixels are a word each.

| Code (`common/overlay_frame_shm.h`) | Action |
|---|---|
| `publish`, `same_payload` | `PublishFrame`, then `CloseForSize`, `ShmOpen`, `Truncate`, `Stamp`, `BeginFrame`, `WriteHead`, `WritePixels`, `EndFrame` |
| `close` | `CloseAtExit` |
| `refresh_mapping` | `ReadMapped`, `ReadProbing`, `ProbeComes` |
| `read` | `LoadSeq`, `CopyHead`, `CopyPixels`, `RecheckSeq` |

### `AvatarCache` - requests, worker, shutdown

| Code (`daemon/avatar_cache.h`) | Action |
|---|---|
| `request` | `AskFile` (before the lock), `Enqueue` (under it), `Notify` (after it) |
| `run` | `TakeJob`, `WaitForJobs`, `EraseKey` |
| `download` | `Fetch`, `RenamePart`, each with failure |
| the destructor | `StopCache`, `NotifyAll`, the join |
| somebody cleans the directory | `DropFile` |

### `ConfigControl` - one file, two readers, three writers

The daemon (`cfPc["daemon"]` runs through one iteration: tray, watcher, control
socket) and one overlay share the file with the user. An option is on or off; the
file also says what the game's profile adds. A save is three steps (the lines are
read, the file is emptied, the lines are written), between which the user may
replace the file.

| Code | Action |
|---|---|
| `Config::load`, `any_profile_requests_chat`, `ConfigWatcher::sync` at start | `StartLoad`, `StartProfiles`, `StartSync` |
| `consume_change` and what follows it | `WatchConfig` (with `Consume`), `LoadConfig`, `AskProfiles` |
| `Config::save` | `SaveRead`, `SaveEmpty`, `SaveFails`, `SaveWrite` |
| `process_tray_actions` | `TrayToggle`, `TrayOpenConfig`, `TrayReconnect`, `TrayStop`, `TrayDone` |
| `ControlServer::process_pending`, `handle_client` | `CtlStatus`, `CtlToggle`, `CtlReload`, `CtlQuit`, `CtlDone` |
| `sigaw-ctl` | `CtlAsks` |
| the user | `UserEdits` (an editor renames a new file into place, or closes the one it has written), `UserEmpties` (the moment before, when it writes in place), `UserDeletes` (the file), `UserRemoves` (its directory) |

The directory may be there without the file, from the start too (the token is kept
in it). `sigaw-ctl status` reads the segment and sends nothing: `CtlStatus` is the
answer to any client that does send the request, more than `sigaw-ctl` does. An
editor that writes in place while the daemon has the same file open for writing is
left out: the two would mix their bytes.

The signature that the watcher compares once a second is abstracted to whether it
is still the file's. `cfExcused` names those the code leaves behind for good: a
party between its load and its first `sync` when the file changes, and the daemon
after a `TOGGLE` whose save failed.

### `Authorize` - from the start of the daemon to a session

The daemon's way (`auPc`) through connection, handshake, cached token, popup,
exchange and the three waits, with Discord that comes, goes, hangs up and stops
accepting a token, a user who approves, refuses, looks away or uses the tray, and
a process that dies and starts again. A token is known by whether Discord accepts
it and whether it allows chat.

| Code (`daemon/discord_ipc.h`, `daemon/main.cpp`) | Action |
|---|---|
| `connect`, `handshake`, the wait of five seconds | `Connect`, `SendHello`, `Ready`, `NotReady`, `RetryElapsed` |
| `authenticate` | `SendToken`, `TokenAccepted`, `TokenRefused`, `AuthCut` |
| AUTHORIZE | `SendAuthorize`, `Approve` and `Deny` (the user), `Approved` (the reply), `AuthorizeEnds` (timeout or hang-up, also with the reply on its way) |
| `exchange_token`, `save_token`, `clear_saved_token` | `Exchange`, `ExchangeFails`, `ForgetsToken` |
| `pump_pre_auth_controls`, `wait_with_control`, the tray in the session | `ControlReconnect`, `ControlChat`, `ControlClient`, `ControlQuit` |
| end of a session, of the process | `SessionEnds`, `Killed`, `Restarted` |
| Discord | `DiscordStarts`, `DiscordEnds`, `Revoke` |

`AuWorlds` says what may be hard: an error reply that carries data (`errordata`),
SIGPIPE not ignored by a library of the tray (`sigpipe`), a token file whose
directory or permissions throw an exception (`unwritable`), and one whose writing or
removal fails without anybody noticing (`silent`: `save_token` and
`clear_saved_token` look at no result, so the file is left empty or as it was).
`auApproval` is a history variable: the user's approval, `given` from the moment the
user approves until the user takes it back, `lost` when the code throws it away.
Every place that does is marked `Loses` or `LosesUnsaved`; section 6 lists them.

### `MCOverlay`, `MCParts` - parts that share no state

What an overlay does in a game (reading the segment, compositing, drawing with GL)
and four further parts (frames, avatars, configuration, authorisation) share no
variables and take no step together. Each of these two modules puts them side by
side behind a selector (`overlay`, `part`): a behaviour runs one of them while
the others rest in one initial state. Their state spaces add up instead of
multiplying, and every property is about the part it names.

## 3. Runs

| Run | Question | Bounds |
|---|---|---|
| `shm` | What an overlay does in a game: is every successful read one published snapshot, does a frame show its panel and use nothing destroyed, does a swap draw its panel and give the game its state back? | segment: one reader, 1 user slot with rosters of 0, 1 and 2 users, 2 publications out of 3, 2 objects (restart after a close), 2 attempts; compositor: 3 panels of 2 sizes, 2 formats, 3 environments, both routes; GL: 2 panels, 2 names of each kind, core and ES profiles, 4 kinds of games |
| `parts` | Frames, avatars, configuration, authorisation: nothing mixed, lost, queued twice or left waiting? Does everything come to its end? | 3 frames of 2 sizes, 3 publications, 2 objects; 2 avatars, 1 file removed; 2 contents of the file, 2 runs of `sigaw-ctl`, 2 turns of the user; 6 turns of user and Discord, 5 environments of the token |
| `shm_fair` | Do readers converge after crashes, and let go of unlinked objects? | one reader, one crash, 2 publications out of 2, 2 objects |
| `shm_reinit` (violation) | Does a restart after a crash keep reads whole? | one object, one crash, one publication |
| `session` | Do roster and channel agree with Discord at rest, is everything published, is foreign chat only what was sent late, are subscriptions exact, does the daemon converge? | 2 channels, 2 users, 1 switch, 2 moves or messages, 1 message at a time to edit or delete, 1 lost connection |
| `session_switch` | Are switches, retries and empty rosters safe, does Discord send the events of what is shown? | 2 switches, 1 move, 1 toggle or edit, 1 refused request, races `hasty`, `early`, `empty` |
| `session_chatlag` (violation) | Is the chat shown the shown channel's? | 1 switch, 2 moves or messages, no race |
| `session_roster` (violation) | Does the roster agree in the hard environments? | 2 switches, 2 moves, `hasty`, `early` |
| `session_fallback` (violation) | Is the solo fallback the local user? | 2 switches, 2 moves, `empty` |
| `present` | Is the proof's invariant (with type correctness in it) one, is the semaphore pool sound, does the present follow the overlay, does the hook return? | 2 swapchains with 2 and 1 images, 4 semaphores, 2 queue families, 2 application semaphores, all three Wine modes, all failures but an ambiguous one |
| `present_uneven` (violation) | Does a present go behind the layer's semaphore once the overlay was drawn? | the same swapchains, native, no failure but a frame for one swapchain only |
| `session_lost` (violation) | Is what changes after the publication published? | 1 switch, 1 message, 2 toggles or edits |

Why these bounds are enough to be interesting. Readers share nothing but the
mapping's content, so one reader shows every interleaving with the writer; the
proof covers any number. A torn read needs two publications that differ in two
words; a stale sequence needs a write that begins and ends between the two
loads. In the session, a lost or misplaced event needs one switch and one move;
overlapping syncs need two switches; a leak needs a switch and a failure in
it. Two attempts instead of five, 100 ms apart, exercise "retry", "last retry" and
"give up".

In the present hook, sharing of one semaphore needs two swapchains, reuse
two images of one of them, and a leak shows as soon as the pool outgrows the
three images: there is one semaphore more than that. `WaitCounts` stays within
`MaxWaits`, because beyond it (8 in the code) the surplus is silently dropped.
In the compositor, a failure leaves at most one object of each kind behind and
the next frame meets it; a panel that stays, changes and changes size are three
panels. In the GL hook the names of a kind are the game's one and the hook's one.
A frame read across re-creation needs two sizes, a sequence that comes round needs
a third publication; one more removed file makes an avatar asked for twice.
A change of the configuration that is swallowed needs a save (or an edit) between
two steps of one watcher: two turns; two clients are one in front of another in
the backlog. Six turns are enough for approval, hang-up, death, restart,
revocation and a second approval in one behaviour.

A driver that takes none of several swapchains without saying which (`ambiguous`)
is left out: there the layer cannot know, as its comment at
`layer_entry.c:511` says, and `AvailableIsIdle` fails.

Fairness. `VoiceShm!Fairness`: a daemon finishes the open or the update it
began (it is a straight line of code), a game keeps calling `read` at each
frame, and since the 250 ms deadline of `refresh_mapping` comes due again and
again, a probe happens infinitely often whenever the reader is idle infinitely
often (strong fairness). Nothing forces the daemon to start, publish or close.
`VoiceSession!FairSpec`: the loop always comes round, Discord answers every
request or hangs up, and the retry timer expires. Nothing is assumed of the
user, of Discord's events or of the file. `PresentPath!FairSpec`: the GPU completes
submissions and the hook runs whenever it does not wait. Nothing is assumed of the
application, nor that a queued present is ever shown.

In `parts`: `FrSpec`, both processes run and the 250 ms pass; `AvSpec`, threads run
and a download ends (curl has a timeout of 20 s); `CfSpec`, the daemon loops, the
game presents, and the second between two polls passes again and again while they
do (strong fairness of `WatchConfig(p, TRUE)`); `AuSpec`, the daemon goes on, and
READY and AUTHENTICATE, which the code waits for without a timeout, are answered or
cut off. No fairness is assumed of the popup: its own timeout ends it.

Deadlock is not checked for `VoiceShm`: with its bounds used up and the readers
faulted or without a segment the behaviour may really stop. Nor for
`PresentPath`: a failed submission leaves the fence reset, and the next hook that
waits for it stops for good. In `shm` a compositor that crashed or waits for such a
fence stops too; in `parts` a writer that exited, a cache that was shut down, a
daemon that was stopped and users who have used up their turns are the end.

## 4. Proofs

### `VoiceShm_proofs`

For any finite or infinite set of readers, any publications, any number of
slots, segments, attempts and publications (`ShmAssumption`):

* `TypeCorrect` - type correctness, with any number of crashes.
* `SeqlockCorrect` - the inductive invariant `SeqlockInv`, for `MaxCrashes = 0`.
* `ReadsArePublished` - what a read returned was published.
* `SequenceNeverGoesBack` - no step lowers a sequence.
* `SegmentIsARegister` - `VoiceShm` implements `SnapshotRegister`.

The last four assume that the daemon never dies without `close`; without that
assumption `GotIsPublished` is false (`shm_reinit`), because a restart clears a
segment that readers still map.

The argument. Types alone do not relate the words to the sequence.
`SeqlockInv` adds: while the daemon is up the name is linked to its object
(`LinkedWhileUp`), so an open always starts from a new object; a new object is
all zero until stamped (`PristineUntilStamped`), so clearing it changes
nothing; the sequence is odd exactly between the bumps (`OddWhileWriting`);
with an even sequence the words show what was published (`EvenShowsPublished`),
which at the second bump follows from the stores done so far (`StoresDone`);
and a copy in progress agrees with the words as long as the sequence has not
moved (`CopyAgrees`), which a later store cannot falsify because it happens
under an odd, hence different and greater, sequence. A successful recheck then
means that the copy is complete and equal to the published view of that moment,
which is the step `Read` of the register. Each action has its lemma; the
temporal theorems combine them.

### `PresentPath_proofs`

For any swapchains, images, semaphore handles, queue families, table size,
numbers of application semaphores and Wine modes (`PresentAssumption`):

* `TypeCorrect` - type correctness.
* `PoolInvCorrect` - the inductive invariant `PoolInv`.
* `PoolIsAccounted` - no semaphore leaks, none is in two places.
* `DoneInvCorrect` - with `PoolInv`, the inductive invariant `DoneInv`.
* `AvailableAreIdle` - what can be handed out has nothing outstanding.
* `DestroyedAreDone` - nothing is destroyed that is still in use.
* `PresentGoesBehind` - a present that shows the overlay waits for it.
* `WaitedForOnce` - each wait of the application is executed exactly once.
* `PoolStaysBounded` - no more semaphores than the swapchains have images.

The first three and `PresentGoesBehind` hold with every fault. `DoneInvCorrect`,
`AvailableAreIdle`, `DestroyedAreDone` and `PoolStaysBounded` assume `Told`, that a
failed present of several swapchains says which ones it failed for (the fault
`ambiguous` does not happen); without it `AvailableIsIdle` is false.
`WaitedForOnce` assumes that an application presents with no more semaphores than
`MaxWaits` (8 in the code), since the surplus is dropped. Both properties except a
present in which a later render returns without drawing.

The argument. `PoolAccounted` is not inductive: whether a semaphore put back is
really in the pool depends on there being a context (`ContextOK`), whether the
one in hand is lost on return depends on whether it was submitted (`HandOK`),
and whether tracking finds a slot depends on what the hook's arguments name
(`CallOK`). For `AvailableIsIdle`, an image held or being presented tracks
nothing (`SlotsFree`), so tracking overwrites no slot and what `Acquire` frees
is what that image's own present waited for; that present's wait is still
queued or the semaphore is idle (`WaitsOutstanding`), so an image that the
driver hands out again frees an idle one; the hand is idle until submitted
(`HandReady`). For `DestroyedOnlyDone`, nothing waits where the hook is going to
destroy (`Drained`): after the idle wait of the code where something is tracked,
and elsewhere because then the whole pool is available, hence idle; and a
submission that will signal keeps the fence pending (`SubmissionPending`), for
which every destruction of a tracked semaphore waits. Nothing counts as rendered
before the render loop (`RenderedLate`), so that `PresentFollowsOverlay` is about
this present's submissions. For `WaitsOnce`, what the overlay's submissions took
and what the hook still hands on are always the application's semaphores without
overlap (`TakenInv`). For `PoolBounded`, a semaphore
is only made when none is available and none is in hand, so each one that exists is
tracked; slots of different images hold different semaphores, only images that exist
track one (`HeldOK`), and the image about to be presented tracks none: that makes
one fewer than there are images.

### `AvatarCache_proofs`

For any avatars and any number of removed files: `AvTypeCorrect` and
`QueueStaysExact`. `QueueExact` alone is not inductive: the worker must have a job
exactly while it is downloading (`JobHeld`), or taking the next one could drop a
key, and `request` past its look for the file must be about a key (`AskHeld`).

### `ConfigControl_proofs`

For any contents of the file, clients and turns: `CfTypeCorrect` and
`StaleStaysPending`. `StaleIsPending` speaks of parties at rest; `CfInv` adds what
brings them there. Between load and `sync` the memory agrees, or somebody changed
the file and the party is excused (`MemInv`); after it, it agrees or a change is
pending, also while a save for the tray is under way, which leaves the memory alone
until it has written. The profiles are a second reading of the same file, later
than the first (`ProfileInv`). Only a watch has news, and while the daemon has
emptied the file its own signature is old (`WatchInv`), so that what it writes
under another name cannot be mistaken for its own change.

### `Authorize_proofs`

For any environments and turns: `AuTypeCorrect` and `ApprovalStays`. `ApprovalKept`
says, of an approval whose code is not on its way any more, that the token in use is
the token in the file, so an approved one is never refused (`TokenRefused` is not
possible), and `Good` that a token Discord accepts is a token, so `Ready` tries it
before the popup. What the theorem does not say is in the definition, case by case:
an approval is `lost` exactly where the code throws it away (section 6).

### `VoiceSession_proofs`

For any channels, users, numbers of switches, moves, messages, refusals, attempts
and lost connections, and any set of races (`SessionAssumption`):

* `TypeCorrect` - type correctness.
* `ShownStaysHeard` - Discord sends every kind of event of the channel shown, unless
  it refused a request of the session, if `MaxAttempts > 1` (5 in the code; with one
  attempt it is false). It is about Discord's subscriptions, not the daemon's belief.
* `NoSubscriptionLeaks` - subscriptions are exact.
* `NoSwitchIsLost` - at rest the daemon is where the user is, with every race.
* `ChangesArePublished` - what changes is published, if the chat option stays as it
  is (`MaxFlips = 0`; `session_lost` shows what happens otherwise).
* `ChatFollowsChannel` - chat of another channel than the one shown was sent late,
  with every race, refusal and toggle (that there is none is false, `session_chatlag`).
* `PeopleAgree` - at rest the roster is right, without `hasty`, `early`, `empty` and
  refusals and with `MaxAttempts > 1`; with the races it is false (`session_roster`).

The argument. The properties speak of the daemon at rest; the invariants say what
every request in between has in hand. `ViewInv` relates the channel shown, the one
subscribed, the one pending and the target of a switch (`SwitchOK`), and the chat
subscription (`ChatSubOK`); `ShownInv` is then inductive. `SubsInv` says which
requests of the five (and of the three for chat) Discord has been asked for at each
step of a switch. `MarkInv`: what is not published is marked. The rest is about
what has been sent and not handled. A request moves events from the stream to the
inbox, so both together are one queue (`InFlight`) that requests leave as it is.
`SelectInv`: either the last switch in flight leads to where the user is, or none
is in flight and the daemon believes so (`Belief`: the target of a switch, the
pending channel, or the shown one). `ChatInv`: chat in flight, but for late
messages, is of the channel shown; the rest is drained before the next channel is
shown, and a session starts with none. `ShownStaysHeard` follows from `ShownInv`
and `SubsInv`. `RosterInv`:
replaying the events in flight over the people shown gives the people who are there
(`Replayed`), which a snapshot establishes because its request comes after all
five subscriptions or because nobody moves in between, and which dispatching one
event, or one more being sent, keeps. That at most one switch is in flight, and none
during a switch, is part of the invariant and is what `hasty` breaks.

### `Parts_proofs`

For any frames, objects and number of publications: `FrTypeCorrect` and
`FramesAreWhole`. The invariant is that of `SeqlockInv` (`FrSeals`, and the copies
of `FrFollows`), with two more difficulties. An object outlives its name for the
reader that has it mapped (`FrLives`), and the next one starts at a later sequence.
And a failed attempt leaves a torn frame in the output, which the next read must
not take for the one it has seen: a torn output is only left behind by a sequence
that has moved on, in the object mapped or before it was exchanged (`FrTidy`), so
that the sequence is read again.

`PartsTypeCorrect` says of the run `parts` as a whole what is proved of each of the
four modules: each of them makes its own steps or none (`PartsStep`).

### `Overlay_proofs`

The compositor, for any panels, formats and environments: `CompositorTypeCorrect`,
`UsedIsKept`, `FramesAreComposited`, `DrawsAreBound`. No assumption is
added; what the properties except is in their text. The inductive invariant `CmpInv`
is made of parts that take the objects, the submission and `uploaded_sequence` as
parameters, because the `ensure_` functions change these three and each keeps every
part (`CmpKeeps`), whichever of its creations fails. The heart is `CmpUploaded`:
`uploaded_sequence` is only noted for a texture that has the panel, or will have it
when the upload being executed is done.

The hook, for any profiles, names, panels (of a size other than 0, since the code
leaves an empty frame alone) and games: `HookTypeCorrect`, `HookOwnsItsObjects`,
`DrawnIsPrepared`, `GameStateComesBack`. `GlInv` adds to the properties why a swap
that has prepared a panel cannot leave it undrawn: once the texture has contents,
nothing is missing any more and so nothing can fail (`GlComplete`), and until then
the next swap uploads, whether or not the panel has changed. That a texture keeps
the contents that the state remembers needs that the game owns no object of the hook
(`GlTextures`), and that it stays on unit 0 (`GlSampling`) needs the game's habits.
`GlFrom` follows `ensure_program` part by part: no name is forgotten, and who makes
nothing binds nothing; `GameStateComesBack` is that fact and the restoration.

`OverlayIsItsParts` says that the specification of the run `shm` implements
`VoiceShm`, `Compositor` and `GlHook`, so that the theorems about them hold of it;
`OverlayTypeCorrect` follows.

### What stays with TLC

Every safety property of a passing run is a theorem. Only model-checked is
liveness, with the fairness of section 3 (`Convergence`, `OrphanDropped`,
`Converges`, `HookReturns`, `FrameConverges`, `RequestsEnd`, `ConfigConverges`,
`ClientsAnswered`, `SignsIn`): the provers know no ENABLED. For the same reason the
run `parts` is not proved to implement its parts' specifications, which state
fairness, but to keep their invariants.

## 5. Findings

* `shm_reinit`: a daemon restarted after a crash clears the mapped segment
  outside the seqlock; a read that straddles it succeeds with a mixture.
* `session_roster`: the first snapshot precedes its subscription, and events
  name no channel; a member who moves at the wrong moment is missed or stays.
* `session_fallback`: the identity for the solo fallback is overwritten by
  other members' events.
* `present_uneven`: when the last swapchain of a present has no frame, the
  present waits for the application's semaphores, already used up, and not for
  the overlay.
* `session_lost`: chat cleared by a config change is not published.
* `session_chatlag`: the chat branch compares no channel of the event; a message of
  the channel being left that arrives late is shown beside the next one's members.

## 6. Known departures

Where a property excepts a case, the code does not provide for it. These are the
cases, for whoever works on the code next.

Renderer (`layer/overlay_renderer.cpp`):

* A panel that outgrows the staging memory destroys it before the fence of the
  previous frame is waited for, and the GPU path prepares everything before that
  wait (`PendingKept` excepts both, when frames follow each other behind semaphores).
* A failed allocation leaves a buffer without a mapping and its size noted; the next
  frame takes it for large enough and writes to null (the state `crashed`, about which
  nothing is claimed).
* `sigaw_overlay_resize` sets the format that `ensure_pipeline` compares with, so the
  old pipeline stays; a view found under a reused image handle is the old one
  (`DrawBound`).

OpenGL (`layer/overlay_gl.cpp`):

* An unchanged panel is drawn with the texture that is bound to unit 0, which is the
  game's if it bound one: nearly every game that draws textures, until the panel
  changes again (`PanelSampled` leaves out the sampling in that one case, and says of
  it that the hook's own texture holds the panel).
* Objects are made, and left bound, before the state is saved; the texture of unit 0
  is put back on the unit that was active (`GameStateKept`).
* With OES vertex arrays the objects are made again at every swap, and the name of
  the deleted array is kept; a context destroyed on another thread leaves the
  objects of its share group behind (`OverlayOwns`).

Configuration:

* A change between load and the first `sync` is noticed by nobody until the next.
* `TOGGLE` keeps its flip when saving fails.
* A save is not atomic: a reader in between sees the defaults, a death in between
  leaves an empty file, an edit not yet reloaded is overwritten, and a file that was
  replaced meanwhile does not get what was reported as saved.
* "Reload config" in the tray reconnects and reloads nothing by itself.
* A client that connects to the control socket and sends nothing blocks the daemon.

Authorisation:

* "Approve the authorization in Discord (one-time)" (`daemon/main.cpp:130`) is not
  one-time when the approval is lost. `ApprovalKept` claims nothing of these cases:
  * an attempt that ends between the approval and the saved token: the timeout of
    AUTHORIZE or a hang-up with the reply on its way, a control of the user, a failed
    or timed out exchange, a death;
  * a save that fails: an exception ends the daemon, and a write that fails (a full
    disk, a read-only file left behind) is not noticed, so that the session runs and
    the next start asks again;
  * Discord hanging up during AUTHENTICATE, which deletes a valid token; AUTHORIZE
    then cannot be sent either and the daemon waits for the tray, or dies of SIGPIPE
    where nothing ignores it.
* A refusal that carries data counts as accepted: the session then has no scopes and
  no voice, and nothing asks again. `SignsIn` counts it as a session.
* With a cached token that lacks `messages.read`, chat switched on later reconnects
  but never asks for the scope; only "Reauthenticate" does.

Session:

* The result of SUBSCRIBE and UNSUBSCRIBE is ignored: after a refusal the daemon takes
  a channel for subscribed whose events do not come, or come on for one it left, until
  the next switch. `ShownIsHeard`, `SubscriptionsExact` and `ChannelAgrees` claim
  nothing once a request of the session was refused.

Segments: after a restart a preview writer counts from 0 again, and a reader whose
last sequence comes round keeps its old frame; between the making of an object and
its first publication it shows a blank frame. A file being flushed when the disk
is full may be renamed into the avatar cache truncated.

## 7. Not modelled, and the plan

Not modelled for good: the launcher (no state), JSON parsing and font
rendering, rasterising, layout and animation (pure functions of a snapshot and the
time), the D-Bus side of the tray icon, the screenshot tool. The framing of
messages and the search for Discord's socket are one step each.

Abstracted where a module says so: one GL context (no table of contexts), one
Vulkan device (no tables of instances, devices and queues: they have no lock, and
races on them are undefined), system calls of the preview writer that fail, its
death without close, the `dirty` flag of the avatar cache (its value is discarded),
the window of eight messages and their ages.

Next, in this order:

1. The safety half of the liveness properties: from where a request, a save or a
   frame is under way, each step of its own brings it nearer to its end.
2. `LayerTables` - a reused handle never finds a dead device, full tables degrade
   safely.
3. The chat window: eight messages, their ages and the order of expiry.
