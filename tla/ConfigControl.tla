--------------------------- MODULE ConfigControl ---------------------------
(***************************************************************************)
(* The configuration file and the parties that share it: the daemon, which *)
(* loads it, watches it and saves it for the tray and for sigaw-ctl, the   *)
(* overlay of a game, which loads and watches it, and the user, whose      *)
(* editor replaces it (common/config.h, common/config_watcher.h,           *)
(* daemon/control_server.h, the loops of daemon/main.cpp).                 *)
(* An option is abstracted to on or off; a signature_ to whether it is     *)
(* still the file's.                                                       *)
(***************************************************************************)
EXTENDS Integers, FiniteSets

CONSTANTS
    CfTexts,    \* what the user's editor may leave in the file
    CfClients,  \* the runs of sigaw-ctl
    CfTurns     \* bound on what the user does: edits, tray actions, runs of sigaw-ctl

CfOptions == {"visible", "chat"}
CfDefaults == [on |-> {"visible"}, profile |-> {}]
CfMissing == [on |-> {"missing"}, profile |-> {}]
CfParties == {"daemon", "overlay"}
CfCommands == {"status", "toggle", "reload", "quit"}

ASSUME CfAssumption ==
    /\ CfTexts \subseteq [on : SUBSET CfOptions, profile : SUBSET CfOptions]
    /\ CfClients \cap {"tray", "nobody"} = {}
    /\ CfTurns \in Nat

VARIABLES
    cfFile,     \* the file: the options on, those the game's profile adds, or CfMissing
    cfDir,      \* its directory exists
    cfPc,       \* where daemon and overlay are
    cfMem,      \* the options each of them works with
    cfProfile,  \* profile_chat_requested
    cfWatch,    \* their watchers
    cfSave,     \* the save under way: what is written, for whom, into which file
    cfClient,   \* the runs of sigaw-ctl
    cfReload,   \* process_pending's action is Reload
    cfExcused,  \* those whose memory may differ from the file for good, see below
    cfLeft      \* what is left of CfTurns

cfVars == <<cfFile, cfDir, cfPc, cfMem, cfProfile, cfWatch, cfSave, cfClient,
            cfReload, cfExcused, cfLeft>>

NoSave == [next |-> {}, text |-> CfDefaults, by |-> "nobody", lost |-> FALSE]

(* A parsed file: one that is missing or just truncated gives the defaults. *)
Parsed(f) == IF f = CfMissing THEN CfDefaults ELSE f
LoadedBy(p, f) ==
    IF p = "daemon" THEN Parsed(f).on ELSE Parsed(f).on \cup Parsed(f).profile
ProfileChat(f) ==
    Parsed(f).profile # {} /\ "chat" \in Parsed(f).on \cup Parsed(f).profile

CfInit ==
    /\ cfFile \in CfTexts \cup {CfMissing}
    /\ cfDir \in BOOLEAN /\ (cfFile # CfMissing => cfDir)
    /\ cfPc \in [CfParties -> {"start", "absent"}] /\ cfPc["daemon"] = "start"
    /\ cfMem = [p \in CfParties |-> CfDefaults.on] /\ cfProfile = FALSE
    /\ cfWatch = [p \in CfParties |-> [by |-> "none", news |-> "none", fresh |-> FALSE]]
    /\ cfSave = NoSave /\ cfClient \in [CfClients -> {"idle", "done"}] /\ cfReload = FALSE
    /\ cfExcused = {} /\ cfLeft = CfTurns

-----------------------------------------------------------------------------
(* The watchers.  IN_MODIFY is not asked for: emptying a file is no news,   *)
(* closing it is.  A watch whose directory went away reports nothing more.  *)
Stale(w) == [w EXCEPT !.fresh = FALSE]
Told(w, news) == [w EXCEPT !.fresh = FALSE,
                           !.news = IF w.by = "inotify" /\ w.news # "gone" THEN news ELSE @]

(* sync()                                                                  *)
Synced == [by |-> "none", news |-> "none", fresh |-> TRUE]

(* consume_change(): drain_watch_events with ensure_watch, then the poll    *)
(* when it is due.  A plausible bug: the poll takes the signature on every  *)
(* call and compares it when the second has passed.                        *)
ConsumeTooEarly(w, by, due) ==
    LET attached == IF w.by = "none" THEN by ELSE w.by
        news == IF w.by = "inotify" THEN w.news ELSE "none"
        changed == news # "none" \/ (due /\ ~w.fresh)
    IN  [watch |-> [by |-> IF news = "gone" THEN "none" ELSE attached, news |-> "none",
                    fresh |-> TRUE],
         changed |-> changed]

(* A plausible bug: nothing is polled once a watch was asked for.           *)
ConsumeNewsOnly(w, by, due) ==
    LET attached == IF w.by = "none" THEN by ELSE w.by
        news == IF w.by = "inotify" THEN w.news ELSE "none"
        changed == news # "none"
    IN  [watch |-> [by |-> IF news = "gone" THEN "none" ELSE attached, news |-> "none",
                    fresh |-> w.fresh \/ changed],
         changed |-> changed]

Consume(w, by, due) ==
    LET attached == IF w.by = "none" THEN by ELSE w.by
        news == IF w.by = "inotify" THEN w.news ELSE "none"
        changed == news # "none" \/ (due /\ ~w.fresh)
    IN  [watch |-> [by |-> IF news = "gone" THEN "none" ELSE attached, news |-> "none",
                    fresh |-> w.fresh \/ changed],
         changed |-> changed]

(* A fresh watch is attached to a directory that exists, if inotify obliges. *)
Attachable == IF cfDir THEN {"inotify", "poll"} ELSE {"poll"}

Turn == cfLeft > 0 /\ cfLeft' = cfLeft - 1

Goes(p, pc) == cfPc' = [cfPc EXCEPT ![p] = pc]

Watches(p, due) ==
    \E by \in Attachable :
        LET seen == Consume(cfWatch[p], by, due)
        IN  /\ cfWatch' = [cfWatch EXCEPT ![p] = seen.watch]
            /\ Goes(p, IF seen.changed THEN "load" ELSE IF p = "daemon" THEN "ctl" ELSE "watch")

-----------------------------------------------------------------------------
(* Both start by loading, then take the signature: an edit in between is    *)
(* noticed by nobody until the next one.                                   *)
StartLoad(p) ==
    /\ cfPc[p] = "start"
    /\ cfMem' = [cfMem EXCEPT ![p] = LoadedBy(p, cfFile)]
    /\ Goes(p, IF p = "daemon" THEN "profiles" ELSE "sync")
    /\ UNCHANGED <<cfFile, cfDir, cfProfile, cfWatch, cfSave, cfClient, cfReload, cfExcused, cfLeft>>

StartProfiles ==
    /\ cfPc["daemon"] = "profiles"
    /\ cfProfile' = ProfileChat(cfFile)
    /\ Goes("daemon", "sync")
    /\ UNCHANGED <<cfFile, cfDir, cfMem, cfWatch, cfSave, cfClient, cfReload, cfExcused, cfLeft>>

StartSync(p) ==
    /\ cfPc[p] = "sync"
    /\ cfWatch' = [cfWatch EXCEPT ![p] = Synced]
    /\ Goes(p, IF p = "daemon" THEN "tray" ELSE "watch")
    /\ UNCHANGED <<cfFile, cfDir, cfMem, cfProfile, cfSave, cfClient, cfReload, cfExcused, cfLeft>>

(* consume_change() in refresh_config, pump_pre_auth_controls and the event *)
(* loop; due is the poll's.                                                *)
WatchConfig(p, due) ==
    /\ cfPc[p] = "watch"
    /\ Watches(p, due)
    /\ UNCHANGED <<cfFile, cfDir, cfMem, cfProfile, cfSave, cfClient, cfReload, cfExcused, cfLeft>>

LoadConfig(p) ==
    /\ cfPc[p] = "load"
    /\ cfMem' = [cfMem EXCEPT ![p] = LoadedBy(p, cfFile)]
    /\ cfExcused' = cfExcused \ {p}
    /\ Goes(p, IF p = "daemon" THEN "asks" ELSE "watch")
    /\ UNCHANGED <<cfFile, cfDir, cfProfile, cfWatch, cfSave, cfClient, cfReload, cfLeft>>

(* any_profile_requests_chat() reads the file again.  A change that needs a *)
(* reconnect, and Reload, skip the control socket until the next round.     *)
AskProfiles ==
    /\ cfPc["daemon"] = "asks"
    /\ cfProfile' = ProfileChat(cfFile)
    /\ \E pc \in (IF cfReload THEN {"tray"} ELSE {"tray", "ctl"}) : Goes("daemon", pc)
    /\ cfReload' = FALSE
    /\ UNCHANGED <<cfFile, cfDir, cfMem, cfWatch, cfSave, cfClient, cfExcused, cfLeft>>

-----------------------------------------------------------------------------
(* process_tray_actions.  "Reload" in the tray only reconnects.             *)
Flipped(on, o) == IF o \in on THEN on \ {o} ELSE on \cup {o}

TrayToggle(o) ==
    /\ cfPc["daemon"] = "tray" /\ Turn
    /\ cfSave' = [NoSave EXCEPT !.next = Flipped(cfMem["daemon"], o), !.by = "tray"]
    /\ Goes("daemon", "read")
    /\ UNCHANGED <<cfFile, cfDir, cfMem, cfProfile, cfWatch, cfClient, cfReload, cfExcused>>

(* open_config_in_editor saves when there is no file, and that is all.      *)
TrayOpenConfig ==
    /\ cfPc["daemon"] = "tray" /\ Turn
    /\ IF cfFile = CfMissing
       THEN /\ cfSave' = [NoSave EXCEPT !.next = cfMem["daemon"], !.by = "tray"]
            /\ Goes("daemon", "read")
       ELSE UNCHANGED <<cfSave, cfPc>>
    /\ UNCHANGED <<cfFile, cfDir, cfMem, cfProfile, cfWatch, cfClient, cfReload, cfExcused>>

(* ~ControlServer and close(): those who wait in the backlog are cut off.   *)
Refused == [c \in CfClients |-> IF cfClient[c] \in CfCommands THEN "done" ELSE cfClient[c]]

TrayReconnect ==
    /\ cfPc["daemon"] = "tray" /\ Turn
    /\ UNCHANGED <<cfFile, cfDir, cfPc, cfMem, cfProfile, cfWatch, cfSave, cfClient, cfReload,
                   cfExcused>>

TrayStop ==
    /\ cfPc["daemon"] = "tray" /\ Turn
    /\ Goes("daemon", "stopped") /\ cfClient' = Refused
    /\ UNCHANGED <<cfFile, cfDir, cfMem, cfProfile, cfWatch, cfSave, cfReload, cfExcused>>

TrayDone ==
    /\ cfPc["daemon"] = "tray"
    /\ Goes("daemon", "watch")
    /\ UNCHANGED <<cfFile, cfDir, cfMem, cfProfile, cfWatch, cfSave, cfClient, cfReload,
                   cfExcused, cfLeft>>

-----------------------------------------------------------------------------
(* save(): the directory is made, the lines are read; the file is emptied;  *)
(* the lines are written.                                                  *)
SaveRead ==
    /\ cfPc["daemon"] = "read"
    /\ cfSave' = [cfSave EXCEPT !.text = [on |-> cfSave.next, profile |-> cfFile.profile]]
    /\ cfDir' = TRUE
    /\ Goes("daemon", "empty")
    /\ UNCHANGED <<cfFile, cfMem, cfProfile, cfWatch, cfClient, cfReload, cfExcused, cfLeft>>

Asking == {c \in CfClients : cfClient[c] = "toggle" /\ cfSave.by = c}
Reply == cfClient' = [c \in CfClients |-> IF c \in Asking THEN "done" ELSE cfClient[c]]

Back == Goes("daemon", IF cfSave.by = "tray" THEN "tray" ELSE "ctl") /\ cfSave' = NoSave

(* cfExcused notes who is between load and sync when the file changes.      *)
Between == {p \in CfParties : cfPc[p] \in {"profiles", "sync"}}

(* ofstream creates or empties the file; creating it is news.               *)
SaveEmpty ==
    /\ cfPc["daemon"] = "empty" /\ cfDir
    /\ cfFile' = CfMissing
    /\ cfWatch' = [p \in CfParties |-> IF cfFile = CfMissing THEN Told(cfWatch[p], "changed")
                                       ELSE Stale(cfWatch[p])]
    /\ Goes("daemon", "write")
    /\ cfExcused' = cfExcused \cup Between
    /\ UNCHANGED <<cfDir, cfMem, cfProfile, cfSave, cfClient, cfReload, cfLeft>>

(* The file cannot be opened: TOGGLE has flipped the option and keeps it.   *)
SaveFails ==
    /\ cfPc["daemon"] = "empty"
    /\ Back /\ Reply
    /\ cfExcused' = IF cfSave.by = "tray" THEN cfExcused ELSE cfExcused \cup {"daemon"}
    /\ UNCHANGED <<cfFile, cfDir, cfMem, cfProfile, cfWatch, cfReload, cfLeft>>

(* The user's editor may have put another file in the place of the one that *)
(* is open: then the words go to a file without a name.                     *)
SaveWrite ==
    /\ cfPc["daemon"] = "write"
    /\ Back /\ Reply
    /\ cfMem' = [cfMem EXCEPT !["daemon"] = cfSave.next]
    /\ IF cfSave.lost THEN UNCHANGED <<cfFile, cfWatch, cfExcused>>
       ELSE /\ cfFile' = cfSave.text
            /\ cfWatch' = [p \in CfParties |-> Told(cfWatch[p], "changed")]
            /\ cfExcused' = (cfExcused \ {"daemon"}) \cup Between
    /\ UNCHANGED <<cfDir, cfProfile, cfReload, cfLeft>>

-----------------------------------------------------------------------------
(* process_pending and handle_client, one client at a time.  sigaw-ctl's    *)
(* own "status" reads the segment and sends nothing: CtlStatus answers any  *)
(* other client of the socket that does.                                   *)
Served(c, cmd) == cfPc["daemon"] = "ctl" /\ cfClient[c] = cmd

CtlStatus(c) ==
    /\ Served(c, "status")
    /\ cfClient' = [cfClient EXCEPT ![c] = "done"]
    /\ UNCHANGED <<cfFile, cfDir, cfPc, cfMem, cfProfile, cfWatch, cfSave, cfReload, cfExcused, cfLeft>>

CtlToggle(c) ==
    /\ Served(c, "toggle")
    /\ cfMem' = [cfMem EXCEPT !["daemon"] = Flipped(@, "visible")]
    /\ cfSave' = [NoSave EXCEPT !.next = Flipped(cfMem["daemon"], "visible"), !.by = c]
    /\ Goes("daemon", "read")
    /\ UNCHANGED <<cfFile, cfDir, cfProfile, cfWatch, cfClient, cfReload, cfExcused, cfLeft>>

CtlReload(c) ==
    /\ Served(c, "reload")
    /\ cfMem' = [cfMem EXCEPT !["daemon"] = LoadedBy("daemon", cfFile)]
    /\ cfExcused' = cfExcused \ {"daemon"}
    /\ cfReload' = TRUE
    /\ cfClient' = [cfClient EXCEPT ![c] = "done"]
    /\ UNCHANGED <<cfFile, cfDir, cfPc, cfProfile, cfWatch, cfSave, cfLeft>>

(* A plausible bug: the daemon ends with its socket open, and the runs of   *)
(* sigaw-ctl behind the one that stopped it wait for ever.                  *)
CtlQuitLeaving(c) ==
    /\ Served(c, "quit")
    /\ cfClient' = [cfClient EXCEPT ![c] = "done"]
    /\ Goes("daemon", "stopped")
    /\ UNCHANGED <<cfFile, cfDir, cfMem, cfProfile, cfWatch, cfSave, cfReload, cfExcused, cfLeft>>

CtlQuit(c) ==
    /\ Served(c, "quit")
    /\ cfClient' = [Refused EXCEPT ![c] = "done"]
    /\ Goes("daemon", "stopped")
    /\ UNCHANGED <<cfFile, cfDir, cfMem, cfProfile, cfWatch, cfSave, cfReload, cfExcused, cfLeft>>

CtlDone ==
    /\ cfPc["daemon"] = "ctl" /\ \A c \in CfClients : cfClient[c] \notin CfCommands
    /\ Goes("daemon", IF cfReload THEN "asks" ELSE "tray")
    /\ UNCHANGED <<cfFile, cfDir, cfMem, cfProfile, cfWatch, cfSave, cfClient, cfReload,
                   cfExcused, cfLeft>>

(* sigaw-ctl connects, once the daemon listens.                            *)
CtlAsks(c, cmd) ==
    /\ cfClient[c] = "idle" /\ cfPc["daemon"] \notin {"start", "profiles", "sync", "stopped"}
    /\ Turn /\ cfClient' = [cfClient EXCEPT ![c] = cmd]
    /\ UNCHANGED <<cfFile, cfDir, cfPc, cfMem, cfProfile, cfWatch, cfSave, cfReload, cfExcused>>

-----------------------------------------------------------------------------
(* The user: an editor renames a new file into place, or empties the file   *)
(* and closes it once written; the file is deleted; the directory is.       *)
UserChanges(f, dir, news) ==
    /\ Turn
    /\ cfFile' = f /\ cfDir' = dir
    /\ cfWatch' = [p \in CfParties |-> Told(cfWatch[p], news)]
    /\ cfSave' = IF cfPc["daemon"] = "write" THEN [cfSave EXCEPT !.lost = TRUE] ELSE cfSave
    /\ cfExcused' = cfExcused \cup Between
    /\ UNCHANGED <<cfPc, cfMem, cfProfile, cfClient, cfReload>>

UserEdits(t) == UserChanges(t, TRUE, "changed")
UserDeletes ==
    /\ cfFile # CfMissing \/ cfPc["daemon"] = "write"
    /\ cfDir /\ UserChanges(CfMissing, TRUE, "changed")
UserRemoves == cfDir /\ UserChanges(CfMissing, FALSE, "gone")

(* An editor that writes in place first empties the file, which is no news; *)
(* its close is UserEdits.                                                 *)
UserEmpties ==
    /\ Turn /\ cfFile # CfMissing
    /\ cfFile' = CfMissing
    /\ cfWatch' = [p \in CfParties |-> Stale(cfWatch[p])]
    /\ cfExcused' = cfExcused \cup Between
    /\ UNCHANGED <<cfDir, cfPc, cfMem, cfProfile, cfSave, cfClient, cfReload>>

CfDaemonStep ==
    \/ StartLoad("daemon") \/ StartProfiles \/ StartSync("daemon")
    \/ \E due \in BOOLEAN : WatchConfig("daemon", due)
    \/ LoadConfig("daemon") \/ AskProfiles \/ TrayDone
    \/ SaveRead \/ SaveEmpty \/ SaveFails \/ SaveWrite
    \/ \E c \in CfClients : CtlStatus(c) \/ CtlToggle(c) \/ CtlReload(c) \/ CtlQuit(c)
    \/ CtlDone

CfTray == \/ \E o \in CfOptions : TrayToggle(o)
          \/ TrayOpenConfig \/ TrayReconnect \/ TrayStop

CfOverlayStep ==
    \/ StartLoad("overlay") \/ StartSync("overlay")
    \/ \E due \in BOOLEAN : WatchConfig("overlay", due)
    \/ LoadConfig("overlay")

CfNext ==
    \/ CfDaemonStep \/ CfTray \/ CfOverlayStep
    \/ \E c \in CfClients, cmd \in CfCommands : CtlAsks(c, cmd)
    \/ \E t \in CfTexts : UserEdits(t)
    \/ UserDeletes \/ UserRemoves \/ UserEmpties

(* The daemon loops, the game presents, and a second passes.                *)
CfSpec == /\ CfInit /\ [][CfNext]_cfVars
          /\ WF_cfVars(CfDaemonStep) /\ WF_cfVars(CfOverlayStep)
          /\ \A p \in CfParties : SF_cfVars(WatchConfig(p, TRUE))

-----------------------------------------------------------------------------
CfPlaces == {"absent", "start", "profiles", "sync", "tray", "watch", "load", "asks", "read",
             "empty", "write", "ctl", "stopped"}
CfContents == [on : SUBSET CfOptions, profile : SUBSET CfOptions]

CfTypeOK ==
    /\ cfFile \in CfContents \cup {CfMissing}
    /\ cfDir \in BOOLEAN /\ cfProfile \in BOOLEAN /\ cfReload \in BOOLEAN
    /\ cfPc \in [CfParties -> CfPlaces] /\ cfPc["daemon"] # "absent"
    /\ cfPc["overlay"] \in {"absent", "start", "sync", "watch", "load"}
    /\ cfMem \in [CfParties -> SUBSET CfOptions]
    /\ cfWatch \in [CfParties -> [by : {"none", "inotify", "poll"},
                                  news : {"none", "changed", "gone"}, fresh : BOOLEAN]]
    /\ cfSave \in [next : SUBSET CfOptions, text : CfContents,
                   by : CfClients \cup {"tray", "nobody"}, lost : BOOLEAN]
    /\ cfClient \in [CfClients -> CfCommands \cup {"idle", "done"}]
    /\ cfExcused \subseteq CfParties
    /\ cfLeft \in 0 .. CfTurns

(* What a party works with is what the file says.                          *)
Agrees(p) ==
    /\ cfMem[p] = LoadedBy(p, cfFile)
    /\ p = "daemon" => cfProfile = ProfileChat(cfFile)

Busy(p) == cfPc[p] \in {"absent", "start", "profiles", "sync", "load", "asks", "read", "empty", "write",
                        "stopped"}

(* Whatever the order of edits, saves by the daemon, watches that come and *)
(* go and polls: a party that works with something else than the file says *)
(* has not been told yet and will be (its signature is old or an event     *)
(* waits), or it is one of the two the code leaves behind: a file changed  *)
(* between load() and sync(), and a TOGGLE whose save failed.              *)
StaleIsPending ==
    \A p \in CfParties \ cfExcused :
        Agrees(p) \/ Busy(p) \/ (p = "daemon" /\ cfReload) \/ ~cfWatch[p].fresh \/ cfWatch[p].news # "none"

(* Once nobody edits any more, daemon and overlay end up with the file.    *)
ConfigConverges ==
    <>[](\A p \in CfParties \ cfExcused : Agrees(p) \/ cfPc[p] \in {"stopped", "absent"})

(* The runs of sigaw-ctl that connected all get an answer or are cut off,   *)
(* whatever the clients before them asked for.                             *)
ClientsAnswered ==
    (\E c \in CfClients : cfClient[c] \in CfCommands)
        ~> (\A c \in CfClients : cfClient[c] \notin CfCommands)
=============================================================================
