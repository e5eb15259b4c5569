------------------------ MODULE ConfigControl_proofs ------------------------
(***************************************************************************)
(* For any contents, clients and number of turns: whoever works with       *)
(* something else than the configuration file says is going to be told.    *)
(***************************************************************************)
EXTENDS ConfigControl, TLAPS

(* A change of the file is on its way to p.                                 *)
Pending(p) == ~cfWatch[p].fresh \/ cfWatch[p].news # "none"

(* The daemon saves for the tray: its memory is what it was before.         *)
SavesForTray == cfPc["daemon"] \in {"read", "empty"} /\ cfSave.by = "tray"

(* Only a watch has news, and the daemon's signature is old while it writes. *)
WatchInv ==
    /\ \A p \in CfParties : cfWatch[p].by # "inotify" => cfWatch[p].news = "none"
    /\ cfPc["daemon"] = "write" => Pending("daemon")

(* Between load() and sync() the memory agrees, after it it agrees or a     *)
(* change is pending; the profiles are a second reading of the file.         *)
MemInv ==
    \A p \in CfParties \ cfExcused :
        /\ cfPc[p] \in {"profiles", "sync"} => cfMem[p] = LoadedBy(p, cfFile)
        /\ cfPc[p] \in {"tray", "watch", "ctl", "asks"} \/ (p = "daemon" /\ SavesForTray)
               => cfMem[p] = LoadedBy(p, cfFile) \/ Pending(p)

ProfileInv ==
    "daemon" \notin cfExcused =>
        /\ cfPc["daemon"] = "sync" => cfProfile = ProfileChat(cfFile)
        /\ cfPc["daemon"] \in {"tray", "watch", "ctl", "read", "empty"} /\ ~cfReload
               => cfProfile = ProfileChat(cfFile) \/ Pending("daemon")

CfInv == CfTypeOK /\ WatchInv /\ MemInv /\ ProfileInv

(* The parts of CfTypeOK.                                                  *)
PlacesOK ==
    /\ cfPc \in [CfParties -> CfPlaces] /\ cfPc["daemon"] # "absent"
    /\ cfPc["overlay"] \in {"absent", "start", "sync", "watch", "load"}
SaveOK == cfSave \in [next : SUBSET CfOptions, text : CfContents,
                      by : CfClients \cup {"tray", "nobody"}, lost : BOOLEAN]
WatchesOK == cfWatch \in [CfParties -> [by : {"none", "inotify", "poll"},
                               news : {"none", "changed", "gone"}, fresh : BOOLEAN]]
FileOK == cfFile \in CfContents \cup {CfMissing} /\ cfMem \in [CfParties -> SUBSET CfOptions]
FlagsOK == cfDir \in BOOLEAN /\ cfProfile \in BOOLEAN /\ cfReload \in BOOLEAN
CountsOK == /\ cfClient \in [CfClients -> CfCommands \cup {"idle", "done"}]
            /\ cfExcused \subseteq CfParties /\ cfLeft \in 0 .. CfTurns

-----------------------------------------------------------------------------
LEMMA TypeParts ==
    /\ CfTypeOK <=> PlacesOK /\ SaveOK /\ WatchesOK /\ FileOK /\ FlagsOK /\ CountsOK
    /\ CfTypeOK' <=> PlacesOK' /\ SaveOK' /\ WatchesOK' /\ FileOK' /\ FlagsOK' /\ CountsOK'
BY DEF CfTypeOK, PlacesOK, SaveOK, WatchesOK, FileOK, FlagsOK, CountsOK

LEMMA SaveType ==
    ASSUME NEW on \in SUBSET CfOptions, NEW by \in CfClients \cup {"tray", "nobody"}
    PROVE  /\ NoSave \in [next : SUBSET CfOptions, text : CfContents,
                          by : CfClients \cup {"tray", "nobody"}, lost : BOOLEAN]
           /\ [NoSave EXCEPT !.next = on, !.by = by]
                  \in [next : SUBSET CfOptions, text : CfContents,
                       by : CfClients \cup {"tray", "nobody"}, lost : BOOLEAN]
<1>1. CfDefaults \in CfContents
  BY DEF CfDefaults, CfContents, CfOptions
<1> QED BY <1>1 DEF NoSave, CfOptions

(* What is read of a file is a set of options, or a Boolean.               *)
LEMMA ReadingType ==
    ASSUME NEW f \in CfContents \cup {CfMissing}, NEW p \in CfParties
    PROVE  /\ LoadedBy(p, f) \in SUBSET CfOptions
           /\ ProfileChat(f) \in BOOLEAN
<1>1. Parsed(f) \in CfContents
  BY DEF Parsed, CfContents, CfDefaults, CfOptions, CfMissing
<1>2. Parsed(f).on \in SUBSET CfOptions /\ Parsed(f).profile \in SUBSET CfOptions
  BY <1>1 DEF CfContents
<1> QED BY <1>2 DEF LoadedBy, ProfileChat

(* A change of the file makes every signature old, and is news at most to   *)
(* those who have a watch.                                                 *)
LEMMA ToldType ==
    ASSUME CfTypeOK, WatchInv, NEW p \in CfParties, NEW news \in {"changed", "gone"}
    PROVE  /\ Told(cfWatch[p], news) \in [by : {"none", "inotify", "poll"},
                  news : {"none", "changed", "gone"}, fresh : BOOLEAN]
           /\ Stale(cfWatch[p]) \in [by : {"none", "inotify", "poll"},
                  news : {"none", "changed", "gone"}, fresh : BOOLEAN]
           /\ ~Told(cfWatch[p], news).fresh /\ ~Stale(cfWatch[p]).fresh
           /\ Told(cfWatch[p], news).by # "inotify" => Told(cfWatch[p], news).news = "none"
           /\ Stale(cfWatch[p]).by # "inotify" => Stale(cfWatch[p]).news = "none"
<1>1. cfWatch[p] \in [by : {"none", "inotify", "poll"},
          news : {"none", "changed", "gone"}, fresh : BOOLEAN]
  BY DEF CfTypeOK
<1>2. cfWatch[p].by # "inotify" => cfWatch[p].news = "none"
  BY DEF WatchInv
<1> QED BY <1>1, <1>2 DEF Told, Stale

LEMMA CfInitInv == CfInit => CfInv
<1> SUFFICES ASSUME CfInit PROVE CfInv
  OBVIOUS
<1>1. cfPc["overlay"] \in {"start", "absent"} /\ cfPc["daemon"] = "start"
  BY DEF CfInit, CfParties
<1>2. CfTypeOK
  <2>1. cfFile \in CfContents \cup {CfMissing}
    BY CfAssumption DEF CfInit, CfContents
  <2>2. cfMem \in [CfParties -> SUBSET CfOptions]
    BY DEF CfInit, CfDefaults, CfOptions
  <2>3. cfWatch \in [CfParties -> [by : {"none", "inotify", "poll"},
                       news : {"none", "changed", "gone"}, fresh : BOOLEAN]]
    BY DEF CfInit
  <2>4. cfSave \in [next : SUBSET CfOptions, text : CfContents,
                   by : CfClients \cup {"tray", "nobody"}, lost : BOOLEAN]
    BY DEF CfInit, NoSave, CfDefaults, CfOptions, CfContents
  <2>5. cfPc \in [CfParties -> CfPlaces]
    BY DEF CfInit, CfPlaces
  <2>6. cfClient \in [CfClients -> CfCommands \cup {"idle", "done"}]
    BY DEF CfInit
  <2>7. cfDir \in BOOLEAN
    BY DEF CfInit
  <2>8. cfProfile \in BOOLEAN /\ cfReload \in BOOLEAN
    BY DEF CfInit
  <2>9. cfExcused \subseteq CfParties /\ cfLeft \in 0 .. CfTurns
    BY CfAssumption DEF CfInit
  <2> QED BY <1>1, <2>1, <2>2, <2>3, <2>4, <2>5, <2>6, <2>7, <2>8, <2>9 DEF CfTypeOK
<1>3. WatchInv
  BY <1>1 DEF CfInit, WatchInv
<1>4. MemInv /\ ProfileInv
  BY <1>1 DEF MemInv, ProfileInv, SavesForTray, CfParties
<1> QED BY <1>2, <1>3, <1>4 DEF CfInv
-----------------------------------------------------------------------------
(* The steps of daemon and overlay, of the tray, of clients and the user.   *)

LEMMA StartLoadKeeps ==
    ASSUME CfInv, NEW p \in CfParties, StartLoad(p)
    PROVE  CfInv'
<1> USE TypeParts DEF CfInv
<1>1. CfTypeOK'
  <2>1. PlacesOK'
    BY DEF PlacesOK, StartLoad, Goes, CfPlaces, CfParties
  <2>2. FileOK'
    BY ReadingType DEF FileOK, StartLoad, Goes, CfParties, CfOptions, CfContents
  <2>3. SaveOK' /\ WatchesOK' /\ FlagsOK' /\ CountsOK'
    BY DEF SaveOK, WatchesOK, FlagsOK, CountsOK, StartLoad
  <2> QED BY <2>1, <2>2, <2>3
<1>2. WatchInv'
  BY DEF CfTypeOK, WatchInv, Pending, CfParties, StartLoad, Goes
<1>3. MemInv'
  BY DEF CfTypeOK, MemInv, WatchInv, Pending, SavesForTray, CfParties, StartLoad, Goes
<1>4. ProfileInv'
  BY DEF CfTypeOK, ProfileInv, WatchInv, Pending, CfParties, StartLoad, Goes
<1> QED BY <1>1, <1>2, <1>3, <1>4

LEMMA StartProfilesKeeps ==
    ASSUME CfInv, StartProfiles
    PROVE  CfInv'
<1> USE TypeParts DEF CfInv
<1>1. CfTypeOK'
  <2>1. PlacesOK'
    BY DEF PlacesOK, StartProfiles, Goes, CfPlaces, CfParties
  <2>2. FlagsOK'
    BY ReadingType DEF FlagsOK, StartProfiles, Goes, CfParties, FileOK
  <2>3. SaveOK' /\ WatchesOK' /\ FileOK' /\ CountsOK'
    BY DEF SaveOK, WatchesOK, FileOK, CountsOK, StartProfiles
  <2> QED BY <2>1, <2>2, <2>3
<1>2. WatchInv'
  BY DEF CfTypeOK, WatchInv, Pending, CfParties, StartProfiles, Goes
<1>3. MemInv'
  BY DEF CfTypeOK, MemInv, WatchInv, Pending, SavesForTray, CfParties, StartProfiles, Goes
<1>4. ProfileInv'
  BY DEF CfTypeOK, ProfileInv, WatchInv, Pending, CfParties, StartProfiles, Goes
<1> QED BY <1>1, <1>2, <1>3, <1>4

LEMMA StartSyncKeeps ==
    ASSUME CfInv, NEW p \in CfParties, StartSync(p)
    PROVE  CfInv'
<1> USE TypeParts DEF CfInv
<1>1. CfTypeOK'
  <2>1. PlacesOK'
    BY DEF PlacesOK, StartSync, Goes, Synced, CfPlaces, CfParties
  <2>2. WatchesOK'
    BY DEF WatchesOK, StartSync, Goes, Synced, CfParties
  <2>3. SaveOK' /\ FileOK' /\ FlagsOK' /\ CountsOK'
    BY DEF SaveOK, FileOK, FlagsOK, CountsOK, StartSync
  <2> QED BY <2>1, <2>2, <2>3
<1>2. WatchInv'
  BY DEF CfTypeOK, WatchInv, Pending, CfParties, StartSync, Goes, Synced
<1>3. MemInv'
  BY DEF CfTypeOK, MemInv, WatchInv, Pending, SavesForTray, CfParties, StartSync, Goes, Synced
<1>4. ProfileInv'
  BY DEF CfTypeOK, ProfileInv, WatchInv, Pending, CfParties, StartSync, Goes, Synced
<1> QED BY <1>1, <1>2, <1>3, <1>4

LEMMA LoadConfigKeeps ==
    ASSUME CfInv, NEW p \in CfParties, LoadConfig(p)
    PROVE  CfInv'
<1> USE TypeParts DEF CfInv
<1>1. CfTypeOK'
  <2>1. PlacesOK'
    BY DEF PlacesOK, LoadConfig, Goes, CfPlaces, CfParties
  <2>2. FileOK'
    BY ReadingType DEF FileOK, LoadConfig, Goes, CfParties, CfOptions, CfContents
  <2>3. CountsOK'
    BY DEF CountsOK, LoadConfig, Goes, CfCommands, CfParties
  <2>4. SaveOK' /\ WatchesOK' /\ FlagsOK'
    BY DEF SaveOK, WatchesOK, FlagsOK, LoadConfig
  <2> QED BY <2>1, <2>2, <2>3, <2>4
<1>2. WatchInv'
  BY DEF CfTypeOK, WatchInv, Pending, CfParties, LoadConfig, Goes
<1>3. MemInv'
  BY DEF CfTypeOK, MemInv, WatchInv, Pending, SavesForTray, CfParties, LoadConfig, Goes
<1>4. ProfileInv'
  BY DEF CfTypeOK, ProfileInv, WatchInv, Pending, CfParties, LoadConfig, Goes
<1> QED BY <1>1, <1>2, <1>3, <1>4

LEMMA AskProfilesKeeps ==
    ASSUME CfInv, AskProfiles
    PROVE  CfInv'
<1> USE TypeParts DEF CfInv
<1>1. CfTypeOK'
  <2>1. PlacesOK'
    BY DEF PlacesOK, AskProfiles, Goes, CfPlaces, CfParties
  <2>2. FlagsOK'
    BY ReadingType DEF FlagsOK, AskProfiles, Goes, CfParties, FileOK
  <2>3. SaveOK' /\ WatchesOK' /\ FileOK' /\ CountsOK'
    BY DEF SaveOK, WatchesOK, FileOK, CountsOK, AskProfiles
  <2> QED BY <2>1, <2>2, <2>3
<1>2. WatchInv'
  BY DEF CfTypeOK, WatchInv, Pending, CfParties, AskProfiles, Goes
<1>3. MemInv'
  BY DEF CfTypeOK, MemInv, WatchInv, Pending, SavesForTray, CfParties, AskProfiles, Goes
<1>4. ProfileInv'
  BY DEF CfTypeOK, ProfileInv, WatchInv, Pending, CfParties, AskProfiles, Goes
<1> QED BY <1>1, <1>2, <1>3, <1>4

LEMMA TrayToggleKeeps ==
    ASSUME CfInv, NEW o \in CfOptions, TrayToggle(o)
    PROVE  CfInv'
<1> USE TypeParts DEF CfInv
<1>1. CfTypeOK'
  <2>1. PlacesOK'
    BY DEF PlacesOK, TrayToggle, Goes, Turn, NoSave, Flipped, CfPlaces, CfParties
  <2>2. SaveOK'
    BY SaveType DEF SaveOK, TrayToggle, Goes, Turn, Flipped, FileOK, CfOptions, CfParties
  <2>3. CountsOK'
    BY CfAssumption DEF CountsOK, TrayToggle, Goes, Turn, NoSave, Flipped, CfCommands, CfParties
  <2>4. WatchesOK' /\ FileOK' /\ FlagsOK'
    BY DEF WatchesOK, FileOK, FlagsOK, TrayToggle
  <2> QED BY <2>1, <2>2, <2>3, <2>4
<1>2. WatchInv'
  BY DEF CfTypeOK, WatchInv, Pending, CfParties, TrayToggle, Goes, Turn, NoSave, Flipped
<1>3. MemInv'
  BY DEF CfTypeOK, MemInv, WatchInv, Pending, SavesForTray, CfParties, TrayToggle, Goes, Turn, NoSave, Flipped
<1>4. ProfileInv'
  BY DEF CfTypeOK, ProfileInv, WatchInv, Pending, CfParties, TrayToggle, Goes, Turn, NoSave, Flipped
<1> QED BY <1>1, <1>2, <1>3, <1>4

LEMMA TrayOpenConfigKeeps ==
    ASSUME CfInv, TrayOpenConfig
    PROVE  CfInv'
<1> USE TypeParts DEF CfInv
<1>1. CfTypeOK'
  <2>1. PlacesOK'
    BY DEF PlacesOK, TrayOpenConfig, Goes, Turn, NoSave, CfPlaces, CfParties
  <2>2. SaveOK'
    <3>1. CASE cfFile = CfMissing
      <4>1. cfMem["daemon"] \in SUBSET CfOptions
        BY DEF FileOK, CfParties
      <4>2. cfSave' = [NoSave EXCEPT !.next = cfMem["daemon"], !.by = "tray"]
        BY <3>1 DEF TrayOpenConfig
      <4> QED BY <4>1, <4>2, SaveType DEF SaveOK
    <3>2. CASE cfFile # CfMissing
      BY <3>2 DEF SaveOK, TrayOpenConfig
    <3> QED BY <3>1, <3>2
  <2>3. CountsOK'
    BY CfAssumption DEF CountsOK, TrayOpenConfig, Goes, Turn, NoSave, CfCommands, CfParties
  <2>4. WatchesOK' /\ FileOK' /\ FlagsOK'
    BY DEF WatchesOK, FileOK, FlagsOK, TrayOpenConfig
  <2> QED BY <2>1, <2>2, <2>3, <2>4
<1>2. WatchInv'
  BY DEF CfTypeOK, WatchInv, Pending, CfParties, TrayOpenConfig, Goes, Turn, NoSave
<1>3. MemInv'
  BY DEF CfTypeOK, MemInv, WatchInv, Pending, SavesForTray, CfParties, TrayOpenConfig, Goes, Turn, NoSave
<1>4. ProfileInv'
  BY DEF CfTypeOK, ProfileInv, WatchInv, Pending, CfParties, TrayOpenConfig, Goes, Turn, NoSave
<1> QED BY <1>1, <1>2, <1>3, <1>4

LEMMA TrayReconnectKeeps ==
    ASSUME CfInv, TrayReconnect
    PROVE  CfInv'
<1> USE TypeParts DEF CfInv
<1>1. CfTypeOK'
  <2>1. CountsOK'
    BY CfAssumption DEF CountsOK, TrayReconnect, Turn, CfCommands, CfParties
  <2>2. PlacesOK' /\ SaveOK' /\ WatchesOK' /\ FileOK' /\ FlagsOK'
    BY DEF PlacesOK, SaveOK, WatchesOK, FileOK, FlagsOK, TrayReconnect
  <2> QED BY <2>1, <2>2
<1>2. WatchInv'
  BY DEF CfTypeOK, WatchInv, Pending, CfParties, TrayReconnect, Turn
<1>3. MemInv'
  BY DEF CfTypeOK, MemInv, WatchInv, Pending, SavesForTray, CfParties, TrayReconnect, Turn
<1>4. ProfileInv'
  BY DEF CfTypeOK, ProfileInv, WatchInv, Pending, CfParties, TrayReconnect, Turn
<1> QED BY <1>1, <1>2, <1>3, <1>4

LEMMA TrayDoneKeeps ==
    ASSUME CfInv, TrayDone
    PROVE  CfInv'
<1> USE TypeParts DEF CfInv
<1>1. CfTypeOK'
  <2>1. PlacesOK'
    BY DEF PlacesOK, TrayDone, Goes, CfPlaces, CfParties
  <2>2. SaveOK' /\ WatchesOK' /\ FileOK' /\ FlagsOK' /\ CountsOK'
    BY DEF SaveOK, WatchesOK, FileOK, FlagsOK, CountsOK, TrayDone
  <2> QED BY <2>1, <2>2
<1>2. WatchInv'
  BY DEF CfTypeOK, WatchInv, Pending, CfParties, TrayDone, Goes
<1>3. MemInv'
  BY DEF CfTypeOK, MemInv, WatchInv, Pending, SavesForTray, CfParties, TrayDone, Goes
<1>4. ProfileInv'
  BY DEF CfTypeOK, ProfileInv, WatchInv, Pending, CfParties, TrayDone, Goes
<1> QED BY <1>1, <1>2, <1>3, <1>4

LEMMA TrayStopKeeps ==
    ASSUME CfInv, TrayStop
    PROVE  CfInv'
<1> USE TypeParts DEF CfInv
<1>1. CfTypeOK'
  <2>1. PlacesOK'
    BY DEF PlacesOK, TrayStop, Goes, Turn, Refused, CfPlaces, CfParties
  <2>2. CountsOK'
    BY CfAssumption DEF CountsOK, TrayStop, Goes, Turn, Refused, CfCommands, CfParties
  <2>3. SaveOK' /\ WatchesOK' /\ FileOK' /\ FlagsOK'
    BY DEF SaveOK, WatchesOK, FileOK, FlagsOK, TrayStop
  <2> QED BY <2>1, <2>2, <2>3
<1>2. WatchInv'
  BY DEF CfTypeOK, WatchInv, Pending, CfParties, TrayStop, Goes, Turn, Refused
<1>3. MemInv'
  BY DEF CfTypeOK, MemInv, WatchInv, Pending, SavesForTray, CfParties, TrayStop, Goes, Turn, Refused
<1>4. ProfileInv'
  BY DEF CfTypeOK, ProfileInv, WatchInv, Pending, CfParties, TrayStop, Goes, Turn, Refused
<1> QED BY <1>1, <1>2, <1>3, <1>4

LEMMA SaveReadKeeps ==
    ASSUME CfInv, SaveRead
    PROVE  CfInv'
<1> USE TypeParts DEF CfInv
<1>1. CfTypeOK'
  <2>1. PlacesOK'
    BY DEF PlacesOK, SaveRead, Goes, CfPlaces, CfParties
  <2>2. SaveOK'
    BY DEF SaveOK, SaveRead, Goes, FileOK, CfContents, CfMissing, CfOptions
  <2>3. FlagsOK'
    BY DEF FlagsOK, SaveRead, Goes
  <2>4. WatchesOK' /\ FileOK' /\ CountsOK'
    BY DEF WatchesOK, FileOK, CountsOK, SaveRead
  <2> QED BY <2>1, <2>2, <2>3, <2>4
<1>2. WatchInv'
  BY DEF CfTypeOK, WatchInv, Pending, CfParties, SaveRead, Goes
<1>3. MemInv'
  BY DEF CfTypeOK, MemInv, WatchInv, Pending, SavesForTray, CfParties, SaveRead, Goes
<1>4. ProfileInv'
  BY DEF CfTypeOK, ProfileInv, WatchInv, Pending, CfParties, SaveRead, Goes
<1> QED BY <1>1, <1>2, <1>3, <1>4

LEMMA SaveEmptyKeeps ==
    ASSUME CfInv, SaveEmpty
    PROVE  CfInv'
<1> USE TypeParts DEF CfInv
<1>1. CfTypeOK'
  <2>1. PlacesOK'
    BY DEF PlacesOK, SaveEmpty, Goes, Between, CfPlaces, CfParties
  <2>2. WatchesOK'
    BY ToldType DEF WatchesOK, SaveEmpty, Goes, Between, CfParties
  <2>3. FileOK'
    BY DEF FileOK, SaveEmpty, Goes, Between, CfParties, CfOptions, CfContents
  <2>4. CountsOK'
    BY DEF CountsOK, SaveEmpty, Goes, Between, CfCommands, CfParties
  <2>5. SaveOK' /\ FlagsOK'
    BY DEF SaveOK, FlagsOK, SaveEmpty
  <2> QED BY <2>1, <2>2, <2>3, <2>4, <2>5
<1>2. WatchInv'
  BY ToldType DEF CfTypeOK, WatchInv, Pending, CfParties, SaveEmpty, Goes, Between
<1>3. MemInv'
  BY ToldType DEF CfTypeOK, MemInv, WatchInv, Pending, SavesForTray, CfParties, SaveEmpty, Goes, Between
<1>4. ProfileInv'
  BY ToldType DEF CfTypeOK, ProfileInv, WatchInv, Pending, CfParties, SaveEmpty, Goes, Between
<1> QED BY <1>1, <1>2, <1>3, <1>4

LEMMA SaveFailsKeeps ==
    ASSUME CfInv, SaveFails
    PROVE  CfInv'
<1> USE TypeParts DEF CfInv
<1>1. CfTypeOK'
  <2>1. PlacesOK'
    BY DEF PlacesOK, SaveFails, Goes, Back, Reply, NoSave, CfPlaces, CfParties
  <2>2. SaveOK'
    BY SaveType DEF SaveOK, SaveFails, Goes, Back, Reply, FileOK, CfOptions, CfParties
  <2>3. CountsOK'
    BY DEF CountsOK, SaveFails, Goes, Back, Reply, NoSave, CfCommands, CfParties
  <2>4. WatchesOK' /\ FileOK' /\ FlagsOK'
    BY DEF WatchesOK, FileOK, FlagsOK, SaveFails
  <2> QED BY <2>1, <2>2, <2>3, <2>4
<1>2. WatchInv'
  BY DEF CfTypeOK, WatchInv, Pending, CfParties, SaveFails, Goes, Back, Reply, NoSave
<1>3. MemInv'
  BY CfAssumption DEF CfTypeOK, MemInv, WatchInv, Pending, SavesForTray, CfParties, SaveFails, Goes, Back, Reply, NoSave
<1>4. ProfileInv'
  BY CfAssumption DEF CfTypeOK, ProfileInv, WatchInv, Pending, CfParties, SaveFails, Goes, Back, Reply, NoSave
<1> QED BY <1>1, <1>2, <1>3, <1>4

LEMMA SaveWriteKeeps ==
    ASSUME CfInv, SaveWrite
    PROVE  CfInv'
<1> USE TypeParts DEF CfInv
<1>1. CfTypeOK'
  <2>1. PlacesOK'
    BY DEF PlacesOK, SaveWrite, Goes, Back, Reply, NoSave, Between, CfPlaces, CfParties
  <2>2. SaveOK'
    BY SaveType DEF SaveOK, SaveWrite, Goes, Back, Reply, Between, FileOK, CfOptions, CfParties
  <2>3. WatchesOK'
    BY ToldType DEF WatchesOK, SaveWrite, Goes, Back, Reply, NoSave, Between, CfParties
  <2>4. FileOK'
    BY DEF FileOK, SaveWrite, Goes, Back, Reply, NoSave, Between, SaveOK, CfParties, CfOptions, CfContents
  <2>5. CountsOK'
    BY DEF CountsOK, SaveWrite, Goes, Back, Reply, NoSave, Between, CfCommands, CfParties
  <2>6. FlagsOK'
    BY DEF FlagsOK, SaveWrite
  <2> QED BY <2>1, <2>2, <2>3, <2>4, <2>5, <2>6
<1>2. WatchInv'
  BY ToldType DEF CfTypeOK, WatchInv, Pending, CfParties, SaveWrite, Goes, Back, Reply, NoSave, Between
<1>3. MemInv'
  BY ToldType DEF CfTypeOK, MemInv, WatchInv, Pending, SavesForTray, CfParties, SaveWrite, Goes, Back, Reply, NoSave, Between
<1>4. ProfileInv'
  BY ToldType DEF CfTypeOK, ProfileInv, WatchInv, Pending, CfParties, SaveWrite, Goes, Back, Reply, NoSave, Between
<1> QED BY <1>1, <1>2, <1>3, <1>4

LEMMA CtlStatusKeeps ==
    ASSUME CfInv, NEW c \in CfClients, CtlStatus(c)
    PROVE  CfInv'
<1> USE TypeParts DEF CfInv
<1>1. CfTypeOK'
  <2>1. CountsOK'
    BY DEF CountsOK, CtlStatus, Served, CfCommands, CfParties
  <2>2. PlacesOK' /\ SaveOK' /\ WatchesOK' /\ FileOK' /\ FlagsOK'
    BY DEF PlacesOK, SaveOK, WatchesOK, FileOK, FlagsOK, CtlStatus
  <2> QED BY <2>1, <2>2
<1>2. WatchInv'
  BY DEF CfTypeOK, WatchInv, Pending, CfParties, CtlStatus, Served
<1>3. MemInv'
  BY DEF CfTypeOK, MemInv, WatchInv, Pending, SavesForTray, CfParties, CtlStatus, Served
<1>4. ProfileInv'
  BY DEF CfTypeOK, ProfileInv, WatchInv, Pending, CfParties, CtlStatus, Served
<1> QED BY <1>1, <1>2, <1>3, <1>4

LEMMA CtlToggleKeeps ==
    ASSUME CfInv, NEW c \in CfClients, CtlToggle(c)
    PROVE  CfInv'
<1> USE TypeParts DEF CfInv
<1>1. CfTypeOK'
  <2>1. PlacesOK'
    BY DEF PlacesOK, CtlToggle, Served, Goes, NoSave, Flipped, CfPlaces, CfParties
  <2>2. SaveOK'
    BY SaveType DEF SaveOK, CtlToggle, Served, Goes, Flipped, FileOK, CfOptions, CfParties
  <2>3. FileOK'
    BY DEF FileOK, CtlToggle, Served, Goes, NoSave, Flipped, CfParties, CfOptions, CfContents
  <2>4. WatchesOK' /\ FlagsOK' /\ CountsOK'
    BY DEF WatchesOK, FlagsOK, CountsOK, CtlToggle
  <2> QED BY <2>1, <2>2, <2>3, <2>4
<1>2. WatchInv'
  BY DEF CfTypeOK, WatchInv, Pending, CfParties, CtlToggle, Served, Goes, NoSave, Flipped
<1>3. MemInv'
  BY CfAssumption DEF CfTypeOK, MemInv, WatchInv, Pending, SavesForTray, CfParties, CtlToggle, Served, Goes, NoSave, Flipped
<1>4. ProfileInv'
  BY CfAssumption DEF CfTypeOK, ProfileInv, WatchInv, Pending, CfParties, CtlToggle, Served, Goes, NoSave, Flipped
<1> QED BY <1>1, <1>2, <1>3, <1>4

LEMMA CtlReloadKeeps ==
    ASSUME CfInv, NEW c \in CfClients, CtlReload(c)
    PROVE  CfInv'
<1> USE TypeParts DEF CfInv
<1>1. CfTypeOK'
  <2>1. FileOK'
    BY ReadingType DEF FileOK, CtlReload, Served, CfParties, CfOptions, CfContents
  <2>2. FlagsOK'
    BY DEF FlagsOK, CtlReload, Served
  <2>3. CountsOK'
    BY DEF CountsOK, CtlReload, Served, CfCommands, CfParties
  <2>4. PlacesOK' /\ SaveOK' /\ WatchesOK'
    BY DEF PlacesOK, SaveOK, WatchesOK, CtlReload
  <2> QED BY <2>1, <2>2, <2>3, <2>4
<1>2. WatchInv'
  BY DEF CfTypeOK, WatchInv, Pending, CfParties, CtlReload, Served
<1>3. MemInv'
  BY ReadingType DEF CfTypeOK, MemInv, WatchInv, Pending, SavesForTray, CfParties, CtlReload, Served
<1>4. ProfileInv'
  BY ReadingType DEF CfTypeOK, ProfileInv, WatchInv, Pending, CfParties, CtlReload, Served
<1> QED BY <1>1, <1>2, <1>3, <1>4

LEMMA CtlQuitKeeps ==
    ASSUME CfInv, NEW c \in CfClients, CtlQuit(c)
    PROVE  CfInv'
<1> USE TypeParts DEF CfInv
<1>1. CfTypeOK'
  <2>1. PlacesOK'
    BY DEF PlacesOK, CtlQuit, Served, Goes, Refused, CfPlaces, CfParties
  <2>2. CountsOK'
    BY DEF CountsOK, CtlQuit, Served, Goes, Refused, CfCommands, CfParties
  <2>3. SaveOK' /\ WatchesOK' /\ FileOK' /\ FlagsOK'
    BY DEF SaveOK, WatchesOK, FileOK, FlagsOK, CtlQuit
  <2> QED BY <2>1, <2>2, <2>3
<1>2. WatchInv'
  BY DEF CfTypeOK, WatchInv, Pending, CfParties, CtlQuit, Served, Goes, Refused
<1>3. MemInv'
  BY DEF CfTypeOK, MemInv, WatchInv, Pending, SavesForTray, CfParties, CtlQuit, Served, Goes, Refused
<1>4. ProfileInv'
  BY DEF CfTypeOK, ProfileInv, WatchInv, Pending, CfParties, CtlQuit, Served, Goes, Refused
<1> QED BY <1>1, <1>2, <1>3, <1>4

LEMMA CtlDoneKeeps ==
    ASSUME CfInv, CtlDone
    PROVE  CfInv'
<1> USE TypeParts DEF CfInv
<1>1. CfTypeOK'
  <2>1. PlacesOK'
    BY DEF PlacesOK, CtlDone, Goes, CfPlaces, CfParties
  <2>2. SaveOK' /\ WatchesOK' /\ FileOK' /\ FlagsOK' /\ CountsOK'
    BY DEF SaveOK, WatchesOK, FileOK, FlagsOK, CountsOK, CtlDone
  <2> QED BY <2>1, <2>2
<1>2. WatchInv'
  BY DEF CfTypeOK, WatchInv, Pending, CfParties, CtlDone, Goes
<1>3. MemInv'
  BY DEF CfTypeOK, MemInv, WatchInv, Pending, SavesForTray, CfParties, CtlDone, Goes
<1>4. ProfileInv'
  BY DEF CfTypeOK, ProfileInv, WatchInv, Pending, CfParties, CtlDone, Goes
<1> QED BY <1>1, <1>2, <1>3, <1>4

LEMMA CtlAsksKeeps ==
    ASSUME CfInv, NEW c \in CfClients, NEW cmd \in CfCommands, CtlAsks(c, cmd)
    PROVE  CfInv'
<1> USE TypeParts DEF CfInv
<1>1. CfTypeOK'
  <2>1. CountsOK'
    BY CfAssumption DEF CountsOK, CtlAsks, Turn, CfCommands, CfParties
  <2>2. PlacesOK' /\ SaveOK' /\ WatchesOK' /\ FileOK' /\ FlagsOK'
    BY DEF PlacesOK, SaveOK, WatchesOK, FileOK, FlagsOK, CtlAsks
  <2> QED BY <2>1, <2>2
<1>2. WatchInv'
  BY DEF CfTypeOK, WatchInv, Pending, CfParties, CtlAsks, Turn
<1>3. MemInv'
  BY DEF CfTypeOK, MemInv, WatchInv, Pending, SavesForTray, CfParties, CtlAsks, Turn
<1>4. ProfileInv'
  BY DEF CfTypeOK, ProfileInv, WatchInv, Pending, CfParties, CtlAsks, Turn
<1> QED BY <1>1, <1>2, <1>3, <1>4
(* A poll, an event or neither: what was old or waiting stays so, or makes  *)
(* the party load.                                                         *)
LEMMA ConsumeType ==
    ASSUME CfInv, NEW p \in CfParties, NEW by \in {"inotify", "poll"}, NEW due \in BOOLEAN
    PROVE  LET seen == Consume(cfWatch[p], by, due)
           IN  /\ seen.watch \in [by : {"none", "inotify", "poll"},
                                  news : {"none", "changed", "gone"}, fresh : BOOLEAN]
               /\ seen.watch.news = "none"
               /\ ~seen.changed => cfWatch[p].news = "none"
               /\ ~seen.changed => seen.watch.fresh = cfWatch[p].fresh
<1>1. cfWatch[p] \in [by : {"none", "inotify", "poll"},
          news : {"none", "changed", "gone"}, fresh : BOOLEAN]
  BY DEF CfInv, CfTypeOK
<1>2. cfWatch[p].by # "inotify" => cfWatch[p].news = "none"
  BY DEF CfInv, WatchInv
<1> DEFINE seen == Consume(cfWatch[p], by, due)
<1>3. seen.watch.news = "none" /\ (~seen.changed => cfWatch[p].news = "none")
  BY <1>1, <1>2 DEF Consume
<1>4. ~seen.changed => seen.watch.fresh = cfWatch[p].fresh
  BY <1>1, <1>2 DEF Consume
<1>5. seen.watch \in [by : {"none", "inotify", "poll"},
                      news : {"none", "changed", "gone"}, fresh : BOOLEAN]
  BY <1>1, <1>2 DEF Consume
<1> QED BY <1>3, <1>4, <1>5

LEMMA WatchConfigKeeps ==
    ASSUME CfInv, NEW p \in CfParties, NEW due \in BOOLEAN, WatchConfig(p, due)
    PROVE  CfInv'
<1> USE TypeParts DEF CfInv
<1>1. PICK by \in Attachable :
          /\ cfWatch' = [cfWatch EXCEPT ![p] = Consume(cfWatch[p], by, due).watch]
          /\ cfPc' = [cfPc EXCEPT ![p] = IF Consume(cfWatch[p], by, due).changed THEN "load"
                                         ELSE IF p = "daemon" THEN "ctl" ELSE "watch"]
  BY DEF WatchConfig, Watches, Goes
<1> DEFINE seen == Consume(cfWatch[p], by, due)
<1>2. by \in {"inotify", "poll"}
  BY DEF Attachable
<1>3. /\ seen.watch \in [by : {"none", "inotify", "poll"},
                         news : {"none", "changed", "gone"}, fresh : BOOLEAN]
      /\ seen.watch.news = "none"
      /\ ~seen.changed => cfWatch[p].news = "none"
      /\ ~seen.changed => seen.watch.fresh = cfWatch[p].fresh
  BY <1>2, ConsumeType
<1>4. /\ cfPc[p] = "watch"
      /\ cfWatch' = [cfWatch EXCEPT ![p] = seen.watch]
      /\ cfPc' = [cfPc EXCEPT ![p] = IF seen.changed THEN "load"
                                     ELSE IF p = "daemon" THEN "ctl" ELSE "watch"]
      /\ UNCHANGED <<cfFile, cfDir, cfMem, cfProfile, cfSave, cfClient, cfReload, cfExcused, cfLeft>>
  BY <1>1 DEF WatchConfig
<1> HIDE DEF seen
<1>5. CfTypeOK'
  <2>1. PlacesOK'
    BY <1>4 DEF PlacesOK, CfPlaces, CfParties
  <2>2. WatchesOK'
    BY <1>3, <1>4 DEF WatchesOK, CfParties
  <2>3. SaveOK' /\ FileOK' /\ FlagsOK' /\ CountsOK'
    BY <1>4 DEF SaveOK, FileOK, FlagsOK, CountsOK
  <2> QED BY <2>1, <2>2, <2>3
<1>6. WatchInv'
  BY <1>3, <1>4 DEF CfTypeOK, WatchInv, Pending, CfParties
<1>7. MemInv'
  BY <1>3, <1>4 DEF CfTypeOK, MemInv, WatchInv, Pending, SavesForTray, CfParties
<1>8. ProfileInv'
  BY <1>3, <1>4 DEF CfTypeOK, ProfileInv, WatchInv, Pending, CfParties
<1> QED BY <1>5, <1>6, <1>7, <1>8

LEMMA UserChangesKeeps ==
    ASSUME CfInv, NEW f \in CfContents \cup {CfMissing}, NEW dir \in BOOLEAN,
           NEW news \in {"changed", "gone"}, UserChanges(f, dir, news)
    PROVE  CfInv'
<1> USE TypeParts DEF CfInv
<1>1. CfTypeOK'
  <2>1. SaveOK'
    BY DEF UserChanges, SaveOK
  <2>2. WatchesOK'
    BY ToldType DEF UserChanges, WatchesOK, CfParties
  <2>3. FileOK' /\ FlagsOK'
    BY DEF UserChanges, FileOK, FlagsOK
  <2>4. CountsOK'
    BY CfAssumption DEF UserChanges, Turn, CountsOK, CfParties, Between
  <2>5. PlacesOK'
    BY DEF UserChanges, PlacesOK
  <2> QED BY <2>1, <2>2, <2>3, <2>4, <2>5
<1>2. \A p \in CfParties : Pending(p)'
  BY ToldType DEF UserChanges, Pending
<1>3. WatchInv'
  BY <1>2, ToldType DEF UserChanges, CfTypeOK, WatchInv, CfParties
<1>4. MemInv'
  BY <1>2 DEF UserChanges, MemInv, Between, CfParties
<1>5. ProfileInv'
  BY <1>2 DEF UserChanges, ProfileInv, Between, CfParties
<1> QED BY <1>1, <1>3, <1>4, <1>5

LEMMA UserEmptiesKeeps == ASSUME CfInv, UserEmpties PROVE CfInv'
<1> USE TypeParts DEF CfInv
<1>1. CfTypeOK'
  <2>1. SaveOK' /\ PlacesOK'
    BY DEF UserEmpties, SaveOK, PlacesOK
  <2>2. WatchesOK'
    BY ToldType DEF UserEmpties, WatchesOK, CfParties
  <2>3. FileOK' /\ FlagsOK'
    BY DEF UserEmpties, FileOK, FlagsOK
  <2>4. CountsOK'
    BY CfAssumption DEF UserEmpties, Turn, CountsOK, CfParties, Between
  <2> QED BY <2>1, <2>2, <2>3, <2>4
<1>2. \A p \in CfParties : Pending(p)'
  BY ToldType DEF UserEmpties, Pending
<1>3. WatchInv'
  BY <1>2, ToldType DEF UserEmpties, CfTypeOK, WatchInv, CfParties
<1>4. MemInv'
  BY <1>2 DEF UserEmpties, MemInv, Between, CfParties
<1>5. ProfileInv'
  BY <1>2 DEF UserEmpties, ProfileInv, Between, CfParties
<1> QED BY <1>1, <1>3, <1>4, <1>5

-----------------------------------------------------------------------------
LEMMA CfStutterKeeps == ASSUME CfInv, UNCHANGED cfVars PROVE CfInv'
<1> USE TypeParts DEF CfInv, cfVars
<1>1. CfTypeOK'
  BY DEF PlacesOK, SaveOK, WatchesOK, FileOK, FlagsOK, CountsOK
<1>2. WatchInv' /\ MemInv' /\ ProfileInv'
  BY DEF WatchInv, MemInv, ProfileInv, Pending, SavesForTray
<1> QED BY <1>1, <1>2

LEMMA CfNextInv == CfInv /\ [CfNext]_cfVars => CfInv'
<1> SUFFICES ASSUME CfInv, [CfNext]_cfVars PROVE CfInv'
  OBVIOUS
<1> USE DEF CfParties
<1>1. CASE CfDaemonStep
  BY <1>1, StartLoadKeeps, StartProfilesKeeps, StartSyncKeeps, WatchConfigKeeps, LoadConfigKeeps,
     AskProfilesKeeps, TrayDoneKeeps, SaveReadKeeps, SaveEmptyKeeps, SaveFailsKeeps, SaveWriteKeeps,
     CtlStatusKeeps, CtlToggleKeeps, CtlReloadKeeps, CtlQuitKeeps, CtlDoneKeeps
  DEF CfDaemonStep
<1>2. CASE CfTray
  BY <1>2, TrayToggleKeeps, TrayOpenConfigKeeps, TrayReconnectKeeps, TrayStopKeeps DEF CfTray
<1>3. CASE CfOverlayStep
  BY <1>3, StartLoadKeeps, StartSyncKeeps, WatchConfigKeeps, LoadConfigKeeps DEF CfOverlayStep
<1>4. CASE \E c \in CfClients, cmd \in CfCommands : CtlAsks(c, cmd)
  BY <1>4, CtlAsksKeeps
<1>5. CASE \E t \in CfTexts : UserEdits(t)
  <2>1. CfTexts \subseteq CfContents
    BY CfAssumption DEF CfContents
  <2> QED BY <1>5, <2>1, UserChangesKeeps DEF UserEdits
<1>6. CASE UserDeletes \/ UserRemoves
  BY <1>6, UserChangesKeeps DEF UserDeletes, UserRemoves
<1>8. CASE UserEmpties
  BY <1>8, UserEmptiesKeeps
<1>7. CASE UNCHANGED cfVars
  BY <1>7, CfStutterKeeps
<1> QED BY <1>1, <1>2, <1>3, <1>4, <1>5, <1>6, <1>7, <1>8 DEF CfNext

LEMMA CfAlways == CfSpec => []CfInv
<1>1. CfInit => CfInv
  BY CfInitInv
<1>2. CfInv /\ [CfNext]_cfVars => CfInv'
  BY CfNextInv
<1> QED BY <1>1, <1>2, PTL DEF CfSpec

(* The parties, their watchers, the save and the clients keep their types   *)
(* whatever the order of edits, saves and commands.                        *)
THEOREM CfTypeCorrect == CfSpec => []CfTypeOK
<1>1. CfInv => CfTypeOK
  BY DEF CfInv
<1> QED BY <1>1, CfAlways, PTL

(* A daemon or an overlay at rest that works with something else than the   *)
(* file says has an event waiting or an old signature, for every number of  *)
(* edits, clients and texts: no order of a save's steps, of edits and of    *)
(* watches attached, lost and attached again swallows a change.            *)
THEOREM StaleStaysPending == CfSpec => []StaleIsPending
<1>1. CfInv => StaleIsPending
  <2> SUFFICES ASSUME CfInv, NEW p \in CfParties \ cfExcused, ~Busy(p),
                      ~(p = "daemon" /\ cfReload), ~Pending(p)
               PROVE  Agrees(p)
    BY DEF StaleIsPending, Pending
  <2>1. cfPc[p] \in {"tray", "watch", "ctl"}
    BY DEF CfInv, CfTypeOK, CfPlaces, Busy
  <2>2. cfMem[p] = LoadedBy(p, cfFile)
    BY <2>1 DEF CfInv, MemInv
  <2>3. p = "daemon" => cfProfile = ProfileChat(cfFile)
    BY <2>1 DEF CfInv, ProfileInv
  <2> QED BY <2>2, <2>3 DEF Agrees
<1> QED BY <1>1, CfAlways, PTL
=============================================================================
