------------------------------- MODULE MountHost -------------------------------
(***************************************************************************)
(* The mount host of crates/orisyvra-volume/src/bin/orisyvra-volume-mount  *)
(* for one registered entry: the processes that run-entry starts, the      *)
(* thread inside one that watches for the stop marker, the GUI that writes *)
(* the marker, and Windows, which mounts the filesystem, hands out drive   *)
(* letters and can lose a process or the machine at any time.              *)
(*                                                                         *)
(* The volume is reduced to its clean flag (Volume.tla shows that the flag *)
(* is durable) and to the state of the filesystem inside it.  At most one  *)
(* host holds the volume file, which is opened without sharing; the        *)
(* statics of that process are the variables of a session.                 *)
(***************************************************************************)
EXTENDS Naturals, FiniteSets

CONSTANTS
    Hosts,      \* processes that may run "run-entry" for the entry
    Letters,    \* drive letters, numbers so that they are ordered
    Preferred,  \* the entry's preferred letter, or None
    FaultSets,  \* what may go wrong together, subsets of AllFaults
    ConsoleSets \* which hosts run "mount" at a console instead, sets of Hosts

None == 0
NoHost == "nobody"

\* "crash" ends a host process anywhere; "ctrl_c" is a console event; "unlock",
\* "unit", "mark_dirty", "dispatcher", "state" and "sync" are errors of those
\* steps; "refused" is Windows declining a dismount; "slow_letter" a volume
\* that is exposed before it has a letter; "letter_timeout" one that is not
\* found in time; "other" a second drive that holds a letter throughout, and
\* "arrival" one that may come at any time.
AllFaults == {"crash", "ctrl_c", "unlock", "unit", "mark_dirty", "dispatcher",
              "state", "sync", "refused", "slow_letter", "letter_timeout",
              "other", "arrival"}

Drives == {"ours", "other"}

ASSUME HostAssumption ==
    /\ Letters \subseteq Nat \ {None}
    /\ IsFiniteSet(Letters)
    /\ Preferred \in Letters \cup {None}
    /\ NoHost \notin Hosts
    /\ FaultSets \subseteq SUBSET AllFaults
    /\ ConsoleSets \subseteq SUBSET Hosts

VARIABLES
    pc,         \* where each host process is; "idle" when it does not run
    mutex,      \* holder of Local\OrIsyVra-Volume-<id>
    file,       \* holder of the volume file, opened without sharing
    stateFile,  \* <id>.mounted exists
    stopFile,   \* <id>.stop exists
    flag,       \* the volume's clean flag on disk
    fs,         \* filesystem inside: properly dismounted, in use, or cut off
    unit,       \* the WinSpd storage unit
    attached,   \* ACTIVE_STORAGE_UNIT is set and the context is in the map
    safe,       \* SAFE_SHUTDOWN
    letter,     \* ACTIVE_DRIVE_LETTER
    before,     \* the mountvol snapshot taken before the unit was created
    found,      \* the drive move_new_volume_to_preferred_letter works on
    target,     \* the letter safely_dismount_active works on, or None
    stopper,    \* where the stop-watch thread is
    present,    \* drives Windows lists
    mounts,     \* their letters
    offline,    \* our volume was taken offline by mountvol /P
    gui,        \* what the GUI saw when it last looked, until it acts
    faults,     \* what may go wrong in this behaviour
    console     \* the hosts that a user started with "mount"

markers == <<stateFile, stopFile>>
volume == <<flag, fs>>
session == <<attached, safe, letter, before, found, target>>
windows == <<present, mounts, offline>>
given == <<faults, console>>
outside == <<gui, given>>
vars == <<pc, mutex, file, markers, volume, unit, session, stopper, windows,
          outside>>

HostPCs == {"idle", "started", "locked", "cleared", "opened", "ready", "created",
            "marked", "attach", "look", "assign", "verify", "announce", "wait",
            "close", "delete", "leave"}
StopPCs == {"none", "poll", "dismount", "sync", "remove", "vouch", "shutdown",
            "retry", "end"}

\* A drive letter can be given out when no drive has it.
Free(l) == \A d \in present : l \notin mounts[d]

Snapshot == [present |-> present, mounts |-> mounts]

TypeOK ==
    /\ pc \in [Hosts -> HostPCs]
    /\ mutex \in Hosts \cup {NoHost}
    /\ file \in Hosts \cup {NoHost}
    /\ stateFile \in BOOLEAN /\ stopFile \in BOOLEAN
    /\ flag \in {"clean", "dirty"}
    /\ fs \in {"dismounted", "live", "cut_off"}
    /\ unit \in {"none", "created", "running", "stopped"}
    /\ attached \in BOOLEAN /\ safe \in BOOLEAN
    /\ letter \in Letters \cup {None}
    /\ before \in [present : SUBSET Drives, mounts : [Drives -> SUBSET Letters]]
    /\ found \in Drives \cup {"nothing"}
    /\ target \in Letters \cup {None}
    /\ stopper \in StopPCs
    /\ present \in SUBSET Drives
    /\ mounts \in [Drives -> SUBSET Letters]
    /\ offline \in BOOLEAN
    /\ gui \in {"away", "connected", "disconnected"}
    /\ faults \in FaultSets /\ console \in ConsoleSets

\* The other drive, when the run has one from the start, sits on the
\* preferred letter.
Init ==
    /\ pc = [h \in Hosts |-> "idle"]
    /\ mutex = NoHost /\ file = NoHost
    /\ stateFile = FALSE /\ stopFile = FALSE
    /\ flag = "clean" /\ fs = "dismounted"
    /\ unit = "none"
    /\ attached = FALSE /\ safe = FALSE /\ letter = None
    /\ faults \in FaultSets /\ console \in ConsoleSets
    /\ present = IF "other" \in faults THEN {"other"} ELSE {}
    /\ mounts = [d \in Drives |->
                    IF d = "other" /\ "other" \in faults THEN {Preferred} \ {None}
                                                        ELSE {}]
    /\ before = Snapshot
    /\ found = "nothing"
    /\ stopper = "none" /\ target = None
    /\ offline = FALSE
    /\ gui = "away"

-----------------------------------------------------------------------------
(* Windows and WinSpd *)

\* The unit goes away under the filesystem: whatever was cached is lost.
CutOff(u) ==
    /\ unit' = u
    /\ fs' = IF fs = "live" THEN "cut_off" ELSE fs
    /\ present' = present \ {"ours"}
    /\ mounts' = [mounts EXCEPT !["ours"] = {}]
    /\ offline' = FALSE

\* SpdStorageUnitShutdown; without a running dispatcher it only marks the end.
Shutdown ==
    IF attached /\ unit \in {"created", "running"} THEN CutOff("stopped")
    ELSE UNCHANGED <<unit, fs, windows>>

\* The volume appears with the first letter Windows finds, or without one yet.
Expose ==
    /\ unit = "running" /\ "ours" \notin present
    /\ present' = present \cup {"ours"}
    /\ \/ \E l \in Letters : Free(l) /\ mounts' = [mounts EXCEPT !["ours"] = {l}]
       \/ "slow_letter" \in faults /\ UNCHANGED mounts
    /\ UNCHANGED <<pc, mutex, file, markers, volume, unit, session, stopper,
                   offline, outside>>

GiveLetter ==
    /\ "ours" \in present /\ mounts["ours"] = {} /\ ~offline
    /\ \E l \in Letters : Free(l) /\ mounts' = [mounts EXCEPT !["ours"] = {l}]
    /\ UNCHANGED <<pc, mutex, file, markers, volume, unit, session, stopper,
                   present, offline, outside>>

\* A program opens a file on the volume: the filesystem is in use.
UseFilesystem ==
    /\ "ours" \in present /\ mounts["ours"] # {} /\ ~offline
    /\ fs # "live"
    /\ fs' = "live"
    /\ UNCHANGED <<pc, mutex, file, markers, flag, unit, session, stopper,
                   windows, outside>>

OtherArrives ==
    /\ "arrival" \in faults /\ "other" \notin present
    /\ present' = present \cup {"other"}
    /\ \E l \in Letters : Free(l) /\ mounts' = [mounts EXCEPT !["other"] = {l}]
    /\ UNCHANGED <<pc, mutex, file, markers, volume, unit, session, stopper,
                   offline, outside>>

OtherLeaves ==
    /\ "arrival" \in faults /\ "other" \in present
    /\ present' = present \ {"other"}
    /\ mounts' = [mounts EXCEPT !["other"] = {}]
    /\ UNCHANGED <<pc, mutex, file, markers, volume, unit, session, stopper,
                   offline, outside>>

\* mountvol <letter>: /P on the drive that has the letter flushes, dismounts
\* and takes it offline.
DismountLetter(l) ==
    \E d \in present :
        /\ l \in mounts[d]
        /\ mounts' = [mounts EXCEPT ![d] = {}]
        /\ IF d = "ours" THEN fs' = "dismounted" /\ offline' = TRUE
                         ELSE UNCHANGED <<fs, offline>>
        /\ UNCHANGED present

Windows == Expose \/ GiveLetter \/ UseFilesystem \/ OtherArrives \/ OtherLeaves

-----------------------------------------------------------------------------
(* run_entry and mount_volume_with_master *)

\* The logon task, the GUI or a user starts the task; a second instance too.
Launch(h) ==
    /\ pc[h] = "idle" /\ h \notin console
    /\ pc' = [pc EXCEPT ![h] = "started"]
    /\ UNCHANGED <<mutex, file, markers, volume, unit, session, stopper, windows, outside>>

\* "mount" at a console takes no mutex and knows of no markers and no letter;
\* with --init-mbr it opens the volume, is refused and ends, as after an error.
LaunchMount(h) ==
    /\ pc[h] = "idle" /\ h \in console
    /\ pc' = [pc EXCEPT ![h] = "cleared"]
    /\ UNCHANGED <<mutex, file, markers, volume, unit, session, stopper, windows, outside>>

\* A process ends: what it held is released, its unit and threads are gone.
Gone(h) ==
    /\ pc' = [pc EXCEPT ![h] = "idle"]
    /\ mutex' = IF mutex = h THEN NoHost ELSE mutex
    /\ file' = IF file = h THEN NoHost ELSE file
    /\ IF file = h
       THEN /\ attached' = FALSE /\ safe' = FALSE /\ letter' = None
            /\ found' = "nothing" /\ stopper' = "none" /\ target' = None
       ELSE UNCHANGED <<attached, safe, letter, found, stopper, target>>
    /\ UNCHANGED before

\* It ends by itself while no filesystem is exposed.
Quit(h) ==
    /\ Gone(h)
    /\ unit' = IF file = h THEN "none" ELSE unit
    /\ UNCHANGED <<fs, windows, outside>>

\* Mutant: the mutex is not looked at.
AcquireMutexAlways(h) ==
    /\ pc[h] = "started"
    /\ mutex' = h
    /\ pc' = [pc EXCEPT ![h] = "locked"]
    /\ UNCHANGED <<file, markers, volume, unit, session, stopper, windows, outside>>

\* A second instance returns Ok at once.
AcquireMutex(h) ==
    /\ pc[h] = "started"
    /\ IF mutex = NoHost
       THEN /\ mutex' = h
            /\ pc' = [pc EXCEPT ![h] = "locked"]
            /\ UNCHANGED <<file, markers, volume, unit, session, stopper, windows, outside>>
       ELSE Quit(h) /\ UNCHANGED <<markers, flag>>

ClearStaleState(h) ==
    /\ pc[h] = "locked"
    /\ stateFile' = FALSE
    /\ pc' = [pc EXCEPT ![h] = "cleared"]
    /\ UNCHANGED <<mutex, file, stopFile, volume, unit, session, stopper, windows, outside>>

\* unlock_entry_master, then Volume::open, which fails when the file is open.
OpenVolume(h) ==
    /\ pc[h] = "cleared"
    /\ \/ /\ file = NoHost
          /\ file' = h
          /\ pc' = [pc EXCEPT ![h] = "opened"]
          /\ UNCHANGED <<mutex, markers, volume, unit, session, stopper, windows, outside>>
       \/ /\ file # NoHost \/ "unlock" \in faults
          /\ Quit(h)
          /\ UNCHANGED <<markers, flag>>

ClearMarkers(h) ==
    /\ pc[h] = "opened"
    /\ IF h \in console THEN UNCHANGED markers ELSE stateFile' = FALSE /\ stopFile' = FALSE
    /\ pc' = [pc EXCEPT ![h] = "ready"]
    /\ UNCHANGED <<mutex, file, volume, unit, session, stopper, windows, outside>>

CreateUnit(h) ==
    /\ pc[h] = "ready"
    /\ \/ /\ before' = Snapshot
          /\ unit' = "created"
          /\ pc' = [pc EXCEPT ![h] = "created"]
          /\ UNCHANGED <<mutex, file, markers, volume, attached, safe, letter,
                         found, target, stopper, windows, outside>>
       \/ "unit" \in faults /\ Quit(h) /\ UNCHANGED <<markers, flag>>

MarkDirty(h) ==
    /\ pc[h] = "created"
    /\ \/ /\ flag' = "dirty"
          /\ pc' = [pc EXCEPT ![h] = "marked"]
          /\ UNCHANGED <<mutex, file, markers, fs, unit, session, stopper, windows, outside>>
       \/ "mark_dirty" \in faults /\ Quit(h) /\ UNCHANGED <<markers, flag>>

\* SAFE_SHUTDOWN, the letter, the context map and ACTIVE_STORAGE_UNIT; from
\* here on a console event can shut the unit down.
Attach(h) ==
    /\ pc[h] = "marked"
    /\ safe' = FALSE
    /\ letter' = None
    /\ attached' = TRUE
    /\ pc' = [pc EXCEPT ![h] = "attach"]
    /\ UNCHANGED <<mutex, file, markers, volume, unit, before, found, target,
                   stopper, windows, outside>>

\* A unit that was shut down before it started never runs.
StartDispatcher(h) ==
    /\ pc[h] = "attach"
    /\ unit' = IF unit = "created" THEN "running" ELSE unit
    /\ pc' = [pc EXCEPT ![h] = "look"]
    /\ UNCHANGED <<mutex, file, markers, volume, session, stopper, windows, outside>>

\* The error path marks the volume clean again before it deletes the unit.
DispatcherFails(h) ==
    /\ "dispatcher" \in faults
    /\ pc[h] = "attach"
    /\ flag' = "clean"
    /\ Quit(h)
    /\ UNCHANGED markers

-----------------------------------------------------------------------------
(* move_new_volume_to_preferred_letter *)

\* changed_volume: the drives that are new, or whose letters differ.
Changed ==
    {d \in present : d \notin before.present \/ mounts[d] # before.mounts[d]}

\* Mutant: the letter after the smallest.
FallbackOffByOne(d) ==
    IF mounts[d] = {} THEN None
    ELSE 1 + CHOOSE l \in mounts[d] : \A m \in mounts[d] : l <= m

\* The smallest letter of the drive, or none: what the search falls back to.
Fallback(d) ==
    IF mounts[d] = {} THEN None
    ELSE CHOOSE l \in mounts[d] : \A m \in mounts[d] : l <= m

Settle(h, l) ==
    /\ letter' = l
    /\ pc' = [pc EXCEPT ![h] = "announce"]

LookForVolume(h) ==
    /\ pc[h] = "look"
    /\ Cardinality(Changed) = 1
    /\ \E d \in Changed :
          LET fallback == IF mounts[d] = {} THEN letter ELSE Fallback(d)
          IN  /\ found' = d
              /\ IF Preferred = None \/ h \in console THEN Settle(h, fallback)
                 ELSE IF Preferred \in mounts[d] THEN Settle(h, Preferred)
                 ELSE IF ~Free(Preferred) THEN Settle(h, fallback)
                 ELSE letter' = fallback /\ pc' = [pc EXCEPT ![h] = "assign"]
    /\ UNCHANGED <<mutex, file, markers, volume, unit, attached, safe, before,
                   target, stopper, windows, outside>>

\* Two drives changed, or none, for all 120 looks.
LookTimesOut(h) ==
    /\ "letter_timeout" \in faults \/ unit = "stopped" \/ Cardinality(Changed) > 1
    /\ pc[h] = "look"
    /\ pc' = [pc EXCEPT ![h] = "announce"]
    /\ UNCHANGED <<mutex, file, markers, volume, unit, session, stopper, windows, outside>>

\* mountvol <preferred>: <guid>, refused when the drive or the letter is gone.
AssignPreferred(h) ==
    /\ pc[h] = "assign"
    /\ IF found \in present /\ Free(Preferred)
       THEN /\ mounts' = [mounts EXCEPT ![found] = @ \cup {Preferred}]
            /\ pc' = [pc EXCEPT ![h] = "verify"]
       ELSE pc' = [pc EXCEPT ![h] = "announce"] /\ UNCHANGED mounts
    /\ UNCHANGED <<mutex, file, markers, volume, unit, session, stopper, present,
                   offline, outside>>

\* The preferred letter is confirmed and the others are removed; or it is not
\* seen in twenty looks and the fallback stays.
VerifyPreferred(h) ==
    /\ pc[h] = "verify"
    /\ IF found \in present /\ Preferred \in mounts[found]
       THEN /\ mounts' = [mounts EXCEPT ![found] = {Preferred}]
            /\ Settle(h, Preferred)
       ELSE pc' = [pc EXCEPT ![h] = "announce"] /\ UNCHANGED <<letter, mounts>>
    /\ UNCHANGED <<mutex, file, markers, volume, unit, attached, safe, before,
                   found, target, stopper, present, offline, outside>>

-----------------------------------------------------------------------------
(* Running and tearing down *)

\* The state file appears and the stop-watch thread starts.
Announce(h) ==
    /\ pc[h] = "announce"
    /\ IF h \in console THEN UNCHANGED <<stateFile, stopper>>
                         ELSE stateFile' = TRUE /\ stopper' = "poll"
    /\ pc' = [pc EXCEPT ![h] = "wait"]
    /\ UNCHANGED <<mutex, file, stopFile, volume, unit, session, windows, outside>>

\* An error while writing it ends the process, and the running unit with it.
AnnounceFails(h) ==
    /\ "state" \in faults
    /\ pc[h] = "announce" /\ h \notin console
    /\ Gone(h)
    /\ CutOff("none")
    /\ stateFile' \in BOOLEAN
    /\ UNCHANGED <<stopFile, flag, outside>>

\* wait_dispatcher returned: the statics are reset, the context removed.
WaitDone(h) ==
    /\ pc[h] = "wait" /\ unit = "stopped"
    /\ attached' = FALSE
    /\ letter' = None
    /\ pc' = [pc EXCEPT ![h] = "close"]
    /\ UNCHANGED <<mutex, file, markers, volume, unit, safe, before, found,
                   target, stopper, windows, outside>>

\* Mutant: the volume is marked clean however the dispatcher ended.
CloseVolumeAlwaysClean(h) ==
    /\ pc[h] = "close"
    /\ flag' = "clean"
    /\ pc' = [pc EXCEPT ![h] = "delete"]
    /\ UNCHANGED <<mutex, file, markers, fs, unit, session, stopper, windows, outside>>

\* sync, then mark_clean when the stop thread vouched for it; its error is
\* ignored.
CloseVolume(h) ==
    /\ pc[h] = "close"
    /\ IF safe THEN flag' \in {"clean"} \cup (IF "sync" \in faults THEN {flag} ELSE {})
               ELSE UNCHANGED flag
    /\ pc' = [pc EXCEPT ![h] = "delete"]
    /\ UNCHANGED <<mutex, file, markers, fs, unit, session, stopper, windows, outside>>

\* Mutant: the state file is left behind.
DeleteUnitKeepsState(h) ==
    /\ pc[h] = "delete"
    /\ unit' = "none"
    /\ pc' = [pc EXCEPT ![h] = "leave"]
    /\ UNCHANGED <<mutex, file, markers, volume, session, stopper, windows, outside>>

DeleteUnit(h) ==
    /\ pc[h] = "delete"
    /\ unit' = "none"
    /\ stateFile' = (stateFile /\ h \in console)
    /\ pc' = [pc EXCEPT ![h] = "leave"]
    /\ UNCHANGED <<mutex, file, stopFile, volume, session, stopper, windows, outside>>

\* The stop marker goes, the process ends.
Leave(h) ==
    /\ pc[h] = "leave"
    /\ stopFile' = (stopFile /\ h \in console)
    /\ Quit(h)
    /\ UNCHANGED <<stateFile, flag>>

Step(h) ==
    \/ AcquireMutex(h) \/ ClearStaleState(h) \/ OpenVolume(h) \/ ClearMarkers(h)
    \/ CreateUnit(h) \/ MarkDirty(h) \/ Attach(h)
    \/ StartDispatcher(h) \/ DispatcherFails(h)
    \/ LookForVolume(h) \/ LookTimesOut(h) \/ AssignPreferred(h) \/ VerifyPreferred(h)
    \/ Announce(h) \/ AnnounceFails(h)
    \/ WaitDone(h) \/ CloseVolume(h) \/ DeleteUnit(h) \/ Leave(h)

\* The process is killed, or the machine goes down under it.
Crash(h) ==
    /\ "crash" \in faults
    /\ pc[h] # "idle"
    /\ Gone(h)
    /\ IF file = h THEN CutOff("none") ELSE UNCHANGED <<unit, fs, windows>>
    /\ UNCHANGED <<markers, flag, outside>>

\* console_ctrl_handler
ConsoleEvent ==
    /\ "ctrl_c" \in faults
    /\ attached
    /\ Shutdown
    /\ UNCHANGED <<pc, mutex, file, markers, flag, session, stopper, outside>>

-----------------------------------------------------------------------------
(* The stop-watch thread *)

\* Mutant: the preferred letter wins over the active one.
TargetPreferredFirst == IF Preferred # None THEN Preferred ELSE letter

\* The letter safely_dismount_active works on: the active one, or else the
\* preferred one.
Target == IF letter # None THEN letter ELSE Preferred

\* The letter is read once, before the ten calls of mountvol.
StopPoll ==
    /\ stopper = "poll"
    /\ \/ stopFile /\ stopper' = "dismount" /\ target' = Target
       \/ ~stopFile /\ ~attached /\ stopper' = "end" /\ UNCHANGED target
    /\ UNCHANGED <<pc, mutex, file, markers, volume, unit, attached, safe, letter,
                   before, found, windows, outside>>

Dismounted(next) ==
    /\ stopper' = next
    /\ target' = None
    /\ UNCHANGED <<pc, mutex, file, markers, flag, unit, attached, safe, letter,
                   before, found, outside>>

\* One of the ten calls of mountvol /P succeeds.
StopDismount ==
    /\ stopper = "dismount"
    /\ DismountLetter(target)
    /\ Dismounted("sync")

\* No letter, nothing there, or Windows refuses.
StopDismountFails ==
    /\ stopper = "dismount"
    /\ "refused" \in faults \/ \A d \in present : target \notin mounts[d]
    /\ Dismounted("retry")
    /\ UNCHANGED <<fs, windows>>

\* sync_active_volume needs the context, which the main thread may have removed.
StopSync ==
    /\ stopper = "sync"
    /\ attached
    /\ stopper' = "remove"
    /\ UNCHANGED <<pc, mutex, file, markers, volume, unit, session, windows, outside>>

StopSyncFails ==
    /\ stopper = "sync"
    /\ ~attached \/ "sync" \in faults
    /\ stopper' = "retry"
    /\ UNCHANGED <<pc, mutex, file, markers, volume, unit, session, windows, outside>>

\* After an error the thread waits a second and looks at the unit again.
StopRetry ==
    /\ stopper = "retry"
    /\ stopper' = IF attached THEN "poll" ELSE "end"
    /\ UNCHANGED <<pc, mutex, file, markers, volume, unit, session, windows, outside>>

StopRemove ==
    /\ stopper = "remove"
    /\ stopFile' = FALSE
    /\ stopper' = "vouch"
    /\ UNCHANGED <<pc, mutex, file, stateFile, volume, unit, session, windows, outside>>

StopVouch ==
    /\ stopper = "vouch"
    /\ safe' = TRUE
    /\ stopper' = "shutdown"
    /\ UNCHANGED <<pc, mutex, file, markers, volume, unit, attached, letter,
                   before, found, target, windows, outside>>

\* Mutant: the thread ends without the shutdown.
StopShutdownForgotten ==
    /\ stopper = "shutdown"
    /\ stopper' = "end"
    /\ UNCHANGED <<pc, mutex, file, markers, volume, unit, session, windows, outside>>

StopShutdown ==
    /\ stopper = "shutdown"
    /\ Shutdown
    /\ stopper' = "end"
    /\ UNCHANGED <<pc, mutex, file, markers, flag, session, outside>>

Stopper ==
    \/ StopPoll \/ StopDismount \/ StopDismountFails \/ StopSync \/ StopSyncFails
    \/ StopRetry \/ StopRemove \/ StopVouch \/ StopShutdown

-----------------------------------------------------------------------------
(* The GUI *)

\* entry_is_mounted: the host writes no pid= line, so the file alone decides.
GuiLook ==
    /\ gui = "away"
    /\ gui' = IF stateFile THEN "connected" ELSE "disconnected"
    /\ UNCHANGED <<pc, mutex, file, markers, volume, unit, session, stopper,
                   windows, given>>

\* unmount_entry, offered to an entry shown as connected.
GuiDisconnect ==
    /\ gui = "connected"
    /\ stopFile' = TRUE
    /\ gui' = "away"
    /\ UNCHANGED <<pc, mutex, file, stateFile, volume, unit, session, stopper,
                   windows, given>>

GuiDone ==
    /\ gui # "away"
    /\ gui' = "away"
    /\ UNCHANGED <<pc, mutex, file, markers, volume, unit, session, stopper,
                   windows, given>>

Gui == GuiLook \/ GuiDisconnect \/ GuiDone

Next ==
    \/ \E h \in Hosts : Launch(h) \/ LaunchMount(h) \/ Step(h) \/ Crash(h)
    \/ ConsoleEvent
    \/ Stopper
    \/ Windows
    \/ Gui

Spec == Init /\ [][Next]_vars

\* The threads of a process are scheduled; Windows exposes a running unit; and
\* a dismount that could succeed again and again finally does (the user closes
\* the files that keep the volume busy).
Fairness ==
    /\ \A h \in Hosts : WF_vars(Step(h))
    /\ WF_vars(Stopper)
    /\ SF_vars(StopDismount)
    /\ WF_vars(Expose)
    /\ WF_vars(GiveLetter)

FairSpec == Spec /\ Fairness

-----------------------------------------------------------------------------
(* Properties *)

\* "A clean flag is written only after the safe path completes": whatever a
\* stop request, a console event, a crash or an error interleave, a volume marked
\* clean holds no filesystem that was cut off or is in use.
CleanOnlyAfterSafePath == flag = "clean" => fs = "dismounted"

\* It does, but for a dispatcher that does not start (findings) and another
\* drive taken for ours, whatever else goes wrong.
CleanMeansDismounted ==
    faults \cap {"dispatcher", "other", "arrival"} = {} => CleanOnlyAfterSafePath

\* While an entry's session runs its state file exists, so that the GUI offers
\* to end it and not to start another: no second host and no console removes it.
Sessions == {h \in Hosts \ console : pc[h] = "wait"}
SessionIsShown == Sessions # {} => stateFile

\* The GUI shows an entry as connected only while a host runs for it, as long
\* as no host is killed or fails to write the state file.
ShowsLiveHost ==
    [][gui # "connected" /\ gui' = "connected" /\ faults \cap {"crash", "state"} = {} =>
          \E h \in Hosts \ console : pc[h] # "idle"]_vars

\* "An occupied preferred letter is left unchanged", for the whole session: a
\* host gives, takes and dismounts no letter of another drive.  The code has
\* three ways round it, and no other: the drive was taken for ours; at a
\* dismount, our drive has no letter left, so that another can have it or the
\* preferred one is dismounted in its stead; or the host never learned ours.
HostActs == (\E h \in Hosts : Step(h)) \/ Stopper
NeverLearned == letter = None /\ (found = "nothing" \/ "slow_letter" \in faults)
OthersUntouched ==
    [][HostActs /\ mounts'["other"] # mounts["other"] =>
          \/ found = "other"
          \/ StopDismount /\ (mounts["ours"] = {} \/ NeverLearned)]_vars

\* A stop request on a running session whose volume was found with its letter
\* ends it: the unit is deleted, whatever polls, refusals, console events and
\* drives come between.
Stopping == stopFile /\ found = "ours" /\ Sessions # {}
Stoppable == faults \cap {"sync", "slow_letter"} = {}
StopDetaches == Stoppable /\ Stopping ~> unit = "none"

=============================================================================
