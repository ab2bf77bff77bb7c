---------------------------- MODULE MountHostProofs ----------------------------
(***************************************************************************)
(* Proofs about MountHost, for any hosts and consoles, any letters and any *)
(* combination of faults: type correctness, what the clean flag means,     *)
(* that a session is shown, that what is shown as connected is one, that   *)
(* the letters of other drives stay, and that a stop request and the       *)
(* thread that waits for it are not lost.                                  *)
(***************************************************************************)
EXTENDS MountHost, NaturalsInduction, WellFoundedInduction, TLAPS

\* Type correctness in three parts.
ProcessType ==
    /\ pc \in [Hosts -> HostPCs]
    /\ mutex \in Hosts \cup {NoHost} /\ file \in Hosts \cup {NoHost}
    /\ faults \in FaultSets /\ console \in ConsoleSets

SessionType ==
    /\ stateFile \in BOOLEAN /\ stopFile \in BOOLEAN
    /\ flag \in {"clean", "dirty"} /\ fs \in {"dismounted", "live", "cut_off"}
    /\ unit \in {"none", "created", "running", "stopped"}
    /\ attached \in BOOLEAN /\ safe \in BOOLEAN
    /\ stopper \in StopPCs
    /\ gui \in {"away", "connected", "disconnected"}

DriveType ==
    /\ letter \in Letters \cup {None}
    /\ before \in [present : SUBSET Drives, mounts : [Drives -> SUBSET Letters]]
    /\ found \in Drives \cup {"nothing"}
    /\ target \in Letters \cup {None}
    /\ present \in SUBSET Drives
    /\ mounts \in [Drives -> SUBSET Letters]
    /\ offline \in BOOLEAN

\* From when to when a host holds the volume file, and is attached.
Opened == {"opened", "ready", "created", "marked", "attach", "look", "assign", "verify",
           "announce", "wait", "close", "delete", "leave"}
Attached == {"attach", "look", "assign", "verify", "announce", "wait"}
At(steps) == file \in Hosts /\ pc[file] \in steps

\* The file belongs to the host between opening it and its end, the mutex to a
\* host that is no console.
Holds ==
    /\ \A h \in Hosts : pc[h] \in Opened <=> file = h
    /\ \A h \in Hosts \ console : pc[h] \in Opened \cup {"locked", "cleared"} <=> mutex = h
    /\ \A h \in Hosts \cap console : pc[h] \in Opened \cup {"idle", "cleared"} /\ mutex # h
    /\ \A h \in Hosts : pc[h] = "assign" => Preferred # None

\* The unit, the statics and the flag follow the host that holds the file.
UnitFollows ==
    /\ unit = "none" => ~At({"created", "marked", "close", "delete"} \cup Attached)
    /\ unit = "created" => At({"created", "marked", "attach"})
    /\ unit = "running" => At(Attached \ {"attach"})
    /\ unit = "stopped" => At(Attached \cup {"close", "delete"})
    /\ attached <=> At(Attached)
    /\ safe => stopper \in {"shutdown", "end"}
    /\ stopper # "none" => At({"wait", "close", "delete", "leave"})
    /\ At(Attached \cup {"marked"}) => flag = "dirty"

\* Our drive is there while the unit runs; no letter is that of two drives.
DrivesFollow ==
    /\ "ours" \in present => unit = "running"
    /\ \A d \in Drives : d \notin present => mounts[d] = {}
    /\ mounts["ours"] \cap mounts["other"] = {}
    /\ offline => "ours" \in present /\ mounts["ours"] = {} /\ stopper # "none"
    /\ faults \cap {"other", "arrival"} = {} => "other" \notin present

\* What the stop thread relies on from its dismount on: nobody can use the
\* filesystem again.
Vouched ==
    (/\ faults \cap {"other", "arrival"} = {}
     /\ safe \/ stopper \in {"sync", "remove", "vouch"})
    => fs = "dismounted" /\ (offline \/ unit \notin {"created", "running"})

\* A drive that was found to be ours keeps the letter the host knows, and the
\* stop thread dismounts the letter the host knows.
FoundOurs ==
    /\ found = "nothing" => letter = None
    /\ stopper = "dismount" /\ letter # None => target = letter
    /\ found = "ours" /\ letter # None =>
          /\ "ours" \in present /\ ~offline => mounts["ours"] # {}
          /\ mounts["ours"] # {} => letter \in mounts["ours"]
    /\ found # "nothing" =>
          At({"assign", "verify", "announce", "wait", "close", "delete", "leave"})
    /\ found = "ours" => "ours" \in present \/ unit \in {"stopped", "none"}
    /\ "slow_letter" \notin faults =>
          /\ "ours" \in present /\ ~offline => mounts["ours"] # {}
          /\ found = "ours" /\ mounts["ours"] # {} => letter \in mounts["ours"]

\* The state file is there for a session, and without crashes only then.
Shown ==
    faults \cap {"crash", "state"} = {} /\ stateFile =>
        At({"wait", "close", "delete"}) /\ file \notin console

IInv == /\ ProcessType /\ SessionType /\ DriveType /\ Holds /\ UnitFollows /\ DrivesFollow
        /\ Vouched /\ FoundOurs /\ Shown /\ CleanMeansDismounted /\ SessionIsShown

-----------------------------------------------------------------------------
(* Letters *)

\* A drive with letters has a smallest one.
LEMMA SmallestLetter ==
    ASSUME NEW S \in SUBSET Letters, S # {}
    PROVE  \E l \in S : \A m \in S : l =< m
<1>1. S \subseteq Nat
  BY HostAssumption
<1>2. PICK l \in S : \A m \in S : ~(<<m, l>> \in OpToRel(<, Nat))
  BY <1>1, NatLessThanWellFounded, WFMin
<1>3. \A m \in S : ~(m < l)
  BY <1>1, <1>2 DEF OpToRel
<1>4. QED
  BY <1>1, <1>3

\* The letter a drive falls back to is one it is mounted at.
LEMMA FallbackType ==
    ASSUME DriveType, NEW d \in Drives, mounts[d] # {}
    PROVE  Fallback(d) \in mounts[d] /\ Fallback(d) \in Letters
<1>1. mounts[d] \in SUBSET Letters
  BY DEF DriveType
<1>2. \E l \in mounts[d] : \A m \in mounts[d] : l =< m
  BY <1>1, SmallestLetter
<1>3. QED
  BY <1>1, <1>2 DEF Fallback

-----------------------------------------------------------------------------
(* The invariant: the parts, one lemma each *)

\* Type correctness of the processes.
LEMMA ProcessTypeStep ==
    ProcessType /\ [Next]_vars => ProcessType'
<1> SUFFICES ASSUME ProcessType, [Next]_vars PROVE ProcessType'
  OBVIOUS
<1> USE HostAssumption DEF markers, volume, session, windows, given, outside, Gone, Quit, CutOff, Shutdown, Settle,
        ProcessType, HostPCs
<1>1. ASSUME NEW h \in Hosts, Launch(h) PROVE ProcessType'
  BY <1>1 DEF Launch
<1>2. ASSUME NEW h \in Hosts, LaunchMount(h) PROVE ProcessType'
  BY <1>2 DEF LaunchMount
<1>3. ASSUME NEW h \in Hosts, AcquireMutex(h) PROVE ProcessType'
  BY <1>3 DEF AcquireMutex
<1>4. ASSUME NEW h \in Hosts, ClearStaleState(h) PROVE ProcessType'
  BY <1>4 DEF ClearStaleState
<1>5. ASSUME NEW h \in Hosts, OpenVolume(h) PROVE ProcessType'
  BY <1>5 DEF OpenVolume
<1>6. ASSUME NEW h \in Hosts, ClearMarkers(h) PROVE ProcessType'
  BY <1>6 DEF ClearMarkers
<1>7. ASSUME NEW h \in Hosts, CreateUnit(h) PROVE ProcessType'
  BY <1>7 DEF CreateUnit, Snapshot
<1>8. ASSUME NEW h \in Hosts, MarkDirty(h) PROVE ProcessType'
  BY <1>8 DEF MarkDirty
<1>9. ASSUME NEW h \in Hosts, Attach(h) PROVE ProcessType'
  BY <1>9 DEF Attach
<1>10. ASSUME NEW h \in Hosts, StartDispatcher(h) PROVE ProcessType'
  BY <1>10 DEF StartDispatcher
<1>11. ASSUME NEW h \in Hosts, DispatcherFails(h) PROVE ProcessType'
  BY <1>11 DEF DispatcherFails
<1>12. ASSUME NEW h \in Hosts, LookForVolume(h) PROVE ProcessType'
  BY <1>12 DEF LookForVolume
<1>13. ASSUME NEW h \in Hosts, LookTimesOut(h) PROVE ProcessType'
  BY <1>13 DEF LookTimesOut
<1>14. ASSUME NEW h \in Hosts, AssignPreferred(h) PROVE ProcessType'
  BY <1>14 DEF AssignPreferred
<1>15. ASSUME NEW h \in Hosts, VerifyPreferred(h) PROVE ProcessType'
  BY <1>15 DEF VerifyPreferred
<1>16. ASSUME NEW h \in Hosts, Announce(h) PROVE ProcessType'
  BY <1>16 DEF Announce
<1>17. ASSUME NEW h \in Hosts, AnnounceFails(h) PROVE ProcessType'
  BY <1>17 DEF AnnounceFails
<1>18. ASSUME NEW h \in Hosts, WaitDone(h) PROVE ProcessType'
  BY <1>18 DEF WaitDone
<1>19. ASSUME NEW h \in Hosts, CloseVolume(h) PROVE ProcessType'
  BY <1>19 DEF CloseVolume
<1>20. ASSUME NEW h \in Hosts, DeleteUnit(h) PROVE ProcessType'
  BY <1>20 DEF DeleteUnit
<1>21. ASSUME NEW h \in Hosts, Leave(h) PROVE ProcessType'
  BY <1>21 DEF Leave
<1>22. ASSUME NEW h \in Hosts, Crash(h) PROVE ProcessType'
  BY <1>22 DEF Crash
<1>23. CASE ConsoleEvent
  BY <1>23 DEF ConsoleEvent
<1>24. CASE StopPoll
  BY <1>24 DEF StopPoll, Target
<1>25. CASE StopDismount
  BY <1>25 DEF StopDismount, DismountLetter, Dismounted
<1>26. CASE StopDismountFails
  BY <1>26 DEF StopDismountFails, Dismounted
<1>27. CASE StopSync
  BY <1>27 DEF StopSync
<1>28. CASE StopSyncFails
  BY <1>28 DEF StopSyncFails
<1>29. CASE StopRetry
  BY <1>29 DEF StopRetry
<1>30. CASE StopRemove
  BY <1>30 DEF StopRemove
<1>31. CASE StopVouch
  BY <1>31 DEF StopVouch
<1>32. CASE StopShutdown
  BY <1>32 DEF StopShutdown
<1>33. CASE Expose
  BY <1>33 DEF Expose
<1>34. CASE GiveLetter
  BY <1>34 DEF GiveLetter
<1>35. CASE UseFilesystem
  BY <1>35 DEF UseFilesystem
<1>36. CASE OtherArrives
  BY <1>36 DEF OtherArrives
<1>37. CASE OtherLeaves
  BY <1>37 DEF OtherLeaves
<1>38. CASE GuiLook
  BY <1>38 DEF GuiLook
<1>39. CASE GuiDisconnect
  BY <1>39 DEF GuiDisconnect
<1>40. CASE GuiDone
  BY <1>40 DEF GuiDone
<1>41. CASE UNCHANGED vars
  BY <1>41 DEF vars
<1>42. QED
  BY <1>1, <1>2, <1>3, <1>4, <1>5, <1>6, <1>7, <1>8, <1>9, <1>10, <1>11,
     <1>12, <1>13, <1>14, <1>15, <1>16, <1>17, <1>18, <1>19, <1>20, <1>21,
     <1>22, <1>23, <1>24, <1>25, <1>26, <1>27, <1>28, <1>29, <1>30, <1>31,
     <1>32, <1>33, <1>34, <1>35, <1>36, <1>37, <1>38, <1>39, <1>40, <1>41
     DEF Next, Step, Stopper, Windows, Gui

\* The statics after a process ended by itself.
LEMMA QuitType ==
    ASSUME SessionType, NEW h \in Hosts, Quit(h)
    PROVE  /\ attached' \in BOOLEAN /\ safe' \in BOOLEAN
           /\ stopper' \in StopPCs
           /\ unit' \in {"none", "created", "running", "stopped"}
<1>1. attached' \in BOOLEAN
  BY DEF Quit, Gone, SessionType
<1>2. safe' \in BOOLEAN
  BY DEF Quit, Gone, SessionType
<1>3. stopper' \in StopPCs
  BY DEF Quit, Gone, SessionType, StopPCs
<1>4. unit' \in {"none", "created", "running", "stopped"}
  BY DEF Quit, Gone, SessionType
<1>5. QED
  BY <1>1, <1>2, <1>3, <1>4

\* Type correctness of the session.
LEMMA SessionTypeStep ==
    ProcessType /\ SessionType /\ [Next]_vars => SessionType'
<1> SUFFICES ASSUME ProcessType, SessionType, [Next]_vars PROVE SessionType'
  OBVIOUS
<1> USE HostAssumption DEF markers, volume, session, windows, given, outside, Gone, CutOff, Shutdown, Settle,
        SessionType, StopPCs
<1>1. ASSUME NEW h \in Hosts, Launch(h) PROVE SessionType'
  BY <1>1 DEF Launch
<1>2. ASSUME NEW h \in Hosts, LaunchMount(h) PROVE SessionType'
  BY <1>2 DEF LaunchMount
<1>3. ASSUME NEW h \in Hosts, AcquireMutex(h) PROVE SessionType'
  <2>1. UNCHANGED <<stateFile, stopFile, fs, gui>> /\ flag' \in {flag, "dirty"}
    BY <1>3 DEF Quit, AcquireMutex
  <2>2. (unit' \in {unit, "created"} /\ UNCHANGED <<attached, safe, stopper>>) \/ Quit(h)
    BY <1>3 DEF AcquireMutex
  <2>3. CASE Quit(h)
    BY <2>1, <2>3, QuitType
  <2>4. CASE UNCHANGED <<attached, safe, stopper>> /\ unit' \in {unit, "created"}
    BY <2>1, <2>4
  <2>5. QED
    BY <2>1, <2>2, <2>3, <2>4
<1>4. ASSUME NEW h \in Hosts, ClearStaleState(h) PROVE SessionType'
  <2>1. /\ stateFile' = FALSE
        /\ UNCHANGED <<stopFile, flag, fs, unit, attached, safe, stopper, gui>>
    BY <1>4 DEF ClearStaleState
  <2>2. stateFile' \in BOOLEAN
    BY <2>1, Zenon
  <2>3. QED
    BY <2>1, <2>2
<1>5. ASSUME NEW h \in Hosts, OpenVolume(h) PROVE SessionType'
  <2>1. UNCHANGED <<stateFile, stopFile, fs, gui>> /\ flag' \in {flag, "dirty"}
    BY <1>5 DEF Quit, OpenVolume
  <2>2. (unit' \in {unit, "created"} /\ UNCHANGED <<attached, safe, stopper>>) \/ Quit(h)
    BY <1>5 DEF OpenVolume
  <2>3. CASE Quit(h)
    BY <2>1, <2>3, QuitType
  <2>4. CASE UNCHANGED <<attached, safe, stopper>> /\ unit' \in {unit, "created"}
    BY <2>1, <2>4
  <2>5. QED
    BY <2>1, <2>2, <2>3, <2>4
<1>6. ASSUME NEW h \in Hosts, ClearMarkers(h) PROVE SessionType'
  <2>1. UNCHANGED <<flag, fs, unit, attached, safe, stopper, gui>>
    BY <1>6 DEF ClearMarkers
  <2>2. stateFile' \in BOOLEAN /\ stopFile' \in BOOLEAN
    BY <1>6 DEF ClearMarkers
  <2>3. QED
    BY <2>1, <2>2
<1>7. ASSUME NEW h \in Hosts, CreateUnit(h) PROVE SessionType'
  <2>1. UNCHANGED <<stateFile, stopFile, fs, gui>> /\ flag' \in {flag, "dirty"}
    BY <1>7 DEF Quit, CreateUnit
  <2>2. (unit' \in {unit, "created"} /\ UNCHANGED <<attached, safe, stopper>>) \/ Quit(h)
    BY <1>7 DEF CreateUnit
  <2>3. CASE Quit(h)
    BY <2>1, <2>3, QuitType
  <2>4. CASE UNCHANGED <<attached, safe, stopper>> /\ unit' \in {unit, "created"}
    BY <2>1, <2>4
  <2>5. QED
    BY <2>1, <2>2, <2>3, <2>4
<1>8. ASSUME NEW h \in Hosts, MarkDirty(h) PROVE SessionType'
  <2>1. UNCHANGED <<stateFile, stopFile, fs, gui>> /\ flag' \in {flag, "dirty"}
    BY <1>8 DEF Quit, MarkDirty
  <2>2. (unit' \in {unit, "created"} /\ UNCHANGED <<attached, safe, stopper>>) \/ Quit(h)
    BY <1>8 DEF MarkDirty
  <2>3. CASE Quit(h)
    BY <2>1, <2>3, QuitType
  <2>4. CASE UNCHANGED <<attached, safe, stopper>> /\ unit' \in {unit, "created"}
    BY <2>1, <2>4
  <2>5. QED
    BY <2>1, <2>2, <2>3, <2>4
<1>9. ASSUME NEW h \in Hosts, Attach(h) PROVE SessionType'
  <2>1. UNCHANGED <<stateFile, stopFile, flag, fs, unit, stopper, gui>>
    BY <1>9 DEF Attach
  <2>2. attached' = TRUE /\ safe' = FALSE
    BY <1>9 DEF Attach
  <2>3. QED
    BY <2>1, <2>2
<1>10. ASSUME NEW h \in Hosts, StartDispatcher(h) PROVE SessionType'
  BY <1>10 DEF StartDispatcher
<1>11. ASSUME NEW h \in Hosts, DispatcherFails(h) PROVE SessionType'
  <2>1. Quit(h) /\ UNCHANGED <<stateFile, stopFile>> /\ flag' = "clean"
    BY <1>11 DEF DispatcherFails
  <2>2. UNCHANGED <<fs, gui>>
    BY <2>1 DEF Quit
  <2>3. QED
    BY <2>1, <2>2, QuitType
<1>12. ASSUME NEW h \in Hosts, LookForVolume(h) PROVE SessionType'
  BY <1>12 DEF LookForVolume
<1>13. ASSUME NEW h \in Hosts, LookTimesOut(h) PROVE SessionType'
  BY <1>13 DEF LookTimesOut
<1>14. ASSUME NEW h \in Hosts, AssignPreferred(h) PROVE SessionType'
  BY <1>14 DEF AssignPreferred
<1>15. ASSUME NEW h \in Hosts, VerifyPreferred(h) PROVE SessionType'
  BY <1>15 DEF VerifyPreferred
<1>16. ASSUME NEW h \in Hosts, Announce(h) PROVE SessionType'
  <2>1. UNCHANGED <<stopFile, flag, fs, unit, attached, safe, gui>>
    BY <1>16 DEF Announce
  <2>2. stateFile' \in BOOLEAN /\ stopper' \in StopPCs
    BY <1>16 DEF Announce
  <2>3. QED
    BY <2>1, <2>2
<1>17. ASSUME NEW h \in Hosts, AnnounceFails(h) PROVE SessionType'
  BY <1>17 DEF AnnounceFails
<1>18. ASSUME NEW h \in Hosts, WaitDone(h) PROVE SessionType'
  BY <1>18 DEF WaitDone
<1>19. ASSUME NEW h \in Hosts, CloseVolume(h) PROVE SessionType'
  BY <1>19 DEF CloseVolume
<1>20. ASSUME NEW h \in Hosts, DeleteUnit(h) PROVE SessionType'
  BY <1>20 DEF DeleteUnit
<1>21. ASSUME NEW h \in Hosts, Leave(h) PROVE SessionType'
  <2>1. Quit(h) /\ UNCHANGED <<stateFile, flag>>
    BY <1>21 DEF Leave
  <2>2. UNCHANGED <<fs, gui>>
    BY <2>1 DEF Quit
  <2>3. stopFile' \in BOOLEAN
    BY <1>21 DEF Leave
  <2>4. QED
    BY <2>1, <2>2, <2>3, QuitType
<1>22. ASSUME NEW h \in Hosts, Crash(h) PROVE SessionType'
  <2>1. UNCHANGED <<stateFile, stopFile, flag, gui>>
    BY <1>22 DEF Crash
  <2>2. attached' \in BOOLEAN
    BY <1>22 DEF Crash
  <2>3. safe' \in BOOLEAN
    BY <1>22 DEF Crash
  <2>4. stopper' \in StopPCs /\ unit' \in {unit, "none"}
    BY <1>22 DEF Crash
  <2>5. fs' \in {fs, "cut_off"}
    BY <1>22 DEF Crash
  <2>6. QED
    BY <2>1, <2>2, <2>3, <2>4, <2>5
<1>23. CASE ConsoleEvent
  BY <1>23 DEF ConsoleEvent
<1>24. CASE StopPoll
  BY <1>24 DEF StopPoll, Target
<1>25. CASE StopDismount
  BY <1>25 DEF StopDismount, DismountLetter, Dismounted
<1>26. CASE StopDismountFails
  BY <1>26 DEF StopDismountFails, Dismounted
<1>27. CASE StopSync
  BY <1>27 DEF StopSync
<1>28. CASE StopSyncFails
  BY <1>28 DEF StopSyncFails
<1>29. CASE StopRetry
  BY <1>29 DEF StopRetry
<1>30. CASE StopRemove
  BY <1>30 DEF StopRemove
<1>31. CASE StopVouch
  BY <1>31 DEF StopVouch
<1>32. CASE StopShutdown
  BY <1>32 DEF StopShutdown
<1>33. CASE Expose
  BY <1>33 DEF Expose
<1>34. CASE GiveLetter
  BY <1>34 DEF GiveLetter
<1>35. CASE UseFilesystem
  BY <1>35 DEF UseFilesystem
<1>36. CASE OtherArrives
  BY <1>36 DEF OtherArrives
<1>37. CASE OtherLeaves
  BY <1>37 DEF OtherLeaves
<1>38. CASE GuiLook
  BY <1>38 DEF GuiLook
<1>39. CASE GuiDisconnect
  BY <1>39 DEF GuiDisconnect
<1>40. CASE GuiDone
  BY <1>40 DEF GuiDone
<1>41. CASE UNCHANGED vars
  BY <1>41 DEF vars
<1>42. QED
  BY <1>1, <1>2, <1>3, <1>4, <1>5, <1>6, <1>7, <1>8, <1>9, <1>10, <1>11,
     <1>12, <1>13, <1>14, <1>15, <1>16, <1>17, <1>18, <1>19, <1>20, <1>21,
     <1>22, <1>23, <1>24, <1>25, <1>26, <1>27, <1>28, <1>29, <1>30, <1>31,
     <1>32, <1>33, <1>34, <1>35, <1>36, <1>37, <1>38, <1>39, <1>40, <1>41
     DEF Next, Step, Stopper, Windows, Gui

\* Type correctness of the drives and their letters.
LEMMA DriveTypeStep ==
    ProcessType /\ Holds /\ DriveType /\ [Next]_vars => DriveType'
<1> SUFFICES ASSUME ProcessType, Holds, DriveType, [Next]_vars PROVE DriveType'
  OBVIOUS
<1> USE HostAssumption DEF markers, volume, session, windows, given, outside, Gone, Quit, CutOff, Shutdown, Settle,
        DriveType, Drives, None
<1>1. ASSUME NEW h \in Hosts, Launch(h) PROVE DriveType'
  BY <1>1 DEF Launch
<1>2. ASSUME NEW h \in Hosts, LaunchMount(h) PROVE DriveType'
  BY <1>2 DEF LaunchMount
<1>3. ASSUME NEW h \in Hosts, AcquireMutex(h) PROVE DriveType'
  BY <1>3 DEF AcquireMutex
<1>4. ASSUME NEW h \in Hosts, ClearStaleState(h) PROVE DriveType'
  BY <1>4 DEF ClearStaleState
<1>5. ASSUME NEW h \in Hosts, OpenVolume(h) PROVE DriveType'
  BY <1>5 DEF OpenVolume
<1>6. ASSUME NEW h \in Hosts, ClearMarkers(h) PROVE DriveType'
  BY <1>6 DEF ClearMarkers
<1>7. ASSUME NEW h \in Hosts, CreateUnit(h) PROVE DriveType'
  <2>1. Snapshot \in [present : SUBSET Drives, mounts : [Drives -> SUBSET Letters]]
    BY DEF Snapshot
  <2>2. before' \in {before, Snapshot}
    BY <1>7 DEF CreateUnit
  <2>3. UNCHANGED <<present, mounts, offline>> /\ found' \in {found, "nothing"} /\ letter' \in {letter, 0}
    BY <1>7 DEF CreateUnit
  <2>4. QED
    BY <1>7, <2>1, <2>2, <2>3 DEF CreateUnit, Snapshot
<1>8. ASSUME NEW h \in Hosts, MarkDirty(h) PROVE DriveType'
  BY <1>8 DEF MarkDirty
<1>9. ASSUME NEW h \in Hosts, Attach(h) PROVE DriveType'
  BY <1>9 DEF Attach
<1>10. ASSUME NEW h \in Hosts, StartDispatcher(h) PROVE DriveType'
  BY <1>10 DEF StartDispatcher
<1>11. ASSUME NEW h \in Hosts, DispatcherFails(h) PROVE DriveType'
  BY <1>11 DEF DispatcherFails
<1>12. ASSUME NEW h \in Hosts, LookForVolume(h) PROVE DriveType'
  <2>1. PICK d \in present : LET fallback == IF mounts[d] = {} THEN letter ELSE Fallback(d)
        IN  /\ found' = d
            /\ letter' \in {fallback, Preferred}
            /\ letter' = Preferred => Preferred # None \/ fallback = None
    BY <1>12 DEF LookForVolume, Changed
  <2>2. mounts[d] # {} => Fallback(d) \in Letters
    BY FallbackType
  <2>3. UNCHANGED <<before, target, present, mounts, offline>>
    BY <1>12 DEF LookForVolume
  <2>4. letter' \in Letters \cup {None}
    BY <2>1, <2>2
  <2>5. QED
    BY <2>1, <2>2, <2>3, <2>4, <2>1
<1>13. ASSUME NEW h \in Hosts, LookTimesOut(h) PROVE DriveType'
  BY <1>13 DEF LookTimesOut
<1>14. ASSUME NEW h \in Hosts, AssignPreferred(h) PROVE DriveType'
  <2>1. mounts' = mounts \/ (found \in present /\ mounts' = [mounts EXCEPT ![found] = mounts[found] \cup {Preferred}])
    BY <1>14 DEF AssignPreferred
  <2>2. Preferred \in Letters
    BY <1>14 DEF AssignPreferred, Holds
  <2>3. UNCHANGED <<letter, before, found, target, present, offline>>
    BY <1>14 DEF AssignPreferred
  <2>4. QED
    BY <2>1, <2>2, <2>3
<1>15. ASSUME NEW h \in Hosts, VerifyPreferred(h) PROVE DriveType'
  <2>1. UNCHANGED <<before, found, target, present, offline>>
    BY <1>15 DEF VerifyPreferred
  <2>2. CASE found \in present /\ Preferred \in mounts[found]
    <3>1. Preferred \in Letters
      BY <2>2
    <3>2. letter' = Preferred /\ mounts' = [mounts EXCEPT ![found] = {Preferred}]
      BY <1>15, <2>2 DEF VerifyPreferred
    <3>3. QED
      BY <2>1, <3>1, <3>2
  <2>3. CASE ~(found \in present /\ Preferred \in mounts[found])
    BY <1>15, <2>1, <2>3 DEF VerifyPreferred
  <2>4. QED
    BY <2>2, <2>3
<1>16. ASSUME NEW h \in Hosts, Announce(h) PROVE DriveType'
  BY <1>16 DEF Announce
<1>17. ASSUME NEW h \in Hosts, AnnounceFails(h) PROVE DriveType'
  BY <1>17 DEF AnnounceFails
<1>18. ASSUME NEW h \in Hosts, WaitDone(h) PROVE DriveType'
  BY <1>18 DEF WaitDone
<1>19. ASSUME NEW h \in Hosts, CloseVolume(h) PROVE DriveType'
  BY <1>19 DEF CloseVolume
<1>20. ASSUME NEW h \in Hosts, DeleteUnit(h) PROVE DriveType'
  BY <1>20 DEF DeleteUnit
<1>21. ASSUME NEW h \in Hosts, Leave(h) PROVE DriveType'
  BY <1>21 DEF Leave
<1>22. ASSUME NEW h \in Hosts, Crash(h) PROVE DriveType'
  BY <1>22 DEF Crash
<1>23. CASE ConsoleEvent
  BY <1>23 DEF ConsoleEvent
<1>24. CASE StopPoll
  BY <1>24 DEF StopPoll, Target
<1>25. CASE StopDismount
  BY <1>25 DEF StopDismount, DismountLetter, Dismounted
<1>26. CASE StopDismountFails
  BY <1>26 DEF StopDismountFails, Dismounted
<1>27. CASE StopSync
  BY <1>27 DEF StopSync
<1>28. CASE StopSyncFails
  BY <1>28 DEF StopSyncFails
<1>29. CASE StopRetry
  BY <1>29 DEF StopRetry
<1>30. CASE StopRemove
  BY <1>30 DEF StopRemove
<1>31. CASE StopVouch
  BY <1>31 DEF StopVouch
<1>32. CASE StopShutdown
  BY <1>32 DEF StopShutdown
<1>33. CASE Expose
  BY <1>33 DEF Expose
<1>34. CASE GiveLetter
  BY <1>34 DEF GiveLetter
<1>35. CASE UseFilesystem
  BY <1>35 DEF UseFilesystem
<1>36. CASE OtherArrives
  BY <1>36 DEF OtherArrives
<1>37. CASE OtherLeaves
  BY <1>37 DEF OtherLeaves
<1>38. CASE GuiLook
  BY <1>38 DEF GuiLook
<1>39. CASE GuiDisconnect
  BY <1>39 DEF GuiDisconnect
<1>40. CASE GuiDone
  BY <1>40 DEF GuiDone
<1>41. CASE UNCHANGED vars
  BY <1>41 DEF vars
<1>42. QED
  BY <1>1, <1>2, <1>3, <1>4, <1>5, <1>6, <1>7, <1>8, <1>9, <1>10, <1>11,
     <1>12, <1>13, <1>14, <1>15, <1>16, <1>17, <1>18, <1>19, <1>20, <1>21,
     <1>22, <1>23, <1>24, <1>25, <1>26, <1>27, <1>28, <1>29, <1>30, <1>31,
     <1>32, <1>33, <1>34, <1>35, <1>36, <1>37, <1>38, <1>39, <1>40, <1>41
     DEF Next, Step, Stopper, Windows, Gui

\* Who holds the file and the mutex.
LEMMA HoldsStep ==
    ProcessType /\ Holds /\ [Next]_vars => Holds'
<1> SUFFICES ASSUME ProcessType, Holds, [Next]_vars PROVE Holds'
  OBVIOUS
<1> USE HostAssumption DEF markers, volume, session, windows, given, outside, Gone, Quit, CutOff, Shutdown, Settle,
        ProcessType, Holds, Opened
<1>1. ASSUME NEW h \in Hosts, Launch(h) PROVE Holds'
  BY <1>1 DEF Launch
<1>2. ASSUME NEW h \in Hosts, LaunchMount(h) PROVE Holds'
  BY <1>2 DEF LaunchMount
<1>3. ASSUME NEW h \in Hosts, AcquireMutex(h) PROVE Holds'
  BY <1>3 DEF AcquireMutex
<1>4. ASSUME NEW h \in Hosts, ClearStaleState(h) PROVE Holds'
  BY <1>4 DEF ClearStaleState
<1>5. ASSUME NEW h \in Hosts, OpenVolume(h) PROVE Holds'
  BY <1>5 DEF OpenVolume
<1>6. ASSUME NEW h \in Hosts, ClearMarkers(h) PROVE Holds'
  BY <1>6 DEF ClearMarkers
<1>7. ASSUME NEW h \in Hosts, CreateUnit(h) PROVE Holds'
  BY <1>7 DEF CreateUnit, Snapshot
<1>8. ASSUME NEW h \in Hosts, MarkDirty(h) PROVE Holds'
  BY <1>8 DEF MarkDirty
<1>9. ASSUME NEW h \in Hosts, Attach(h) PROVE Holds'
  BY <1>9 DEF Attach
<1>10. ASSUME NEW h \in Hosts, StartDispatcher(h) PROVE Holds'
  BY <1>10 DEF StartDispatcher
<1>11. ASSUME NEW h \in Hosts, DispatcherFails(h) PROVE Holds'
  BY <1>11 DEF DispatcherFails
<1>12. ASSUME NEW h \in Hosts, LookForVolume(h) PROVE Holds'
  BY <1>12 DEF LookForVolume
<1>13. ASSUME NEW h \in Hosts, LookTimesOut(h) PROVE Holds'
  BY <1>13 DEF LookTimesOut
<1>14. ASSUME NEW h \in Hosts, AssignPreferred(h) PROVE Holds'
  BY <1>14 DEF AssignPreferred
<1>15. ASSUME NEW h \in Hosts, VerifyPreferred(h) PROVE Holds'
  BY <1>15 DEF VerifyPreferred
<1>16. ASSUME NEW h \in Hosts, Announce(h) PROVE Holds'
  BY <1>16 DEF Announce
<1>17. ASSUME NEW h \in Hosts, AnnounceFails(h) PROVE Holds'
  BY <1>17 DEF AnnounceFails
<1>18. ASSUME NEW h \in Hosts, WaitDone(h) PROVE Holds'
  BY <1>18 DEF WaitDone
<1>19. ASSUME NEW h \in Hosts, CloseVolume(h) PROVE Holds'
  BY <1>19 DEF CloseVolume
<1>20. ASSUME NEW h \in Hosts, DeleteUnit(h) PROVE Holds'
  BY <1>20 DEF DeleteUnit
<1>21. ASSUME NEW h \in Hosts, Leave(h) PROVE Holds'
  BY <1>21 DEF Leave
<1>22. ASSUME NEW h \in Hosts, Crash(h) PROVE Holds'
  BY <1>22 DEF Crash
<1>23. CASE ConsoleEvent
  BY <1>23 DEF ConsoleEvent
<1>24. CASE StopPoll
  BY <1>24 DEF StopPoll, Target
<1>25. CASE StopDismount
  BY <1>25 DEF StopDismount, DismountLetter, Dismounted
<1>26. CASE StopDismountFails
  BY <1>26 DEF StopDismountFails, Dismounted
<1>27. CASE StopSync
  BY <1>27 DEF StopSync
<1>28. CASE StopSyncFails
  BY <1>28 DEF StopSyncFails
<1>29. CASE StopRetry
  BY <1>29 DEF StopRetry
<1>30. CASE StopRemove
  BY <1>30 DEF StopRemove
<1>31. CASE StopVouch
  BY <1>31 DEF StopVouch
<1>32. CASE StopShutdown
  BY <1>32 DEF StopShutdown
<1>33. CASE Expose
  BY <1>33 DEF Expose
<1>34. CASE GiveLetter
  BY <1>34 DEF GiveLetter
<1>35. CASE UseFilesystem
  BY <1>35 DEF UseFilesystem
<1>36. CASE OtherArrives
  BY <1>36 DEF OtherArrives
<1>37. CASE OtherLeaves
  BY <1>37 DEF OtherLeaves
<1>38. CASE GuiLook
  BY <1>38 DEF GuiLook
<1>39. CASE GuiDisconnect
  BY <1>39 DEF GuiDisconnect
<1>40. CASE GuiDone
  BY <1>40 DEF GuiDone
<1>41. CASE UNCHANGED vars
  BY <1>41 DEF vars
<1>42. QED
  BY <1>1, <1>2, <1>3, <1>4, <1>5, <1>6, <1>7, <1>8, <1>9, <1>10, <1>11,
     <1>12, <1>13, <1>14, <1>15, <1>16, <1>17, <1>18, <1>19, <1>20, <1>21,
     <1>22, <1>23, <1>24, <1>25, <1>26, <1>27, <1>28, <1>29, <1>30, <1>31,
     <1>32, <1>33, <1>34, <1>35, <1>36, <1>37, <1>38, <1>39, <1>40, <1>41
     DEF Next, Step, Stopper, Windows, Gui

\* The unit, the statics and the flag follow the host.
LEMMA UnitFollowsStep ==
    ProcessType /\ SessionType /\ Holds /\ UnitFollows /\ [Next]_vars => UnitFollows'
<1> SUFFICES ASSUME ProcessType, SessionType, Holds, UnitFollows, [Next]_vars PROVE UnitFollows'
  OBVIOUS
<1> USE HostAssumption DEF markers, volume, session, windows, given, outside, Gone, Quit, CutOff, Shutdown, Settle,
        ProcessType, SessionType, Holds, UnitFollows, At, Opened, Attached
<1>1. ASSUME NEW h \in Hosts, Launch(h) PROVE UnitFollows'
  BY <1>1 DEF Launch
<1>2. ASSUME NEW h \in Hosts, LaunchMount(h) PROVE UnitFollows'
  BY <1>2 DEF LaunchMount
<1>3. ASSUME NEW h \in Hosts, AcquireMutex(h) PROVE UnitFollows'
  BY <1>3 DEF AcquireMutex
<1>4. ASSUME NEW h \in Hosts, ClearStaleState(h) PROVE UnitFollows'
  BY <1>4 DEF ClearStaleState
<1>5. ASSUME NEW h \in Hosts, OpenVolume(h) PROVE UnitFollows'
  BY <1>5 DEF OpenVolume
<1>6. ASSUME NEW h \in Hosts, ClearMarkers(h) PROVE UnitFollows'
  BY <1>6 DEF ClearMarkers
<1>7. ASSUME NEW h \in Hosts, CreateUnit(h) PROVE UnitFollows'
  BY <1>7 DEF CreateUnit, Snapshot
<1>8. ASSUME NEW h \in Hosts, MarkDirty(h) PROVE UnitFollows'
  BY <1>8 DEF MarkDirty
<1>9. ASSUME NEW h \in Hosts, Attach(h) PROVE UnitFollows'
  BY <1>9 DEF Attach
<1>10. ASSUME NEW h \in Hosts, StartDispatcher(h) PROVE UnitFollows'
  BY <1>10 DEF StartDispatcher
<1>11. ASSUME NEW h \in Hosts, DispatcherFails(h) PROVE UnitFollows'
  BY <1>11 DEF DispatcherFails
<1>12. ASSUME NEW h \in Hosts, LookForVolume(h) PROVE UnitFollows'
  BY <1>12 DEF LookForVolume
<1>13. ASSUME NEW h \in Hosts, LookTimesOut(h) PROVE UnitFollows'
  BY <1>13 DEF LookTimesOut
<1>14. ASSUME NEW h \in Hosts, AssignPreferred(h) PROVE UnitFollows'
  BY <1>14 DEF AssignPreferred
<1>15. ASSUME NEW h \in Hosts, VerifyPreferred(h) PROVE UnitFollows'
  BY <1>15 DEF VerifyPreferred
<1>16. ASSUME NEW h \in Hosts, Announce(h) PROVE UnitFollows'
  BY <1>16 DEF Announce
<1>17. ASSUME NEW h \in Hosts, AnnounceFails(h) PROVE UnitFollows'
  BY <1>17 DEF AnnounceFails
<1>18. ASSUME NEW h \in Hosts, WaitDone(h) PROVE UnitFollows'
  BY <1>18 DEF WaitDone
<1>19. ASSUME NEW h \in Hosts, CloseVolume(h) PROVE UnitFollows'
  BY <1>19 DEF CloseVolume
<1>20. ASSUME NEW h \in Hosts, DeleteUnit(h) PROVE UnitFollows'
  BY <1>20 DEF DeleteUnit
<1>21. ASSUME NEW h \in Hosts, Leave(h) PROVE UnitFollows'
  BY <1>21 DEF Leave
<1>22. ASSUME NEW h \in Hosts, Crash(h) PROVE UnitFollows'
  BY <1>22 DEF Crash
<1>23. CASE ConsoleEvent
  BY <1>23 DEF ConsoleEvent
<1>24. CASE StopPoll
  BY <1>24 DEF StopPoll, Target
<1>25. CASE StopDismount
  BY <1>25 DEF StopDismount, DismountLetter, Dismounted
<1>26. CASE StopDismountFails
  BY <1>26 DEF StopDismountFails, Dismounted
<1>27. CASE StopSync
  BY <1>27 DEF StopSync
<1>28. CASE StopSyncFails
  BY <1>28 DEF StopSyncFails
<1>29. CASE StopRetry
  BY <1>29 DEF StopRetry
<1>30. CASE StopRemove
  BY <1>30 DEF StopRemove
<1>31. CASE StopVouch
  BY <1>31 DEF StopVouch
<1>32. CASE StopShutdown
  BY <1>32 DEF StopShutdown
<1>33. CASE Expose
  BY <1>33 DEF Expose
<1>34. CASE GiveLetter
  BY <1>34 DEF GiveLetter
<1>35. CASE UseFilesystem
  BY <1>35 DEF UseFilesystem
<1>36. CASE OtherArrives
  BY <1>36 DEF OtherArrives
<1>37. CASE OtherLeaves
  BY <1>37 DEF OtherLeaves
<1>38. CASE GuiLook
  BY <1>38 DEF GuiLook
<1>39. CASE GuiDisconnect
  BY <1>39 DEF GuiDisconnect
<1>40. CASE GuiDone
  BY <1>40 DEF GuiDone
<1>41. CASE UNCHANGED vars
  BY <1>41 DEF vars
<1>42. QED
  BY <1>1, <1>2, <1>3, <1>4, <1>5, <1>6, <1>7, <1>8, <1>9, <1>10, <1>11,
     <1>12, <1>13, <1>14, <1>15, <1>16, <1>17, <1>18, <1>19, <1>20, <1>21,
     <1>22, <1>23, <1>24, <1>25, <1>26, <1>27, <1>28, <1>29, <1>30, <1>31,
     <1>32, <1>33, <1>34, <1>35, <1>36, <1>37, <1>38, <1>39, <1>40, <1>41
     DEF Next, Step, Stopper, Windows, Gui

\* The drives follow the unit, letters stay apart.
LEMMA DrivesFollowStep ==
    ProcessType /\ SessionType /\ DriveType /\ Holds /\ UnitFollows /\ DrivesFollow /\ [Next]_vars => DrivesFollow'
<1> SUFFICES ASSUME ProcessType, SessionType, DriveType, Holds, UnitFollows, DrivesFollow, [Next]_vars PROVE DrivesFollow'
  OBVIOUS
<1> USE HostAssumption DEF markers, volume, session, windows, given, outside, Gone, Quit, CutOff, Shutdown, Settle,
        ProcessType, DriveType, Drives, Holds, UnitFollows, DrivesFollow, At, Opened, Attached, Free
<1>1. ASSUME NEW h \in Hosts, Launch(h) PROVE DrivesFollow'
  BY <1>1 DEF Launch
<1>2. ASSUME NEW h \in Hosts, LaunchMount(h) PROVE DrivesFollow'
  BY <1>2 DEF LaunchMount
<1>3. ASSUME NEW h \in Hosts, AcquireMutex(h) PROVE DrivesFollow'
  BY <1>3 DEF AcquireMutex
<1>4. ASSUME NEW h \in Hosts, ClearStaleState(h) PROVE DrivesFollow'
  BY <1>4 DEF ClearStaleState
<1>5. ASSUME NEW h \in Hosts, OpenVolume(h) PROVE DrivesFollow'
  BY <1>5 DEF OpenVolume
<1>6. ASSUME NEW h \in Hosts, ClearMarkers(h) PROVE DrivesFollow'
  BY <1>6 DEF ClearMarkers
<1>7. ASSUME NEW h \in Hosts, CreateUnit(h) PROVE DrivesFollow'
  BY <1>7 DEF CreateUnit, Snapshot
<1>8. ASSUME NEW h \in Hosts, MarkDirty(h) PROVE DrivesFollow'
  BY <1>8 DEF MarkDirty
<1>9. ASSUME NEW h \in Hosts, Attach(h) PROVE DrivesFollow'
  BY <1>9 DEF Attach
<1>10. ASSUME NEW h \in Hosts, StartDispatcher(h) PROVE DrivesFollow'
  BY <1>10 DEF StartDispatcher
<1>11. ASSUME NEW h \in Hosts, DispatcherFails(h) PROVE DrivesFollow'
  BY <1>11 DEF DispatcherFails
<1>12. ASSUME NEW h \in Hosts, LookForVolume(h) PROVE DrivesFollow'
  BY <1>12 DEF LookForVolume
<1>13. ASSUME NEW h \in Hosts, LookTimesOut(h) PROVE DrivesFollow'
  BY <1>13 DEF LookTimesOut
<1>14. ASSUME NEW h \in Hosts, AssignPreferred(h) PROVE DrivesFollow'
  BY <1>14 DEF AssignPreferred
<1>15. ASSUME NEW h \in Hosts, VerifyPreferred(h) PROVE DrivesFollow'
  BY <1>15 DEF VerifyPreferred
<1>16. ASSUME NEW h \in Hosts, Announce(h) PROVE DrivesFollow'
  BY <1>16 DEF Announce
<1>17. ASSUME NEW h \in Hosts, AnnounceFails(h) PROVE DrivesFollow'
  BY <1>17 DEF AnnounceFails
<1>18. ASSUME NEW h \in Hosts, WaitDone(h) PROVE DrivesFollow'
  BY <1>18 DEF WaitDone
<1>19. ASSUME NEW h \in Hosts, CloseVolume(h) PROVE DrivesFollow'
  BY <1>19 DEF CloseVolume
<1>20. ASSUME NEW h \in Hosts, DeleteUnit(h) PROVE DrivesFollow'
  BY <1>20 DEF DeleteUnit
<1>21. ASSUME NEW h \in Hosts, Leave(h) PROVE DrivesFollow'
  BY <1>21 DEF Leave
<1>22. ASSUME NEW h \in Hosts, Crash(h) PROVE DrivesFollow'
  BY <1>22 DEF Crash
<1>23. CASE ConsoleEvent
  BY <1>23 DEF ConsoleEvent
<1>24. CASE StopPoll
  BY <1>24 DEF StopPoll, Target
<1>25. CASE StopDismount
  BY <1>25 DEF StopDismount, DismountLetter, Dismounted
<1>26. CASE StopDismountFails
  BY <1>26 DEF StopDismountFails, Dismounted
<1>27. CASE StopSync
  BY <1>27 DEF StopSync
<1>28. CASE StopSyncFails
  BY <1>28 DEF StopSyncFails
<1>29. CASE StopRetry
  BY <1>29 DEF StopRetry
<1>30. CASE StopRemove
  BY <1>30 DEF StopRemove
<1>31. CASE StopVouch
  BY <1>31 DEF StopVouch
<1>32. CASE StopShutdown
  BY <1>32 DEF StopShutdown
<1>33. CASE Expose
  BY <1>33 DEF Expose
<1>34. CASE GiveLetter
  BY <1>34 DEF GiveLetter
<1>35. CASE UseFilesystem
  BY <1>35 DEF UseFilesystem
<1>36. CASE OtherArrives
  BY <1>36 DEF OtherArrives
<1>37. CASE OtherLeaves
  BY <1>37 DEF OtherLeaves
<1>38. CASE GuiLook
  BY <1>38 DEF GuiLook
<1>39. CASE GuiDisconnect
  BY <1>39 DEF GuiDisconnect
<1>40. CASE GuiDone
  BY <1>40 DEF GuiDone
<1>41. CASE UNCHANGED vars
  BY <1>41 DEF vars
<1>42. QED
  BY <1>1, <1>2, <1>3, <1>4, <1>5, <1>6, <1>7, <1>8, <1>9, <1>10, <1>11,
     <1>12, <1>13, <1>14, <1>15, <1>16, <1>17, <1>18, <1>19, <1>20, <1>21,
     <1>22, <1>23, <1>24, <1>25, <1>26, <1>27, <1>28, <1>29, <1>30, <1>31,
     <1>32, <1>33, <1>34, <1>35, <1>36, <1>37, <1>38, <1>39, <1>40, <1>41
     DEF Next, Step, Stopper, Windows, Gui

\* What the stop thread relies on.
LEMMA VouchedStep ==
    ProcessType /\ SessionType /\ DriveType /\ Holds /\ UnitFollows /\ DrivesFollow /\ Vouched /\ [Next]_vars => Vouched'
<1> SUFFICES ASSUME ProcessType, SessionType, DriveType, Holds, UnitFollows, DrivesFollow, Vouched, [Next]_vars PROVE Vouched'
  OBVIOUS
<1> USE HostAssumption DEF markers, volume, session, windows, given, outside, Gone, Quit, CutOff, Shutdown, Settle,
        ProcessType, DriveType, Drives, Holds, UnitFollows, DrivesFollow, At, Opened, Attached, Free, Vouched
<1>1. ASSUME NEW h \in Hosts, Launch(h) PROVE Vouched'
  BY <1>1 DEF Launch
<1>2. ASSUME NEW h \in Hosts, LaunchMount(h) PROVE Vouched'
  BY <1>2 DEF LaunchMount
<1>3. ASSUME NEW h \in Hosts, AcquireMutex(h) PROVE Vouched'
  BY <1>3 DEF AcquireMutex
<1>4. ASSUME NEW h \in Hosts, ClearStaleState(h) PROVE Vouched'
  BY <1>4 DEF ClearStaleState
<1>5. ASSUME NEW h \in Hosts, OpenVolume(h) PROVE Vouched'
  BY <1>5 DEF OpenVolume
<1>6. ASSUME NEW h \in Hosts, ClearMarkers(h) PROVE Vouched'
  BY <1>6 DEF ClearMarkers
<1>7. ASSUME NEW h \in Hosts, CreateUnit(h) PROVE Vouched'
  BY <1>7 DEF CreateUnit, Snapshot
<1>8. ASSUME NEW h \in Hosts, MarkDirty(h) PROVE Vouched'
  BY <1>8 DEF MarkDirty
<1>9. ASSUME NEW h \in Hosts, Attach(h) PROVE Vouched'
  BY <1>9 DEF Attach
<1>10. ASSUME NEW h \in Hosts, StartDispatcher(h) PROVE Vouched'
  BY <1>10 DEF StartDispatcher
<1>11. ASSUME NEW h \in Hosts, DispatcherFails(h) PROVE Vouched'
  BY <1>11 DEF DispatcherFails
<1>12. ASSUME NEW h \in Hosts, LookForVolume(h) PROVE Vouched'
  BY <1>12 DEF LookForVolume
<1>13. ASSUME NEW h \in Hosts, LookTimesOut(h) PROVE Vouched'
  BY <1>13 DEF LookTimesOut
<1>14. ASSUME NEW h \in Hosts, AssignPreferred(h) PROVE Vouched'
  BY <1>14 DEF AssignPreferred
<1>15. ASSUME NEW h \in Hosts, VerifyPreferred(h) PROVE Vouched'
  BY <1>15 DEF VerifyPreferred
<1>16. ASSUME NEW h \in Hosts, Announce(h) PROVE Vouched'
  BY <1>16 DEF Announce
<1>17. ASSUME NEW h \in Hosts, AnnounceFails(h) PROVE Vouched'
  BY <1>17 DEF AnnounceFails
<1>18. ASSUME NEW h \in Hosts, WaitDone(h) PROVE Vouched'
  BY <1>18 DEF WaitDone
<1>19. ASSUME NEW h \in Hosts, CloseVolume(h) PROVE Vouched'
  BY <1>19 DEF CloseVolume
<1>20. ASSUME NEW h \in Hosts, DeleteUnit(h) PROVE Vouched'
  BY <1>20 DEF DeleteUnit
<1>21. ASSUME NEW h \in Hosts, Leave(h) PROVE Vouched'
  BY <1>21 DEF Leave
<1>22. ASSUME NEW h \in Hosts, Crash(h) PROVE Vouched'
  BY <1>22 DEF Crash
<1>23. CASE ConsoleEvent
  BY <1>23 DEF ConsoleEvent
<1>24. CASE StopPoll
  BY <1>24 DEF StopPoll, Target
<1>25. CASE StopDismount
  BY <1>25 DEF StopDismount, DismountLetter, Dismounted
<1>26. CASE StopDismountFails
  BY <1>26 DEF StopDismountFails, Dismounted
<1>27. CASE StopSync
  BY <1>27 DEF StopSync
<1>28. CASE StopSyncFails
  BY <1>28 DEF StopSyncFails
<1>29. CASE StopRetry
  BY <1>29 DEF StopRetry
<1>30. CASE StopRemove
  BY <1>30 DEF StopRemove
<1>31. CASE StopVouch
  BY <1>31 DEF StopVouch
<1>32. CASE StopShutdown
  BY <1>32 DEF StopShutdown
<1>33. CASE Expose
  BY <1>33 DEF Expose
<1>34. CASE GiveLetter
  BY <1>34 DEF GiveLetter
<1>35. CASE UseFilesystem
  BY <1>35 DEF UseFilesystem
<1>36. CASE OtherArrives
  BY <1>36 DEF OtherArrives
<1>37. CASE OtherLeaves
  BY <1>37 DEF OtherLeaves
<1>38. CASE GuiLook
  BY <1>38 DEF GuiLook
<1>39. CASE GuiDisconnect
  BY <1>39 DEF GuiDisconnect
<1>40. CASE GuiDone
  BY <1>40 DEF GuiDone
<1>41. CASE UNCHANGED vars
  BY <1>41 DEF vars
<1>42. QED
  BY <1>1, <1>2, <1>3, <1>4, <1>5, <1>6, <1>7, <1>8, <1>9, <1>10, <1>11,
     <1>12, <1>13, <1>14, <1>15, <1>16, <1>17, <1>18, <1>19, <1>20, <1>21,
     <1>22, <1>23, <1>24, <1>25, <1>26, <1>27, <1>28, <1>29, <1>30, <1>31,
     <1>32, <1>33, <1>34, <1>35, <1>36, <1>37, <1>38, <1>39, <1>40, <1>41
     DEF Next, Step, Stopper, Windows, Gui

\* The host knows a letter of a drive that is ours.
LEMMA FoundOursStep ==
    ProcessType /\ SessionType /\ DriveType /\ Holds /\ UnitFollows /\ DrivesFollow /\ FoundOurs /\ [Next]_vars => FoundOurs'
<1> SUFFICES ASSUME ProcessType, SessionType, DriveType, Holds, UnitFollows, DrivesFollow, FoundOurs, [Next]_vars PROVE FoundOurs'
  OBVIOUS
<1> USE HostAssumption DEF markers, volume, session, windows, given, outside, Gone, Quit, CutOff, Shutdown, Settle,
        ProcessType, DriveType, Drives, Holds, UnitFollows, DrivesFollow, At, Opened, Attached, Free, FoundOurs
<1>1. ASSUME NEW h \in Hosts, Launch(h) PROVE FoundOurs'
  BY <1>1 DEF Launch
<1>2. ASSUME NEW h \in Hosts, LaunchMount(h) PROVE FoundOurs'
  BY <1>2 DEF LaunchMount
<1>3. ASSUME NEW h \in Hosts, AcquireMutex(h) PROVE FoundOurs'
  BY <1>3 DEF AcquireMutex
<1>4. ASSUME NEW h \in Hosts, ClearStaleState(h) PROVE FoundOurs'
  BY <1>4 DEF ClearStaleState
<1>5. ASSUME NEW h \in Hosts, OpenVolume(h) PROVE FoundOurs'
  BY <1>5 DEF OpenVolume
<1>6. ASSUME NEW h \in Hosts, ClearMarkers(h) PROVE FoundOurs'
  BY <1>6 DEF ClearMarkers
<1>7. ASSUME NEW h \in Hosts, CreateUnit(h) PROVE FoundOurs'
  BY <1>7 DEF CreateUnit, Snapshot
<1>8. ASSUME NEW h \in Hosts, MarkDirty(h) PROVE FoundOurs'
  BY <1>8 DEF MarkDirty
<1>9. ASSUME NEW h \in Hosts, Attach(h) PROVE FoundOurs'
  BY <1>9 DEF Attach
<1>10. ASSUME NEW h \in Hosts, StartDispatcher(h) PROVE FoundOurs'
  BY <1>10 DEF StartDispatcher
<1>11. ASSUME NEW h \in Hosts, DispatcherFails(h) PROVE FoundOurs'
  BY <1>11 DEF DispatcherFails
<1>12. ASSUME NEW h \in Hosts, LookForVolume(h) PROVE FoundOurs'
  <2>1. PICK d \in present :
        /\ found' = d
        /\ \/ letter' = IF mounts[d] = {} THEN letter ELSE Fallback(d)
           \/ letter' = Preferred /\ Preferred \in mounts[d]
    BY <1>12 DEF LookForVolume, Changed
  <2>2. mounts[d] # {} => Fallback(d) \in mounts[d]
    BY FallbackType
  <2>3. /\ file = h /\ file' = file /\ pc'[h] \in {"assign", "announce"}
        /\ stopper = "none" /\ stopper' = stopper /\ letter = None
    BY <1>12 DEF LookForVolume
  <2>4. UNCHANGED <<present, mounts, offline, unit, faults>>
    BY <1>12 DEF LookForVolume
  <2>5. QED
    BY <2>1, <2>2, <2>3, <2>4, <2>1
<1>13. ASSUME NEW h \in Hosts, LookTimesOut(h) PROVE FoundOurs'
  BY <1>13 DEF LookTimesOut
<1>14. ASSUME NEW h \in Hosts, AssignPreferred(h) PROVE FoundOurs'
  BY <1>14 DEF AssignPreferred
<1>15. ASSUME NEW h \in Hosts, VerifyPreferred(h) PROVE FoundOurs'
  BY <1>15 DEF VerifyPreferred
<1>16. ASSUME NEW h \in Hosts, Announce(h) PROVE FoundOurs'
  BY <1>16 DEF Announce
<1>17. ASSUME NEW h \in Hosts, AnnounceFails(h) PROVE FoundOurs'
  BY <1>17 DEF AnnounceFails
<1>18. ASSUME NEW h \in Hosts, WaitDone(h) PROVE FoundOurs'
  BY <1>18 DEF WaitDone
<1>19. ASSUME NEW h \in Hosts, CloseVolume(h) PROVE FoundOurs'
  BY <1>19 DEF CloseVolume
<1>20. ASSUME NEW h \in Hosts, DeleteUnit(h) PROVE FoundOurs'
  BY <1>20 DEF DeleteUnit
<1>21. ASSUME NEW h \in Hosts, Leave(h) PROVE FoundOurs'
  BY <1>21 DEF Leave
<1>22. ASSUME NEW h \in Hosts, Crash(h) PROVE FoundOurs'
  BY <1>22 DEF Crash
<1>23. CASE ConsoleEvent
  BY <1>23 DEF ConsoleEvent
<1>24. CASE StopPoll
  BY <1>24 DEF StopPoll, Target
<1>25. CASE StopDismount
  BY <1>25 DEF StopDismount, DismountLetter, Dismounted
<1>26. CASE StopDismountFails
  BY <1>26 DEF StopDismountFails, Dismounted
<1>27. CASE StopSync
  BY <1>27 DEF StopSync
<1>28. CASE StopSyncFails
  BY <1>28 DEF StopSyncFails
<1>29. CASE StopRetry
  BY <1>29 DEF StopRetry
<1>30. CASE StopRemove
  BY <1>30 DEF StopRemove
<1>31. CASE StopVouch
  BY <1>31 DEF StopVouch
<1>32. CASE StopShutdown
  BY <1>32 DEF StopShutdown
<1>33. CASE Expose
  BY <1>33 DEF Expose
<1>34. CASE GiveLetter
  BY <1>34 DEF GiveLetter
<1>35. CASE UseFilesystem
  BY <1>35 DEF UseFilesystem
<1>36. CASE OtherArrives
  BY <1>36 DEF OtherArrives
<1>37. CASE OtherLeaves
  BY <1>37 DEF OtherLeaves
<1>38. CASE GuiLook
  BY <1>38 DEF GuiLook
<1>39. CASE GuiDisconnect
  BY <1>39 DEF GuiDisconnect
<1>40. CASE GuiDone
  BY <1>40 DEF GuiDone
<1>41. CASE UNCHANGED vars
  BY <1>41 DEF vars
<1>42. QED
  BY <1>1, <1>2, <1>3, <1>4, <1>5, <1>6, <1>7, <1>8, <1>9, <1>10, <1>11,
     <1>12, <1>13, <1>14, <1>15, <1>16, <1>17, <1>18, <1>19, <1>20, <1>21,
     <1>22, <1>23, <1>24, <1>25, <1>26, <1>27, <1>28, <1>29, <1>30, <1>31,
     <1>32, <1>33, <1>34, <1>35, <1>36, <1>37, <1>38, <1>39, <1>40, <1>41
     DEF Next, Step, Stopper, Windows, Gui

\* The state file is there only for a session.
LEMMA ShownStep ==
    ProcessType /\ SessionType /\ Holds /\ UnitFollows /\ Shown /\ [Next]_vars => Shown'
<1> SUFFICES ASSUME ProcessType, SessionType, Holds, UnitFollows, Shown, [Next]_vars PROVE Shown'
  OBVIOUS
<1> USE HostAssumption DEF markers, volume, session, windows, given, outside, Gone, Quit, CutOff, Shutdown, Settle,
        ProcessType, SessionType, Holds, UnitFollows, At, Opened, Attached, Shown
<1>1. ASSUME NEW h \in Hosts, Launch(h) PROVE Shown'
  BY <1>1 DEF Launch
<1>2. ASSUME NEW h \in Hosts, LaunchMount(h) PROVE Shown'
  BY <1>2 DEF LaunchMount
<1>3. ASSUME NEW h \in Hosts, AcquireMutex(h) PROVE Shown'
  <2>1. file # h
    BY <1>3 DEF AcquireMutex
  <2>2. UNCHANGED <<stateFile, file, faults, console>>
    BY <1>3, <2>1 DEF AcquireMutex
  <2>3. \A g \in Hosts \ {h} : pc'[g] = pc[g]
    BY <1>3 DEF AcquireMutex
  <2>4. QED
    BY <2>1, <2>2, <2>3
<1>4. ASSUME NEW h \in Hosts, ClearStaleState(h) PROVE Shown'
  BY <1>4 DEF ClearStaleState
<1>5. ASSUME NEW h \in Hosts, OpenVolume(h) PROVE Shown'
  <2>1. file # h
    BY <1>5 DEF OpenVolume
  <2>2. UNCHANGED <<stateFile, faults, console>>
    BY <1>5 DEF OpenVolume
  <2>3. \A g \in Hosts \ {h} : pc'[g] = pc[g]
    BY <1>5 DEF OpenVolume
  <2>4. file \in Hosts => file' = file
    BY <1>5, <2>1 DEF OpenVolume
  <2>5. QED
    BY <2>1, <2>2, <2>3, <2>4
<1>6. ASSUME NEW h \in Hosts, ClearMarkers(h) PROVE Shown'
  BY <1>6 DEF ClearMarkers
<1>7. ASSUME NEW h \in Hosts, CreateUnit(h) PROVE Shown'
  BY <1>7 DEF CreateUnit, Snapshot
<1>8. ASSUME NEW h \in Hosts, MarkDirty(h) PROVE Shown'
  BY <1>8 DEF MarkDirty
<1>9. ASSUME NEW h \in Hosts, Attach(h) PROVE Shown'
  BY <1>9 DEF Attach
<1>10. ASSUME NEW h \in Hosts, StartDispatcher(h) PROVE Shown'
  BY <1>10 DEF StartDispatcher
<1>11. ASSUME NEW h \in Hosts, DispatcherFails(h) PROVE Shown'
  BY <1>11 DEF DispatcherFails
<1>12. ASSUME NEW h \in Hosts, LookForVolume(h) PROVE Shown'
  BY <1>12 DEF LookForVolume
<1>13. ASSUME NEW h \in Hosts, LookTimesOut(h) PROVE Shown'
  BY <1>13 DEF LookTimesOut
<1>14. ASSUME NEW h \in Hosts, AssignPreferred(h) PROVE Shown'
  BY <1>14 DEF AssignPreferred
<1>15. ASSUME NEW h \in Hosts, VerifyPreferred(h) PROVE Shown'
  BY <1>15 DEF VerifyPreferred
<1>16. ASSUME NEW h \in Hosts, Announce(h) PROVE Shown'
  <2>1. file = h /\ file' = h /\ pc'[h] = "wait"
    BY <1>16 DEF Announce
  <2>2. h \in console => stateFile' = stateFile
    BY <1>16 DEF Announce
  <2>3. UNCHANGED <<faults, console>>
    BY <1>16 DEF Announce
  <2>4. QED
    BY <2>1, <2>2, <2>3
<1>17. ASSUME NEW h \in Hosts, AnnounceFails(h) PROVE Shown'
  BY <1>17 DEF AnnounceFails
<1>18. ASSUME NEW h \in Hosts, WaitDone(h) PROVE Shown'
  BY <1>18 DEF WaitDone
<1>19. ASSUME NEW h \in Hosts, CloseVolume(h) PROVE Shown'
  BY <1>19 DEF CloseVolume
<1>20. ASSUME NEW h \in Hosts, DeleteUnit(h) PROVE Shown'
  BY <1>20 DEF DeleteUnit
<1>21. ASSUME NEW h \in Hosts, Leave(h) PROVE Shown'
  BY <1>21 DEF Leave
<1>22. ASSUME NEW h \in Hosts, Crash(h) PROVE Shown'
  BY <1>22 DEF Crash
<1>23. CASE ConsoleEvent
  BY <1>23 DEF ConsoleEvent
<1>24. CASE StopPoll
  BY <1>24 DEF StopPoll, Target
<1>25. CASE StopDismount
  BY <1>25 DEF StopDismount, DismountLetter, Dismounted
<1>26. CASE StopDismountFails
  BY <1>26 DEF StopDismountFails, Dismounted
<1>27. CASE StopSync
  BY <1>27 DEF StopSync
<1>28. CASE StopSyncFails
  BY <1>28 DEF StopSyncFails
<1>29. CASE StopRetry
  BY <1>29 DEF StopRetry
<1>30. CASE StopRemove
  BY <1>30 DEF StopRemove
<1>31. CASE StopVouch
  BY <1>31 DEF StopVouch
<1>32. CASE StopShutdown
  BY <1>32 DEF StopShutdown
<1>33. CASE Expose
  BY <1>33 DEF Expose
<1>34. CASE GiveLetter
  BY <1>34 DEF GiveLetter
<1>35. CASE UseFilesystem
  BY <1>35 DEF UseFilesystem
<1>36. CASE OtherArrives
  BY <1>36 DEF OtherArrives
<1>37. CASE OtherLeaves
  BY <1>37 DEF OtherLeaves
<1>38. CASE GuiLook
  BY <1>38 DEF GuiLook
<1>39. CASE GuiDisconnect
  BY <1>39 DEF GuiDisconnect
<1>40. CASE GuiDone
  BY <1>40 DEF GuiDone
<1>41. CASE UNCHANGED vars
  BY <1>41 DEF vars
<1>42. QED
  BY <1>1, <1>2, <1>3, <1>4, <1>5, <1>6, <1>7, <1>8, <1>9, <1>10, <1>11,
     <1>12, <1>13, <1>14, <1>15, <1>16, <1>17, <1>18, <1>19, <1>20, <1>21,
     <1>22, <1>23, <1>24, <1>25, <1>26, <1>27, <1>28, <1>29, <1>30, <1>31,
     <1>32, <1>33, <1>34, <1>35, <1>36, <1>37, <1>38, <1>39, <1>40, <1>41
     DEF Next, Step, Stopper, Windows, Gui

\* The clean flag means a dismounted filesystem.
LEMMA CleanStep ==
    ProcessType /\ SessionType /\ DriveType /\ Holds /\ UnitFollows /\ DrivesFollow /\ Vouched /\ CleanMeansDismounted /\ [Next]_vars => CleanMeansDismounted'
<1> SUFFICES ASSUME ProcessType, SessionType, DriveType, Holds, UnitFollows, DrivesFollow, Vouched, CleanMeansDismounted, [Next]_vars PROVE CleanMeansDismounted'
  OBVIOUS
<1> USE HostAssumption DEF markers, volume, session, windows, given, outside, Gone, Quit, CutOff, Shutdown, Settle,
        ProcessType, DriveType, Drives, Holds, UnitFollows, DrivesFollow, At, Opened, Attached, Free,
        Vouched, CleanMeansDismounted, CleanOnlyAfterSafePath
<1>1. ASSUME NEW h \in Hosts, Launch(h) PROVE CleanMeansDismounted'
  BY <1>1 DEF Launch
<1>2. ASSUME NEW h \in Hosts, LaunchMount(h) PROVE CleanMeansDismounted'
  BY <1>2 DEF LaunchMount
<1>3. ASSUME NEW h \in Hosts, AcquireMutex(h) PROVE CleanMeansDismounted'
  BY <1>3 DEF AcquireMutex
<1>4. ASSUME NEW h \in Hosts, ClearStaleState(h) PROVE CleanMeansDismounted'
  BY <1>4 DEF ClearStaleState
<1>5. ASSUME NEW h \in Hosts, OpenVolume(h) PROVE CleanMeansDismounted'
  BY <1>5 DEF OpenVolume
<1>6. ASSUME NEW h \in Hosts, ClearMarkers(h) PROVE CleanMeansDismounted'
  BY <1>6 DEF ClearMarkers
<1>7. ASSUME NEW h \in Hosts, CreateUnit(h) PROVE CleanMeansDismounted'
  BY <1>7 DEF CreateUnit, Snapshot
<1>8. ASSUME NEW h \in Hosts, MarkDirty(h) PROVE CleanMeansDismounted'
  BY <1>8 DEF MarkDirty
<1>9. ASSUME NEW h \in Hosts, Attach(h) PROVE CleanMeansDismounted'
  BY <1>9 DEF Attach
<1>10. ASSUME NEW h \in Hosts, StartDispatcher(h) PROVE CleanMeansDismounted'
  BY <1>10 DEF StartDispatcher
<1>11. ASSUME NEW h \in Hosts, DispatcherFails(h) PROVE CleanMeansDismounted'
  BY <1>11 DEF DispatcherFails
<1>12. ASSUME NEW h \in Hosts, LookForVolume(h) PROVE CleanMeansDismounted'
  BY <1>12 DEF LookForVolume
<1>13. ASSUME NEW h \in Hosts, LookTimesOut(h) PROVE CleanMeansDismounted'
  BY <1>13 DEF LookTimesOut
<1>14. ASSUME NEW h \in Hosts, AssignPreferred(h) PROVE CleanMeansDismounted'
  BY <1>14 DEF AssignPreferred
<1>15. ASSUME NEW h \in Hosts, VerifyPreferred(h) PROVE CleanMeansDismounted'
  BY <1>15 DEF VerifyPreferred
<1>16. ASSUME NEW h \in Hosts, Announce(h) PROVE CleanMeansDismounted'
  BY <1>16 DEF Announce
<1>17. ASSUME NEW h \in Hosts, AnnounceFails(h) PROVE CleanMeansDismounted'
  BY <1>17 DEF AnnounceFails
<1>18. ASSUME NEW h \in Hosts, WaitDone(h) PROVE CleanMeansDismounted'
  BY <1>18 DEF WaitDone
<1>19. ASSUME NEW h \in Hosts, CloseVolume(h) PROVE CleanMeansDismounted'
  BY <1>19 DEF CloseVolume
<1>20. ASSUME NEW h \in Hosts, DeleteUnit(h) PROVE CleanMeansDismounted'
  BY <1>20 DEF DeleteUnit
<1>21. ASSUME NEW h \in Hosts, Leave(h) PROVE CleanMeansDismounted'
  BY <1>21 DEF Leave
<1>22. ASSUME NEW h \in Hosts, Crash(h) PROVE CleanMeansDismounted'
  BY <1>22 DEF Crash
<1>23. CASE ConsoleEvent
  BY <1>23 DEF ConsoleEvent
<1>24. CASE StopPoll
  BY <1>24 DEF StopPoll, Target
<1>25. CASE StopDismount
  BY <1>25 DEF StopDismount, DismountLetter, Dismounted
<1>26. CASE StopDismountFails
  BY <1>26 DEF StopDismountFails, Dismounted
<1>27. CASE StopSync
  BY <1>27 DEF StopSync
<1>28. CASE StopSyncFails
  BY <1>28 DEF StopSyncFails
<1>29. CASE StopRetry
  BY <1>29 DEF StopRetry
<1>30. CASE StopRemove
  BY <1>30 DEF StopRemove
<1>31. CASE StopVouch
  BY <1>31 DEF StopVouch
<1>32. CASE StopShutdown
  BY <1>32 DEF StopShutdown
<1>33. CASE Expose
  BY <1>33 DEF Expose
<1>34. CASE GiveLetter
  BY <1>34 DEF GiveLetter
<1>35. CASE UseFilesystem
  BY <1>35 DEF UseFilesystem
<1>36. CASE OtherArrives
  BY <1>36 DEF OtherArrives
<1>37. CASE OtherLeaves
  BY <1>37 DEF OtherLeaves
<1>38. CASE GuiLook
  BY <1>38 DEF GuiLook
<1>39. CASE GuiDisconnect
  BY <1>39 DEF GuiDisconnect
<1>40. CASE GuiDone
  BY <1>40 DEF GuiDone
<1>41. CASE UNCHANGED vars
  BY <1>41 DEF vars
<1>42. QED
  BY <1>1, <1>2, <1>3, <1>4, <1>5, <1>6, <1>7, <1>8, <1>9, <1>10, <1>11,
     <1>12, <1>13, <1>14, <1>15, <1>16, <1>17, <1>18, <1>19, <1>20, <1>21,
     <1>22, <1>23, <1>24, <1>25, <1>26, <1>27, <1>28, <1>29, <1>30, <1>31,
     <1>32, <1>33, <1>34, <1>35, <1>36, <1>37, <1>38, <1>39, <1>40, <1>41
     DEF Next, Step, Stopper, Windows, Gui

\* A running session keeps its state file.
LEMMA SessionStep ==
    ProcessType /\ SessionType /\ Holds /\ UnitFollows /\ SessionIsShown /\ [Next]_vars => SessionIsShown'
<1> SUFFICES ASSUME ProcessType, SessionType, Holds, UnitFollows, SessionIsShown, [Next]_vars PROVE SessionIsShown'
  OBVIOUS
<1> USE HostAssumption DEF markers, volume, session, windows, given, outside, Gone, Quit, CutOff, Shutdown, Settle,
        ProcessType, SessionType, Holds, UnitFollows, At, Opened, Attached, SessionIsShown, Sessions
<1>1. ASSUME NEW h \in Hosts, Launch(h) PROVE SessionIsShown'
  BY <1>1 DEF Launch
<1>2. ASSUME NEW h \in Hosts, LaunchMount(h) PROVE SessionIsShown'
  BY <1>2 DEF LaunchMount
<1>3. ASSUME NEW h \in Hosts, AcquireMutex(h) PROVE SessionIsShown'
  BY <1>3 DEF AcquireMutex
<1>4. ASSUME NEW h \in Hosts, ClearStaleState(h) PROVE SessionIsShown'
  BY <1>4 DEF ClearStaleState
<1>5. ASSUME NEW h \in Hosts, OpenVolume(h) PROVE SessionIsShown'
  BY <1>5 DEF OpenVolume
<1>6. ASSUME NEW h \in Hosts, ClearMarkers(h) PROVE SessionIsShown'
  BY <1>6 DEF ClearMarkers
<1>7. ASSUME NEW h \in Hosts, CreateUnit(h) PROVE SessionIsShown'
  BY <1>7 DEF CreateUnit, Snapshot
<1>8. ASSUME NEW h \in Hosts, MarkDirty(h) PROVE SessionIsShown'
  BY <1>8 DEF MarkDirty
<1>9. ASSUME NEW h \in Hosts, Attach(h) PROVE SessionIsShown'
  BY <1>9 DEF Attach
<1>10. ASSUME NEW h \in Hosts, StartDispatcher(h) PROVE SessionIsShown'
  BY <1>10 DEF StartDispatcher
<1>11. ASSUME NEW h \in Hosts, DispatcherFails(h) PROVE SessionIsShown'
  BY <1>11 DEF DispatcherFails
<1>12. ASSUME NEW h \in Hosts, LookForVolume(h) PROVE SessionIsShown'
  BY <1>12 DEF LookForVolume
<1>13. ASSUME NEW h \in Hosts, LookTimesOut(h) PROVE SessionIsShown'
  BY <1>13 DEF LookTimesOut
<1>14. ASSUME NEW h \in Hosts, AssignPreferred(h) PROVE SessionIsShown'
  BY <1>14 DEF AssignPreferred
<1>15. ASSUME NEW h \in Hosts, VerifyPreferred(h) PROVE SessionIsShown'
  BY <1>15 DEF VerifyPreferred
<1>16. ASSUME NEW h \in Hosts, Announce(h) PROVE SessionIsShown'
  BY <1>16 DEF Announce
<1>17. ASSUME NEW h \in Hosts, AnnounceFails(h) PROVE SessionIsShown'
  BY <1>17 DEF AnnounceFails
<1>18. ASSUME NEW h \in Hosts, WaitDone(h) PROVE SessionIsShown'
  BY <1>18 DEF WaitDone
<1>19. ASSUME NEW h \in Hosts, CloseVolume(h) PROVE SessionIsShown'
  BY <1>19 DEF CloseVolume
<1>20. ASSUME NEW h \in Hosts, DeleteUnit(h) PROVE SessionIsShown'
  BY <1>20 DEF DeleteUnit
<1>21. ASSUME NEW h \in Hosts, Leave(h) PROVE SessionIsShown'
  BY <1>21 DEF Leave
<1>22. ASSUME NEW h \in Hosts, Crash(h) PROVE SessionIsShown'
  BY <1>22 DEF Crash
<1>23. CASE ConsoleEvent
  BY <1>23 DEF ConsoleEvent
<1>24. CASE StopPoll
  BY <1>24 DEF StopPoll, Target
<1>25. CASE StopDismount
  BY <1>25 DEF StopDismount, DismountLetter, Dismounted
<1>26. CASE StopDismountFails
  BY <1>26 DEF StopDismountFails, Dismounted
<1>27. CASE StopSync
  BY <1>27 DEF StopSync
<1>28. CASE StopSyncFails
  BY <1>28 DEF StopSyncFails
<1>29. CASE StopRetry
  BY <1>29 DEF StopRetry
<1>30. CASE StopRemove
  BY <1>30 DEF StopRemove
<1>31. CASE StopVouch
  BY <1>31 DEF StopVouch
<1>32. CASE StopShutdown
  BY <1>32 DEF StopShutdown
<1>33. CASE Expose
  BY <1>33 DEF Expose
<1>34. CASE GiveLetter
  BY <1>34 DEF GiveLetter
<1>35. CASE UseFilesystem
  BY <1>35 DEF UseFilesystem
<1>36. CASE OtherArrives
  BY <1>36 DEF OtherArrives
<1>37. CASE OtherLeaves
  BY <1>37 DEF OtherLeaves
<1>38. CASE GuiLook
  BY <1>38 DEF GuiLook
<1>39. CASE GuiDisconnect
  BY <1>39 DEF GuiDisconnect
<1>40. CASE GuiDone
  BY <1>40 DEF GuiDone
<1>41. CASE UNCHANGED vars
  BY <1>41 DEF vars
<1>42. QED
  BY <1>1, <1>2, <1>3, <1>4, <1>5, <1>6, <1>7, <1>8, <1>9, <1>10, <1>11,
     <1>12, <1>13, <1>14, <1>15, <1>16, <1>17, <1>18, <1>19, <1>20, <1>21,
     <1>22, <1>23, <1>24, <1>25, <1>26, <1>27, <1>28, <1>29, <1>30, <1>31,
     <1>32, <1>33, <1>34, <1>35, <1>36, <1>37, <1>38, <1>39, <1>40, <1>41
     DEF Next, Step, Stopper, Windows, Gui

-----------------------------------------------------------------------------
(* The invariant, and what follows *)

\* The invariant holds at the start.
LEMMA IInvInit ==
    Init => IInv
<1> SUFFICES ASSUME Init PROVE IInv
  OBVIOUS
<1> USE HostAssumption DEF Init
<1>1. ProcessType /\ SessionType
  BY DEF ProcessType, SessionType, HostPCs, StopPCs
<1>2. DriveType
  BY DEF DriveType, Snapshot, Drives, None
<1>3. Holds /\ UnitFollows
  BY DEF Holds, UnitFollows, At, Opened, Attached
<1>4. DrivesFollow
  BY DEF DrivesFollow, Drives
<1>5. Vouched /\ FoundOurs /\ Shown
  BY DEF Vouched, FoundOurs, Shown
<1>6. CleanMeansDismounted /\ SessionIsShown
  BY DEF CleanMeansDismounted, CleanOnlyAfterSafePath, SessionIsShown, Sessions
<1>7. QED
  BY <1>1, <1>2, <1>3, <1>4, <1>5, <1>6 DEF IInv

\* Every step keeps it.
LEMMA IInvStep ==
    IInv /\ [Next]_vars => IInv'
BY ProcessTypeStep, SessionTypeStep, DriveTypeStep, HoldsStep, UnitFollowsStep,
   DrivesFollowStep, VouchedStep, FoundOursStep, ShownStep, CleanStep, SessionStep
   DEF IInv

\* It holds in every reachable state.
THEOREM Invariance ==
    Spec => []IInv
BY IInvInit, IInvStep, PTL DEF Spec

\* Every variable of the mount host keeps its type.
THEOREM TypeCorrect ==
    Spec => []TypeOK
<1>1. IInv => TypeOK
  BY DEF IInv, ProcessType, SessionType, DriveType, TypeOK
<1>2. QED
  BY <1>1, Invariance, PTL

\* mount_volume_with_master: whatever two instances, stop requests, console
\* events, crashes and failing steps interleave, a volume marked clean holds a
\* dismounted filesystem, unless a dispatcher fails to start or another drive
\* is taken for ours.
THEOREM CleanFlagMeansDismounted ==
    Spec => []CleanMeansDismounted
<1>1. IInv => CleanMeansDismounted
  BY DEF IInv
<1>2. QED
  BY <1>1, Invariance, PTL

\* run_entry: no second instance and no console mount removes the state file of
\* a running session.
THEOREM SessionsAreShown ==
    Spec => []SessionIsShown
<1>1. IInv => SessionIsShown
  BY DEF IInv
<1>2. QED
  BY <1>1, Invariance, PTL

\* entry_is_mounted: without a killed host or a state file that cannot be
\* written, an entry is taken for connected only while a host runs for it.
THEOREM ShownIsLive ==
    Spec => ShowsLiveHost
<1>1. IInv /\ [Next]_vars
      => [gui # "connected" /\ gui' = "connected" /\ faults \cap {"crash", "state"} = {} =>
             \E h \in Hosts \ console : pc[h] # "idle"]_vars
  <2> SUFFICES ASSUME IInv, [Next]_vars, gui # "connected", gui' = "connected",
                      faults \cap {"crash", "state"} = {}
               PROVE  \E h \in Hosts \ console : pc[h] # "idle"
    OBVIOUS
  <2> USE DEF markers, volume, session, windows, given, outside, Gone, Quit, CutOff,
              Shutdown, Settle
  <2>1. stateFile
    <3>1. CASE GuiLook
      BY <3>1 DEF GuiLook
    <3>2. CASE \E h \in Hosts : Launch(h) \/ LaunchMount(h) \/ Step(h) \/ Crash(h)
      <4>1. gui' = gui
        BY <3>2 DEF Launch, LaunchMount, Step, Crash, AcquireMutex, ClearStaleState,
           OpenVolume, ClearMarkers, CreateUnit, MarkDirty, Attach, StartDispatcher,
           DispatcherFails, LookForVolume, LookTimesOut, AssignPreferred,
           VerifyPreferred, Announce, AnnounceFails, WaitDone, CloseVolume,
           DeleteUnit, Leave
      <4>2. QED
        BY <4>1
    <3>3. CASE ConsoleEvent \/ Stopper \/ Windows \/ GuiDisconnect \/ GuiDone
      <4>1. gui' \in {gui, "away"}
        BY <3>3 DEF ConsoleEvent, Stopper, Windows, GuiDisconnect, GuiDone, StopPoll,
           StopDismount, DismountLetter, Dismounted, StopDismountFails, StopSync, StopSyncFails,
           StopRetry, StopRemove, StopVouch, StopShutdown, Expose, GiveLetter,
           UseFilesystem, OtherArrives, OtherLeaves
      <4>2. QED
        BY <4>1
    <3>4. QED
      BY <3>1, <3>2, <3>3 DEF Next, Gui, vars
  <2>2. At({"wait", "close", "delete"}) /\ file \notin console
    BY <2>1 DEF IInv, Shown
  <2>3. QED
    BY <2>2 DEF At
<1>2. QED
  BY <1>1, Invariance, PTL DEF Spec, ShowsLiveHost

\* move_new_volume_to_preferred_letter and safely_dismount_active change a letter
\* of another drive in three ways only: the drive was taken for ours, ours has no
\* letter left, or the host never learned it.
THEOREM LettersOfOthersStay ==
    Spec => OthersUntouched
<1>1. IInv /\ [Next]_vars
      => [HostActs /\ mounts'["other"] # mounts["other"] =>
             \/ found = "other"
             \/ StopDismount /\ (mounts["ours"] = {} \/ NeverLearned)]_vars
  <2> SUFFICES ASSUME IInv, HostActs, mounts'["other"] # mounts["other"], found # "other"
               PROVE  StopDismount /\ (mounts["ours"] = {} \/ NeverLearned)
    OBVIOUS
  <2> USE DEF markers, volume, session, windows, given, outside, Gone, Quit, CutOff,
              Shutdown, Settle, IInv, DriveType, Drives
  <2>1. ASSUME NEW h \in Hosts, AssignPreferred(h) \/ VerifyPreferred(h)
        PROVE  FALSE
    BY <2>1 DEF AssignPreferred, VerifyPreferred
  <2>2. ASSUME NEW h \in Hosts, Step(h)
        PROVE  FALSE
    BY <2>1, <2>2 DEF Step, AcquireMutex, ClearStaleState, OpenVolume, ClearMarkers,
       CreateUnit, MarkDirty, Attach, StartDispatcher, DispatcherFails, LookForVolume,
       LookTimesOut, Announce, AnnounceFails, WaitDone, CloseVolume, DeleteUnit, Leave
  <2>3. CASE Stopper /\ ~StopDismount
    BY <2>3 DEF Stopper, StopPoll, StopDismountFails, Dismounted, StopSync, StopSyncFails,
       StopRetry, StopRemove, StopVouch, StopShutdown
  <2>4. StopDismount
    BY <2>2, <2>3 DEF HostActs
  <2>5. target \in mounts["other"]
    BY <2>4 DEF StopDismount, DismountLetter
  <2>6. CASE letter # None /\ mounts["ours"] # {}
    <3>1. letter \in mounts["ours"] /\ target = letter
      BY <2>4, <2>6 DEF FoundOurs, StopDismount
    <3>2. QED
      BY <2>5, <3>1 DEF DrivesFollow
  <2>7. CASE letter = None /\ mounts["ours"] # {}
    <3>1. None \notin mounts["ours"]
      BY HostAssumption DEF None
    <3>2. found = "ours" => "slow_letter" \in faults
      BY <2>7, <3>1 DEF FoundOurs
    <3>3. QED
      BY <2>4, <2>7, <3>2 DEF NeverLearned
  <2>8. QED
    BY <2>4, <2>6, <2>7
<1>2. QED
  BY <1>1, Invariance, PTL DEF Spec, OthersUntouched

-----------------------------------------------------------------------------
(* What a stop request meets: the safety half of StopDetaches *)

\* A session has its stop thread until its unit is stopped.
StopThreadRuns == \A h \in Sessions : unit # "stopped" => stopper \notin {"none", "end"}

\* The stop thread ends with the unit only, whatever it fails at.
LEMMA ThreadStep ==
    ProcessType /\ SessionType /\ Holds /\ UnitFollows /\ StopThreadRuns /\ [Next]_vars
    => StopThreadRuns'
<1> SUFFICES ASSUME ProcessType, SessionType, Holds, UnitFollows, StopThreadRuns, [Next]_vars
             PROVE  StopThreadRuns'
  OBVIOUS
<1> USE HostAssumption DEF markers, volume, session, windows, given, outside, Gone, Quit, CutOff, Shutdown, Settle,
        ProcessType, SessionType, Holds, UnitFollows, At, Opened, Attached, StopThreadRuns, Sessions
<1>1. ASSUME NEW h \in Hosts, Launch(h) PROVE StopThreadRuns'
  BY <1>1 DEF Launch
<1>2. ASSUME NEW h \in Hosts, LaunchMount(h) PROVE StopThreadRuns'
  BY <1>2 DEF LaunchMount
<1>3. ASSUME NEW h \in Hosts, AcquireMutex(h) PROVE StopThreadRuns'
  BY <1>3 DEF AcquireMutex
<1>4. ASSUME NEW h \in Hosts, ClearStaleState(h) PROVE StopThreadRuns'
  BY <1>4 DEF ClearStaleState
<1>5. ASSUME NEW h \in Hosts, OpenVolume(h) PROVE StopThreadRuns'
  BY <1>5 DEF OpenVolume
<1>6. ASSUME NEW h \in Hosts, ClearMarkers(h) PROVE StopThreadRuns'
  BY <1>6 DEF ClearMarkers
<1>7. ASSUME NEW h \in Hosts, CreateUnit(h) PROVE StopThreadRuns'
  BY <1>7 DEF CreateUnit, Snapshot
<1>8. ASSUME NEW h \in Hosts, MarkDirty(h) PROVE StopThreadRuns'
  BY <1>8 DEF MarkDirty
<1>9. ASSUME NEW h \in Hosts, Attach(h) PROVE StopThreadRuns'
  BY <1>9 DEF Attach
<1>10. ASSUME NEW h \in Hosts, StartDispatcher(h) PROVE StopThreadRuns'
  BY <1>10 DEF StartDispatcher
<1>11. ASSUME NEW h \in Hosts, DispatcherFails(h) PROVE StopThreadRuns'
  BY <1>11 DEF DispatcherFails
<1>12. ASSUME NEW h \in Hosts, LookForVolume(h) PROVE StopThreadRuns'
  BY <1>12 DEF LookForVolume
<1>13. ASSUME NEW h \in Hosts, LookTimesOut(h) PROVE StopThreadRuns'
  BY <1>13 DEF LookTimesOut
<1>14. ASSUME NEW h \in Hosts, AssignPreferred(h) PROVE StopThreadRuns'
  BY <1>14 DEF AssignPreferred
<1>15. ASSUME NEW h \in Hosts, VerifyPreferred(h) PROVE StopThreadRuns'
  BY <1>15 DEF VerifyPreferred
<1>16. ASSUME NEW h \in Hosts, Announce(h) PROVE StopThreadRuns'
  BY <1>16 DEF Announce
<1>17. ASSUME NEW h \in Hosts, AnnounceFails(h) PROVE StopThreadRuns'
  BY <1>17 DEF AnnounceFails
<1>18. ASSUME NEW h \in Hosts, WaitDone(h) PROVE StopThreadRuns'
  BY <1>18 DEF WaitDone
<1>19. ASSUME NEW h \in Hosts, CloseVolume(h) PROVE StopThreadRuns'
  BY <1>19 DEF CloseVolume
<1>20. ASSUME NEW h \in Hosts, DeleteUnit(h) PROVE StopThreadRuns'
  BY <1>20 DEF DeleteUnit
<1>21. ASSUME NEW h \in Hosts, Leave(h) PROVE StopThreadRuns'
  BY <1>21 DEF Leave
<1>22. ASSUME NEW h \in Hosts, Crash(h) PROVE StopThreadRuns'
  BY <1>22 DEF Crash
<1>23. CASE ConsoleEvent
  BY <1>23 DEF ConsoleEvent
<1>24. CASE StopPoll
  BY <1>24 DEF StopPoll, Target
<1>25. CASE StopDismount
  BY <1>25 DEF StopDismount, DismountLetter, Dismounted
<1>26. CASE StopDismountFails
  BY <1>26 DEF StopDismountFails, Dismounted
<1>27. CASE StopSync
  BY <1>27 DEF StopSync
<1>28. CASE StopSyncFails
  BY <1>28 DEF StopSyncFails
<1>29. CASE StopRetry
  BY <1>29 DEF StopRetry
<1>30. CASE StopRemove
  BY <1>30 DEF StopRemove
<1>31. CASE StopVouch
  BY <1>31 DEF StopVouch
<1>32. CASE StopShutdown
  BY <1>32 DEF StopShutdown
<1>33. CASE Expose
  BY <1>33 DEF Expose
<1>34. CASE GiveLetter
  BY <1>34 DEF GiveLetter
<1>35. CASE UseFilesystem
  BY <1>35 DEF UseFilesystem
<1>36. CASE OtherArrives
  BY <1>36 DEF OtherArrives
<1>37. CASE OtherLeaves
  BY <1>37 DEF OtherLeaves
<1>38. CASE GuiLook
  BY <1>38 DEF GuiLook
<1>39. CASE GuiDisconnect
  BY <1>39 DEF GuiDisconnect
<1>40. CASE GuiDone
  BY <1>40 DEF GuiDone
<1>41. CASE UNCHANGED vars
  BY <1>41 DEF vars
<1>42. QED
  BY <1>1, <1>2, <1>3, <1>4, <1>5, <1>6, <1>7, <1>8, <1>9, <1>10, <1>11,
     <1>12, <1>13, <1>14, <1>15, <1>16, <1>17, <1>18, <1>19, <1>20, <1>21,
     <1>22, <1>23, <1>24, <1>25, <1>26, <1>27, <1>28, <1>29, <1>30, <1>31,
     <1>32, <1>33, <1>34, <1>35, <1>36, <1>37, <1>38, <1>39, <1>40, <1>41
     DEF Next, Step, Stopper, Windows, Gui

\* Spawned in mount_volume_with_master: no error of a dismount or a flush, no
\* console event and no other process leaves a running session without its thread.
THEOREM SessionsListen == Spec => []StopThreadRuns
<1>1. Init => StopThreadRuns
  BY DEF Init, StopThreadRuns, Sessions
<1>2. IInv /\ StopThreadRuns /\ [Next]_vars => StopThreadRuns'
  BY ThreadStep DEF IInv
<1>3. QED
  BY <1>1, <1>2, Invariance, PTL DEF Spec

\* Only the stop thread takes a stop request from a session, and only after it
\* has dismounted and flushed the volume: no second instance, console mount or
\* host that ends does.
THEOREM RequestsStay ==
    Spec => [][Sessions # {} /\ stopFile /\ ~ stopFile' => stopper = "remove"]_vars
<1>1. IInv /\ [Next]_vars =>
          [Sessions # {} /\ stopFile /\ ~ stopFile' => stopper = "remove"]_vars
  <2> SUFFICES ASSUME IInv, [Next]_vars, Sessions # {}, stopFile, ~ stopFile'
               PROVE  stopper = "remove"
    OBVIOUS
  <2> USE DEF markers, volume, session, windows, given, outside, Gone, Quit, CutOff,
              Shutdown, Settle
  <2>1. PICK h \in Hosts \ console : pc[h] = "wait"
    BY DEF Sessions
  <2>2. file = h
    BY <2>1 DEF IInv, Holds, Opened
  <2>3. ASSUME NEW g \in Hosts, ClearMarkers(g) \/ Leave(g) PROVE FALSE
    BY <2>1, <2>2, <2>3 DEF IInv, Holds, Opened, ClearMarkers, Leave
  <2>4. ASSUME NEW g \in Hosts, Launch(g) \/ LaunchMount(g) \/ Crash(g)
        PROVE  FALSE
    BY <2>4 DEF Launch, LaunchMount, Crash
  <2>5. ASSUME NEW g \in Hosts, Step(g) PROVE FALSE
    BY <2>3, <2>5 DEF Step, AcquireMutex, ClearStaleState, OpenVolume,
       CreateUnit, MarkDirty, Attach, StartDispatcher, DispatcherFails, LookForVolume,
       LookTimesOut, AssignPreferred, VerifyPreferred, Announce, AnnounceFails, WaitDone,
       CloseVolume, DeleteUnit
  <2>6. CASE Stopper
    BY <2>6 DEF Stopper, StopPoll, StopDismount, StopDismountFails, Dismounted, StopSync, StopSyncFails,
       StopRetry, StopRemove, StopVouch, StopShutdown
  <2>7. ASSUME ConsoleEvent \/ Windows \/ Gui PROVE FALSE
    BY <2>7 DEF ConsoleEvent, Windows, Expose, GiveLetter, UseFilesystem, OtherArrives,
       OtherLeaves, Gui, GuiLook, GuiDisconnect, GuiDone
  <2> QED
    BY <2>4, <2>5, <2>6, <2>7 DEF Next, vars
<1>2. QED
  BY <1>1, Invariance, PTL DEF Spec

\* safely_dismount_active: the first dismount in a session whose unit runs takes the
\* volume that the host found offline, and no other drive in its stead.
THEOREM DismountIsOurs ==
    Spec => [][StopDismount /\ Sessions # {} /\ unit # "stopped" /\ ~ offline
                 /\ found = "ours" /\ "slow_letter" \notin faults
                   => offline' /\ fs' = "dismounted" /\ mounts'["other"] = mounts["other"]]_vars
<1>1. IInv /\ [Next]_vars =>
          [StopDismount /\ Sessions # {} /\ unit # "stopped" /\ ~ offline
             /\ found = "ours" /\ "slow_letter" \notin faults
               => offline' /\ fs' = "dismounted" /\ mounts'["other"] = mounts["other"]]_vars
  <2> SUFFICES ASSUME IInv, StopDismount, Sessions # {}, unit # "stopped", ~ offline,
                      found = "ours", "slow_letter" \notin faults
               PROVE  /\ offline' /\ fs' = "dismounted"
                      /\ mounts'["other"] = mounts["other"]
    OBVIOUS
  <2>1. PICK h \in Hosts \ console : pc[h] = "wait"
    BY DEF Sessions
  <2>2. At({"wait"})
    BY <2>1 DEF IInv, Holds, Opened, At
  <2>3. unit # "none"
    BY <2>2 DEF IInv, UnitFollows, Attached, At
  <2>4. mounts["ours"] # {} /\ letter \in mounts["ours"]
    BY <2>3 DEF IInv, FoundOurs
  <2>5. target = letter /\ letter \notin mounts["other"]
    BY <2>4, HostAssumption DEF StopDismount, IInv, DriveType, DrivesFollow, FoundOurs, Drives
  <2> QED
    BY <2>4, <2>5 DEF StopDismount, DismountLetter, IInv, DriveType, Drives
<1>2. QED
  BY <1>1, Invariance, PTL DEF Spec

=============================================================================
