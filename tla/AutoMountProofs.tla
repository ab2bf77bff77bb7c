---------------------------- MODULE AutoMountProofs ----------------------------
(***************************************************************************)
(* Proofs about AutoMount, for any number of passwords, any faults and any *)
(* other entry: type correctness, the removal of the secret with the       *)
(* policy, the Run entry, that temporary credentials are one-shot, and     *)
(* that the two files of a pair belong together.                           *)
(***************************************************************************)
EXTENDS AutoMount, TLAPS

\* Type correctness in three parts.
FilesType ==
    /\ conf \in Policies \cup {NoEntry} /\ row \in Policies \cup {NoEntry}
    /\ cred \in Passwords \cup {None} /\ secret \in Passwords \cup {None, Torn}
    /\ age \in {"fresh", "expired"} /\ drawn \in 0 .. MaxPasswords

GuiType ==
    /\ volume \in {"none", "blank", "ready", "entered"}
    /\ master \in Cards \cup {"none"}
    /\ pending \in BOOLEAN /\ startup \in BOOLEAN
    /\ prompts \in Seq(Cards) /\ Len(prompts) =< 2
    /\ at \in {"rest", "gone", "mbr", "clean", "enter", "task", "ready", "cred",
               "secret", "run", "save", "unlist", "forget"}
    /\ why \in {"mount", "startup", "policy", "create", "remove"}

HostType ==
    /\ runKey \in BOOLEAN /\ task \in BOOLEAN
    /\ host \in {"idle", "queued", "look", "check", "drop", "read", "wipe",
                 "unlock", "mounted"}
    /\ loaded \in BOOLEAN /\ pw \in Passwords \cup {None}
    /\ spent \subseteq Passwords /\ crossed \in BOOLEAN /\ faults \in FaultSets /\ others \in Neighbours

\* Who a step of the GUI belongs to, and what it may rely on.
Steps ==
    /\ at \in {"task", "ready", "cred", "secret", "run", "save", "unlist", "forget"}
          => row # NoEntry
    /\ at \in {"task", "ready", "cred", "secret"} => why # "remove"
    /\ at = "ready" => why \in {"mount", "startup"}
    /\ at = "task" => why # "policy"
    /\ at = "forget" => conf = NoEntry
    /\ at = "secret" => drawn \in Passwords
    /\ host \in {"wipe", "unlock"} => pw \in Passwords
    /\ at \in {"cred", "secret"} /\ why \in {"policy", "create"} => row.mount
    /\ at \in {"ready", "cred", "secret"} /\ why # "policy" => row.task

\* A volume is entered once, and has no registration and no row before.
Entered ==
    /\ volume # "entered" => conf = NoEntry /\ row = NoEntry
    /\ at \in {"mbr", "clean", "enter"} => volume # "entered"

\* The registration still mounts at sign-in while the GUI knows better: then the
\* secret is gone already.
Withdrawn ==
    /\ "remove" \notin faults
    /\ conf # NoEntry /\ row # NoEntry /\ conf.mount /\ ~row.mount
    /\ at = "save" \/ ~row.task
    => secret = None

\* Where the Run entry may disagree with the registrations.
Syncing == at = "forget" \/ (why = "create" /\ at \in {"task", "cred", "secret"})
Differing == at \in {"save", "forget"} \/ (why = "policy" /\ at \in {"cred", "secret"})

Synced ==
    faults = {} =>
        /\ ~Differing => row = conf
        /\ ~Syncing => runKey = (Prompts(conf) \/ others # "none")

\* A secret opens the credential, outside the steps that change the pair and unless
\* a host has crossed them.
Paired ==
    ~crossed =>
        /\ at = "secret" => cred = drawn
        /\ at = "run" /\ ~row.unlock => secret = drawn /\ cred = drawn
        /\ faults \cap {"write", "remove", "crash"} = {} /\ at \notin {"secret", "unlist", "forget"}
              => secret \in {None, cred}

\* No spent password is stored, held by a starting host, or written again; and a
\* host that found the entry not automatic unlocks with a password that is gone.
OneUse ==
    "remove" \notin faults =>
        /\ \A p \in spent : p =< drawn
        /\ secret \notin spent /\ (secret # Torn => secret =< drawn)
        /\ at = "secret" => drawn \notin spent /\ secret # drawn
        /\ host \in {"wipe", "unlock"} =>
              pw \notin spent /\ pw =< drawn /\ (at = "secret" => pw # drawn)
        /\ host = "unlock" /\ ~loaded => secret # pw

IInv == /\ TypeOK /\ Steps /\ Entered /\ Withdrawn /\ Synced
        /\ Paired /\ OneUse

-----------------------------------------------------------------------------
(* Entries *)

\* A missing entry is none of the policies.
LEMMA NoEntryIsNone == NoEntry \notin Policies
<1>1. DOMAIN NoEntry = {"none"}
  BY DEF NoEntry
<1>2. \A p \in Policies : DOMAIN p = {"mount", "unlock", "task"}
  BY DEF Policies
<1>3. QED
  BY <1>1, <1>2

\* The assignments to fields of an entry, and what they leave alone.
LEMMA FieldsOfEntries ==
    ASSUME NEW p \in Policies
    PROVE  /\ p.mount \in BOOLEAN /\ p.unlock \in BOOLEAN /\ p.task \in BOOLEAN
           /\ p.unlock => p.mount
           /\ [p EXCEPT !.task = TRUE] \in Policies
           /\ [p EXCEPT !.task = TRUE].task
           /\ [p EXCEPT !.task = TRUE].mount = p.mount
           /\ [p EXCEPT !.task = TRUE].unlock = p.unlock
           /\ [p EXCEPT !.unlock = FALSE] \in Policies
           /\ [p EXCEPT !.unlock = FALSE].mount = p.mount
           /\ [p EXCEPT !.unlock = FALSE].task = p.task
           /\ \A m \in BOOLEAN :
                 /\ [p EXCEPT !.mount = m, !.unlock = FALSE] \in Policies
                 /\ [p EXCEPT !.mount = m, !.unlock = FALSE].mount = m
                 /\ [p EXCEPT !.mount = m, !.unlock = FALSE].task = p.task
           /\ [p EXCEPT !.mount = TRUE, !.unlock = TRUE] \in Policies
           /\ [p EXCEPT !.mount = TRUE, !.unlock = TRUE].mount
           /\ [p EXCEPT !.mount = TRUE, !.unlock = TRUE].task = p.task
BY DEF Policies

\* Whether an entry asks for a password is a truth value.
LEMMA PromptsType == \A entry : Prompts(entry) \in BOOLEAN
BY DEF Prompts

\* No more than two key cards are prompted for.
LEMMA StartupKeysType ==
    ASSUME others \in AllNeighbours
    PROVE  StartupKeys \in Seq(Cards) /\ Len(StartupKeys) =< 2
<1> DEFINE own == IF Prompts(conf) THEN <<"ours">> ELSE <<>>
<1>1. own \in Seq(Cards) /\ Len(own) =< 1
  <2>1. CASE Prompts(conf)
    BY <2>1 DEF Cards
  <2>2. CASE ~Prompts(conf)
    BY <2>2
  <2>3. QED
    BY <2>1, <2>2
<1>2. <<"other">> \in Seq(Cards) /\ <<"ours">> \in Seq(Cards)
  BY DEF Cards
<1>3. <<"other">> \o own \in Seq(Cards) /\ Len(<<"other">> \o own) =< 2
  BY <1>1, <1>2
<1>4. own \o <<"other">> \in Seq(Cards) /\ Len(own \o <<"other">>) =< 2
  BY <1>1, <1>2
<1> HIDE DEF own
<1>5. QED
  BY <1>1, <1>2, <1>3, <1>4 DEF StartupKeys, AllNeighbours, own

-----------------------------------------------------------------------------
(* The invariant: the parts, one lemma each *)

\* The type invariant is that of the files, of the window and of the hosts.
LEMMA TypeParts == TypeOK <=> FilesType /\ GuiType /\ HostType
BY DEF TypeOK, FilesType, GuiType, HostType

\* Type correctness of the files
LEMMA FilesTypeStep ==
    FilesType /\ GuiType /\ Steps /\ [Next]_vars => FilesType'
<1> SUFFICES ASSUME FilesType, GuiType, Steps, [Next]_vars PROVE FilesType'
  OBVIOUS
<1> USE AutoMountAssumption, NoEntryIsNone
    DEF files, guiState, windows, prompting, given, hostState, Goto, Finish, FilesType,
        Steps, Passwords, None
<1>1. CASE DropKey
  BY <1>1 DEF DropKey, Resting
<1>2. CASE CreateCard
  BY <1>2 DEF CreateCard, Resting
<1>3. CASE CreateVolume
  BY <1>3 DEF CreateVolume, Resting
<1>4. CASE PartitionVolume
  BY <1>4 DEF PartitionVolume
<1>5. CASE CleanVolume
  BY <1>5 DEF CleanVolume
<1>6. CASE EnterVolume
  BY <1>6 DEF EnterVolume, Save, SaveFails
<1>7. CASE Connect
  BY <1>7 DEF Connect, Resting
<1>8. CASE EnsureTask
  <2>1. row \in Policies
    BY <1>8 DEF EnsureTask
  <2>2. [row EXCEPT !.task = TRUE] \in Policies
    BY <2>1, FieldsOfEntries
  <2>3. QED
    BY <1>8, <2>1, <2>2 DEF EnsureTask, RegisterEntry, AfterTask, SyncStartup, Save, SaveFails
<1>9. CASE Ready
  BY <1>9 DEF Ready
<1>10. CASE WriteCredential
  <2>1. row \in Policies
    BY <1>10 DEF WriteCredential
  <2>2. [row EXCEPT !.unlock = FALSE] \in Policies
    BY <2>1, FieldsOfEntries
  <2>3. drawn' \in 0 .. MaxPasswords /\ cred' \in Passwords \cup {None}
    BY <1>10 DEF WriteCredential, PrepareFailed
  <2>4. UNCHANGED <<conf, secret, age>> /\ row' \in Policies
    BY <1>10, <2>1, <2>2 DEF WriteCredential, PrepareFailed
  <2>5. QED
    BY <1>10, <2>1, <2>2, <2>3, <2>4 DEF WriteCredential, PrepareFailed
<1>11. CASE WriteSecret
  <2>1. row \in Policies
    BY <1>11 DEF WriteSecret
  <2>2. [row EXCEPT !.unlock = FALSE] \in Policies
    BY <2>1, FieldsOfEntries
  <2>3. QED
    BY <1>11, <2>1, <2>2 DEF WriteSecret, AfterSecret, SyncStartup, PrepareFailed
<1>12. CASE RunTask
  BY <1>12 DEF RunTask
<1>13. CASE ChangePolicy
  <2>1. row \in Policies
    BY <1>13 DEF ChangePolicy
  <2>2. PICK p \in Policies : ApplyPolicy(p)
    BY <1>13 DEF ChangePolicy
  <2>3. p.mount \in BOOLEAN /\ p.unlock \in BOOLEAN
    BY FieldsOfEntries
  <2>4. \A m \in BOOLEAN : [row EXCEPT !.mount = m, !.unlock = FALSE] \in Policies
    BY <2>1, FieldsOfEntries
  <2>5. [row EXCEPT !.mount = TRUE, !.unlock = TRUE] \in Policies
    BY <2>1, FieldsOfEntries
  <2>6. row' \in Policies
    BY <2>2, <2>3, <2>4, <2>5 DEF ApplyPolicy
  <2>7. secret' \in {secret, None}
    BY <2>2 DEF ApplyPolicy, Removed
  <2>8. QED
    BY <1>13, <2>1, <2>2, <2>3, <2>4, <2>5, <2>6, <2>7 DEF ChangePolicy, Resting, ApplyPolicy, Removed
<1>14. CASE SavePolicy
  BY <1>14 DEF SavePolicy, Save, SaveFails, SyncStartup
<1>15. CASE RemoveEntry
  BY <1>15 DEF RemoveEntry, Resting, UnregisterEntry, Removed
<1>16. CASE RemoveConf
  BY <1>16 DEF RemoveConf
<1>17. CASE RemoveFiles
  BY <1>17 DEF RemoveFiles, SyncStartup
<1>18. ASSUME NEW card \in Cards, UnlockKey(card) PROVE FilesType'
  BY <1>18 DEF UnlockKey, Resting, UnlockAtStartup, UnlockAndResume
<1>19. CASE HostLoad
  BY <1>19 DEF HostLoad, HostAt
<1>20. CASE HostLook
  BY <1>20 DEF HostLook, HostAt
<1>21. CASE HostCheck
  BY <1>21 DEF HostCheck, HostAt, Crosses, Stale, Removed
<1>22. CASE HostDrop
  BY <1>22 DEF HostDrop, HostAt, Crosses, Removed
<1>23. CASE HostRead
  BY <1>23 DEF HostRead, HostAt
<1>24. CASE HostWipe
  BY <1>24 DEF HostWipe, HostAt, Crosses, Removed
<1>25. CASE HostUnlock
  BY <1>25 DEF HostUnlock, HostAt
<1>26. CASE HostEnd
  BY <1>26 DEF HostEnd, HostAt
<1>27. CASE Expire
  BY <1>27 DEF Expire
<1>28. CASE SignIn
  BY <1>28 DEF SignIn, StartGui
<1>29. CASE ReopenGui
  BY <1>29 DEF ReopenGui, StartGui
<1>30. CASE HostDies
  BY <1>30 DEF HostDies, HostAt
<1>31. CASE UNCHANGED vars
  BY <1>31 DEF vars
<1>32. QED
  BY <1>1, <1>2, <1>3, <1>4, <1>5, <1>6, <1>7, <1>8, <1>9, <1>10, <1>11,
     <1>12, <1>13, <1>14, <1>15, <1>16, <1>17, <1>18, <1>19, <1>20, <1>21,
     <1>22, <1>23, <1>24, <1>25, <1>26, <1>27, <1>28, <1>29, <1>30, <1>31
     DEF Next, Gui, Host

\* Type correctness of the GUI
LEMMA GuiTypeStep ==
    GuiType /\ HostType /\ Steps /\ [Next]_vars => GuiType'
<1> SUFFICES ASSUME GuiType, HostType, Steps, [Next]_vars PROVE GuiType'
  OBVIOUS
<1> USE NoEntryIsNone
    DEF files, guiState, windows, prompting, given, hostState, Goto, Finish, GuiType,
        Steps, Cards
<1>1. CASE DropKey
  BY <1>1 DEF DropKey, Resting
<1>2. CASE CreateCard
  BY <1>2 DEF CreateCard, Resting
<1>3. CASE CreateVolume
  BY <1>3 DEF CreateVolume, Resting
<1>4. CASE PartitionVolume
  BY <1>4 DEF PartitionVolume
<1>5. CASE CleanVolume
  BY <1>5 DEF CleanVolume
<1>6. CASE EnterVolume
  BY <1>6 DEF EnterVolume, Save, SaveFails
<1>7. CASE Connect
  BY <1>7 DEF Connect, Resting
<1>8. CASE EnsureTask
  BY <1>8 DEF EnsureTask, RegisterEntry, AfterTask, SyncStartup, Save, SaveFails
<1>9. CASE Ready
  BY <1>9 DEF Ready
<1>10. CASE WriteCredential
  BY <1>10 DEF WriteCredential, PrepareFailed
<1>11. CASE WriteSecret
  BY <1>11 DEF WriteSecret, AfterSecret, SyncStartup, PrepareFailed
<1>12. CASE RunTask
  BY <1>12 DEF RunTask
<1>13. CASE ChangePolicy
  BY <1>13 DEF ChangePolicy, Resting, ApplyPolicy, Removed
<1>14. CASE SavePolicy
  BY <1>14 DEF SavePolicy, Save, SaveFails, SyncStartup
<1>15. CASE RemoveEntry
  BY <1>15 DEF RemoveEntry, Resting, UnregisterEntry, Removed
<1>16. CASE RemoveConf
  BY <1>16 DEF RemoveConf
<1>17. CASE RemoveFiles
  BY <1>17 DEF RemoveFiles, SyncStartup
<1>18. ASSUME NEW card \in Cards, UnlockKey(card) PROVE GuiType'
  <2>1. Len(prompts) > 1 => Tail(prompts) \in Seq(Cards) /\ Len(Tail(prompts)) =< 2
    OBVIOUS
  <2>2. <<>> \in Seq(Cards) /\ Len(<<>>) =< 2
    OBVIOUS
  <2>3. startup' = (Len(prompts) > 1) \/ startup' = startup
    BY <1>18 DEF UnlockKey, UnlockAtStartup, UnlockAndResume
  <2>4. prompts' = prompts \/ prompts' = <<>> \/ (Len(prompts) > 1 /\ prompts' = Tail(prompts))
    BY <1>18 DEF UnlockKey, UnlockAtStartup, UnlockAndResume
  <2>5. prompts' \in Seq(Cards) /\ Len(prompts') =< 2
    BY <2>1, <2>2, <2>4
  <2>6. (Len(prompts) > 1) \in BOOLEAN
    OBVIOUS
  <2>7. startup' \in BOOLEAN
    BY <2>3, <2>6, Zenon
  <2>8. UNCHANGED volume /\ at' \in {at, "task"} /\ why' \in {why, "startup", "mount"} /\ master' \in {card, "none"}
    BY <1>18 DEF UnlockKey, UnlockAtStartup, UnlockAndResume
  <2>9. pending' \in {pending, FALSE}
    BY <1>18 DEF UnlockKey, UnlockAtStartup, UnlockAndResume
  <2>10. QED
    BY <1>18, <2>1, <2>2, <2>3, <2>4, <2>5, <2>6, <2>7, <2>8, <2>9 DEF UnlockKey, Resting, UnlockAtStartup, UnlockAndResume
<1>19. CASE HostLoad
  BY <1>19 DEF HostLoad, HostAt
<1>20. CASE HostLook
  BY <1>20 DEF HostLook, HostAt
<1>21. CASE HostCheck
  BY <1>21 DEF HostCheck, HostAt, Crosses, Stale, Removed
<1>22. CASE HostDrop
  BY <1>22 DEF HostDrop, HostAt, Crosses, Removed
<1>23. CASE HostRead
  BY <1>23 DEF HostRead, HostAt
<1>24. CASE HostWipe
  BY <1>24 DEF HostWipe, HostAt, Crosses, Removed
<1>25. CASE HostUnlock
  BY <1>25 DEF HostUnlock, HostAt
<1>26. CASE HostEnd
  BY <1>26 DEF HostEnd, HostAt
<1>27. CASE Expire
  BY <1>27 DEF Expire
<1>28. CASE SignIn
  <2>1. StartupKeys \in Seq(Cards) /\ Len(StartupKeys) =< 2
    BY AutoMountAssumption, StartupKeysType DEF HostType
  <2>2. <<>> \in Seq(Cards) /\ Len(<<>>) =< 2
    OBVIOUS
  <2>3. prompts' \in {StartupKeys, <<>>} /\ startup' \in BOOLEAN
    BY <1>28 DEF SignIn, StartGui, HostType
  <2>4. QED
    BY <1>28, <2>1, <2>2, <2>3 DEF SignIn, StartGui
<1>29. CASE ReopenGui
  <2>1. <<>> \in Seq(Cards) /\ Len(<<>>) =< 2
    OBVIOUS
  <2>2. QED
    BY <1>29, <2>1 DEF ReopenGui, StartGui
<1>30. CASE HostDies
  BY <1>30 DEF HostDies, HostAt
<1>31. CASE UNCHANGED vars
  BY <1>31 DEF vars
<1>32. QED
  BY <1>1, <1>2, <1>3, <1>4, <1>5, <1>6, <1>7, <1>8, <1>9, <1>10, <1>11,
     <1>12, <1>13, <1>14, <1>15, <1>16, <1>17, <1>18, <1>19, <1>20, <1>21,
     <1>22, <1>23, <1>24, <1>25, <1>26, <1>27, <1>28, <1>29, <1>30, <1>31
     DEF Next, Gui, Host

\* Type correctness of the host and of Windows
LEMMA HostTypeStep ==
    FilesType /\ GuiType /\ HostType /\ Steps /\ [Next]_vars => HostType'
<1> SUFFICES ASSUME FilesType, GuiType, HostType, Steps, [Next]_vars PROVE HostType'
  OBVIOUS
<1> USE NoEntryIsNone
    DEF files, guiState, windows, prompting, given, hostState, Goto, Finish, HostType,
        Steps, Passwords, None
<1>1. CASE DropKey
  BY <1>1 DEF DropKey, Resting
<1>2. CASE CreateCard
  BY <1>2 DEF CreateCard, Resting
<1>3. CASE CreateVolume
  BY <1>3 DEF CreateVolume, Resting
<1>4. CASE PartitionVolume
  BY <1>4 DEF PartitionVolume
<1>5. CASE CleanVolume
  BY <1>5 DEF CleanVolume
<1>6. CASE EnterVolume
  BY <1>6 DEF EnterVolume, Save, SaveFails
<1>7. CASE Connect
  BY <1>7 DEF Connect, Resting
<1>8. CASE EnsureTask
  BY <1>8, PromptsType DEF EnsureTask, RegisterEntry, AfterTask, SyncStartup, Save, SaveFails
<1>9. CASE Ready
  BY <1>9 DEF Ready
<1>10. CASE WriteCredential
  BY <1>10 DEF WriteCredential, PrepareFailed
<1>11. CASE WriteSecret
  BY <1>11, PromptsType DEF WriteSecret, AfterSecret, SyncStartup, PrepareFailed, GuiType
<1>12. CASE RunTask
  BY <1>12 DEF RunTask
<1>13. CASE ChangePolicy
  BY <1>13 DEF ChangePolicy, Resting, ApplyPolicy, Removed
<1>14. CASE SavePolicy
  BY <1>14, PromptsType DEF SavePolicy, Save, SaveFails, SyncStartup
<1>15. CASE RemoveEntry
  BY <1>15 DEF RemoveEntry, Resting, UnregisterEntry, Removed
<1>16. CASE RemoveConf
  BY <1>16 DEF RemoveConf
<1>17. CASE RemoveFiles
  BY <1>17, PromptsType DEF RemoveFiles, SyncStartup
<1>18. ASSUME NEW card \in Cards, UnlockKey(card) PROVE HostType'
  BY <1>18 DEF UnlockKey, Resting, UnlockAtStartup, UnlockAndResume
<1>19. CASE HostLoad
  <2>1. conf # NoEntry => conf.unlock \in BOOLEAN
    BY FieldsOfEntries DEF FilesType
  <2>2. QED
    BY <1>19, <2>1 DEF HostLoad, HostAt
<1>20. CASE HostLook
  BY <1>20 DEF HostLook, HostAt
<1>21. CASE HostCheck
  BY <1>21 DEF HostCheck, HostAt, Crosses, Stale, Removed
<1>22. CASE HostDrop
  BY <1>22 DEF HostDrop, HostAt, Crosses, Removed
<1>23. CASE HostRead
  BY <1>23 DEF HostRead, HostAt, FilesType
<1>24. CASE HostWipe
  BY <1>24 DEF HostWipe, HostAt, Crosses, Removed
<1>25. CASE HostUnlock
  BY <1>25 DEF HostUnlock, HostAt, FilesType
<1>26. CASE HostEnd
  BY <1>26 DEF HostEnd, HostAt
<1>27. CASE Expire
  BY <1>27 DEF Expire
<1>28. CASE SignIn
  BY <1>28 DEF SignIn, StartGui
<1>29. CASE ReopenGui
  BY <1>29 DEF ReopenGui, StartGui
<1>30. CASE HostDies
  BY <1>30 DEF HostDies, HostAt
<1>31. CASE UNCHANGED vars
  BY <1>31 DEF vars
<1>32. QED
  BY <1>1, <1>2, <1>3, <1>4, <1>5, <1>6, <1>7, <1>8, <1>9, <1>10, <1>11,
     <1>12, <1>13, <1>14, <1>15, <1>16, <1>17, <1>18, <1>19, <1>20, <1>21,
     <1>22, <1>23, <1>24, <1>25, <1>26, <1>27, <1>28, <1>29, <1>30, <1>31
     DEF Next, Gui, Host

\* Who a step belongs to
LEMMA StepsStep ==
    FilesType /\ GuiType /\ HostType /\ Steps /\ Entered /\ [Next]_vars => Steps'
<1> SUFFICES ASSUME FilesType, GuiType, HostType, Steps, Entered, [Next]_vars PROVE Steps'
  OBVIOUS
<1> USE NoEntryIsNone
    DEF files, guiState, windows, prompting, given, hostState, Goto, Finish, Steps, Entered
<1>1. CASE DropKey
  BY <1>1 DEF DropKey, Resting
<1>2. CASE CreateCard
  BY <1>2 DEF CreateCard, Resting
<1>3. CASE CreateVolume
  BY <1>3 DEF CreateVolume, Resting
<1>4. CASE PartitionVolume
  BY <1>4 DEF PartitionVolume
<1>5. CASE CleanVolume
  BY <1>5 DEF CleanVolume
<1>6. CASE EnterVolume
  BY <1>6 DEF EnterVolume, Save, SaveFails, FilesType
<1>7. CASE Connect
  BY <1>7 DEF Connect, Resting
<1>8. CASE EnsureTask
  <2>1. row \in Policies
    BY <1>8 DEF EnsureTask, Steps, FilesType
  <2>2. /\ row.mount \in BOOLEAN /\ row.unlock \in BOOLEAN /\ row.task \in BOOLEAN
        /\ row.unlock => row.mount
    BY <2>1, FieldsOfEntries
  <2>3. /\ [row EXCEPT !.task = TRUE] \in Policies
        /\ [row EXCEPT !.task = TRUE].task
        /\ [row EXCEPT !.task = TRUE].unlock = row.unlock
        /\ [row EXCEPT !.task = TRUE].mount = row.mount
    BY <2>1, FieldsOfEntries
  <2>4. row' \in Policies
    BY <1>8, <2>1, <2>3 DEF EnsureTask
  <2>5. /\ at' \in {"rest", "cred", "ready"}
        /\ at' = "cred" => why' = "create" /\ row.unlock
        /\ at' = "ready" => why' \in {"mount", "startup"}
    BY <1>8 DEF EnsureTask, AfterTask, GuiType
  <2>6. (row' = row /\ (row.task \/ at' = "rest")) \/ row' = [row EXCEPT !.task = TRUE]
    BY <1>8 DEF EnsureTask, RegisterEntry
  <2>7. at' # "rest" => row'.task
    BY <2>3, <2>6
  <2>8. row.mount => row'.mount
    BY <2>3, <2>6
  <2>9. at' = "cred" => row'.mount
    BY <2>2, <2>5, <2>8
  <2>10. UNCHANGED <<drawn, host, pw>>
    BY <1>8 DEF EnsureTask
  <2>11. QED
    BY <2>1, <2>2, <2>3, <2>4, <2>5, <2>6, <2>7, <2>8, <2>9, <2>10
<1>9. CASE Ready
  BY <1>9 DEF Ready
<1>10. CASE WriteCredential
  <2>1. row \in Policies
    BY <1>10 DEF WriteCredential, Steps, FilesType
  <2>2. /\ row.mount \in BOOLEAN /\ row.unlock \in BOOLEAN /\ row.task \in BOOLEAN
        /\ row.unlock => row.mount
    BY <2>1, FieldsOfEntries
  <2>3. drawn + 1 \in Passwords
    BY AutoMountAssumption, <1>10 DEF WriteCredential, FilesType, Passwords
  <2>4. /\ [row EXCEPT !.unlock = FALSE] \in Policies
        /\ [row EXCEPT !.unlock = FALSE].mount = row.mount
        /\ [row EXCEPT !.unlock = FALSE].task = row.task
    BY <2>1, FieldsOfEntries
  <2>5. row' \in Policies
    BY <1>10, <2>1, <2>4 DEF WriteCredential, PrepareFailed
  <2>6. QED
    BY <1>10, <2>1, <2>2, <2>3, <2>4, <2>5 DEF WriteCredential, PrepareFailed
<1>11. CASE WriteSecret
  <2>1. row \in Policies
    BY <1>11 DEF WriteSecret, Steps, FilesType
  <2>2. /\ [row EXCEPT !.unlock = FALSE] \in Policies
        /\ [row EXCEPT !.unlock = FALSE].mount = row.mount
        /\ [row EXCEPT !.unlock = FALSE].task = row.task
    BY <2>1, FieldsOfEntries
  <2>3. row' \in Policies
    BY <1>11, <2>1, <2>2 DEF WriteSecret, PrepareFailed
  <2>4. at' \in {"run", "ready", "save", "rest"} /\ (at' = "ready" => why' = "mount")
    BY <1>11 DEF WriteSecret, AfterSecret, PrepareFailed, GuiType
  <2>5. UNCHANGED <<drawn, host, pw>> /\ (at' = "ready" => row' = row /\ at = "secret" /\ why # "policy")
    BY <1>11 DEF WriteSecret, AfterSecret, PrepareFailed
  <2>6. QED
    BY <2>1, <2>2, <2>3, <2>4, <2>5
<1>12. CASE RunTask
  BY <1>12 DEF RunTask
<1>13. CASE ChangePolicy
  <2>1. row \in Policies
    BY <1>13 DEF ChangePolicy, Steps, FilesType
  <2>2. PICK p \in Policies : ApplyPolicy(p)
    BY <1>13 DEF ChangePolicy
  <2>3. p.mount \in BOOLEAN /\ p.unlock \in BOOLEAN
    BY FieldsOfEntries
  <2>4. \A m \in BOOLEAN : /\ [row EXCEPT !.mount = m, !.unlock = FALSE] \in Policies
                         /\ [row EXCEPT !.mount = m, !.unlock = FALSE].mount = m
    BY <2>1, FieldsOfEntries
  <2>5. /\ [row EXCEPT !.mount = TRUE, !.unlock = TRUE] \in Policies
        /\ [row EXCEPT !.mount = TRUE, !.unlock = TRUE].mount
    BY <2>1, FieldsOfEntries
  <2>6. row' \in Policies
    BY <2>1, <2>2, <2>3, <2>4, <2>5 DEF ApplyPolicy
  <2>7. at' = "save" \/ (at' = "cred" /\ why' = "policy" /\ row'.mount)
    BY <2>1, <2>2, <2>3, <2>5 DEF ApplyPolicy
  <2>8. UNCHANGED <<drawn, host, pw>>
    BY <1>13 DEF ChangePolicy
  <2>9. QED
    BY <1>13, <2>1, <2>2, <2>3, <2>4, <2>5, <2>6, <2>7, <2>8 DEF ChangePolicy, Resting, ApplyPolicy, Removed
<1>14. CASE SavePolicy
  BY <1>14 DEF SavePolicy, Save, SaveFails, SyncStartup
<1>15. CASE RemoveEntry
  BY <1>15 DEF RemoveEntry, Resting, UnregisterEntry, Removed
<1>16. CASE RemoveConf
  BY <1>16 DEF RemoveConf
<1>17. CASE RemoveFiles
  BY <1>17 DEF RemoveFiles, SyncStartup
<1>18. ASSUME NEW card \in Cards, UnlockKey(card) PROVE Steps'
  <2>1. at = "rest" /\ UNCHANGED <<row, drawn, host, pw>>
    BY <1>18 DEF UnlockKey, Resting
  <2>2. at' = "rest" \/ (at' = "task" /\ why' \in {"mount", "startup"} /\ row # NoEntry)
    BY <1>18, <2>1 DEF UnlockKey, UnlockAtStartup, UnlockAndResume, Prompts
  <2>3. QED
    BY <1>18, <2>1, <2>2 DEF UnlockKey, Resting, UnlockAtStartup, UnlockAndResume
<1>19. CASE HostLoad
  BY <1>19 DEF HostLoad, HostAt
<1>20. CASE HostLook
  BY <1>20 DEF HostLook, HostAt
<1>21. CASE HostCheck
  BY <1>21 DEF HostCheck, HostAt, Crosses, Stale, Removed
<1>22. CASE HostDrop
  BY <1>22 DEF HostDrop, HostAt, Crosses, Removed
<1>23. CASE HostRead
  BY <1>23 DEF HostRead, HostAt, FilesType, Passwords, None
<1>24. CASE HostWipe
  BY <1>24 DEF HostWipe, HostAt, Crosses, Removed
<1>25. CASE HostUnlock
  BY <1>25 DEF HostUnlock, HostAt
<1>26. CASE HostEnd
  BY <1>26 DEF HostEnd, HostAt
<1>27. CASE Expire
  BY <1>27 DEF Expire
<1>28. CASE SignIn
  BY <1>28 DEF SignIn, StartGui
<1>29. CASE ReopenGui
  BY <1>29 DEF ReopenGui, StartGui
<1>30. CASE HostDies
  BY <1>30 DEF HostDies, HostAt
<1>31. CASE UNCHANGED vars
  BY <1>31 DEF vars
<1>32. QED
  BY <1>1, <1>2, <1>3, <1>4, <1>5, <1>6, <1>7, <1>8, <1>9, <1>10, <1>11,
     <1>12, <1>13, <1>14, <1>15, <1>16, <1>17, <1>18, <1>19, <1>20, <1>21,
     <1>22, <1>23, <1>24, <1>25, <1>26, <1>27, <1>28, <1>29, <1>30, <1>31
     DEF Next, Gui, Host

\* A volume is entered once
LEMMA EnteredStep ==
    FilesType /\ GuiType /\ Steps /\ Entered /\ [Next]_vars => Entered'
<1> SUFFICES ASSUME FilesType, GuiType, Steps, Entered, [Next]_vars PROVE Entered'
  OBVIOUS
<1> USE NoEntryIsNone
    DEF files, guiState, windows, prompting, given, hostState, Goto, Finish, Steps, Entered
<1>1. CASE DropKey
  BY <1>1 DEF DropKey, Resting
<1>2. CASE CreateCard
  BY <1>2 DEF CreateCard, Resting
<1>3. CASE CreateVolume
  BY <1>3 DEF CreateVolume, Resting
<1>4. CASE PartitionVolume
  BY <1>4 DEF PartitionVolume
<1>5. CASE CleanVolume
  BY <1>5 DEF CleanVolume
<1>6. CASE EnterVolume
  BY <1>6 DEF EnterVolume, Save, SaveFails
<1>7. CASE Connect
  BY <1>7 DEF Connect, Resting
<1>8. CASE EnsureTask
  <2>1. row # NoEntry
    BY <1>8 DEF EnsureTask
  <2>2. at' \in {"rest", "cred", "ready"} /\ UNCHANGED volume
    BY <1>8 DEF EnsureTask, AfterTask
  <2>3. QED
    BY <2>1, <2>2
<1>9. CASE Ready
  BY <1>9 DEF Ready
<1>10. CASE WriteCredential
  BY <1>10 DEF WriteCredential, PrepareFailed
<1>11. CASE WriteSecret
  <2>1. UNCHANGED <<conf, volume>> /\ row # NoEntry
    BY <1>11 DEF WriteSecret
  <2>2. at' \in {"run", "ready", "save", "rest"}
    BY <1>11 DEF WriteSecret, AfterSecret, PrepareFailed, GuiType
  <2>3. QED
    BY <2>1, <2>2
<1>12. CASE RunTask
  BY <1>12 DEF RunTask
<1>13. CASE ChangePolicy
  BY <1>13 DEF ChangePolicy, Resting, ApplyPolicy, Removed
<1>14. CASE SavePolicy
  BY <1>14 DEF SavePolicy, Save, SaveFails, SyncStartup
<1>15. CASE RemoveEntry
  BY <1>15 DEF RemoveEntry, Resting, UnregisterEntry, Removed
<1>16. CASE RemoveConf
  BY <1>16 DEF RemoveConf
<1>17. CASE RemoveFiles
  BY <1>17 DEF RemoveFiles, SyncStartup
<1>18. ASSUME NEW card \in Cards, UnlockKey(card) PROVE Entered'
  BY <1>18 DEF UnlockKey, Resting, UnlockAtStartup, UnlockAndResume
<1>19. CASE HostLoad
  BY <1>19 DEF HostLoad, HostAt
<1>20. CASE HostLook
  BY <1>20 DEF HostLook, HostAt
<1>21. CASE HostCheck
  BY <1>21 DEF HostCheck, HostAt, Crosses, Stale, Removed
<1>22. CASE HostDrop
  BY <1>22 DEF HostDrop, HostAt, Crosses, Removed
<1>23. CASE HostRead
  BY <1>23 DEF HostRead, HostAt
<1>24. CASE HostWipe
  BY <1>24 DEF HostWipe, HostAt, Crosses, Removed
<1>25. CASE HostUnlock
  BY <1>25 DEF HostUnlock, HostAt
<1>26. CASE HostEnd
  BY <1>26 DEF HostEnd, HostAt
<1>27. CASE Expire
  BY <1>27 DEF Expire
<1>28. CASE SignIn
  BY <1>28 DEF SignIn, StartGui
<1>29. CASE ReopenGui
  BY <1>29 DEF ReopenGui, StartGui
<1>30. CASE HostDies
  BY <1>30 DEF HostDies, HostAt
<1>31. CASE UNCHANGED vars
  BY <1>31 DEF vars
<1>32. QED
  BY <1>1, <1>2, <1>3, <1>4, <1>5, <1>6, <1>7, <1>8, <1>9, <1>10, <1>11,
     <1>12, <1>13, <1>14, <1>15, <1>16, <1>17, <1>18, <1>19, <1>20, <1>21,
     <1>22, <1>23, <1>24, <1>25, <1>26, <1>27, <1>28, <1>29, <1>30, <1>31
     DEF Next, Gui, Host

\* The secret goes before the registration learns of it
LEMMA WithdrawnStep ==
    FilesType /\ GuiType /\ HostType /\ Steps /\ Entered /\ Withdrawn /\ [Next]_vars => Withdrawn'
<1> SUFFICES ASSUME FilesType, GuiType, HostType, Steps, Entered, Withdrawn, [Next]_vars PROVE Withdrawn'
  OBVIOUS
<1> USE NoEntryIsNone
    DEF files, guiState, windows, prompting, given, hostState, Goto, Finish, Steps, Entered, Withdrawn
<1>1. CASE DropKey
  BY <1>1 DEF DropKey, Resting
<1>2. CASE CreateCard
  BY <1>2 DEF CreateCard, Resting
<1>3. CASE CreateVolume
  BY <1>3 DEF CreateVolume, Resting
<1>4. CASE PartitionVolume
  BY <1>4 DEF PartitionVolume
<1>5. CASE CleanVolume
  BY <1>5 DEF CleanVolume
<1>6. CASE EnterVolume
  BY <1>6 DEF EnterVolume, Save, SaveFails
<1>7. CASE Connect
  BY <1>7 DEF Connect, Resting
<1>8. CASE EnsureTask
  <2>1. row \in Policies
    BY <1>8 DEF EnsureTask, FilesType
  <2>2. /\ row.mount \in BOOLEAN /\ row.unlock \in BOOLEAN /\ row.task \in BOOLEAN
        /\ row.unlock => row.mount
    BY <2>1, FieldsOfEntries
  <2>3. /\ [row EXCEPT !.task = TRUE] \in Policies
        /\ [row EXCEPT !.task = TRUE].task
        /\ [row EXCEPT !.task = TRUE].unlock = row.unlock
        /\ [row EXCEPT !.task = TRUE].mount = row.mount
    BY <2>1, FieldsOfEntries
  <2>4. at' \in {"rest", "cred", "ready"} /\ UNCHANGED <<secret, faults>>
    BY <1>8 DEF EnsureTask, AfterTask
  <2>5. \/ conf' = conf /\ row' = row /\ row.task
        \/ conf' = conf /\ row' = row
        \/ row' = [row EXCEPT !.task = TRUE]
    BY <1>8 DEF EnsureTask, RegisterEntry
  <2>6. row' = [row EXCEPT !.task = TRUE] => row'.task
    BY <2>3
  <2>7. CASE row' = [row EXCEPT !.task = TRUE]
    BY <2>4, <2>6, <2>7
  <2>8. CASE conf' = conf /\ row' = row
    BY <2>4, <2>8
  <2>9. QED
    BY <2>1, <2>2, <2>3, <2>4, <2>5, <2>6, <2>7, <2>8
<1>9. CASE Ready
  BY <1>9 DEF Ready
<1>10. CASE WriteCredential
  <2>1. row \in Policies
    BY <1>10 DEF WriteCredential, FilesType
  <2>2. /\ [row EXCEPT !.unlock = FALSE] \in Policies
        /\ [row EXCEPT !.unlock = FALSE].mount = row.mount
        /\ [row EXCEPT !.unlock = FALSE].task = row.task
    BY <2>1, FieldsOfEntries
  <2>3. UNCHANGED <<conf, secret, faults>>
    BY <1>10 DEF WriteCredential
  <2>4. row' = row \/ (row' = [row EXCEPT !.unlock = FALSE] /\ why = "policy")
    BY <1>10 DEF WriteCredential, PrepareFailed
  <2>5. at' \in {"secret", "rest", "save"} /\ (at' = "save" => why = "policy")
    BY <1>10 DEF WriteCredential, PrepareFailed
  <2>6. why = "policy" => row.mount
    BY <1>10 DEF WriteCredential
  <2>7. CASE row' = row
    BY <2>3, <2>5, <2>6, <2>7
  <2>8. CASE row' = [row EXCEPT !.unlock = FALSE] /\ why = "policy"
    BY <2>2, <2>6, <2>8
  <2>9. QED
    BY <2>1, <2>2, <2>3, <2>4, <2>5, <2>6, <2>7, <2>8
<1>11. CASE WriteSecret
  <2>1. row \in Policies
    BY <1>11 DEF WriteSecret, FilesType
  <2>2. /\ [row EXCEPT !.unlock = FALSE] \in Policies
        /\ [row EXCEPT !.unlock = FALSE].mount = row.mount
        /\ [row EXCEPT !.unlock = FALSE].task = row.task
    BY <2>1, FieldsOfEntries
  <2>3. UNCHANGED <<conf, faults>>
    BY <1>11 DEF WriteSecret
  <2>4. row' = row \/ (row' = [row EXCEPT !.unlock = FALSE] /\ why = "policy")
    BY <1>11 DEF WriteSecret, PrepareFailed
  <2>5. at' = "save" => why = "policy"
    BY <1>11 DEF WriteSecret, AfterSecret, PrepareFailed, GuiType
  <2>6. row.mount \/ row.task
    BY <1>11 DEF WriteSecret, GuiType
  <2>7. why = "policy" => row.mount
    BY <1>11 DEF WriteSecret
  <2>8. CASE row' = row
    BY <2>5, <2>6, <2>7, <2>8
  <2>9. CASE row' = [row EXCEPT !.unlock = FALSE] /\ why = "policy"
    BY <2>2, <2>7, <2>9
  <2>10. QED
    BY <2>1, <2>2, <2>3, <2>4, <2>5, <2>6, <2>7, <2>8, <2>9
<1>12. CASE RunTask
  BY <1>12 DEF RunTask
<1>13. CASE ChangePolicy
  <2>1. row \in Policies
    BY <1>13 DEF ChangePolicy, FilesType
  <2>2. PICK p \in Policies : ApplyPolicy(p)
    BY <1>13 DEF ChangePolicy
  <2>3. p.mount \in BOOLEAN /\ p.unlock \in BOOLEAN
    BY FieldsOfEntries
  <2>4. \A m \in BOOLEAN : /\ [row EXCEPT !.mount = m, !.unlock = FALSE] \in Policies
                         /\ [row EXCEPT !.mount = m, !.unlock = FALSE].mount = m
    BY <2>1, FieldsOfEntries
  <2>5. /\ [row EXCEPT !.mount = TRUE, !.unlock = TRUE] \in Policies
        /\ [row EXCEPT !.mount = TRUE, !.unlock = TRUE].mount
    BY <2>1, FieldsOfEntries
  <2>6. \/ secret' \in Removed(secret)
        \/ row' = [row EXCEPT !.mount = TRUE, !.unlock = TRUE]
        \/ row' = [row EXCEPT !.mount = TRUE, !.unlock = FALSE]
    BY <2>2 DEF ApplyPolicy
  <2>7. UNCHANGED <<conf, faults>>
    BY <1>13 DEF ChangePolicy
  <2>8. QED
    BY <2>1, <2>2, <2>3, <2>4, <2>5, <2>6, <2>7 DEF Removed
<1>14. CASE SavePolicy
  <2>1. row \in Policies
    BY <1>14 DEF SavePolicy, FilesType
  <2>2. /\ row.mount \in BOOLEAN /\ row.unlock \in BOOLEAN /\ row.task \in BOOLEAN
        /\ row.unlock => row.mount
    BY <2>1, FieldsOfEntries
  <2>3. QED
    BY <1>14, <2>1, <2>2 DEF SavePolicy, Save, SaveFails, SyncStartup
<1>15. CASE RemoveEntry
  BY <1>15 DEF RemoveEntry, Resting, UnregisterEntry, Removed
<1>16. CASE RemoveConf
  BY <1>16 DEF RemoveConf
<1>17. CASE RemoveFiles
  BY <1>17 DEF RemoveFiles, SyncStartup
<1>18. ASSUME NEW card \in Cards, UnlockKey(card) PROVE Withdrawn'
  BY <1>18 DEF UnlockKey, Resting, UnlockAtStartup, UnlockAndResume
<1>19. CASE HostLoad
  BY <1>19 DEF HostLoad, HostAt
<1>20. CASE HostLook
  BY <1>20 DEF HostLook, HostAt
<1>21. CASE HostCheck
  BY <1>21 DEF HostCheck, HostAt, Crosses, Stale, Removed
<1>22. CASE HostDrop
  BY <1>22 DEF HostDrop, HostAt, Crosses, Removed
<1>23. CASE HostRead
  BY <1>23 DEF HostRead, HostAt
<1>24. CASE HostWipe
  BY <1>24 DEF HostWipe, HostAt, Crosses, Removed
<1>25. CASE HostUnlock
  BY <1>25 DEF HostUnlock, HostAt
<1>26. CASE HostEnd
  BY <1>26 DEF HostEnd, HostAt
<1>27. CASE Expire
  BY <1>27 DEF Expire
<1>28. CASE SignIn
  BY <1>28 DEF SignIn, StartGui
<1>29. CASE ReopenGui
  BY <1>29 DEF ReopenGui, StartGui
<1>30. CASE HostDies
  BY <1>30 DEF HostDies, HostAt
<1>31. CASE UNCHANGED vars
  BY <1>31 DEF vars
<1>32. QED
  BY <1>1, <1>2, <1>3, <1>4, <1>5, <1>6, <1>7, <1>8, <1>9, <1>10, <1>11,
     <1>12, <1>13, <1>14, <1>15, <1>16, <1>17, <1>18, <1>19, <1>20, <1>21,
     <1>22, <1>23, <1>24, <1>25, <1>26, <1>27, <1>28, <1>29, <1>30, <1>31
     DEF Next, Gui, Host

\* The Run entry follows the registrations
LEMMA SyncedStep ==
    FilesType /\ GuiType /\ HostType /\ Steps /\ Entered /\ Synced /\ [Next]_vars => Synced'
<1> SUFFICES ASSUME FilesType, GuiType, HostType, Steps, Entered, Synced, [Next]_vars PROVE Synced'
  OBVIOUS
<1> USE NoEntryIsNone
    DEF files, guiState, windows, prompting, given, hostState, Goto, Finish, Steps, Entered, Synced, Syncing, Differing
<1>1. CASE DropKey
  BY <1>1 DEF DropKey, Resting
<1>2. CASE CreateCard
  BY <1>2 DEF CreateCard, Resting
<1>3. CASE CreateVolume
  BY <1>3 DEF CreateVolume, Resting
<1>4. CASE PartitionVolume
  BY <1>4 DEF PartitionVolume
<1>5. CASE CleanVolume
  BY <1>5 DEF CleanVolume
<1>6. CASE EnterVolume
  <2>1. UNCHANGED <<faults, others, runKey>> /\ at' \in {"rest", "task"}
    BY <1>6 DEF EnterVolume
  <2>2. row = conf /\ ~Prompts(conf)
    BY <1>6 DEF EnterVolume, Prompts
  <2>3. QED
    BY <1>6, <2>1, <2>2 DEF EnterVolume, Save, SaveFails
<1>7. CASE Connect
  BY <1>7 DEF Connect, Resting
<1>8. CASE EnsureTask
  <2>1. row \in Policies
    BY <1>8 DEF EnsureTask, FilesType
  <2>2. /\ row.mount \in BOOLEAN /\ row.unlock \in BOOLEAN /\ row.task \in BOOLEAN
        /\ row.unlock => row.mount
    BY <2>1, FieldsOfEntries
  <2>3. /\ [row EXCEPT !.task = TRUE] \in Policies
        /\ [row EXCEPT !.task = TRUE].task
        /\ [row EXCEPT !.task = TRUE].unlock = row.unlock
        /\ [row EXCEPT !.task = TRUE].mount = row.mount
    BY <2>1, FieldsOfEntries
  <2>4. Prompts([row EXCEPT !.task = TRUE]) = Prompts(row)
    BY <2>1, <2>3 DEF Prompts
  <2>5. row' = row \/ row' = [row EXCEPT !.task = TRUE]
    BY <1>8 DEF EnsureTask, RegisterEntry
  <2>6. UNCHANGED <<faults, others>>
    BY <1>8 DEF EnsureTask
  <2>7. faults = {} => row = conf /\ row' = conf'
    BY <1>8, <2>1 DEF EnsureTask, RegisterEntry, Save, SaveFails
  <2>8. Prompts(row') = Prompts(row)
    BY <2>4, <2>5
  <2>9. faults = {} /\ why # "create" => UNCHANGED <<runKey, why>>
    BY <1>8 DEF EnsureTask, AfterTask
  <2>10. faults = {} /\ why = "create" => (at' = "cred" /\ why' = why) \/ (at' = "ready" /\ SyncStartup(row))
    BY <1>8, <2>1 DEF EnsureTask, AfterTask, RegisterEntry, SaveFails
  <2>11. at' \in {"rest", "cred", "ready"} /\ (at' = "cred" => why' = "create")
    BY <1>8 DEF EnsureTask, AfterTask
  <2>12. QED
    BY <2>1, <2>2, <2>3, <2>4, <2>5, <2>6, <2>7, <2>8, <2>9, <2>10, <2>11 DEF SyncStartup
<1>9. CASE Ready
  BY <1>9 DEF Ready
<1>10. CASE WriteCredential
  BY <1>10 DEF WriteCredential, PrepareFailed
<1>11. CASE WriteSecret
  BY <1>11 DEF WriteSecret, AfterSecret, SyncStartup, PrepareFailed, GuiType
<1>12. CASE RunTask
  BY <1>12 DEF RunTask
<1>13. CASE ChangePolicy
  BY <1>13 DEF ChangePolicy, Resting, ApplyPolicy, Removed
<1>14. CASE SavePolicy
  BY <1>14 DEF SavePolicy, Save, SaveFails, SyncStartup
<1>15. CASE RemoveEntry
  BY <1>15 DEF RemoveEntry, Resting, UnregisterEntry, Removed
<1>16. CASE RemoveConf
  BY <1>16 DEF RemoveConf
<1>17. CASE RemoveFiles
  BY <1>17 DEF RemoveFiles, SyncStartup
<1>18. ASSUME NEW card \in Cards, UnlockKey(card) PROVE Synced'
  <2>1. UNCHANGED <<row, conf, runKey, faults, others>> /\ at = "rest"
    BY <1>18 DEF UnlockKey, Resting
  <2>2. at' = "rest" \/ (at' = "task" /\ why' \in {"mount", "startup"})
    BY <1>18, <2>1 DEF UnlockKey, UnlockAtStartup, UnlockAndResume
  <2>3. QED
    BY <2>1, <2>2
<1>19. CASE HostLoad
  BY <1>19 DEF HostLoad, HostAt
<1>20. CASE HostLook
  BY <1>20 DEF HostLook, HostAt
<1>21. CASE HostCheck
  BY <1>21 DEF HostCheck, HostAt, Crosses, Stale, Removed
<1>22. CASE HostDrop
  BY <1>22 DEF HostDrop, HostAt, Crosses, Removed
<1>23. CASE HostRead
  BY <1>23 DEF HostRead, HostAt
<1>24. CASE HostWipe
  BY <1>24 DEF HostWipe, HostAt, Crosses, Removed
<1>25. CASE HostUnlock
  BY <1>25 DEF HostUnlock, HostAt
<1>26. CASE HostEnd
  BY <1>26 DEF HostEnd, HostAt
<1>27. CASE Expire
  BY <1>27 DEF Expire
<1>28. CASE SignIn
  BY <1>28 DEF SignIn, StartGui
<1>29. CASE ReopenGui
  BY <1>29 DEF ReopenGui, StartGui
<1>30. CASE HostDies
  BY <1>30 DEF HostDies, HostAt
<1>31. CASE UNCHANGED vars
  BY <1>31 DEF vars
<1>32. QED
  BY <1>1, <1>2, <1>3, <1>4, <1>5, <1>6, <1>7, <1>8, <1>9, <1>10, <1>11,
     <1>12, <1>13, <1>14, <1>15, <1>16, <1>17, <1>18, <1>19, <1>20, <1>21,
     <1>22, <1>23, <1>24, <1>25, <1>26, <1>27, <1>28, <1>29, <1>30, <1>31
     DEF Next, Gui, Host

\* Pairs are whole
LEMMA PairedStep ==
    FilesType /\ GuiType /\ HostType /\ Steps /\ Paired /\ [Next]_vars => Paired'
<1> SUFFICES ASSUME FilesType, GuiType, HostType, Steps, Paired, [Next]_vars PROVE Paired'
  OBVIOUS
<1> USE DEF files, guiState, windows, prompting, given, hostState, Goto, Finish, Steps, Paired, None
<1>1. CASE DropKey
  BY <1>1 DEF DropKey, Resting
<1>2. CASE CreateCard
  BY <1>2 DEF CreateCard, Resting
<1>3. CASE CreateVolume
  BY <1>3 DEF CreateVolume, Resting
<1>4. CASE PartitionVolume
  BY <1>4 DEF PartitionVolume
<1>5. CASE CleanVolume
  BY <1>5 DEF CleanVolume
<1>6. CASE EnterVolume
  BY <1>6 DEF EnterVolume, Save, SaveFails
<1>7. CASE Connect
  BY <1>7 DEF Connect, Resting
<1>8. CASE EnsureTask
  BY <1>8 DEF EnsureTask, RegisterEntry, AfterTask, SyncStartup, Save, SaveFails
<1>9. CASE Ready
  BY <1>9 DEF Ready
<1>10. CASE WriteCredential
  BY <1>10 DEF WriteCredential, PrepareFailed, FilesType, Passwords
<1>11. CASE WriteSecret
  BY <1>11 DEF WriteSecret, AfterSecret, SyncStartup, PrepareFailed, GuiType
<1>12. CASE RunTask
  BY <1>12 DEF RunTask
<1>13. CASE ChangePolicy
  BY <1>13 DEF ChangePolicy, Resting, ApplyPolicy, Removed
<1>14. CASE SavePolicy
  BY <1>14 DEF SavePolicy, Save, SaveFails, SyncStartup
<1>15. CASE RemoveEntry
  BY <1>15 DEF RemoveEntry, Resting, UnregisterEntry, Removed
<1>16. CASE RemoveConf
  BY <1>16 DEF RemoveConf
<1>17. CASE RemoveFiles
  BY <1>17 DEF RemoveFiles, SyncStartup
<1>18. ASSUME NEW card \in Cards, UnlockKey(card) PROVE Paired'
  BY <1>18 DEF UnlockKey, Resting, UnlockAtStartup, UnlockAndResume
<1>19. CASE HostLoad
  BY <1>19 DEF HostLoad, HostAt
<1>20. CASE HostLook
  BY <1>20 DEF HostLook, HostAt
<1>21. CASE HostCheck
  BY <1>21 DEF HostCheck, HostAt, Crosses, Stale, Removed
<1>22. CASE HostDrop
  BY <1>22 DEF HostDrop, HostAt, Crosses, Removed
<1>23. CASE HostRead
  BY <1>23 DEF HostRead, HostAt
<1>24. CASE HostWipe
  BY <1>24 DEF HostWipe, HostAt, Crosses, Removed
<1>25. CASE HostUnlock
  BY <1>25 DEF HostUnlock, HostAt
<1>26. CASE HostEnd
  BY <1>26 DEF HostEnd, HostAt
<1>27. CASE Expire
  BY <1>27 DEF Expire
<1>28. CASE SignIn
  BY <1>28 DEF SignIn, StartGui
<1>29. CASE ReopenGui
  BY <1>29 DEF ReopenGui, StartGui
<1>30. CASE HostDies
  BY <1>30 DEF HostDies, HostAt
<1>31. CASE UNCHANGED vars
  BY <1>31 DEF vars
<1>32. QED
  BY <1>1, <1>2, <1>3, <1>4, <1>5, <1>6, <1>7, <1>8, <1>9, <1>10, <1>11,
     <1>12, <1>13, <1>14, <1>15, <1>16, <1>17, <1>18, <1>19, <1>20, <1>21,
     <1>22, <1>23, <1>24, <1>25, <1>26, <1>27, <1>28, <1>29, <1>30, <1>31
     DEF Next, Gui, Host

\* Spent passwords are never used again
LEMMA OneUseStep ==
    FilesType /\ GuiType /\ HostType /\ Steps /\ OneUse /\ [Next]_vars => OneUse'
<1> SUFFICES ASSUME FilesType, GuiType, HostType, Steps, OneUse, [Next]_vars PROVE OneUse'
  OBVIOUS
<1> USE AutoMountAssumption
    DEF files, guiState, windows, prompting, given, hostState, Goto, Finish, Steps, OneUse, None, Torn, Passwords
<1>a. 0 =< drawn
  BY DEF FilesType
<1>b. 0 \notin spent /\ MaxPasswords + 1 \notin spent
  BY DEF HostType
<1>1. CASE DropKey
  BY <1>1 DEF DropKey, Resting
<1>2. CASE CreateCard
  BY <1>2 DEF CreateCard, Resting
<1>3. CASE CreateVolume
  BY <1>3 DEF CreateVolume, Resting
<1>4. CASE PartitionVolume
  BY <1>4 DEF PartitionVolume
<1>5. CASE CleanVolume
  BY <1>5 DEF CleanVolume
<1>6. CASE EnterVolume
  BY <1>6 DEF EnterVolume, Save, SaveFails
<1>7. CASE Connect
  BY <1>7 DEF Connect, Resting
<1>8. CASE EnsureTask
  BY <1>8 DEF EnsureTask, RegisterEntry, AfterTask, SyncStartup, Save, SaveFails
<1>9. CASE Ready
  BY <1>9 DEF Ready
<1>10. CASE WriteCredential
  <2>1. /\ drawn' = drawn + 1 /\ drawn < MaxPasswords /\ at = "cred"
        /\ UNCHANGED <<spent, secret, host, loaded, pw, faults>>
    BY <1>10 DEF WriteCredential, PrepareFailed
  <2>2. /\ drawn \in Nat /\ MaxPasswords \in Nat /\ secret \in 0 .. MaxPasswords + 1
        /\ pw \in Nat /\ spent \subseteq Nat
    BY DEF FilesType, HostType
  <2>3. QED
    BY <2>1, <2>2
<1>11. CASE WriteSecret
  <2>1. /\ secret' \in {secret, drawn, MaxPasswords + 1} /\ at = "secret" /\ at' # "secret"
        /\ UNCHANGED <<spent, drawn, host, loaded, pw, faults>>
    BY <1>11 DEF WriteSecret, AfterSecret, PrepareFailed, GuiType
  <2>2. drawn =< drawn /\ (host \in {"wipe", "unlock"} => pw # MaxPasswords + 1)
    BY DEF FilesType, HostType
  <2>3. QED
    BY <2>1, <2>2, <1>b
<1>12. CASE RunTask
  BY <1>12 DEF RunTask
<1>13. CASE ChangePolicy
  <2>1. \E p \in Policies : ApplyPolicy(p)
    BY <1>13 DEF ChangePolicy
  <2>2. "remove" \notin faults => secret' \in {secret, 0}
    BY <2>1 DEF ApplyPolicy, Removed
  <2>3. /\ UNCHANGED <<spent, drawn, host, loaded, pw, faults>>
        /\ at' \in {"cred", "save"} /\ at = "rest"
    BY <1>13 DEF ChangePolicy, ApplyPolicy, Resting
  <2>4. QED
    BY <2>2, <2>3, <1>a, <1>b
<1>14. CASE SavePolicy
  BY <1>14 DEF SavePolicy, Save, SaveFails, SyncStartup
<1>15. CASE RemoveEntry
  BY <1>15 DEF RemoveEntry, Resting, UnregisterEntry, Removed
<1>16. CASE RemoveConf
  BY <1>16 DEF RemoveConf
<1>17. CASE RemoveFiles
  BY <1>17, <1>a, <1>b DEF RemoveFiles, SyncStartup
<1>18. ASSUME NEW card \in Cards, UnlockKey(card) PROVE OneUse'
  BY <1>18 DEF UnlockKey, Resting, UnlockAtStartup, UnlockAndResume
<1>19. CASE HostLoad
  BY <1>19 DEF HostLoad, HostAt
<1>20. CASE HostLook
  BY <1>20 DEF HostLook, HostAt
<1>21. CASE HostCheck
  BY <1>21, <1>a, <1>b DEF HostCheck, HostAt, Crosses, Stale, Removed
<1>22. CASE HostDrop
  BY <1>22 DEF HostDrop, HostAt, Crosses, Removed
<1>23. CASE HostRead
  BY <1>23 DEF HostRead, HostAt, FilesType
<1>24. CASE HostWipe
  BY <1>24, <1>a, <1>b DEF HostWipe, HostAt, Crosses, Removed
<1>25. CASE HostUnlock
  BY <1>25 DEF HostUnlock, HostAt
<1>26. CASE HostEnd
  BY <1>26 DEF HostEnd, HostAt
<1>27. CASE Expire
  BY <1>27 DEF Expire
<1>28. CASE SignIn
  BY <1>28 DEF SignIn, StartGui
<1>29. CASE ReopenGui
  BY <1>29 DEF ReopenGui, StartGui
<1>30. CASE HostDies
  BY <1>30 DEF HostDies, HostAt
<1>31. CASE UNCHANGED vars
  BY <1>31 DEF vars
<1>32. QED
  BY <1>1, <1>2, <1>3, <1>4, <1>5, <1>6, <1>7, <1>8, <1>9, <1>10, <1>11,
     <1>12, <1>13, <1>14, <1>15, <1>16, <1>17, <1>18, <1>19, <1>20, <1>21,
     <1>22, <1>23, <1>24, <1>25, <1>26, <1>27, <1>28, <1>29, <1>30, <1>31
     DEF Next, Gui, Host

-----------------------------------------------------------------------------
(* The theorems *)

\* The invariant holds at the start.
LEMMA IInvInit == Init => IInv
<1> SUFFICES ASSUME Init PROVE IInv
  OBVIOUS
<1>1. <<>> \in Seq(Cards) /\ Len(<<>>) =< 2
  OBVIOUS
<1>2. FilesType /\ GuiType
  <2>1. FilesType
    BY AutoMountAssumption DEF Init, FilesType, None
  <2>2. GuiType
    BY <1>1 DEF Init, GuiType
  <2>3. QED
    BY <2>1, <2>2
<1>3. HostType
  BY DEF Init, HostType, None
<1>4. Steps /\ Entered /\ Withdrawn
  BY DEF Init, Steps, Entered, Withdrawn
<1>5. Synced
  BY DEF Init, Synced, Syncing, Differing, Prompts
<1>6. Paired /\ OneUse
  BY AutoMountAssumption DEF Init, Paired, OneUse, None, Torn
<1>7. QED
  BY <1>2, <1>3, <1>4, <1>5, <1>6, TypeParts DEF IInv

\* Every step keeps the invariant.
LEMMA IInvStep == IInv /\ [Next]_vars => IInv'
<1> SUFFICES ASSUME IInv, [Next]_vars PROVE IInv'
  OBVIOUS
<1>1. FilesType /\ GuiType /\ HostType /\ Steps /\ Entered /\ Withdrawn
  BY TypeParts DEF IInv
<1>2. FilesType' /\ GuiType' /\ HostType'
  BY <1>1, FilesTypeStep, GuiTypeStep, HostTypeStep
<1>3. TypeOK'
  BY <1>2 DEF TypeOK, FilesType, GuiType, HostType
<1>4. Steps' /\ Entered' /\ Withdrawn'
  BY <1>1, StepsStep, EnteredStep, WithdrawnStep
<1>5. Synced' /\ Paired' /\ OneUse'
  BY <1>1, SyncedStep, PairedStep, OneUseStep DEF IInv
<1>6. QED
  BY <1>3, <1>4, <1>5 DEF IInv

\* The inductive invariant holds in every reachable state.
LEMMA Invariance == Spec => []IInv
BY IInvInit, IInvStep, PTL DEF Spec

\* Files, GUI, host and registry stay within their types, in particular no entry
\* unlocks automatically that does not mount automatically.
THEOREM TypeCorrect == Spec => []TypeOK
<1>1. IInv => TypeOK
  BY DEF IInv
<1>2. QED
  BY <1>1, Invariance, PTL

\* Without faults the Run entry is there exactly while some entry prompts.
THEOREM RunEntryFollows == Spec => []PromptsAtSignIn
<1>1. IInv => PromptsAtSignIn
  BY DEF IInv, Synced, Syncing, Differing, PromptsAtSignIn
<1>2. QED
  BY <1>1, Invariance, PTL

\* The secret of an automatic entry opens its credential, unless a file operation
\* failed, the GUI died between the two, or a host crossed them.
THEOREM PairsAreWhole == Spec => []AutomaticWorks
<1>1. IInv => AutomaticWorks
  BY DEF IInv, Paired, AutomaticWorks
<1>2. QED
  BY <1>1, Invariance, PTL

\* A connection that asked for the key has a new pair that opens, whatever failed.
THEOREM ConnectionsHavePairs == Spec => []ConnectHasPair
<1>1. IInv => ConnectHasPair
  BY DEF IInv, Paired, ConnectHasPair
<1>2. QED
  BY <1>1, Invariance, PTL

\* A password that mounted as a temporary one mounts nothing again, also when the
\* user goes on working while hosts start.
THEOREM CredentialsAreOneShot == Spec => OneShot
<1>1. IInv => (HostUnlock /\ host' = "mounted" /\ "remove" \notin faults => pw \notin spent)
  BY DEF IInv, OneUse, HostUnlock
<1>2. IInv /\ [Next]_vars =>
        [HostUnlock /\ host' = "mounted" /\ "remove" \notin faults => pw \notin spent]_vars
  BY <1>1
<1>3. QED
  BY <1>2, Invariance, PTL DEF Spec, OneShot

\* What a step may do that switches automatic connection off.
Disabling ==
    /\ conf # NoEntry /\ conf' # NoEntry /\ conf.mount /\ ~conf'.mount
    /\ "remove" \notin faults
    => secret' = None


\* Every step that switches automatic connection off forgets the credential.
LEMMA DisablingStep == IInv /\ [Next]_vars => Disabling
<1> SUFFICES ASSUME FilesType, Steps, Entered, Withdrawn, [Next]_vars PROVE Disabling
  BY TypeParts DEF IInv
<1> USE NoEntryIsNone
    DEF files, guiState, windows, prompting, given, hostState, Goto, Finish, Steps,
        Entered, Withdrawn, Disabling
<1>1. CASE DropKey
  BY <1>1 DEF DropKey, Resting
<1>2. CASE CreateCard
  BY <1>2 DEF CreateCard, Resting
<1>3. CASE CreateVolume
  BY <1>3 DEF CreateVolume, Resting
<1>4. CASE PartitionVolume
  BY <1>4 DEF PartitionVolume
<1>5. CASE CleanVolume
  BY <1>5 DEF CleanVolume
<1>6. CASE EnterVolume
  BY <1>6 DEF EnterVolume, Save, SaveFails
<1>7. CASE Connect
  BY <1>7 DEF Connect, Resting
<1>8. CASE EnsureTask
  <2>1. row \in Policies
    BY <1>8 DEF EnsureTask, FilesType
  <2>2. /\ [row EXCEPT !.task = TRUE] \in Policies
        /\ [row EXCEPT !.task = TRUE].task
        /\ [row EXCEPT !.task = TRUE].unlock = row.unlock
        /\ [row EXCEPT !.task = TRUE].mount = row.mount
    BY <2>1, FieldsOfEntries
  <2>3. conf' = conf \/ conf' = NoEntry \/ (~row.task /\ conf' = [row EXCEPT !.task = TRUE])
    BY <1>8 DEF EnsureTask, RegisterEntry, Save, SaveFails
  <2>4. UNCHANGED secret
    BY <1>8 DEF EnsureTask
  <2>5. CASE ~row.task /\ conf' = [row EXCEPT !.task = TRUE]
    BY <2>1, <2>2, <2>4, <2>5
  <2>6. CASE conf' = conf \/ conf' = NoEntry
    BY <2>6
  <2>7. QED
    BY <2>1, <2>2, <2>3, <2>4, <2>5, <2>6, <2>3
<1>9. CASE Ready
  BY <1>9 DEF Ready
<1>10. CASE WriteCredential
  BY <1>10 DEF WriteCredential, PrepareFailed
<1>11. CASE WriteSecret
  BY <1>11 DEF WriteSecret, AfterSecret, SyncStartup, PrepareFailed
<1>12. CASE RunTask
  BY <1>12 DEF RunTask
<1>13. CASE ChangePolicy
  BY <1>13 DEF ChangePolicy, Resting, ApplyPolicy, Removed
<1>14. CASE SavePolicy
  BY <1>14 DEF SavePolicy, Save, SaveFails, SyncStartup
<1>15. CASE RemoveEntry
  BY <1>15 DEF RemoveEntry, Resting, UnregisterEntry, Removed
<1>16. CASE RemoveConf
  BY <1>16 DEF RemoveConf
<1>17. CASE RemoveFiles
  BY <1>17 DEF RemoveFiles, SyncStartup
<1>18. ASSUME NEW card \in Cards, UnlockKey(card) PROVE Disabling
  BY <1>18 DEF UnlockKey, Resting, UnlockAtStartup, UnlockAndResume
<1>19. CASE HostLoad
  BY <1>19 DEF HostLoad, HostAt
<1>20. CASE HostLook
  BY <1>20 DEF HostLook, HostAt
<1>21. CASE HostCheck
  BY <1>21 DEF HostCheck, HostAt, Crosses, Stale, Removed
<1>22. CASE HostDrop
  BY <1>22 DEF HostDrop, HostAt, Crosses, Removed
<1>23. CASE HostRead
  BY <1>23 DEF HostRead, HostAt
<1>24. CASE HostWipe
  BY <1>24 DEF HostWipe, HostAt, Crosses, Removed
<1>25. CASE HostUnlock
  BY <1>25 DEF HostUnlock, HostAt
<1>26. CASE HostEnd
  BY <1>26 DEF HostEnd, HostAt
<1>27. CASE Expire
  BY <1>27 DEF Expire
<1>28. CASE SignIn
  BY <1>28 DEF SignIn, StartGui
<1>29. CASE ReopenGui
  BY <1>29 DEF ReopenGui, StartGui
<1>30. CASE HostDies
  BY <1>30 DEF HostDies, HostAt
<1>31. CASE UNCHANGED vars
  BY <1>31 DEF vars
<1>32. QED
  BY <1>1, <1>2, <1>3, <1>4, <1>5, <1>6, <1>7, <1>8, <1>9, <1>10, <1>11,
     <1>12, <1>13, <1>14, <1>15, <1>16, <1>17, <1>18, <1>19, <1>20, <1>21,
     <1>22, <1>23, <1>24, <1>25, <1>26, <1>27, <1>28, <1>29, <1>30, <1>31
     DEF Next, Gui, Host

\* No step switches automatic connection off and leaves the secret.
THEOREM DisablingRemovesSecret == Spec => DisabledRemovesSecret
<1>1. IInv /\ [Next]_vars => [Disabling]_vars
  BY DisablingStep
<1>2. Spec => [][Disabling]_vars
  BY <1>1, Invariance, PTL DEF Spec
<1>3. QED
  BY <1>2, PTL DEF DisabledRemovesSecret, Disabling

=============================================================================
