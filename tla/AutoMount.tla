------------------------------- MODULE AutoMount -------------------------------
(***************************************************************************)
(* Registering and connecting one volume: its registration file, the       *)
(* credential capsule and the protected secret that opens it, kept by the  *)
(* volume GUI (crates/orisyvra-volume-gui/src/main.rs) and by              *)
(* crates/orisyvra-windows, and the start of the mount host that reads     *)
(* them (run_entry).                                                       *)
(*                                                                         *)
(* The GUI is one thread; the host is another process, started by the      *)
(* logon task or by the GUI.  They share only the files.  A mount password *)
(* is the number of the prepare_credential call that drew it.  A mounted   *)
(* host is one that MountHost.tla takes over.  One more entry may be        *)
(* registered, whose own files this module leaves out.                     *)
(***************************************************************************)
EXTENDS Naturals, Sequences

CONSTANTS
    FaultSets,     \* what may go wrong: one of these sets, of AllFaults
    Neighbours,    \* where the other entry may be: some of AllNeighbours
    MaxPasswords   \* bound on prepare_credential calls

\* No file, and one that holds no password: cut off by a failing write.
None == 0
Torn == MaxPasswords + 1

\* "uac" is a refused elevation, "save" and "write" are errors of writing the
\* registration and any other file, "remove" one of removing a file, "crash"
\* ends the GUI or the host anywhere.
AllFaults == {"uac", "save", "write", "remove", "crash"}

\* The other entry prompts at sign-in.  It is listed above or below ours and
\* needs another key card, or below with the same one; or there is none.
AllNeighbours == {"none", "above", "below", "same"}

ASSUME AutoMountAssumption ==
    /\ FaultSets \subseteq SUBSET AllFaults
    /\ Neighbours \subseteq AllNeighbours
    /\ MaxPasswords \in Nat

VARIABLES
    conf,      \* entries/<id>.conf, or NoEntry where it does not parse
    row,       \* the GUI's copy of it
    volume,    \* the volume file: none, blank, partitioned, or once entered
    runKey,    \* the Run entry of the registry starts the GUI at sign-in
    master,    \* the key card the GUI has unlocked: none, the entry's, another
    pending,   \* pending_mount_id is the entry
    startup,   \* the GUI was started at sign-in and prompts for key cards
    prompts,   \* startup_keys from startup_index on
    at, why,   \* the step the GUI is in, and the operation it belongs to
    cred,      \* password of credentials/<id>.orisyvra-key, or None
    secret,    \* password in secrets/<id>.dpapi, None or Torn
    age,       \* of the secret, against TEMPORARY_MOUNT_SECRET_TTL
    drawn,     \* passwords drawn so far
    task,      \* the Windows task exists
    host,      \* where the mount host is
    loaded,    \* auto_unlock of the entry it loaded
    pw,        \* the password it read
    faults,    \* what may go wrong in this behaviour
    others,    \* the other entry
    spent,     \* history: passwords with which a host mounted that had found
               \* the entry not automatic
    crossed    \* history: since the GUI last wrote the credential, a host removed
               \* a file of the pair in the middle of an operation of the GUI

files == <<conf, cred, secret, age>>
windows == <<task, runKey>>
prompting == <<startup, prompts>>
guiState == <<row, volume, master, pending, prompting, at, why, drawn>>
given == <<spent, crossed, faults, others>>
hostState == <<host, loaded, pw, given>>
vars == <<files, guiState, windows, hostState>>

Policies == {p \in [mount : BOOLEAN, unlock : BOOLEAN, task : BOOLEAN] :
                p.unlock => p.mount}
NoEntry == [none |-> TRUE]
Passwords == 1 .. MaxPasswords
Cards == {"ours", "other"}

TypeOK ==
    /\ conf \in Policies \cup {NoEntry} /\ row \in Policies \cup {NoEntry}
    /\ volume \in {"none", "blank", "ready", "entered"}
    /\ runKey \in BOOLEAN
    /\ master \in Cards \cup {"none"}
    /\ pending \in BOOLEAN /\ startup \in BOOLEAN
    /\ prompts \in Seq(Cards) /\ Len(prompts) =< 2
    /\ at \in {"rest", "gone", "mbr", "clean", "enter", "task", "ready", "cred",
               "secret", "run", "save", "unlist", "forget"}
    /\ why \in {"mount", "startup", "policy", "create", "remove"}
    /\ cred \in Passwords \cup {None} /\ secret \in Passwords \cup {None, Torn}
    /\ age \in {"fresh", "expired"}
    /\ drawn \in 0 .. MaxPasswords
    /\ task \in BOOLEAN
    /\ host \in {"idle", "queued", "look", "check", "drop", "read", "wipe",
                 "unlock", "mounted"}
    /\ loaded \in BOOLEAN
    /\ pw \in Passwords \cup {None}
    /\ spent \subseteq Passwords /\ crossed \in BOOLEAN /\ faults \in FaultSets /\ others \in Neighbours

Init ==
    /\ conf = NoEntry /\ row = NoEntry /\ volume = "none"
    /\ master = "none" /\ pending = FALSE /\ startup = FALSE /\ prompts = <<>>
    /\ at = "rest" /\ why = "mount"
    /\ cred = None /\ secret = None /\ age = "fresh" /\ drawn = 0
    /\ task = FALSE
    /\ host = "idle" /\ loaded = FALSE /\ pw = None /\ spent = {} /\ crossed = FALSE
    /\ faults \in FaultSets /\ others \in Neighbours
    /\ runKey = (others # "none")

-----------------------------------------------------------------------------
(* The GUI *)

\* The GUI waits for the user, who may go on while a host starts, and stops
\* after MaxPasswords: an operation draws one at most.
Resting == at = "rest" /\ drawn < MaxPasswords

Goto(step, op) == at' = step /\ why' = op /\ UNCHANGED master

\* An operation is over.  After a connection at sign-in the GUI prompts for the
\* next key card.
Finish ==
    /\ at' = "rest" /\ why' = why
    /\ master' = IF why = "startup" /\ startup THEN "none" ELSE master

\* save_entry truncates the file before it writes it.
Save == conf' = row'
SaveFails == "save" \in faults /\ conf' \in {conf, NoEntry}

\* What a file may be after its removal was tried and the result ignored.
Removed(file) == {None} \cup IF "remove" \in faults THEN {file} ELSE {}

Prompts(entry) == entry # NoEntry /\ entry.mount /\ ~entry.unlock

\* Mutant: only our own entry is looked at.
SyncStartupOwn(entry) == runKey' = Prompts(entry)

\* sync_startup
SyncStartup(entry) == runKey' = (Prompts(entry) \/ others # "none")

\* choose_key, the Lock button
DropKey ==
    /\ Resting /\ master # "none"
    /\ master' = "none"
    /\ UNCHANGED <<files, row, volume, pending, prompting, at, why, drawn, windows, hostState>>

\* create_pin_card of the GUI: the new card is the unlocked one.
CreateCard ==
    /\ Resting /\ master # "other"
    /\ master' = "other"
    /\ UNCHANGED <<files, row, volume, pending, prompting, at, why, drawn, windows, hostState>>

\* mount_startup_entries_for_current_key: the next key card is prompted for
\* whichever one was unlocked.
UnlockAtStartup(card) ==
    /\ startup
    /\ startup' = (Len(prompts) > 1)
    /\ prompts' = IF startup' THEN Tail(prompts) ELSE <<>>
    /\ IF card = "ours" /\ Prompts(row) /\ host # "mounted"
       THEN at' = "task" /\ why' = "startup" /\ master' = card
       ELSE UNCHANGED <<at, why>> /\ master' = IF startup' THEN "none" ELSE card
    /\ UNCHANGED pending

\* The connection that waited for a key is taken up again.
UnlockAndResume(card) ==
    /\ ~startup
    /\ master' = card
    /\ pending' = FALSE
    /\ IF pending /\ row # NoEntry /\ host # "mounted"
       THEN at' = "task" /\ why' = "mount"
       ELSE UNCHANGED <<at, why>>
    /\ UNCHANGED prompting

\* unlock_key with the right PIN or passphrase, for the entry's key card or
\* for another, prompted for or chosen.
UnlockKey(card) ==
    /\ Resting /\ master = "none"
    /\ UnlockAtStartup(card) \/ UnlockAndResume(card)
    /\ UNCHANGED <<files, row, volume, drawn, windows, hostState>>

\* create_volume, Volume::create; "ours" is the card of the entry.
CreateVolume ==
    /\ Resting /\ master = "ours" /\ row = NoEntry /\ volume # "entered"
    /\ \/ volume' = "blank" /\ Goto("mbr", "create")
       \/ "write" \in faults /\ UNCHANGED <<volume, at, why, master>>
    /\ UNCHANGED <<files, row, pending, prompting, drawn, windows, hostState>>

\* initialize_windows_mbr; the file goes when that fails.
PartitionVolume ==
    /\ at = "mbr"
    /\ \/ volume' = "ready" /\ Goto("clean", why)
       \/ "write" \in faults /\ volume' = "none" /\ Finish
    /\ UNCHANGED <<files, row, pending, prompting, drawn, windows, hostState>>

CleanVolume ==
    /\ at = "clean"
    /\ Goto("enter", why) \/ ("write" \in faults /\ Finish)
    /\ UNCHANGED <<files, row, volume, pending, prompting, drawn, windows, hostState>>

\* The entry is saved, and listed again, before its task is registered.
EnterVolume ==
    /\ at = "enter"
    /\ volume' = "entered"
    /\ \/ /\ \E p \in Policies : ~p.task /\ row' = p
          /\ Save
          /\ Goto("task", "create")
       \/ SaveFails /\ Finish /\ UNCHANGED row
    /\ UNCHANGED <<cred, secret, age, pending, prompting, drawn, windows, hostState>>

\* mount_entry, when the entry is not shown as connected
Connect ==
    /\ Resting /\ row # NoEntry /\ host # "mounted"
    /\ Goto("task", "mount")
    /\ UNCHANGED <<files, row, volume, pending, prompting, drawn, windows, hostState>>

\* create_volume comes to its end with sync_startup and mount_entry.
AfterTask ==
    IF why = "create"
    THEN IF row.unlock THEN Goto("cred", why) /\ UNCHANGED runKey
                       ELSE Goto("ready", "mount") /\ SyncStartup(row)
    ELSE Goto("ready", why) /\ UNCHANGED runKey

\* register-entry, which loads the registration, and unregister-entry
RegisterEntry == conf # NoEntry /\ task' = TRUE
UnregisterEntry == task' = FALSE \/ ("uac" \in faults /\ UNCHANGED task)

\* ensure_task
EnsureTask ==
    /\ at = "task"
    /\ IF row.task
       THEN AfterTask /\ UNCHANGED <<conf, row, task>>
       ELSE \/ /\ RegisterEntry
               /\ row' = [row EXCEPT !.task = TRUE]
               /\ (Save /\ AfterTask) \/ (SaveFails /\ Finish /\ UNCHANGED runKey)
            \/ /\ "uac" \in faults \/ conf = NoEntry
               /\ Finish /\ UNCHANGED <<conf, row, windows>>
    /\ UNCHANGED <<cred, secret, age, volume, pending, prompting, drawn, hostState>>

\* Mutant: the credential that is there is trusted.
ReadyWithCredential ==
    /\ at = "ready"
    /\ IF cred # None
       THEN Goto("run", why) /\ UNCHANGED pending
       ELSE IF master = "ours"
       THEN Goto("cred", why) /\ UNCHANGED pending
       ELSE at' = "rest" /\ why' = why /\ master' = "none" /\ pending' = TRUE
    /\ UNCHANGED <<files, row, volume, prompting, drawn, windows, hostState>>

\* mount_entry goes on: persistent material, the unlocked key, or the prompt.
Ready ==
    /\ at = "ready"
    /\ IF row.unlock /\ secret # None
       THEN Goto("run", why) /\ UNCHANGED pending
       ELSE IF master = "ours"
       THEN Goto("cred", why) /\ UNCHANGED pending
       ELSE at' = "rest" /\ why' = why /\ master' = "none" /\ pending' = TRUE
    /\ UNCHANGED <<files, row, volume, prompting, drawn, windows, hostState>>

\* prepare_credential failed: a policy change gives up automatic unlock, the
\* other operations end.
PrepareFailed ==
    /\ "write" \in faults
    /\ IF why = "policy"
       THEN row' = [row EXCEPT !.unlock = FALSE] /\ Goto("save", why)
       ELSE Finish /\ UNCHANGED row

\* prepare_credential, first half: the capsule under a new password.
WriteCredential ==
    /\ at = "cred" /\ drawn < MaxPasswords
    /\ drawn' = drawn + 1
    /\ \/ /\ cred' = drawn' /\ crossed' = FALSE
          /\ Goto("secret", why) /\ UNCHANGED row
       \/ cred' \in {cred, None} /\ PrepareFailed /\ UNCHANGED crossed
    /\ UNCHANGED <<conf, secret, age, volume, pending, prompting, windows,
                   host, loaded, pw, spent, faults, others>>

AfterSecret ==
    CASE why \in {"mount", "startup"} -> Goto("run", why) /\ UNCHANGED runKey
      [] why = "create" -> Goto("ready", "mount") /\ SyncStartup(row)
      [] why = "policy" -> Goto("save", why) /\ UNCHANGED runKey

\* Mutant: a secret that exists is taken for the right one.
WriteSecretOnce ==
    /\ at = "secret"
    /\ secret' = IF secret = None THEN drawn ELSE secret
    /\ AfterSecret
    /\ UNCHANGED <<conf, cred, age, row, volume, pending, prompting, drawn, task, hostState>>

\* Second half: the protected password.  It may fail before or after the file
\* was truncated.
WriteSecret ==
    /\ at = "secret"
    /\ \/ secret' = drawn /\ age' = "fresh" /\ AfterSecret /\ UNCHANGED row
       \/ PrepareFailed /\ UNCHANGED <<secret, age, runKey>>
       \/ PrepareFailed /\ secret' = Torn /\ age' = "fresh" /\ UNCHANGED runKey
    /\ UNCHANGED <<conf, cred, volume, pending, prompting, drawn, task, hostState>>

\* run_task; a host that already runs makes it a no-op.
RunTask ==
    /\ at = "run"
    /\ Finish
    /\ host' = IF task /\ host = "idle" THEN "queued" ELSE host
    /\ UNCHANGED <<files, row, volume, pending, prompting, drawn, windows, loaded, pw, given>>

\* Mutant: automatic unlock survives the end of automatic mounting.
ApplyPolicyKeepsUnlock(p) ==
    /\ row' = [row EXCEPT !.mount = p.mount]
    /\ secret' = IF p.mount THEN secret ELSE None
    /\ Goto("save", "policy")

\* Mutant: a prompt policy keeps the secret of the automatic one.
ApplyPolicyKeepsSecret(p) ==
    /\ row' = [row EXCEPT !.mount = p.mount, !.unlock = p.mount /\ p.unlock]
    /\ Goto("save", "policy")
    /\ UNCHANGED secret

\* apply_entry_policy up to save_entry, after the user changed a check box; the
\* key card is needed to switch automatic unlock on.
ApplyPolicy(p) ==
    IF ~p.mount \/ ~p.unlock
    THEN /\ row' = [row EXCEPT !.mount = p.mount, !.unlock = FALSE]
         /\ secret' \in Removed(secret)
         /\ Goto("save", "policy")
    ELSE IF master = "ours"
    THEN /\ row' = [row EXCEPT !.mount = TRUE, !.unlock = TRUE]
         /\ Goto("cred", "policy")
         /\ UNCHANGED secret
    ELSE /\ row' = [row EXCEPT !.mount = TRUE, !.unlock = FALSE]
         /\ at' = "save" /\ why' = "policy" /\ master' = "none"
         /\ UNCHANGED secret

\* The check boxes; a change of read_only alone applies the policy it finds.
ChangePolicy ==
    /\ Resting /\ row # NoEntry
    /\ \E p \in Policies :
          /\ p.task = row.task
          /\ p = row \/ p.mount # row.mount \/ p.unlock # row.unlock
          /\ ApplyPolicy(p)
    /\ UNCHANGED <<conf, cred, age, volume, pending, prompting, drawn, windows, hostState>>

SavePolicy ==
    /\ at = "save"
    /\ UNCHANGED row
    /\ Save \/ SaveFails
    /\ SyncStartup(row)
    /\ Finish
    /\ UNCHANGED <<cred, secret, age, volume, pending, prompting, drawn, task, hostState>>

\* remove_entry of an entry that is not connected: the task and the credential,
\* errors ignored.
RemoveEntry ==
    /\ Resting /\ row # NoEntry /\ host # "mounted"
    /\ IF row.task THEN UnregisterEntry ELSE UNCHANGED task
    /\ cred' \in Removed(cred)
    /\ Goto("unlist", "remove")
    /\ UNCHANGED <<conf, secret, age, row, volume, pending, prompting, drawn, runKey, hostState>>

\* remove_entry_files stops at the first file it cannot remove; the row stays.
RemoveConf ==
    /\ at = "unlist"
    /\ \/ conf' = NoEntry /\ Goto("forget", why)
       \/ "remove" \in faults /\ Finish /\ UNCHANGED conf
    /\ UNCHANGED <<cred, secret, age, row, volume, pending, prompting, drawn, windows, hostState>>

\* The secret and the credential.  The list is read again while entries_panel
\* still counts the rows of the old one: with an entry below the removed one it
\* indexes past the end and the GUI is gone.
RemoveFiles ==
    /\ at = "forget"
    /\ \/ /\ secret' = None /\ cred' = None
          /\ row' = NoEntry
          /\ SyncStartup(NoEntry)
          /\ IF others \in {"below", "same"}
             THEN Goto("gone", why) ELSE Finish
       \/ /\ "remove" \in faults
          /\ secret' \in {secret, None}
          /\ Finish
          /\ UNCHANGED <<cred, row, runKey>>
    /\ UNCHANGED <<conf, age, volume, pending, prompting, drawn, task, hostState>>

\* startup_keys: each key card once, in the order of the entries.
StartupKeys ==
    LET own == IF Prompts(conf) THEN <<"ours">> ELSE <<>>
    IN  CASE others = "none"  -> own
          [] others = "above" -> <<"other">> \o own
          [] others = "below" -> own \o <<"other">>
          [] others = "same"  -> <<"ours">>

\* App::new
StartGui(prompt) ==
    /\ row' = conf
    /\ master' = "none" /\ pending' = FALSE
    /\ startup' = prompt
    /\ prompts' = IF prompt THEN StartupKeys ELSE <<>>
    /\ at' = "rest" /\ why' = "mount"
    /\ UNCHANGED <<volume, drawn>>

Gui ==
    \/ DropKey \/ CreateCard \/ (\E card \in Cards : UnlockKey(card))
    \/ CreateVolume \/ PartitionVolume \/ CleanVolume \/ EnterVolume
    \/ Connect \/ EnsureTask \/ Ready
    \/ WriteCredential \/ WriteSecret \/ RunTask
    \/ ChangePolicy \/ SavePolicy \/ RemoveEntry \/ RemoveConf \/ RemoveFiles

-----------------------------------------------------------------------------
(* The mount host up to the mount *)

HostAt(step) == host' = step

\* run_entry: load_entry
HostLoad ==
    /\ host = "queued"
    /\ IF conf = NoEntry THEN HostAt("idle") /\ UNCHANGED loaded
                         ELSE HostAt("look") /\ loaded' = conf.unlock
    /\ UNCHANGED <<files, guiState, windows, pw, given>>

\* unlock_entry_master: without a secret there is nothing to mount.
HostLook ==
    /\ host = "look"
    /\ HostAt(IF secret = None THEN "idle" ELSE "check")
    /\ UNCHANGED <<files, guiState, windows, loaded, pw, given>>

\* The host removes a file of the pair while the GUI is at an operation, or has
\* written a new pair since the host removed the secret.
Crosses == crossed' = (crossed \/ at # "rest" \/ secret' # None)

\* read_protected_secret loads the entry again; when that fails it checks
\* nothing.
Stale == conf # NoEntry /\ IF conf.unlock THEN ~conf.mount ELSE age = "expired"

HostCheck ==
    /\ host = "check"
    /\ IF Stale THEN HostAt("drop") /\ secret' \in Removed(secret) /\ Crosses
                ELSE HostAt("read") /\ UNCHANGED <<secret, crossed>>
    /\ UNCHANGED <<conf, cred, age, guiState, windows, loaded, pw, spent, faults, others>>

\* remove_stale_mount_material, the credential
HostDrop ==
    /\ host = "drop"
    /\ cred' \in Removed(cred)
    /\ HostAt("idle")
    /\ UNCHANGED <<conf, secret, age, guiState, windows, loaded, pw, spent, faults, others>>
    /\ Crosses

\* What is not there, or was torn, is not unprotected.
HostRead ==
    /\ host = "read"
    /\ pw' = IF secret \in Passwords THEN secret ELSE None
    /\ HostAt(IF secret \in Passwords THEN "wipe" ELSE "idle")
    /\ UNCHANGED <<files, guiState, windows, loaded, given>>

\* Mutant: the temporary secret stays.
HostWipeNever ==
    /\ host = "wipe"
    /\ HostAt("unlock")
    /\ UNCHANGED <<files, guiState, windows, loaded, pw, given>>

\* A temporary secret is removed before it is tried.
HostWipe ==
    /\ host = "wipe"
    /\ HostAt("unlock")
    /\ IF loaded THEN UNCHANGED <<secret, crossed>>
                 ELSE secret' \in Removed(secret) /\ Crosses
    /\ UNCHANGED <<conf, cred, age, guiState, windows, loaded, pw, spent, faults, others>>

\* unlock_keyfile on the credential, then the volume is opened.
HostUnlock ==
    /\ host = "unlock"
    /\ HostAt(IF cred = pw THEN "mounted" ELSE "idle")
    /\ spent' = IF cred # pw \/ loaded THEN spent ELSE spent \cup {pw}
    /\ pw' = None
    /\ UNCHANGED <<files, guiState, windows, loaded, crossed, faults, others>>

\* The session ends.
HostEnd ==
    /\ host = "mounted"
    /\ HostAt("idle")
    /\ UNCHANGED <<files, guiState, windows, loaded, pw, given>>

Host ==
    \/ HostLoad \/ HostLook \/ HostCheck \/ HostDrop \/ HostRead \/ HostWipe
    \/ HostUnlock \/ HostEnd

-----------------------------------------------------------------------------
(* Windows *)

\* Five minutes pass.
Expire ==
    /\ secret # None /\ age = "fresh"
    /\ age' = "expired"
    /\ UNCHANGED <<conf, cred, secret, guiState, windows, hostState>>

\* The user signs out and in again: the logon task starts a host and the Run
\* entry the GUI, which runs the tasks of automatic entries once more.
SignIn ==
    /\ "crash" \in faults \/ (at \in {"rest", "gone"} /\ host \in {"idle", "mounted"})
    /\ host' = IF task THEN "queued" ELSE "idle"
    /\ StartGui(runKey)
    /\ pw' = None
    /\ UNCHANGED <<files, windows, loaded, given>>

\* The GUI is closed, or dies, and is opened again.
ReopenGui ==
    /\ "crash" \in faults \/ at \in {"rest", "gone"}
    /\ StartGui(FALSE)
    /\ UNCHANGED <<files, windows, hostState>>

HostDies ==
    /\ "crash" \in faults /\ host # "idle"
    /\ HostAt("idle") /\ pw' = None
    /\ UNCHANGED <<files, guiState, windows, loaded, given>>

Next == Gui \/ Host \/ Expire \/ SignIn \/ ReopenGui \/ HostDies

Spec == Init /\ [][Next]_vars

-----------------------------------------------------------------------------
(* Properties *)

\* Temporary credentials are one-shot: a password with which a host mounted an
\* entry it had found not automatic mounts nothing again, whatever the user does
\* meanwhile.  (The host ignores an error of removing the secret.  One that loaded
\* the entry as automatic keeps the secret, also when the policy has changed
\* since: a temporary secret written meanwhile is then not wiped.)
OneShot ==
    [][HostUnlock /\ host' = "mounted" /\ "remove" \notin faults => pw \notin spent]_vars

\* Whatever failed or died before, a connection that asked for the key starts the
\* host with a new pair that opens, unless an earlier host crosses it.  (A host that
\* died after it wiped the one-shot secret leaves a credential nobody opens.)
ConnectHasPair ==
    at = "run" /\ ~row.unlock /\ ~crossed => secret = drawn /\ cred = drawn

\* Switching "connect at sign-in" off takes effect together with the removal of
\* the secret: no sign-in after it mounts with what was stored before.
DisabledRemovesSecret ==
    [][ /\ conf # NoEntry /\ conf' # NoEntry /\ conf.mount /\ ~conf'.mount
        /\ "remove" \notin faults
       => secret' = None ]_vars

\* An automatic entry is never stuck: "Connect" trusts an existing secret and
\* asks for no key, so that secret must open the credential.  (An error or the
\* end of the GUI between the two files of a pair, also of their removal, can
\* leave it stuck; and so can a host that drops an expired secret and with it the
\* credential the GUI has renewed meanwhile.)
AutomaticWorks ==
    /\ faults \cap {"write", "remove", "crash"} = {} /\ ~crossed
    /\ at \in {"rest", "run"} /\ conf # NoEntry /\ conf.unlock /\ secret # None
    => cred = secret

\* The Run entry of the registry starts the GUI at sign-in exactly while some
\* registered entry prompts then.  (Any fault that ends create_volume before
\* sync_startup, a refused elevation among them, leaves it missing.)
PromptsAtSignIn ==
    faults = {} /\ at = "rest" => runKey = (Prompts(conf) \/ others # "none")

=============================================================================
