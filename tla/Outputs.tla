-------------------------------- MODULE Outputs --------------------------------
(***************************************************************************)
(* How a finished file or folder gets its name: the output side of         *)
(* encrypt_file and decrypt_file (crates/orisyvra/src/container.rs), the   *)
(* same steps in keyfile.rs, keycard.rs and orisyvra-pin, and the desktop  *)
(* application's choice of a name and folder runs                          *)
(* (crates/orisyvra-gui/src/main.rs).                                      *)
(*                                                                         *)
(* A job is one run of the command line, or of one window; several run at  *)
(* once on the same directory.  A file job writes a temporary file,        *)
(* synchronises it and moves it over its name.  A folder job does so for   *)
(* each file inside a temporary folder of its own, and then renames that.  *)
(* Moving a file over a file replaces it, and a folder may replace an      *)
(* empty one (on Windows, only of recent versions); else a folder neither  *)
(* replaces nor is replaced.  The user may put something under a free name *)
(* at any time.  Any step may fail, a job may be ended between two steps,  *)
(* and a power loss may cut short whatever was not synchronised.           *)
(***************************************************************************)
EXTENDS Naturals, FiniteSetsExt

CONSTANTS
    Jobs,        \* jobs that may run at once, each once
    Names,       \* a name and its numbered variants are 1 .. Names
    Parts,       \* parts of a file
    FolderFiles, \* files a folder job processes
    Forced       \* the command line is used, with and without --force

User == "user"

ASSUME OutputsAssumption ==
    /\ User \notin Jobs
    /\ Names \in Nat \ {0} /\ Parts \in Nat /\ FolderFiles \in Nat \ {0}
    /\ Forced \in BOOLEAN

VARIABLES
    at,  \* what is found under each name
    job  \* where each job is, and what it has in its temporary file or folder

vars == <<at, job>>

Absent == [by |-> "nobody"]

Idle == [step |-> "idle"]
Busy == {"check", "write", "sync", "remove", "persist", "exists", "rename"}
Over == {"done", "failed", "ended"}

Kinds == {"file", "folder", "empty"}
Contents ==
    [by : Jobs \cup {User}, kind : Kinds, whole : BOOLEAN, synced : BOOLEAN, after : SUBSET Jobs]
Started ==
    [step : Busy \cup Over, folder : BOOLEAN, out : 1 .. Names, force : BOOLEAN,
     parts : 0 .. Parts, files : 0 .. FolderFiles, whole : BOOLEAN, synced : BOOLEAN]

TypeOK ==
    /\ at \in [1 .. Names -> Contents \cup {Absent}]
    /\ job \in [Jobs -> Started \cup {Idle}]

\* The jobs that have looked whether anything is under their name n.
Looked(j) ==
    IF job[j].step \in Busy /\ job[j].folder
    THEN job[j].step = "rename"
    ELSE job[j].step \in {"write", "sync", "remove", "persist"}
Looking(n) == {j \in Jobs : Looked(j) /\ job[j].out = n}

\* What comes under a name; "after" is history: the jobs that had looked before.
Held(by, kind, whole, synced, after) ==
    [by |-> by, kind |-> kind, whole |-> whole, synced |-> synced, after |-> after]
Put(n, by, kind, whole, synced) ==
    at' = [at EXCEPT ![n] = Held(by, kind, whole, synced, Looking(n) \ {by})]

Init ==
    /\ at \in [1 .. Names -> {Absent} \cup {Held(User, k, TRUE, TRUE, {}) : k \in Kinds}]
    /\ job = [j \in Jobs |-> Idle]

\* The user, or another program, makes a file or a folder.
UserPuts(n) ==
    /\ at[n] = Absent
    /\ \E k \in Kinds : Put(n, User, k, TRUE, TRUE)
    /\ UNCHANGED job

-----------------------------------------------------------------------------
(* Starting a job *)

\* Mutant: the search goes one past the last variant.
UniquePathBeyond ==
    LET free == {n \in 1 .. Names : at[n] = Absent}
    IN  IF free = {} THEN Names + 1 ELSE Min(free)
\* unique_path: the first name that is free; when all are taken, the plain one.
UniquePath ==
    LET free == {n \in 1 .. Names : at[n] = Absent}
    IN  IF free = {} THEN 1 ELSE Min(free)

StartJob(j, folder, out, force) ==
    /\ job[j] = Idle
    /\ job' = [job EXCEPT ![j] = [step |-> "check", folder |-> folder, out |-> out,
                                  force |-> force, parts |-> 0, files |-> 0,
                                  whole |-> TRUE, synced |-> TRUE]]
    /\ UNCHANGED at

\* execute in a window: a name of its own, and never with overwrite.
StartWindow(j) == \E folder \in BOOLEAN : StartJob(j, folder, UniquePath, FALSE)

\* The command line: any name, with --force or not; files only.
StartCommand(j) ==
    /\ Forced
    /\ \E out \in 1 .. Names, force \in BOOLEAN : StartJob(j, FALSE, out, force)

-----------------------------------------------------------------------------
(* One file *)

At(j, step) == job[j].step = step
Goes(j, step) == job' = [job EXCEPT ![j].step = step]

\* Mutant: the name is not looked up.
CreateOutputTempBlindly(j) ==
    /\ At(j, "check")
    /\ job' = [job EXCEPT ![j].step = "write", ![j].parts = 0]
    /\ UNCHANGED at
\* create_output_temp.  Inside a folder job's own folder the names are free.
CreateOutputTemp(j) ==
    /\ At(j, "check")
    /\ IF ~ job[j].folder /\ at[job[j].out] # Absent /\ ~ job[j].force
       THEN Goes(j, "failed")
       ELSE job' = [job EXCEPT ![j].step = "write", ![j].parts = 0]
    /\ UNCHANGED at

WritePart(j) ==
    /\ At(j, "write") /\ job[j].parts < Parts
    /\ job' = [job EXCEPT ![j].parts = @ + 1]
    /\ UNCHANGED at

\* Mutant: the input may end before its manifest.
WriteEndsEarly(j) == At(j, "write") /\ Goes(j, "sync") /\ UNCHANGED at
\* The manifest was written, or was read and holds for all that was written.
WriteEnds(j) ==
    /\ At(j, "write") /\ job[j].parts = Parts
    /\ Goes(j, "sync")
    /\ UNCHANGED at

\* Mutant: the file is left to the operating system's cache.
SyncLater(j) ==
    /\ At(j, "sync")
    /\ job' = [job EXCEPT ![j].step = "remove", ![j].synced = FALSE]
    /\ UNCHANGED at
\* persist_output, sync_all
Sync(j) == At(j, "sync") /\ Goes(j, "remove") /\ UNCHANGED at

\* persist_output, remove_file of an existing output with overwrite; a folder
\* cannot be removed so, and the job can then only fail.
RemoveOld(j) ==
    /\ At(j, "remove")
    /\ Goes(j, "persist")
    /\ LET old == at[job[j].out]
       IN  IF ~ job[j].folder /\ old # Absent /\ job[j].force
           THEN old.kind = "file" /\ at' = [at EXCEPT ![job[j].out] = Absent]
           ELSE UNCHANGED at

\* persist_output, the move over the name.
Persist(j) ==
    /\ At(j, "persist") /\ ~ job[j].folder
    /\ at[job[j].out] # Absent => at[job[j].out].kind = "file"
    /\ Put(job[j].out, j, "file", job[j].parts = Parts, job[j].synced)
    /\ Goes(j, "done")

-----------------------------------------------------------------------------
(* A folder: process_directory *)

PersistInFolder(j) ==
    /\ At(j, "persist") /\ job[j].folder
    /\ job' = [job EXCEPT ![j].files = @ + 1, ![j].whole = @ /\ job[j].parts = Parts,
                          ![j].step = IF job[j].files + 1 < FolderFiles THEN "check" ELSE "exists"]
    /\ UNCHANGED at

\* output.exists() once the files are done
OutputExists(j) ==
    /\ At(j, "exists")
    /\ Goes(j, IF at[job[j].out] # Absent THEN "failed" ELSE "rename")
    /\ UNCHANGED at

\* fs::rename of the temporary folder, over nothing or an empty folder.
RenameFolder(j) ==
    /\ At(j, "rename")
    /\ at[job[j].out] # Absent => at[job[j].out].kind = "empty"
    /\ Put(job[j].out, j, "folder", job[j].whole /\ job[j].files = FolderFiles, job[j].synced)
    /\ Goes(j, "done")

-----------------------------------------------------------------------------
(* Failure *)

\* An error return drops the temporary file, a folder job removes its folder.
Fails(j) == job[j].step \in Busy /\ Goes(j, "failed") /\ UNCHANGED at

\* The process is ended; its temporary file or folder stays under its own name.
Ended(j) == job[j].step \in Busy /\ Goes(j, "ended") /\ UNCHANGED at

\* Every job ends, and what was not synchronised may be cut short.
PowerLoss ==
    /\ \E j \in Jobs : job[j].step \in Busy
    /\ job' = [j \in Jobs |-> IF job[j].step \in Busy THEN [job[j] EXCEPT !.step = "ended"] ELSE job[j]]
    /\ \E cut \in SUBSET {n \in 1 .. Names : at[n] # Absent /\ ~ at[n].synced} :
          at' = [n \in 1 .. Names |-> IF n \in cut THEN [at[n] EXCEPT !.whole = FALSE] ELSE at[n]]

Stop == (\A j \in Jobs : job[j].step \in Over) /\ UNCHANGED vars

File(j) == CreateOutputTemp(j) \/ WritePart(j) \/ WriteEnds(j) \/ Sync(j) \/ RemoveOld(j) \/ Persist(j)
Folder(j) == PersistInFolder(j) \/ OutputExists(j) \/ RenameFolder(j)

Next ==
    \/ \E j \in Jobs : StartWindow(j) \/ StartCommand(j) \/ File(j) \/ Folder(j) \/ Fails(j) \/ Ended(j)
    \/ (\E n \in 1 .. Names : UserPuts(n)) \/ PowerLoss \/ Stop

Spec == Init /\ [][Next]_vars

-----------------------------------------------------------------------------
(* Properties *)

\* What is found under an output's name is whole, whatever failed, was ended or
\* lost power, and whoever else wrote there: nothing gets its name before all
\* of it is written, checked and synchronised, a folder with all its files.
WholeOutputs == \A n \in 1 .. Names : at[n] # Absent => at[n].whole

\* What is under a name goes only when the output of a job is all there to take
\* its place; and, without --force, only when it came after the job had looked:
\* nothing that a job found is lost to it.  (What comes between the look and the
\* move is replaced without notice, README.md, section 3.)
Ready(j) ==
    /\ job[j].synced
    /\ IF job[j].folder THEN job[j].whole /\ job[j].files = FolderFiles ELSE job[j].parts = Parts
KeepsWhatItFound ==
    [][\A n \in 1 .. Names : at[n] # Absent /\ at'[n] # at[n] =>
          \E j \in Jobs : /\ job'[j] # job[j] /\ job[j].out = n /\ Ready(j)
                          /\ job[j].force \/ j \in at[n].after]_vars

=============================================================================
