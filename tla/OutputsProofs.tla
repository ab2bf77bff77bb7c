----------------------------- MODULE OutputsProofs -----------------------------
(***************************************************************************)
(* Proofs about Outputs, for any number of jobs, names, parts and files:   *)
(* what is found under a name is whole, and nothing that a job found there *)
(* is lost to it without --force.                                          *)
(***************************************************************************)
EXTENDS Outputs, TLAPS, WellFoundedInduction

\* How far the files of a job have come at each step: a file leaves its
\* writing step complete, and a folder is renamed with all its files.
Progress ==
    \A j \in Jobs :
        /\ job[j].step \in {"check", "write", "sync", "remove", "persist"} =>
              job[j].files < FolderFiles
        /\ job[j].step \in {"sync", "remove", "persist"} => job[j].parts = Parts
        /\ job[j].step \in {"exists", "rename"} =>
              job[j].folder /\ job[j].files = FolderFiles

\* What a job holds is whole and synchronised, and so is what has a name: a
\* power loss finds nothing under a name that it could cut short.
Settled ==
    /\ \A j \in Jobs : job[j].step \in Busy => job[j].whole /\ job[j].synced
    /\ \A n \in 1 .. Names : at[n] # Absent => at[n].whole /\ at[n].synced

\* Whoever looks and finds something does not go on without --force: what is
\* under the name of a job that went on came after it had looked.
FoundInv ==
    \A j \in Jobs : Looked(j) /\ ~ job[j].force /\ at[job[j].out] # Absent =>
        j \in at[job[j].out].after

IInv == TypeOK /\ Progress /\ Settled

-----------------------------------------------------------------------------
(* Operators *)

\* unique_path answers one of the candidate names.
LEMMA UniquePathIsName == UniquePath \in 1 .. Names
<1> DEFINE free == {n \in 1 .. Names : at[n] = Absent}
           R == OpToRel(<, Nat)
<1>1. CASE free = {}
  BY <1>1, OutputsAssumption DEF UniquePath
<1>2. CASE free # {}
  <2>1. free \subseteq 1 .. Names /\ free \subseteq Nat
    BY OutputsAssumption
  <2> HIDE DEF free
  <2>2. PICK x \in free : \A y \in free : <<y, x>> \notin R
    BY <1>2, <2>1, NatLessThanWellFounded, WFMin, Zenon DEF R
  <2>3. \A y \in free : ~ (y < x)
    BY <2>1, <2>2 DEF R, OpToRel
  <2>4. \A y \in free : x =< y
    BY <2>1, <2>3
  <2>5. Min(free) \in free
    BY <2>4 DEF Min
  <2>6. UniquePath = Min(free)
    BY <1>2 DEF UniquePath, free
  <2>7. QED
    BY <2>1, <2>5, <2>6
<1>3. QED
  BY <1>1, <1>2

\* What Held puts under a name is of the type of contents, and something.
LEMMA HeldType ==
    ASSUME NEW by \in Jobs \cup {User}, NEW k \in Kinds, NEW w \in BOOLEAN, NEW s \in BOOLEAN,
           NEW a \in SUBSET Jobs
    PROVE  /\ Held(by, k, w, s, a) \in Contents
           /\ Held(by, k, w, s, a) # Absent
           /\ Held(by, k, w, s, a).whole = w
           /\ Held(by, k, w, s, a).synced = s
           /\ Held(by, k, w, s, a).after = a
BY DEF Held, Contents, Absent

-----------------------------------------------------------------------------
(* The invariant *)

\* The invariant holds of any directory that users have filled.
LEMMA IInvInit == Init => IInv
<1> SUFFICES ASSUME Init PROVE IInv
  OBVIOUS
<1>1. \A k \in Kinds : /\ Held(User, k, TRUE, TRUE, {}) \in Contents
                         /\ Held(User, k, TRUE, TRUE, {}).whole
                         /\ Held(User, k, TRUE, TRUE, {}).synced
  BY HeldType
<1>2. TypeOK
  <2>1. {Absent} \cup {Held(User, k, TRUE, TRUE, {}) : k \in Kinds} \subseteq Contents \cup {Absent}
    BY <1>1
  <2>2. at \in [1 .. Names -> Contents \cup {Absent}]
    BY <2>1 DEF Init
  <2>3. QED
    BY <2>2 DEF Init, TypeOK
<1>3. Progress
  BY DEF Init, Progress, Idle
<1>4. Settled
  BY <1>1 DEF Init, Settled, Idle, Busy
<1>5. QED
  BY <1>2, <1>3, <1>4 DEF IInv

\* What the invariant asks of one job.
OnItsWay(r) ==
    /\ r.step \in {"check", "write", "sync", "remove", "persist"} => r.files < FolderFiles
    /\ r.step \in {"sync", "remove", "persist"} => r.parts = Parts
    /\ r.step \in {"exists", "rename"} => r.folder /\ r.files = FolderFiles
    /\ r.step \in Busy => r.whole /\ r.synced

\* The same, of all jobs.
JobsInv == job \in [Jobs -> Started \cup {Idle}] /\ \A j \in Jobs : OnItsWay(job[j])

\* The part of the invariant about names.
NamesInv ==
    /\ at \in [1 .. Names -> Contents \cup {Absent}]
    /\ \A n \in 1 .. Names : at[n] # Absent => at[n].whole /\ at[n].synced

\* The invariant, by what it says of each variable.
LEMMA IInvParts == IInv <=> JobsInv /\ NamesInv
BY Zenon DEF IInv, TypeOK, Progress, Settled, JobsInv, NamesInv, OnItsWay

\* The same after a step.
LEMMA IInvPartsNext == IInv' <=> JobsInv' /\ NamesInv'
BY Zenon DEF IInv, TypeOK, Progress, Settled, JobsInv, NamesInv, OnItsWay

\* Only a started job is at a busy step.
LEMMA BusyIsStarted ==
    ASSUME JobsInv, NEW j \in Jobs, job[j].step \in Busy
    PROVE  job[j] \in Started /\ OnItsWay(job[j])
BY DEF JobsInv, Idle, Busy

\* A step of one job keeps what the invariant says of the others.
LEMMA JobStep ==
    ASSUME JobsInv, NEW j \in Jobs, NEW r \in Started, OnItsWay(r),
           job' = [job EXCEPT ![j] = r]
    PROVE  JobsInv'
<1>1. job' \in [Jobs -> Started \cup {Idle}]
  BY DEF JobsInv
<1>2. \A i \in Jobs : job'[i] = IF i = j THEN r ELSE job[i]
  BY DEF JobsInv
<1>3. \A i \in Jobs : OnItsWay(job'[i])
  BY <1>2 DEF JobsInv
<1>4. QED
  BY <1>1, <1>3 DEF JobsInv, OnItsWay

\* A job that only moves to another step is where that step asks it to be.
LEMMA GoesStep ==
    ASSUME JobsInv, NEW j \in Jobs, NEW s \in Busy \cup Over, job[j] \in Started,
           Goes(j, s), OnItsWay([job[j] EXCEPT !.step = s])
    PROVE  JobsInv'
<1>1. [job[j] EXCEPT !.step = s] \in Started
  BY DEF Started
<1>2. job' = [job EXCEPT ![j] = [job[j] EXCEPT !.step = s]]
  BY DEF Goes, JobsInv
<1>3. QED
  BY <1>1, <1>2, JobStep

\* Something whole that gets a name leaves the names whole.
LEMMA NameStep ==
    ASSUME NamesInv, NEW n \in 1 .. Names, NEW c \in Contents \cup {Absent},
           c # Absent => c.whole /\ c.synced, at' = [at EXCEPT ![n] = c]
    PROVE  NamesInv'
BY DEF NamesInv

\* So does something whole that is put there.
LEMMA PutStep ==
    ASSUME NamesInv, NEW n \in 1 .. Names, NEW by \in Jobs \cup {User}, NEW k \in Kinds,
           Put(n, by, k, TRUE, TRUE)
    PROVE  NamesInv'
<1> DEFINE c == Held(by, k, TRUE, TRUE, Looking(n) \ {by})
<1>1. Looking(n) \ {by} \in SUBSET Jobs
  BY DEF Looking
<1>2. c \in Contents /\ c.whole /\ c.synced
  BY <1>1, HeldType
<1>3. at' = [at EXCEPT ![n] = c]
  BY DEF Put
<1> HIDE DEF c
<1>4. QED
  BY <1>2, <1>3, NameStep

\* Starting a job: no name changes, and the job has written nothing.
LEMMA StartStep ==
    ASSUME JobsInv, NEW j \in Jobs, NEW d \in BOOLEAN, NEW n \in 1 .. Names,
           NEW f \in BOOLEAN, StartJob(j, d, n, f)
    PROVE  JobsInv' /\ UNCHANGED at
<1> DEFINE r == [step |-> "check", folder |-> d, out |-> n, force |-> f, parts |-> 0,
                 files |-> 0, whole |-> TRUE, synced |-> TRUE]
<1>1. r \in Started /\ OnItsWay(r)
  BY OutputsAssumption DEF Started, OnItsWay, Busy
<1>2. job' = [job EXCEPT ![j] = r] /\ UNCHANGED at
  BY DEF StartJob
<1> HIDE DEF r
<1>3. QED
  BY <1>1, <1>2, JobStep

\* Every step on one file keeps the invariant.
LEMMA FileStep ==
    ASSUME JobsInv, NamesInv, NEW j \in Jobs, File(j)
    PROVE  JobsInv' /\ NamesInv'
<1>1. CASE CreateOutputTemp(j)
  <2>1. job[j] \in Started /\ OnItsWay(job[j]) /\ job[j].step = "check"
    BY <1>1, BusyIsStarted DEF CreateOutputTemp, At, Busy
  <2>2. NamesInv'
    BY <1>1 DEF CreateOutputTemp, NamesInv
  <2>3. CASE Goes(j, "failed")
    <3>1. OnItsWay([job[j] EXCEPT !.step = "failed"])
      BY <2>1 DEF OnItsWay, Started, Busy
    <3>2. QED
      BY <2>1, <2>2, <2>3, <3>1, GoesStep DEF Over
  <2>4. CASE job' = [job EXCEPT ![j].step = "write", ![j].parts = 0]
    <3> DEFINE r == [job[j] EXCEPT !.step = "write", !.parts = 0]
    <3>1. "write" \in Busy \cup Over /\ 0 \in 0 .. Parts
      BY OutputsAssumption DEF Busy
    <3>2. r \in Started
      BY <2>1, <3>1 DEF Started
    <3>3. OnItsWay(r)
      BY <2>1 DEF OnItsWay, Started, Busy
    <3>4. job' = [job EXCEPT ![j] = r]
      BY <2>4 DEF JobsInv
    <3> HIDE DEF r
    <3>5. QED
      BY <2>2, <3>2, <3>3, <3>4, JobStep
  <2>5. QED
    BY <1>1, <2>3, <2>4 DEF CreateOutputTemp
<1>2. CASE WritePart(j)
  <2>1. job[j] \in Started /\ OnItsWay(job[j]) /\ job[j].step = "write"
    BY <1>2, BusyIsStarted DEF WritePart, At, Busy
  <2> DEFINE r == [job[j] EXCEPT !.parts = job[j].parts + 1]
  <2>2. r \in Started /\ OnItsWay(r)
    BY <1>2, <2>1, OutputsAssumption DEF WritePart, OnItsWay, Started, Busy
  <2>3. job' = [job EXCEPT ![j] = r]
    BY <1>2 DEF WritePart, JobsInv
  <2>4. NamesInv'
    BY <1>2 DEF WritePart, NamesInv
  <2> HIDE DEF r
  <2>5. QED
    BY <2>2, <2>3, <2>4, JobStep
<1>3. CASE WriteEnds(j)
  <2>1. job[j] \in Started /\ OnItsWay(job[j]) /\ job[j].step = "write"
    BY <1>3, BusyIsStarted DEF WriteEnds, At, Busy
  <2>2. OnItsWay([job[j] EXCEPT !.step = "sync"])
    BY <1>3, <2>1 DEF WriteEnds, OnItsWay, Started, Busy
  <2>3. NamesInv'
    BY <1>3 DEF WriteEnds, NamesInv
  <2>4. QED
    BY <1>3, <2>1, <2>2, <2>3, GoesStep DEF WriteEnds, Busy
<1>4. CASE Sync(j)
  <2>1. job[j] \in Started /\ OnItsWay(job[j]) /\ job[j].step = "sync"
    BY <1>4, BusyIsStarted DEF Sync, At, Busy
  <2>2. OnItsWay([job[j] EXCEPT !.step = "remove"])
    BY <2>1 DEF OnItsWay, Started, Busy
  <2>3. NamesInv'
    BY <1>4 DEF Sync, NamesInv
  <2>4. QED
    BY <1>4, <2>1, <2>2, <2>3, GoesStep DEF Sync, Busy
<1>5. CASE RemoveOld(j)
  <2>1. job[j] \in Started /\ OnItsWay(job[j]) /\ job[j].step = "remove"
    BY <1>5, BusyIsStarted DEF RemoveOld, At, Busy
  <2>2. OnItsWay([job[j] EXCEPT !.step = "persist"])
    BY <2>1 DEF OnItsWay, Started, Busy
  <2>3. JobsInv'
    BY <1>5, <2>1, <2>2, GoesStep DEF RemoveOld, Busy
  <2>4. job[j].out \in 1 .. Names
    BY <2>1 DEF Started
  <2>5. at' = [at EXCEPT ![job[j].out] = Absent] \/ UNCHANGED at
    BY <1>5 DEF RemoveOld
  <2>6. NamesInv'
    BY <2>4, <2>5, NameStep DEF NamesInv
  <2>7. QED
    BY <2>3, <2>6
<1>6. CASE Persist(j)
  <2>1. job[j] \in Started /\ OnItsWay(job[j]) /\ job[j].step = "persist"
    BY <1>6, BusyIsStarted DEF Persist, At, Busy
  <2>2. OnItsWay([job[j] EXCEPT !.step = "done"])
    BY <2>1 DEF OnItsWay, Started, Busy
  <2>3. JobsInv'
    BY <1>6, <2>1, <2>2, GoesStep DEF Persist, Over
  <2>4. job[j].out \in 1 .. Names /\ job[j].parts = Parts /\ job[j].synced = TRUE
    BY <2>1 DEF Started, OnItsWay, Busy
  <2>5. Put(job[j].out, j, "file", TRUE, TRUE)
    BY <1>6, <2>4 DEF Persist
  <2>6. NamesInv'
    BY <2>4, <2>5, PutStep DEF Kinds
  <2>7. QED
    BY <2>3, <2>6
<1>7. QED
  BY <1>1, <1>2, <1>3, <1>4, <1>5, <1>6 DEF File

\* So does every step of process_directory on its folder.
LEMMA FolderStep ==
    ASSUME JobsInv, NamesInv, NEW j \in Jobs, Folder(j)
    PROVE  JobsInv' /\ NamesInv'
<1>1. CASE PersistInFolder(j)
  <2>1. job[j] \in Started /\ OnItsWay(job[j]) /\ job[j].step = "persist" /\ job[j].folder
    BY <1>1, BusyIsStarted DEF PersistInFolder, At, Busy
  <2> DEFINE r == [job[j] EXCEPT
                      !.files = job[j].files + 1, !.whole = job[j].whole /\ job[j].parts = Parts,
                      !.step = IF job[j].files + 1 < FolderFiles THEN "check" ELSE "exists"]
  <2>2. job' = [job EXCEPT ![j] = r]
    BY <1>1 DEF PersistInFolder, JobsInv
  <2>3. r \in Started
    <3>1. job[j].files + 1 \in 0 .. FolderFiles
      BY <2>1, OutputsAssumption DEF OnItsWay, Started
    <3>2. {"check", "exists"} \subseteq Busy \cup Over
      BY DEF Busy
    <3>3. QED
      BY <2>1, <3>1, <3>2 DEF Started
  <2>4. OnItsWay(r)
    BY <2>1, OutputsAssumption DEF OnItsWay, Started, Busy
  <2>5. NamesInv'
    BY <1>1 DEF PersistInFolder, NamesInv
  <2> HIDE DEF r
  <2>6. QED
    BY <2>2, <2>3, <2>4, <2>5, JobStep
<1>2. CASE OutputExists(j)
  <2>1. job[j] \in Started /\ OnItsWay(job[j]) /\ job[j].step = "exists"
    BY <1>2, BusyIsStarted DEF OutputExists, At, Busy
  <2>2. PICK s \in {"failed", "rename"} : Goes(j, s)
    BY <1>2 DEF OutputExists
  <2>3. OnItsWay([job[j] EXCEPT !.step = s])
    BY <2>1 DEF OnItsWay, Started, Busy
  <2>4. NamesInv'
    BY <1>2 DEF OutputExists, NamesInv
  <2>5. QED
    BY <2>1, <2>2, <2>3, <2>4, GoesStep DEF Busy, Over
<1>3. CASE RenameFolder(j)
  <2>1. job[j] \in Started /\ OnItsWay(job[j]) /\ job[j].step = "rename"
    BY <1>3, BusyIsStarted DEF RenameFolder, At, Busy
  <2>2. OnItsWay([job[j] EXCEPT !.step = "done"])
    BY <2>1 DEF OnItsWay, Started, Busy
  <2>3. JobsInv'
    BY <1>3, <2>1, <2>2, GoesStep DEF RenameFolder, Over
  <2>4. /\ job[j].out \in 1 .. Names /\ job[j].whole = TRUE
        /\ job[j].files = FolderFiles /\ job[j].synced = TRUE
    BY <2>1 DEF Started, OnItsWay, Busy
  <2>5. Put(job[j].out, j, "folder", TRUE, TRUE)
    BY <1>3, <2>4 DEF RenameFolder
  <2>6. NamesInv'
    BY <2>4, <2>5, PutStep DEF Kinds
  <2>7. QED
    BY <2>3, <2>6
<1>4. QED
  BY <1>1, <1>2, <1>3 DEF Folder

\* A failure, or the end of one job's process, leaves the names alone.
LEMMA EndStep ==
    ASSUME JobsInv, NamesInv, NEW j \in Jobs, Fails(j) \/ Ended(j)
    PROVE  JobsInv' /\ NamesInv'
<1>1. job[j] \in Started /\ OnItsWay(job[j])
  BY BusyIsStarted DEF Fails, Ended
<1>2. PICK s \in {"failed", "ended"} : Goes(j, s)
  BY DEF Fails, Ended
<1>3. OnItsWay([job[j] EXCEPT !.step = s])
  BY <1>1 DEF OnItsWay, Started, Busy
<1>4. NamesInv'
  BY DEF Fails, Ended, NamesInv
<1>5. QED
  BY <1>1, <1>2, <1>3, <1>4, GoesStep DEF Over

\* A power loss ends every job and finds nothing that it could cut short.
LEMMA PowerLossStep ==
    ASSUME JobsInv, NamesInv, PowerLoss
    PROVE  JobsInv' /\ NamesInv' /\ UNCHANGED at
<1>1. \A i \in Jobs : job[i].step \in Busy =>
         /\ [job[i] EXCEPT !.step = "ended"] \in Started
         /\ OnItsWay([job[i] EXCEPT !.step = "ended"])
  BY BusyIsStarted DEF Started, OnItsWay, Busy, Over
<1>2. job' = [i \in Jobs |-> IF job[i].step \in Busy THEN [job[i] EXCEPT !.step = "ended"] ELSE job[i]]
  BY DEF PowerLoss
<1>3. \A i \in Jobs : job'[i] \in Started \cup {Idle} /\ OnItsWay(job'[i])
  BY <1>1, <1>2 DEF JobsInv
<1>4. JobsInv'
  BY <1>2, <1>3 DEF JobsInv, OnItsWay
<1>5. {n \in 1 .. Names : at[n] # Absent /\ ~ at[n].synced} = {}
  BY DEF NamesInv
<1>6. at' = [n \in 1 .. Names |-> at[n]]
  BY <1>5 DEF PowerLoss
<1>7. UNCHANGED at
  BY <1>6 DEF NamesInv
<1>8. QED
  BY <1>4, <1>7 DEF NamesInv

\* The invariant is inductive.
LEMMA IInvStep == IInv /\ [Next]_vars => IInv'
<1> SUFFICES ASSUME JobsInv, NamesInv, [Next]_vars PROVE JobsInv' /\ NamesInv'
  BY IInvParts, IInvPartsNext
<1>1. ASSUME NEW j \in Jobs, StartWindow(j) PROVE JobsInv' /\ NamesInv'
  <2>1. PICK folder \in BOOLEAN : StartJob(j, folder, UniquePath, FALSE)
    BY <1>1 DEF StartWindow
  <2>2. JobsInv' /\ UNCHANGED at
    BY <2>1, UniquePathIsName, StartStep
  <2>3. QED
    BY <2>2 DEF NamesInv
<1>2. ASSUME NEW j \in Jobs, StartCommand(j) PROVE JobsInv' /\ NamesInv'
  <2>1. PICK out \in 1 .. Names, force \in BOOLEAN : StartJob(j, FALSE, out, force)
    BY <1>2 DEF StartCommand
  <2>2. JobsInv' /\ UNCHANGED at
    BY <2>1, StartStep
  <2>3. QED
    BY <2>2 DEF NamesInv
<1>3. ASSUME NEW n \in 1 .. Names, UserPuts(n) PROVE JobsInv' /\ NamesInv'
  <2>1. PICK k \in Kinds : Put(n, User, k, TRUE, TRUE)
    BY <1>3 DEF UserPuts
  <2>2. NamesInv'
    BY <2>1, PutStep
  <2>3. QED
    BY <1>3, <2>2 DEF UserPuts, JobsInv, OnItsWay
<1>4. CASE UNCHANGED vars
  BY <1>4 DEF vars, JobsInv, NamesInv, OnItsWay
<1>5. QED
  BY <1>1, <1>2, <1>3, <1>4, FileStep, FolderStep, EndStep, PowerLossStep DEF Next, Stop

-----------------------------------------------------------------------------
(* The theorems *)

\* The invariant holds of every behaviour.
LEMMA Invariant == Spec => []IInv
BY IInvInit, IInvStep, PTL DEF Spec

\* Names and jobs stay of their types, however many there are: the name that
\* unique_path finds is always one of the candidates.
THEOREM TypeCorrect == Spec => []TypeOK
<1>1. IInv => TypeOK
  BY DEF IInv
<1>2. QED
  BY <1>1, Invariant, PTL

\* Whatever fails, is ended or loses power, and however many jobs write to the
\* same names: what is found under a name is whole.
THEOREM OutputsAreWhole == Spec => []WholeOutputs
<1>1. IInv => WholeOutputs
  BY DEF IInv, Settled, WholeOutputs
<1>2. QED
  BY <1>1, Invariant, PTL

-----------------------------------------------------------------------------
(* What a job found *)

\* One step of the jobs and of the names: who may have looked since, and why.
\* A job that did not go on keeps its step and its name.
LEMMA SameLook ==
    ASSUME NEW j \in Jobs, job'[j] = job[j]
    PROVE  Looked(j)' = Looked(j)
BY DEF Looked

\* What is put under a name came after every job that looks for it there.
LEMMA PutFound ==
    ASSUME NamesInv, JobsInv, FoundInv, NEW n \in 1 .. Names, NEW by, NEW k, NEW w, NEW s,
           Put(n, by, k, w, s), NEW j \in Jobs, j # by, job'[j] = job[j],
           Looked(j), ~ job[j].force, at'[job[j].out] # Absent
    PROVE  j \in at'[job[j].out].after
<1>1. CASE job[j].out = n
  <2>1. at'[n] = Held(by, k, w, s, Looking(n) \ {by})
    BY DEF Put, NamesInv
  <2>2. j \in Looking(n) \ {by}
    BY <1>1 DEF Looking
  <2>3. QED
    BY <1>1, <2>1, <2>2 DEF Held
<1>2. CASE job[j].out # n
  <2>1. job[j] \in Started
    BY DEF Looked, JobsInv, Idle, Busy
  <2>2. at'[job[j].out] = at[job[j].out]
    BY <1>2, <2>1 DEF Put, NamesInv, Started
  <2>3. QED
    BY <2>2 DEF FoundInv
<1>3. QED
  BY <1>1, <1>2

\* When one job moves, and no name comes to hold anything, it is enough that the
\* job looks only if it did, or found nothing.
LEMMA FoundKept ==
    ASSUME JobsInv, NamesInv, FoundInv, NEW j \in Jobs,
           \A i \in Jobs : i # j => job'[i] = job[i],
           \A n \in 1 .. Names : at'[n] = at[n] \/ at'[n] = Absent,
           job[j] \in Started,
           Looked(j)' => /\ job'[j].force = job[j].force /\ job'[j].out = job[j].out
                         /\ Looked(j) \/ job[j].force \/ at[job[j].out] = Absent
    PROVE  FoundInv'
<1> SUFFICES ASSUME NEW i \in Jobs, Looked(i)', ~ job'[i].force, at'[job'[i].out] # Absent
             PROVE  i \in at'[job'[i].out].after
  BY DEF FoundInv
<1>1. (Looked(i) /\ ~ job[i].force /\ job'[i].out = job[i].out) \/ i = j
  BY SameLook
<1>2. CASE i = j
  <2>1. job'[i].out \in 1 .. Names /\ job'[i].out = job[i].out /\ ~ job[i].force
    BY <1>2 DEF Started
  <2>2. at'[job'[i].out] = at[job[i].out]
    BY <2>1
  <2>3. QED
    BY <1>2, <2>1, <2>2 DEF FoundInv
<1>3. CASE i # j
  <2>1. Looked(i) /\ ~ job[i].force /\ job'[i].out = job[i].out
    BY <1>1, <1>3
  <2>2. job[i].out \in 1 .. Names
    BY <2>1 DEF Looked, JobsInv, Idle, Busy, Started
  <2>3. at'[job'[i].out] = at[job[i].out]
    BY <2>1, <2>2
  <2>4. QED
    BY <2>1, <2>3 DEF FoundInv
<1>4. QED
  BY <1>2, <1>3

\* A job that starts has not looked.
LEMMA StartFound ==
    ASSUME JobsInv, NamesInv, FoundInv, NEW j \in Jobs, NEW d \in BOOLEAN,
           NEW n \in 1 .. Names, NEW f \in BOOLEAN, StartJob(j, d, n, f)
    PROVE  FoundInv'
<1>1. job'[j].step = "check" /\ UNCHANGED at /\ \A i \in Jobs : i # j => job'[i] = job[i]
  BY DEF StartJob, JobsInv
<1>2. ~ Looked(j)'
  BY <1>1 DEF Looked
<1> SUFFICES ASSUME NEW i \in Jobs, Looked(i)', ~ job'[i].force, at'[job'[i].out] # Absent
             PROVE  i \in at'[job'[i].out].after
  BY DEF FoundInv
<1>3. i # j
  BY <1>2
<1>4. job'[i] = job[i] /\ Looked(i)
  BY <1>1, <1>3, SameLook
<1>5. QED
  BY <1>1, <1>4 DEF FoundInv

\* A job that is done with its name, at which it put something.
LEMMA PutAndDone ==
    ASSUME JobsInv, NamesInv, FoundInv, NEW j \in Jobs, job[j] \in Started, Goes(j, "done"),
           NEW k, NEW w, NEW s, Put(job[j].out, j, k, w, s)
    PROVE  FoundInv'
<1>1. job'[j].step = "done" /\ \A i \in Jobs : i # j => job'[i] = job[i]
  BY DEF Goes, JobsInv, Started
<1>2. ~ Looked(j)'
  BY <1>1 DEF Looked, Busy
<1>3. job[j].out \in 1 .. Names
  BY DEF Started
<1> SUFFICES ASSUME NEW i \in Jobs, Looked(i)', ~ job'[i].force, at'[job'[i].out] # Absent
             PROVE  i \in at'[job'[i].out].after
  BY DEF FoundInv
<1>4. i # j
  BY <1>2
<1>5. job'[i] = job[i] /\ Looked(i)
  BY <1>1, <1>4, SameLook
<1>6. QED
  BY <1>3, <1>4, <1>5, PutFound

\* Every step on one file keeps it.
LEMMA FileFound ==
    ASSUME JobsInv, NamesInv, FoundInv, NEW j \in Jobs, File(j)
    PROVE  FoundInv'
<1>1. job[j] \in Started
  BY BusyIsStarted DEF File, CreateOutputTemp, WritePart, WriteEnds, Sync, RemoveOld, Persist, At, Busy
<1>2. CASE CreateOutputTemp(j)
  <2>1. \A i \in Jobs : i # j => job'[i] = job[i]
    BY <1>2 DEF CreateOutputTemp, Goes, JobsInv
  <2>2. UNCHANGED at
    BY <1>2 DEF CreateOutputTemp
  <2>3. CASE Goes(j, "failed")
    <3>1. job'[j].step = "failed"
      BY <1>1, <2>3 DEF Goes, JobsInv, Started
    <3>2. ~ Looked(j)'
      BY <3>1 DEF Looked, Busy
    <3>3. QED
      BY <1>1, <2>1, <2>2, <3>2, FoundKept
  <2>4. CASE /\ job' = [job EXCEPT ![j].step = "write", ![j].parts = 0]
             /\ ~ (~ job[j].folder /\ at[job[j].out] # Absent /\ ~ job[j].force)
    <3>1. /\ job'[j].folder = job[j].folder /\ job'[j].out = job[j].out
          /\ job'[j].force = job[j].force /\ job'[j].step = "write"
      BY <1>1, <2>4 DEF JobsInv, Started
    <3>2. Looked(j)' => ~ job[j].folder
      BY <3>1 DEF Looked, Busy
    <3>3. QED
      BY <1>1, <2>1, <2>2, <2>4, <3>1, <3>2, FoundKept
  <2>5. QED
    BY <1>2, <2>3, <2>4 DEF CreateOutputTemp
<1>3. CASE WritePart(j)
  <2>1. \A i \in Jobs : i # j => job'[i] = job[i]
    BY <1>3 DEF WritePart, JobsInv
  <2>2. /\ job'[j].folder = job[j].folder /\ job'[j].out = job[j].out
        /\ job'[j].force = job[j].force /\ job'[j].step = job[j].step
    BY <1>1, <1>3 DEF WritePart, JobsInv, Started
  <2>3. Looked(j)' = Looked(j)
    BY <2>2 DEF Looked
  <2>4. QED
    BY <1>1, <1>3, <2>1, <2>2, <2>3, FoundKept DEF WritePart
<1>4. CASE WriteEnds(j) \/ Sync(j) \/ RemoveOld(j)
  <2>1. PICK s \in {"sync", "remove", "persist"} : Goes(j, s)
    BY <1>4 DEF WriteEnds, Sync, RemoveOld
  <2>2. \A i \in Jobs : i # j => job'[i] = job[i]
    BY <2>1 DEF Goes, JobsInv
  <2>3. /\ job'[j].folder = job[j].folder /\ job'[j].out = job[j].out
        /\ job'[j].force = job[j].force /\ job'[j].step = s
    BY <1>1, <2>1 DEF Goes, JobsInv, Started
  <2>4. job[j].step \in {"write", "sync", "remove"}
    BY <1>4 DEF WriteEnds, Sync, RemoveOld, At
  <2>5. Looked(j)' => Looked(j)
    BY <2>3, <2>4 DEF Looked, Busy
  <2>6. at' = [at EXCEPT ![job[j].out] = Absent] \/ UNCHANGED at
    BY <1>4 DEF WriteEnds, Sync, RemoveOld
  <2>7. \A n \in 1 .. Names : at'[n] = at[n] \/ at'[n] = Absent
    BY <2>6 DEF NamesInv
  <2>8. QED
    BY <1>1, <2>2, <2>3, <2>5, <2>7, FoundKept
<1>5. CASE Persist(j)
  BY <1>1, <1>5, PutAndDone DEF Persist
<1>6. QED
  BY <1>2, <1>3, <1>4, <1>5 DEF File

\* So does every step on a folder.
LEMMA FolderFound ==
    ASSUME JobsInv, NamesInv, FoundInv, NEW j \in Jobs, Folder(j)
    PROVE  FoundInv'
<1>1. job[j] \in Started /\ OnItsWay(job[j])
  BY BusyIsStarted DEF Folder, PersistInFolder, OutputExists, RenameFolder, At, Busy
<1>2. CASE PersistInFolder(j)
  <2>1. \A i \in Jobs : i # j => job'[i] = job[i]
    BY <1>2 DEF PersistInFolder, JobsInv
  <2>2. job'[j].step \in {"check", "exists"}
    BY <1>1, <1>2 DEF PersistInFolder, JobsInv, Started
  <2>3. ~ Looked(j)'
    BY <2>2 DEF Looked
  <2>4. QED
    BY <1>1, <1>2, <2>1, <2>3, FoundKept DEF PersistInFolder
<1>3. CASE OutputExists(j)
  <2>1. PICK s \in {"failed", "rename"} : Goes(j, s) /\ (s = "rename" => at[job[j].out] = Absent)
    BY <1>3 DEF OutputExists
  <2>2. \A i \in Jobs : i # j => job'[i] = job[i]
    BY <2>1 DEF Goes, JobsInv
  <2>3. job'[j].step = s /\ job'[j].out = job[j].out /\ job'[j].force = job[j].force
    BY <1>1, <2>1 DEF Goes, JobsInv, Started
  <2>4. Looked(j)' => s = "rename"
    BY <2>3 DEF Looked, Busy
  <2>5. QED
    BY <1>1, <1>3, <2>1, <2>2, <2>3, <2>4, FoundKept DEF OutputExists
<1>4. CASE RenameFolder(j)
  BY <1>1, <1>4, PutAndDone DEF RenameFolder
<1>5. QED
  BY <1>2, <1>3, <1>4 DEF Folder

\* So does the end of a job, of all of them, and what the user does.
LEMMA OthersFound ==
    ASSUME JobsInv, NamesInv, FoundInv,
           \/ \E j \in Jobs : Fails(j) \/ Ended(j)
           \/ PowerLoss
           \/ \E n \in 1 .. Names : UserPuts(n)
    PROVE  FoundInv'
<1>1. ASSUME NEW j \in Jobs, Fails(j) \/ Ended(j) PROVE FoundInv'
  <2>1. job[j] \in Started
    BY <1>1, BusyIsStarted DEF Fails, Ended
  <2>2. UNCHANGED at /\ (\A i \in Jobs : i # j => job'[i] = job[i])
    BY <1>1 DEF Fails, Ended, Goes, JobsInv
  <2>3. job'[j].step \in {"failed", "ended"}
    BY <1>1, <2>1 DEF Fails, Ended, Goes, JobsInv, Started
  <2>4. ~ Looked(j)'
    BY <2>3 DEF Looked, Busy
  <2>5. QED
    BY <2>1, <2>2, <2>4, FoundKept
<1>2. CASE PowerLoss
  <2>1. \A i \in Jobs : job'[i] = IF job[i].step \in Busy THEN [job[i] EXCEPT !.step = "ended"] ELSE job[i]
    BY <1>2 DEF PowerLoss
  <2>2. \A i \in Jobs : job[i].step \in Busy => job'[i].step = "ended"
    BY <2>1, BusyIsStarted DEF Started
  <2>3. \A i \in Jobs : ~ Looked(i)'
    BY <2>1, <2>2 DEF Looked, Busy
  <2>4. QED
    BY <2>3 DEF FoundInv
<1>3. ASSUME NEW n \in 1 .. Names, UserPuts(n) PROVE FoundInv'
  <2>1. PICK k \in Kinds : Put(n, User, k, TRUE, TRUE)
    BY <1>3 DEF UserPuts
  <2>2. at[n] = Absent /\ UNCHANGED job
    BY <1>3 DEF UserPuts
  <2>3. at'[n] = Held(User, k, TRUE, TRUE, Looking(n) \ {User})
    BY <2>1 DEF Put, NamesInv
  <2> SUFFICES ASSUME NEW i \in Jobs, Looked(i)', ~ job'[i].force, at'[job'[i].out] # Absent
               PROVE  i \in at'[job'[i].out].after
    BY DEF FoundInv
  <2>4. Looked(i) /\ job'[i] = job[i]
    BY <2>2, SameLook
  <2>5. CASE i # User
    BY <2>1, <2>4, <2>5, PutFound
  <2>6. QED
    BY <2>5, OutputsAssumption
<1>4. QED
  BY <1>1, <1>2, <1>3

\* Whoever looks and finds something there does not go on, unless it is forced.
LEMMA FoundStep == IInv /\ FoundInv /\ [Next]_vars => FoundInv'
<1> SUFFICES ASSUME JobsInv, NamesInv, FoundInv, [Next]_vars PROVE FoundInv'
  BY IInvParts
<1>1. ASSUME NEW j \in Jobs, StartWindow(j) PROVE FoundInv'
  BY <1>1, UniquePathIsName, StartFound DEF StartWindow
<1>2. ASSUME NEW j \in Jobs, StartCommand(j) PROVE FoundInv'
  BY <1>2, StartFound DEF StartCommand
<1>3. CASE UNCHANGED vars
  BY <1>3 DEF vars, FoundInv, Looked
<1>4. QED
  BY <1>1, <1>2, <1>3, FileFound, FolderFound, OthersFound DEF Next, Stop

LEMMA FoundInvariant == Spec => []FoundInv
<1>1. Init => FoundInv
  BY DEF Init, FoundInv, Looked, Idle, Busy
<1>2. QED
  BY <1>1, FoundStep, Invariant, PTL DEF Spec

\* What a step does to names: nothing; or the user puts something where nothing
\* is; or a job removes, or puts its output in the place of, what is under its name.
LEMMA WhoChangesNames ==
    ASSUME JobsInv, NamesInv, [Next]_vars, NEW n \in 1 .. Names, at[n] # Absent, at'[n] # at[n]
    PROVE  \E j \in Jobs : /\ (RemoveOld(j) /\ job[j].force) \/ Persist(j) \/ RenameFolder(j)
                           /\ job[j].out = n
<1>1. ASSUME NEW j \in Jobs, RemoveOld(j) PROVE job[j].force /\ job[j].out = n
  BY <1>1 DEF RemoveOld, NamesInv
<1>2. ASSUME NEW j \in Jobs, Persist(j) \/ RenameFolder(j) PROVE job[j].out = n
  BY <1>2 DEF Persist, RenameFolder, Put, NamesInv
<1>3. ASSUME NEW j \in Jobs,
             \/ StartWindow(j) \/ StartCommand(j) \/ Fails(j) \/ Ended(j) \/ CreateOutputTemp(j)
             \/ WritePart(j) \/ WriteEnds(j) \/ Sync(j) \/ PersistInFolder(j) \/ OutputExists(j)
      PROVE  FALSE
  BY <1>3 DEF StartWindow, StartCommand, StartJob, Fails, Ended, CreateOutputTemp, WritePart,
              WriteEnds, Sync, PersistInFolder, OutputExists
<1>4. ASSUME NEW m \in 1 .. Names, UserPuts(m) PROVE FALSE
  BY <1>4 DEF UserPuts, Put, NamesInv
<1>5. CASE \E j \in Jobs : RemoveOld(j)
  BY <1>1, <1>5
<1>6. CASE \E j \in Jobs : Persist(j) \/ RenameFolder(j)
  BY <1>2, <1>6
<1>7. QED
  BY <1>3, <1>4, <1>5, <1>6, PowerLossStep DEF Next, Stop, File, Folder, vars

\* However many jobs write to the same names, and whatever the user puts there
\* meanwhile: what a job found under its name is lost only to --force, and
\* whatever is lost goes when all that is to take its place is written.
THEOREM FoundIsKept == Spec => KeepsWhatItFound
<1>1. IInv /\ FoundInv /\ [Next]_vars =>
        [\A n \in 1 .. Names : at[n] # Absent /\ at'[n] # at[n] =>
            \E j \in Jobs : /\ job'[j] # job[j] /\ job[j].out = n /\ Ready(j)
                            /\ job[j].force \/ j \in at[n].after]_vars
  <2> SUFFICES ASSUME JobsInv, NamesInv, FoundInv, [Next]_vars, NEW n \in 1 .. Names,
                      at[n] # Absent, at'[n] # at[n]
               PROVE  \E j \in Jobs : /\ job'[j] # job[j] /\ job[j].out = n /\ Ready(j)
                                      /\ job[j].force \/ j \in at[n].after
    BY IInvParts
  <2>1. PICK j \in Jobs : /\ (RemoveOld(j) /\ job[j].force) \/ Persist(j) \/ RenameFolder(j)
                          /\ job[j].out = n
    BY WhoChangesNames
  <2>2. job[j] \in Started /\ OnItsWay(job[j]) /\ job[j].step \in {"remove", "persist", "rename"}
    BY <2>1, BusyIsStarted DEF RemoveOld, Persist, RenameFolder, At, Busy
  <2>3. job'[j] # job[j]
    <3>1. PICK s \in {"persist", "done"} : Goes(j, s) /\ job[j].step # s
      BY <2>1 DEF RemoveOld, Persist, RenameFolder, At
    <3>2. job'[j].step = s
      BY <2>2, <3>1 DEF Goes, JobsInv, Started
    <3>3. QED
      BY <3>1, <3>2
  <2>4. job[j].synced /\ job[j].whole
    BY <2>2 DEF OnItsWay, Busy
  <2>5. CASE RemoveOld(j) /\ job[j].force
    <3>1. ~ job[j].folder /\ job[j].parts = Parts
      BY <2>1, <2>2, <2>5 DEF RemoveOld, At, OnItsWay, NamesInv
    <3>2. QED
      BY <2>1, <2>3, <2>4, <2>5, <3>1 DEF Ready
  <2>6. CASE Persist(j)
    <3>1. ~ job[j].folder /\ job[j].parts = Parts /\ Looked(j)
      BY <2>2, <2>6 DEF Persist, At, OnItsWay, Looked
    <3>2. job[j].force \/ j \in at[n].after
      BY <2>1, <3>1 DEF FoundInv
    <3>3. QED
      BY <2>1, <2>3, <2>4, <3>1, <3>2 DEF Ready
  <2>7. CASE RenameFolder(j)
    <3>1. job[j].folder /\ job[j].files = FolderFiles /\ Looked(j)
      BY <2>2, <2>7 DEF RenameFolder, At, OnItsWay, Looked, Busy
    <3>2. job[j].force \/ j \in at[n].after
      BY <2>1, <3>1 DEF FoundInv
    <3>3. QED
      BY <2>1, <2>3, <2>4, <3>1, <3>2 DEF Ready
  <2>8. QED
    BY <2>1, <2>5, <2>6, <2>7
<1>2. QED
  BY <1>1, Invariant, FoundInvariant, PTL DEF Spec, KeepsWhatItFound

=============================================================================
