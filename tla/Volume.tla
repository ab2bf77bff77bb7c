-------------------------------- MODULE Volume --------------------------------
(***************************************************************************)
(* The encrypted sparse volume of crates/orisyvra-volume/src/lib.rs: a     *)
(* file with two alternating superblocks and an append-only log of block   *)
(* records, one process that writes it, and the medium beneath it.         *)
(*                                                                         *)
(* Every location of the file (a superblock slot, a record position) has   *)
(* the contents the operating system shows, and the set of contents a      *)
(* power loss at this instant could leave there: everything written since  *)
(* the last successful flush, what was there at that flush, or garbage.    *)
(* A flush makes that set a singleton.  Records have unit length: a stale  *)
(* record behind an overwritten one may therefore be found intact, which   *)
(* in the real file needs two records of equal size.                       *)
(*                                                                         *)
(* Encryption is abstracted to its effect on reading: a location holds     *)
(* exactly what was written there, or does not authenticate (Torn).        *)
(***************************************************************************)
EXTENDS Naturals, Sequences

CONSTANTS
    Blocks,     \* logical block indices below block_count()
    Values,     \* block contents
    NoVal,      \* read_block's None: a block that was never written
    NoRec,      \* a record position past the end of the file
    Torn,       \* bytes that do not authenticate, in a slot or a position
    MaxLog,     \* bound: record positions of the log
    MaxTxn,     \* bound: blocks in one write_blocks call
    MaxGen,     \* u64::MAX, where superblock generations are exhausted
    FlagBound,  \* bound: mark_clean and mark_dirty below this generation
    Ops,        \* calls the owner makes, of {"write", "flag", "sync"}
    Faults      \* what may go wrong, of AllFaults

AllOps == {"write", "flag", "sync"}

\* A step of a call that returns an I/O error is named after the call and
\* the step; "super_landed" is a write_superblock that returned Err although
\* its bytes reached the file; "kill" ends the process, "power" the machine,
\* either of them in the middle of a creation only where "create" is there too.
AllFaults == {"create", "open_sync", "append", "data_sync", "super",
              "super_landed", "commit_sync", "flag_sync",
              "kill", "power"}

Slots == {0, 1}
Positions == 1 .. MaxLog

Records == [block : Blocks, gen : Nat \ {0}, val : Values]
Supers  == [gen : 0 .. MaxGen, end : 0 .. MaxLog, count : 0 .. MaxLog,
            clean : BOOLEAN]

ASSUME BoundsAssumption ==
    /\ MaxLog \in Nat
    /\ MaxGen \in Nat \ {0}
    /\ MaxTxn \in Nat \ {0}
    /\ FlagBound \in 0 .. MaxGen

ASSUME NamesAssumption ==
    /\ Ops \subseteq AllOps
    /\ Faults \subseteq AllFaults
    /\ NoRec \notin Records
    /\ Torn \notin Records
    /\ Torn \notin Supers

VARIABLES
    slot,       \* superblock slots: what the operating system shows
    slotDur,    \* superblock slots: what a power loss could leave
    log,        \* record positions: what the operating system shows
    logDur,     \* record positions: what a power loss could leave
    pc,         \* where the process is in a call; "closed" when not open
    mem,        \* Volume.state, the superblock in memory
    active,     \* Volume.active_super
    index,      \* Volume.index: newest committed record of each block
    txn,        \* the blocks of the write_blocks call in progress
    done,       \* how many of them are appended
    born,       \* history: the freshly created file has been flushed once
    acked,      \* history: the last write returned Ok, none began since
    unsure,     \* history: a write_superblock failed, but may have landed
    promise,    \* history: the clean flag every later open must find
    standing    \* history: of memory to the file, one of Standings

disk == <<slot, slotDur, log, logDur>>
owner == <<mem, active, index>>
call == <<txn, done>>
history == <<born, acked, unsure, promise, standing>>
vars == <<disk, pc, owner, call, history>>

PCs == {"absent", "create_a", "create_b", "create_sync", "closed",
        "open_sync", "ready", "append", "data_sync", "super", "commit_sync",
        "flag_sync"}

\* Memory agrees with the file, and that is flushed; or it agrees, but a process
\* died or a flush failed since the last flush; or a superblock reached the file
\* (or may have) that memory does not know of, for its call returned an error.
Standings == {"flushed", "unflushed", "behind"}

TypeOK ==
    /\ slot \in [Slots -> Supers \cup {Torn}]
    /\ slotDur \in [Slots -> SUBSET (Supers \cup {Torn})]
    /\ log \in [Positions -> Records \cup {NoRec, Torn}]
    /\ logDur \in [Positions -> SUBSET (Records \cup {NoRec, Torn})]
    /\ pc \in PCs
    /\ mem \in Supers
    /\ active \in Slots
    /\ index \in [Blocks -> [pos : 0 .. MaxLog, gen : Nat]]
    /\ txn \in Seq(Blocks \X Values)
    /\ done \in 0 .. Len(txn)
    /\ born \in BOOLEAN
    /\ acked \in BOOLEAN
    /\ unsure \in BOOLEAN
    /\ promise \in {"none", "clean", "dirty"}
    /\ standing \in Standings

-----------------------------------------------------------------------------
(* Reading the file *)

\* Positions up to `end' whose record is about block b.
RecordsOf(lg, end, b) == {i \in 1 .. end : lg[i].block = b}

Latest(P) == CHOOSE i \in P : \A j \in P : j <= i

\* scan_log accepts the log below a superblock: every record authenticates,
\* each block's generations strictly increase, and the accounting matches.
ScanOK(lg, s) ==
    /\ s.count = s.end
    /\ \A i \in 1 .. s.end : lg[i] \in Records
    /\ \A i, j \in 1 .. s.end :
          i < j /\ lg[i].block = lg[j].block => lg[i].gen < lg[j].gen

\* The index scan_log builds.
ScanIndex(lg, end) ==
    [b \in Blocks |->
        LET P == RecordsOf(lg, end, b)
        IN  IF P = {} THEN [pos |-> 0, gen |-> 0]
                      ELSE [pos |-> Latest(P), gen |-> lg[Latest(P)].gen]]

\* A superblock that authenticates and whose log scans.
Usable(sl, lg, k) == sl[k] \in Supers /\ ScanOK(lg, sl[k])

\* Mutant: the older superblock first.
PreferredOldest(sl, k, other) ==
    \/ sl[k].gen < sl[other].gen
    \/ sl[k].gen = sl[other].gen /\ k <= other

\* Volume::open tries the higher generation first, slot 0 on a tie.
Preferred(sl, k, other) ==
    \/ sl[k].gen > sl[other].gen
    \/ sl[k].gen = sl[other].gen /\ k <= other

NoSlot == 2

\* The slot Volume::open adopts.
Recovered(sl, lg) ==
    IF \E k \in Slots : Usable(sl, lg, k)
    THEN CHOOSE k \in Slots :
            /\ Usable(sl, lg, k)
            /\ Usable(sl, lg, 1 - k) => Preferred(sl, k, 1 - k)
    ELSE NoSlot

\* read_block: the record the index names, if it still is that record.
Corrupt == Torn
ReadBlock(lg, ix, b) ==
    IF ix[b].pos = 0 THEN NoVal
    ELSE LET r == lg[ix[b].pos]
         IN  IF r \in Records /\ r.block = b /\ r.gen = ix[b].gen
             THEN r.val ELSE Corrupt

View(lg, ix) == [b \in Blocks |-> ReadBlock(lg, ix, b)]

\* What an open of this file would show, a failed open included.
RecoveredView(sl, lg) ==
    LET k == Recovered(sl, lg)
    IN  IF k = NoSlot THEN Corrupt ELSE View(lg, ScanIndex(lg, sl[k].end))

-----------------------------------------------------------------------------
(* Writing the file *)

\* A write to a slot or a position ends in one of the outcomes; until the next
\* flush a power loss may leave it, what was there before, or garbage.
PutSlot(k, outcomes) ==
    \E v \in outcomes :
        /\ slot' = [slot EXCEPT ![k] = v]
        /\ slotDur' = [slotDur EXCEPT ![k] = @ \cup {v, Torn}]

PutRecord(i, outcomes) ==
    \E v \in outcomes :
        /\ log' = [log EXCEPT ![i] = v]
        /\ logDur' = [logDur EXCEPT ![i] = @ \cup {v, Torn}]

\* A successful sync_all or sync_data.
Flush ==
    /\ slotDur' = [k \in Slots |-> {slot[k]}]
    /\ logDur' = [i \in Positions |-> {log[i]}]
    /\ born' = TRUE
    /\ UNCHANGED <<slot, log>>

FlushFails == UNCHANGED <<disk, born>>

\* A flush settles what memory knows of.
Settles == standing' = IF standing = "behind" THEN "behind" ELSE "flushed"

\* A dead process has no memory.
Genesis(g) == [gen |-> g, end |-> 0, count |-> 0, clean |-> TRUE]
NoIndex == [b \in Blocks |-> [pos |-> 0, gen |-> 0]]

Forget ==
    /\ pc' = "closed"
    /\ mem' = Genesis(1)
    /\ active' = 0
    /\ index' = NoIndex
    /\ txn' = <<>>
    /\ done' = 0

-----------------------------------------------------------------------------
(* Volume::create *)

Init ==
    /\ slot = [k \in Slots |-> Torn]
    /\ slotDur = [k \in Slots |-> {Torn}]
    /\ log = [i \in Positions |-> NoRec]
    /\ logDur = [i \in Positions |-> {NoRec}]
    /\ pc = "absent"
    /\ mem = Genesis(1)
    /\ active = 0
    /\ index = NoIndex
    /\ txn = <<>>
    /\ done = 0
    /\ born = FALSE
    /\ acked = FALSE
    /\ unsure = FALSE
    /\ promise = "none"
    /\ standing = "unflushed"

\* create_new succeeds once: the bootstrap is written, the slots are zero.
CreateFile ==
    /\ pc = "absent"
    /\ pc' = "create_a"
    /\ UNCHANGED <<disk, owner, call, history>>

CreateSlot(k, at, next) ==
    /\ pc = at
    /\ PutSlot(k, {Genesis(1 - k)})
    /\ pc' = next
    /\ UNCHANGED <<log, logDur, owner, call, history>>

CreateSync ==
    /\ pc = "create_sync"
    /\ Flush
    /\ pc' = "ready"
    /\ Settles
    /\ UNCHANGED <<owner, call, acked, unsure, promise>>

Creating == pc \in {"create_a", "create_b", "create_sync"}

\* An error of any step leaves what was written so far: create_new will
\* refuse the path from now on, and open may or may not accept the file.
CreateFails ==
    /\ "create" \in Faults
    /\ Creating
    /\ pc' = "closed"
    /\ UNCHANGED <<disk, owner, call, history>>

Create ==
    \/ CreateFile
    \/ CreateSlot(0, "create_a", "create_b")
    \/ CreateSlot(1, "create_b", "create_sync")
    \/ CreateSync
    \/ CreateFails

-----------------------------------------------------------------------------
(* Volume::open *)

\* The file is longer than the log the adopted superblock describes.
Leftover(end) == \E i \in Positions : i > end /\ log[i] # NoRec

\* Adopt the recovered slot; set_len drops what lies past its committed end.
Open ==
    /\ pc = "closed"
    /\ LET k == Recovered(slot, log)
       IN  /\ k # NoSlot
           /\ mem' = slot[k]
           /\ active' = k
           /\ index' = ScanIndex(log, slot[k].end)
           /\ log' = [i \in Positions |-> IF i > slot[k].end THEN NoRec ELSE log[i]]
           /\ logDur' = [i \in Positions |->
                            IF i > slot[k].end THEN logDur[i] \cup {NoRec}
                                               ELSE logDur[i]]
           /\ pc' = IF Leftover(slot[k].end) THEN "open_sync" ELSE "ready"
    /\ UNCHANGED <<slot, slotDur, call, history>>

OpenSync ==
    /\ pc = "open_sync"
    /\ Flush
    /\ pc' = "ready"
    /\ Settles
    /\ UNCHANGED <<owner, call, acked, unsure, promise>>

OpenSyncFails ==
    /\ "open_sync" \in Faults
    /\ pc = "open_sync"
    /\ FlushFails
    /\ Forget
    /\ UNCHANGED <<acked, unsure, promise, standing>>

-----------------------------------------------------------------------------
(* Volume::write_blocks *)

\* The block lists the validation loop lets through, in bounds of the model.
ValidTxns ==
    {t \in UNION {[1 .. n -> Blocks \X Values] : n \in 1 .. MaxTxn} :
        /\ mem.end + Len(t) <= MaxLog
        /\ \A i, j \in 1 .. Len(t) : t[i][1] = t[j][1] => i = j}

BeginWrite ==
    /\ "write" \in Ops
    /\ pc = "ready"
    /\ \E t \in ValidTxns : txn' = t
    /\ done' = 0
    /\ acked' = FALSE
    /\ pc' = "append"
    /\ UNCHANGED <<disk, owner, born, unsure, promise, standing>>

\* The record that goes to position mem.end + k.
NewRecord(k) ==
    [block |-> txn[k][1], gen |-> index[txn[k][1]].gen + 1, val |-> txn[k][2]]

AppendRecord ==
    /\ pc = "append"
    /\ PutRecord(mem.end + done + 1, {NewRecord(done + 1)})
    /\ done' = done + 1
    /\ pc' = IF done' = Len(txn) THEN "data_sync" ELSE "append"
    /\ UNCHANGED <<slot, slotDur, owner, txn, history>>

\* Every error before the superblock returns with memory as it was.
GiveUp ==
    /\ pc' = "ready"
    /\ txn' = <<>>
    /\ done' = 0
    /\ UNCHANGED <<owner, acked>>

\* seek, header and ciphertext are separate calls: the record may be partial.
\* (A complete one is what a failing sync_data leaves.)
AppendFails ==
    /\ "append" \in Faults
    /\ pc = "append"
    /\ PutRecord(mem.end + done + 1, {Torn})
    /\ GiveUp
    /\ UNCHANGED <<slot, slotDur, born, unsure, promise, standing>>

\* Mutant: the records are not flushed before the superblock that commits them.
SyncDataSkipped ==
    /\ pc = "data_sync"
    /\ pc' = "super"
    /\ UNCHANGED <<disk, owner, call, history>>

\* Mutant: the generation is not checked for exhaustion.
SyncDataUnchecked ==
    /\ pc = "data_sync"
    /\ Flush
    /\ pc' = "super"
    /\ Settles
    /\ UNCHANGED <<owner, call, acked, unsure, promise>>

\* sync_data, then checked_add on the superblock generation.
SyncData ==
    /\ pc = "data_sync"
    /\ Flush
    /\ IF mem.gen < MaxGen
       THEN pc' = "super" /\ UNCHANGED <<owner, call, acked>>
       ELSE GiveUp
    /\ Settles
    /\ UNCHANGED <<unsure, promise>>

SyncDataFails ==
    /\ "data_sync" \in Faults
    /\ pc = "data_sync"
    /\ FlushFails
    /\ GiveUp
    /\ UNCHANGED <<unsure, promise, standing>>

\* Mutant: a commit keeps the clean flag it finds.
NextStateKeepsFlag ==
    [gen |-> mem.gen + 1, end |-> mem.end + Len(txn),
     count |-> mem.count + Len(txn), clean |-> mem.clean]

NextState ==
    [gen |-> mem.gen + 1, end |-> mem.end + Len(txn),
     count |-> mem.count + Len(txn), clean |-> FALSE]

\* Mutant: the records are committed but not entered.
IndexForgotten == index

\* The index with the appended records entered.
IndexWithTxn ==
    [b \in Blocks |->
        IF \E k \in 1 .. Len(txn) : txn[k][1] = b
        THEN LET k == CHOOSE k \in 1 .. Len(txn) : txn[k][1] = b
             IN  [pos |-> mem.end + k, gen |-> index[b].gen + 1]
        ELSE index[b]]

\* A superblock that clears the flag is on its way.
CleanInDoubt == IF promise = "clean" THEN "none" ELSE promise

\* Mutant: the superblock is overwritten in place.
WriteSuperInPlace ==
    /\ pc = "super"
    /\ PutSlot(active, {NextState})
    /\ mem' = NextState
    /\ index' = IndexWithTxn
    /\ pc' = "commit_sync"
    /\ promise' = CleanInDoubt
    /\ UNCHANGED <<log, logDur, active, call, born, acked, unsure, standing>>

\* Mutant: self.state is not advanced.
WriteSuperForgetsState ==
    /\ pc = "super"
    /\ PutSlot(1 - active, {NextState})
    /\ active' = 1 - active
    /\ index' = IndexWithTxn
    /\ pc' = "commit_sync"
    /\ promise' = CleanInDoubt
    /\ UNCHANGED <<log, logDur, mem, call, born, acked, unsure, standing>>

\* The commit point: the other slot, then index, state and active_super.
WriteSuper ==
    /\ pc = "super"
    /\ PutSlot(1 - active, {NextState})
    /\ mem' = NextState
    /\ active' = 1 - active
    /\ index' = IndexWithTxn
    /\ pc' = "commit_sync"
    /\ promise' = CleanInDoubt
    /\ UNCHANGED <<log, logDur, call, born, acked, unsure, standing>>

\* write_superblock returns Err: the slot is as it was, or half written, or
\* (the rest of the 4 KiB slot being zero) complete.
SuperFails(s) ==
    \/ /\ "super" \in Faults
       /\ PutSlot(1 - active, {slot[1 - active], Torn})
       /\ UNCHANGED <<unsure, standing>>
    \/ /\ "super_landed" \in Faults
       /\ PutSlot(1 - active, {s})
       /\ unsure' = TRUE /\ standing' = "behind"

\* The error is returned before memory is touched.
WriteSuperFails ==
    /\ pc = "super"
    /\ SuperFails(NextState)
    /\ GiveUp
    /\ promise' = CleanInDoubt
    /\ UNCHANGED <<log, logDur, born>>

\* Mutant: write_blocks returns without the final flush.
CommitSyncSkipped ==
    /\ pc = "commit_sync"
    /\ pc' = "ready"
    /\ txn' = <<>>
    /\ done' = 0
    /\ acked' = TRUE
    /\ unsure' = FALSE
    /\ promise' = "dirty"
    /\ standing' = "flushed"
    /\ UNCHANGED <<disk, owner, born>>

CommitSync ==
    /\ pc = "commit_sync"
    /\ Flush
    /\ pc' = "ready"
    /\ txn' = <<>>
    /\ done' = 0
    /\ acked' = TRUE
    /\ unsure' = FALSE
    /\ promise' = "dirty"
    /\ standing' = "flushed"
    /\ UNCHANGED owner

\* The error is returned although memory has advanced.
CommitSyncFails ==
    /\ "commit_sync" \in Faults
    /\ pc = "commit_sync"
    /\ FlushFails
    /\ GiveUp
    /\ standing' = "unflushed"
    /\ UNCHANGED <<unsure, promise>>

Write ==
    \/ BeginWrite \/ AppendRecord \/ AppendFails
    \/ SyncData \/ SyncDataFails
    \/ WriteSuper \/ WriteSuperFails
    \/ CommitSync \/ CommitSyncFails

-----------------------------------------------------------------------------
(* mark_clean, mark_dirty and sync *)

\* saturating_add on the generation.
FlagState(clean) ==
    [gen |-> IF mem.gen < MaxGen THEN mem.gen + 1 ELSE MaxGen,
     end |-> mem.end, count |-> mem.count, clean |-> clean]

FlagOf(s) == IF s.clean THEN "clean" ELSE "dirty"

MayFlag ==
    /\ "flag" \in Ops
    /\ pc = "ready"
    /\ mem.gen < FlagBound

\* set_clean_state returns Ok at once when the flag in memory already has the
\* value, without a look at the file.
SetCleanStateKept ==
    /\ "flag" \in Ops
    /\ pc = "ready"
    /\ promise' = IF standing = "flushed" THEN FlagOf(mem) ELSE promise
    /\ UNCHANGED <<disk, pc, owner, call, born, acked, unsure, standing>>

\* The flag is to change.
SetCleanState ==
    /\ MayFlag
    /\ PutSlot(1 - active, {FlagState(~mem.clean)})
    /\ pc' = "flag_sync"
    /\ promise' = "none"
    /\ UNCHANGED <<log, logDur, owner, call, born, acked, unsure, standing>>

SetCleanStateFails ==
    /\ MayFlag
    /\ SuperFails(FlagState(~mem.clean))
    /\ promise' = "none"
    /\ UNCHANGED <<log, logDur, pc, owner, call, born, acked>>

\* Mutant: the flag is not flushed.
FlagSyncSkipped ==
    /\ pc = "flag_sync"
    /\ mem' = FlagState(~mem.clean)
    /\ active' = 1 - active
    /\ pc' = "ready"
    /\ promise' = FlagOf(FlagState(~mem.clean))
    /\ standing' = "flushed"
    /\ UNCHANGED <<disk, index, call, born, acked, unsure>>

\* Memory follows only after the flush.
FlagSync ==
    /\ pc = "flag_sync"
    /\ Flush
    /\ mem' = FlagState(~mem.clean)
    /\ active' = 1 - active
    /\ pc' = "ready"
    /\ promise' = IF mem.gen = MaxGen THEN "none"
                  ELSE FlagOf(FlagState(~mem.clean))
    /\ standing' = "flushed"
    /\ UNCHANGED <<index, call, acked, unsure>>

FlagSyncFails ==
    /\ "flag_sync" \in Faults
    /\ pc = "flag_sync"
    /\ FlushFails
    /\ pc' = "ready"
    /\ standing' = "behind"
    /\ UNCHANGED <<owner, call, acked, unsure, promise>>

Sync ==
    /\ "sync" \in Ops
    /\ pc = "ready"
    /\ Flush
    /\ Settles
    /\ UNCHANGED <<pc, owner, call, acked, unsure, promise>>

Flag == SetCleanStateKept \/ SetCleanState \/ SetCleanStateFails \/ FlagSync \/ FlagSyncFails

-----------------------------------------------------------------------------
(* The end of the process, and of the machine *)

\* The Volume is dropped between calls; dropping it flushes nothing.
Drop ==
    /\ pc = "ready"
    /\ Forget
    /\ standing' = IF standing = "behind" THEN "unflushed" ELSE standing
    /\ UNCHANGED <<disk, born, acked, unsure, promise>>

\* The process dies inside a call; the operating system keeps what it wrote.
Kill ==
    /\ "kill" \in Faults /\ (Creating => "create" \in Faults)
    /\ pc \notin {"absent", "closed", "ready"}
    /\ Forget
    /\ standing' = "unflushed"
    /\ UNCHANGED <<disk, born, acked, unsure, promise>>

\* Contents a power loss could leave at the locations of D.
Images(dur, D) ==
    {f \in [D -> UNION {dur[d] : d \in D}] : \A d \in D : f[d] \in dur[d]}

PowerLoss ==
    /\ "power" \in Faults /\ (Creating => "create" \in Faults)
    /\ pc # "absent"
    /\ slot' \in Images(slotDur, Slots)
    /\ log' \in Images(logDur, Positions)
    /\ slotDur' = [k \in Slots |-> {slot'[k]}]
    /\ logDur' = [i \in Positions |-> {log'[i]}]
    /\ Forget
    /\ standing' = "flushed"
    /\ UNCHANGED <<born, acked, unsure, promise>>

Next ==
    \/ Create
    \/ Open \/ OpenSync \/ OpenSyncFails
    \/ Write
    \/ Flag \/ Sync
    \/ Drop \/ Kill \/ PowerLoss

Spec == Init /\ [][Next]_vars

-----------------------------------------------------------------------------
(* Properties *)

\* What a reader gets: through the open Volume, or by opening the file.
CurrentView ==
    IF pc \in {"absent", "create_a", "create_b", "create_sync"} \/ ~born
    THEN [b \in Blocks |-> NoVal]
    ELSE IF pc = "closed" THEN RecoveredView(slot, log)
                          ELSE View(log, index)

\* Log positions some surviving superblock could make open read.
Reach == Latest({0} \cup UNION {{s.end : s \in slotDur[k] \cap Supers} : k \in Slots})

\* What opening the file after a power loss now could show.
MaybeViews ==
    IF ~born THEN {[b \in Blocks |-> NoVal]}
    ELSE {RecoveredView(sl, lg) :
             sl \in Images(slotDur, Slots), lg \in Images(logDur, 1 .. Reach)}

Store == INSTANCE CrashStore WITH view <- CurrentView, maybe <- MaybeViews

\* A volume is a CrashStore: under every failure the run allows, a reader sees
\* whole transactions only, a power loss leaves a view that was committed and
\* never an unopenable file, and nothing but the result of an acknowledged
\* write_blocks survives it.
ImplementsCrashStore == Store!Spec

\* Once write_blocks returned Ok, no later call, failed call, death of the
\* process or power loss can cost its result (until another write begins).
AcknowledgedIsDurable == Store!AckedIsDurable

\* Whatever a power loss leaves at this instant, open finds a superblock with
\* a valid committed log.
AlwaysRecoverable ==
    born => \A sl \in Images(slotDur, Slots), lg \in Images(logDur, 1 .. Reach) :
                Recovered(sl, lg) # NoSlot

\* The clean flag is reliable: once mark_clean, mark_dirty or a write returned
\* Ok, every later open reads the flag they set, whatever calls, failures,
\* deaths and power losses come between, until a call that sets it to the
\* other value reaches the file (generations not being exhausted).  One Ok is
\* not covered, and cannot be: where set_clean_state returns early after a
\* flush had failed, or a process had died, memory has the flag and the file
\* may have the other, or lose it (README.md, section 3).
FlagIsDurable ==
    promise # "none" =>
        \A sl \in Images(slotDur, Slots), lg \in Images(logDur, 1 .. Reach) :
            LET k == Recovered(sl, lg)
            IN  k # NoSlot => sl[k].clean = (promise = "clean")

\* The log is append-only for every superblock a power loss could bring back,
\* not only for the one in memory: no step changes a position it commits.
KeepsCommitted ==
    \A k \in Slots : \A s \in slotDur[k] \cap Supers :
        \A i \in 1 .. s.end : log'[i] = log[i]

CommittedLogIsStable == [][KeepsCommitted]_vars

=============================================================================
