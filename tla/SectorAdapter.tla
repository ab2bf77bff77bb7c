---------------------------- MODULE SectorAdapter ----------------------------
(***************************************************************************)
(* The callbacks of the mount host (orisyvra-volume-mount.rs) that serve   *)
(* Windows sector requests from the blocks of a volume.  A sector is       *)
(* smaller than a block and the last block may be shorter than the others, *)
(* so a write reads each block it touches, changes a part of it and hands  *)
(* all of them to write_blocks as one transaction, while the mutex of the  *)
(* mount context keeps the other threads out.                              *)
(*                                                                         *)
(* Between mounts the volume may be given a partition table, by the host   *)
(* (create, mount --init-mbr) or by the desktop application.               *)
(*                                                                         *)
(* The volume is what Volume.tla and CrashStore.tla promise of it while    *)
(* the process lives: write_blocks lands whole or not at all, and may fail *)
(* either way.                                                             *)
(***************************************************************************)
EXTENDS Integers, Sequences

CONSTANTS
    Threads,    \* dispatcher threads and the stopper
    Requests,   \* [op, lba, count, data]
    SectorSize, \* SECTOR_SIZE, in cells
    BlockSize,  \* block_size, in cells
    Capacity,   \* logical_capacity, in cells
    Mbr,        \* the partition table, cells at the head of sector 0
    MinCapacity \* 16 MiB, the least that is partitioned, in cells

ASSUME AdapterAssumption ==
    /\ SectorSize \in Nat \ {0} /\ BlockSize \in Nat \ {0} /\ Capacity \in Nat \ {0}
    /\ BlockSize % SectorSize = 0 /\ Capacity % SectorSize = 0
    /\ Mbr \in Seq(Nat) /\ Len(Mbr) <= SectorSize
    /\ MinCapacity \in Nat /\ BlockSize <= MinCapacity

ASSUME RequestsAssumption ==
    \A r \in Requests :
        /\ r.op \in {"read", "write", "sync"} /\ r.lba \in Nat /\ r.count \in Nat
        /\ r.op = "write" => r.data \in Seq(Nat) /\ Len(r.data) = r.count * SectorSize

VARIABLES
    readOnly,   \* MountContext.read_only of the mount
    store,      \* block -> its cells, <<>> for a block never written
    registered, \* the context is in the map
    inside,     \* the threads that hold the context's mutex
    failed,     \* threads whose callback has met an error
    req,        \* the request a thread is at
    answer,     \* its status, and for a read its buffer
    done,       \* cells of the request done
    output,     \* buffer of a read
    updates     \* blocks a write has changed

vars == <<readOnly, store, registered, inside, failed, req, answer, done, output, updates>>

NoRequest == [op |-> "none"]
NoAnswer == [status |-> "none", data |-> <<>>]

Least(a, b) == IF a < b THEN a ELSE b
BlockCount == (Capacity + BlockSize - 1) \div BlockSize
Blocks == 0 .. BlockCount - 1
LogicalLength(b) == Least(Capacity - b * BlockSize, BlockSize)
From(r) == r.lba * SectorSize
Length(r) == r.count * SectorSize

TypeOK ==
    /\ DOMAIN store = Blocks
    /\ readOnly \in BOOLEAN /\ registered \in BOOLEAN
    /\ inside \subseteq Threads /\ failed \subseteq Threads
    /\ \A t \in Threads :
        /\ req[t] \in Requests \cup {NoRequest}
        /\ answer[t].status \in {"none", "good", "error"}
        /\ req[t] # NoRequest => done[t] \in 0 .. Length(req[t])
        /\ DOMAIN updates[t] \subseteq Blocks

Init ==
    /\ readOnly \in BOOLEAN
    /\ store = [b \in Blocks |-> <<>>]
    /\ registered = FALSE
    /\ inside = {} /\ failed = {}
    /\ req = [t \in Threads |-> NoRequest]
    /\ answer = [t \in Threads |-> NoAnswer]
    /\ done = [t \in Threads |-> 0]
    /\ output = [t \in Threads |-> <<>>]
    /\ updates = [t \in Threads |-> <<>>]

Pending(t) == req[t] # NoRequest /\ answer[t] = NoAnswer

\* run_mount enters the context in the map and starts the dispatcher.
Idle == ~ registered /\ \A t \in Threads : req[t] = NoRequest

Mount ==
    /\ Idle
    /\ registered' = TRUE /\ readOnly' \in BOOLEAN
    /\ UNCHANGED <<store, inside, failed, req, answer, done, output, updates>>

Submit(t) ==
    /\ registered /\ req[t] = NoRequest
    /\ \E r \in Requests : req' = [req EXCEPT ![t] = r]
    /\ UNCHANGED <<readOnly, store, registered, inside, failed, answer, done, output, updates>>

\* run_mount takes the context out of the map after the dispatcher stopped;
\* callbacks that hold it go on.
Unregister ==
    /\ registered /\ registered' = FALSE
    /\ UNCHANGED <<readOnly, store, inside, failed, req, answer, done, output, updates>>

Answer(t, status, data) ==
    answer' = [answer EXCEPT ![t] = [status |-> status, data |-> data]]

\* set_error or set_good before the mutex: no context, nothing to transfer.  A
\* request comes while the context is registered; once it is taken out, the
\* callback may have cloned it before (context_for) or finds none.
AnswerEarly(t) ==
    /\ Pending(t) /\ t \notin inside
    /\ \/ ~ registered /\ Answer(t, "error", <<>>)
       \/ req[t].op # "sync" /\ req[t].count = 0 /\ Answer(t, "good", <<>>)
    /\ UNCHANGED <<readOnly, store, registered, inside, failed, req, done, output, updates>>

\* What a callback refuses before it touches a block: a write to a read-only
\* mount, a range beyond the capacity.
WritesReadOnly(r) == r.op = "write" /\ readOnly
OutOfRange(r) == r.op # "sync" /\ From(r) + Length(r) > Capacity
MustRefuse(r) == WritesReadOnly(r) \/ OutOfRange(r)

\* A callback with the context begins; Unregister does not stop it.
Enter(t) ==
    /\ Pending(t) /\ t \notin inside
    /\ (req[t].op = "sync" \/ req[t].count > 0)
    /\ done' = [done EXCEPT ![t] = 0]
    /\ output' = [output EXCEPT ![t] = <<>>]
    /\ updates' = [updates EXCEPT ![t] = <<>>]
    /\ failed' = IF MustRefuse(req[t]) THEN failed \cup {t} ELSE failed \ {t}
    /\ UNCHANGED <<readOnly, store, registered, req, answer>>

\* Mutant: the mutex is not waited for.
LockAnyway(t) == Enter(t) /\ inside' = inside \cup {t}

\* It takes the mutex.
Lock(t) == inside = {} /\ Enter(t) /\ inside' = {t}

Running(t) == t \in inside /\ t \notin failed
Absolute(t) == From(req[t]) + done[t]
Index(t) == Absolute(t) \div BlockSize
BlockOffset(t) == Absolute(t) % BlockSize

\* How far one turn gets: to the end of the request or of the block.  Mutant:
\* a read goes to the end of the block.
TakeRoom(t, room) ==
    IF req[t].op = "read" THEN room ELSE Least(Length(req[t]) - done[t], room)
Take(t, room) == Least(Length(req[t]) - done[t], room)

\* A block as read_block returns it, zeros for one never written.
BlockOr0(b, n) == IF store[b] = <<>> THEN [i \in 1 .. n |-> 0] ELSE store[b]

\* One turn of the loop of read_bytes.
ReadStep(t) ==
    LET take == Take(t, BlockSize - BlockOffset(t))
        block == BlockOr0(Index(t), BlockSize)
        cell(i) == IF BlockOffset(t) + i <= Len(block) THEN block[BlockOffset(t) + i] ELSE 0
    IN  /\ Running(t) /\ req[t].op = "read" /\ done[t] < Length(req[t])
        /\ output' = [output EXCEPT ![t] = @ \o [i \in 1 .. take |-> cell(i)]]
        /\ done' = [done EXCEPT ![t] = @ + take]
        /\ UNCHANGED <<readOnly, store, registered, inside, failed, req, answer, updates>>

\* The length write_bytes gives a block; mutant: that of a whole block.
WrittenLengthWhole(b) == BlockSize
WrittenLength(b) == LogicalLength(b)

\* Block b as it is written back, with the cells at an offset changed.
Patched(b, offset, cells) ==
    LET old == BlockOr0(b, WrittenLength(b))
    IN  [i \in 1 .. WrittenLength(b) |->
            IF i \in offset + 1 .. offset + Len(cells) THEN cells[i - offset]
            ELSE IF i <= Len(old) THEN old[i] ELSE 0]

\* One turn of the loop of write_bytes.
WriteStep(t) ==
    LET b == Index(t)
        take == Take(t, LogicalLength(b) - BlockOffset(t))
        new == Patched(b, BlockOffset(t), SubSeq(req[t].data, done[t] + 1, done[t] + take))
    IN  /\ Running(t) /\ req[t].op = "write" /\ done[t] < Length(req[t])
        /\ updates' = [updates EXCEPT ![t] = [c \in DOMAIN @ \cup {b} |->
                                                 IF c = b THEN new ELSE @[c]]]
        /\ done' = [done EXCEPT ![t] = @ + take]
        /\ UNCHANGED <<readOnly, store, registered, inside, failed, req, answer, output>>

\* read_block, the flush before a read, or a flush fails.
Break(t) ==
    /\ Running(t) /\ (req[t].op = "write" => done[t] < Length(req[t]))
    /\ failed' = failed \cup {t}
    /\ UNCHANGED <<readOnly, store, registered, inside, req, answer, done, output, updates>>

\* The mutex is released and Windows gets the status.
Release(t, status, data) ==
    /\ inside' = inside \ {t}
    /\ Answer(t, status, data)
    /\ UNCHANGED <<readOnly, registered, failed, req, done, output, updates>>

AnswerError(t) == t \in inside /\ t \in failed /\ Release(t, "error", <<>>) /\ UNCHANGED store

AnswerRead(t) ==
    /\ Running(t) /\ req[t].op = "read" /\ done[t] = Length(req[t])
    /\ Release(t, "good", output[t]) /\ UNCHANGED store

AnswerSync(t) == Running(t) /\ req[t].op = "sync" /\ Release(t, "good", <<>>) /\ UNCHANGED store

\* write_blocks, and the flush a write may ask for: an error comes before or
\* after the blocks have changed.
Commit(t) ==
    /\ Running(t) /\ req[t].op = "write" /\ done[t] = Length(req[t])
    /\ \/ /\ store' = [b \in Blocks |->
                          IF b \in DOMAIN updates[t] THEN updates[t][b] ELSE store[b]]
          /\ \E status \in {"good", "error"} : Release(t, status, <<>>)
       \/ Release(t, "error", <<>>) /\ UNCHANGED store

Return(t) ==
    /\ answer[t] # NoAnswer
    /\ req' = [req EXCEPT ![t] = NoRequest]
    /\ answer' = [answer EXCEPT ![t] = NoAnswer]
    /\ done' = [done EXCEPT ![t] = 0]
    /\ output' = [output EXCEPT ![t] = <<>>]
    /\ updates' = [updates EXCEPT ![t] = <<>>]
    /\ failed' = failed \ {t}
    /\ UNCHANGED <<readOnly, store, registered, inside>>

\* A partition table is written only where the head of the disk is all zero;
\* the rest of the block goes back as it was.  An error before the commit
\* changes nothing, one after it (of sync or mark_clean) comes too late.
Partition ==
    /\ Idle /\ Capacity >= MinCapacity
    /\ LET head == BlockOr0(0, Len(Mbr))
       IN  \A i \in 1 .. Len(Mbr) : i <= Len(head) => head[i] = 0
    /\ store' = [store EXCEPT ![0] = Patched(0, 0, Mbr)]
    /\ UNCHANGED <<readOnly, registered, inside, failed, req, answer, done, output, updates>>

Callback(t) ==
    \/ AnswerEarly(t) \/ ReadStep(t) \/ WriteStep(t) \/ Break(t)
    \/ AnswerError(t) \/ AnswerRead(t) \/ AnswerSync(t) \/ Commit(t) \/ Return(t)

Next == Mount \/ Partition \/ Unregister \/ \E t \in Threads : Submit(t) \/ Lock(t) \/ Callback(t)

Spec == Init /\ [][Next]_vars

-----------------------------------------------------------------------------
(* Properties *)

\* No block of the volume reaches past the logical capacity, so that the
\* volume can be written to its last sector when that ends inside a block.
BlocksFit == \A b \in Blocks : Len(store[b]) \in {0, LogicalLength(b)}

\* The callbacks are the disk Windows expects, whatever requests overlap; and
\* a partition table never costs what the disk holds.
SectorView ==
    [c \in 0 .. Capacity - 1 |->
        LET block == BlockOr0(c \div BlockSize, BlockSize)
        IN  IF c % BlockSize < Len(block) THEN block[(c % BlockSize) + 1] ELSE 0]
Promise == INSTANCE SectorDisk WITH disk <- SectorView
ImplementsDisk == Promise!Spec

=============================================================================
