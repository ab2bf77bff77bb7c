------------------------------ MODULE SectorDisk ------------------------------
(***************************************************************************)
(* What Windows expects of the disk behind a mounted volume: every request *)
(* is answered; one answered "good" takes effect at one instant between    *)
(* its submission and its answer, on exactly the cells it names; one       *)
(* answered with an error has either done so or changed nothing.  A disk   *)
(* in use by nobody may get a partition table where it begins with zeros.  *)
(***************************************************************************)
EXTENDS Naturals, Sequences

CONSTANTS
    Threads,    \* the threads that answer requests
    Requests,   \* [op, lba, count, data]
    SectorSize, \* in cells; SECTOR_SIZE
    Capacity,   \* in cells; logical_capacity
    Mbr         \* in cells; initialize_mbr's table

VARIABLES
    disk,   \* a value for every cell
    req,    \* the request a thread is at, or NoRequest
    answer  \* its answer, or NoAnswer

vars == <<disk, req, answer>>

NoRequest == [op |-> "none"]
NoAnswer == [status |-> "none", data |-> <<>>]

From(r) == r.lba * SectorSize
Length(r) == r.count * SectorSize
Overwrite(d, r) ==
    [c \in DOMAIN d |->
        IF c \in From(r) .. From(r) + Length(r) - 1 THEN r.data[c - From(r) + 1] ELSE d[c]]
Slice(d, r) == [i \in 1 .. Length(r) |-> d[From(r) + i - 1]]
OnDisk(r) == From(r) + Length(r) <= Capacity

Init ==
    /\ disk = [c \in 0 .. Capacity - 1 |-> 0]
    /\ req = [t \in Threads |-> NoRequest]
    /\ answer = [t \in Threads |-> NoAnswer]

Pending(t) == req[t] # NoRequest /\ answer[t] = NoAnswer

Submit(t) ==
    /\ req[t] = NoRequest
    /\ \E r \in Requests : req' = [req EXCEPT ![t] = r]
    /\ UNCHANGED <<disk, answer>>

Answer(t, status, data) ==
    /\ Pending(t)
    /\ answer' = [answer EXCEPT ![t] = [status |-> status, data |-> data]]
    /\ UNCHANGED req

Read(t) ==
    /\ req[t].op = "read" /\ OnDisk(req[t])
    /\ Answer(t, "good", Slice(disk, req[t]))
    /\ UNCHANGED disk

Write(t) ==
    /\ req[t].op = "write" /\ OnDisk(req[t])
    /\ disk' = Overwrite(disk, req[t])
    /\ \E status \in {"good", "error"} : Answer(t, status, <<>>)

\* A flush, and a transfer of no sectors.
Nothing(t) ==
    /\ req[t].op = "sync" \/ (Pending(t) /\ Length(req[t]) = 0)
    /\ Answer(t, "good", <<>>)
    /\ UNCHANGED disk

Fail(t) == Answer(t, "error", <<>>) /\ UNCHANGED disk

Return(t) ==
    /\ answer[t] # NoAnswer
    /\ req' = [req EXCEPT ![t] = NoRequest]
    /\ answer' = [answer EXCEPT ![t] = NoAnswer]
    /\ UNCHANGED disk

Partition ==
    /\ \A t \in Threads : req[t] = NoRequest
    /\ \A c \in 0 .. Len(Mbr) - 1 : disk[c] = 0
    /\ disk' = [c \in DOMAIN disk |-> IF c < Len(Mbr) THEN Mbr[c + 1] ELSE disk[c]]
    /\ UNCHANGED <<req, answer>>

Next ==
    \/ Partition
    \/ \E t \in Threads :
           Submit(t) \/ Read(t) \/ Write(t) \/ Nothing(t) \/ Fail(t) \/ Return(t)

Spec == Init /\ [][Next]_vars

=============================================================================
