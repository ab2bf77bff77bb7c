----------------------------- MODULE VolumeProofs -----------------------------
(***************************************************************************)
(* Proofs about Volume, for any number of blocks, values, records and      *)
(* generations: type correctness, the append-only log and the clean flag,  *)
(* under every failure but a superblock write that lands and returns an    *)
(* error; and the central claim of the crash design, that open always      *)
(* finds a superblock with a valid committed log, under the failures for   *)
(* which it is true.  From them, under the same failures, that Volume      *)
(* implements CrashStore: every step of the file format is a step of the   *)
(* abstract store or changes nothing a reader or a power loss could see.   *)
(* Durability of acknowledged writes follows.                              *)
(***************************************************************************)
EXTENDS Volume, TLAPS, WellFoundedInduction

\* Failures after which a process can run with its newest superblock not
\* flushed.  write_blocks tolerates them, since it flushes before it touches
\* the other slot; set_clean_state does not.
Unflushed == {"kill", "commit_sync", "flag_sync"}

\* A superblock write that fails has not landed complete.
InStep == "super_landed" \notin Faults

\* What is more, a volume whose clean flag is changed does not meet the failures
\* above.
SafeUse == InStep /\ ("flag" \in Ops => Faults \cap Unflushed = {})

\* How far a superblock in the file may be ahead of the one in memory: by the
\* flag change whose flush failed, or in which the process died.
Lead == IF SafeUse THEN 0 ELSE 1

CreatePCs == {"absent", "create_a", "create_b", "create_sync"}
OpenPCs == PCs \ (CreatePCs \cup {"closed"})

\* The superblocks a power loss could leave in slot k.
Surviving(k) == slotDur[k] \cap Supers

\* The part of the invariant that types depend on: the accounting of the
\* superblock in memory, and how far the call in progress has come.
CallShape ==
    /\ mem.count = mem.end
    /\ pc \in {"append", "data_sync", "super"} => mem.end + Len(txn) <= MaxLog
    /\ pc = "append" => done < Len(txn)
    /\ pc \in {"data_sync", "super"} => done = Len(txn)
    /\ pc = "super" => mem.gen < MaxGen
    /\ pc = "flag_sync" => "flag" \in Ops /\ mem.gen < FlagBound

\* A location shows one of the contents it may keep.
ShownMayStay ==
    /\ \A k \in Slots : slot[k] \in slotDur[k]
    /\ \A i \in Positions : log[i] \in logDur[i]

\* Whatever superblock survives, the log it commits is flushed and scans.
SurvivorsScan ==
    \A k \in Slots : \A s \in Surviving(k) :
        /\ ScanOK(log, s)
        /\ \A i \in 1 .. s.end : logDur[i] = {log[i]}

\* A superblock never commits less than one of a lower generation in the other
\* slot.
EndsGrow ==
    \A k, l \in Slots : k # l =>
        \A s \in Surviving(k), t \in Surviving(l) : s.gen <= t.gen => s.end <= t.end

\* Slot 0 holds odd generations and slot 1 even ones, so the two never tie.
Parity ==
    \A k \in Slots : \A s \in Surviving(k) : s.gen % 2 = 1 - k

DiskInv == ShownMayStay /\ SurvivorsScan /\ EndsGrow /\ Parity

\* No surviving superblock is newer than the one given.
NoneAbove(s) ==
    \A k \in Slots : \A t \in Surviving(k) : t.gen <= s.gen /\ t.end <= s.end

\* None is further ahead of it than a failed flag change puts it.
NoneAhead(s) ==
    \A k \in Slots : \A t \in Surviving(k) : t.gen <= s.gen + Lead /\ t.end <= s.end

\* Memory while the file is being created.
CreateInv ==
    pc \in CreatePCs =>
        /\ mem = Genesis(1) /\ active = 0 /\ index = NoIndex
        /\ ~born
        /\ NoneAbove(mem)
        /\ pc \in {"absent", "create_a"} => \A k \in Slots : Surviving(k) = {}
        /\ pc \in {"create_b", "create_sync"} => slot[0] = mem

\* Memory of an open volume is the active slot, and its superblock the newest but
\* for one; the index knows the latest generation of every committed block.
OpenInv ==
    pc \in OpenPCs =>
        /\ slot[active] = mem
        /\ \A i \in 1 .. mem.end : log[i].gen <= index[log[i].block].gen
        /\ pc # "flag_sync" => NoneAhead(mem)
        /\ pc = "flag_sync" => /\ slot[1 - active] = FlagState(~mem.clean)
                               /\ NoneAbove(FlagState(~mem.clean))

\* What the write_blocks call in progress has put behind the committed log.
TxnInv ==
    /\ pc \in {"append", "data_sync", "super", "commit_sync"} =>
          \A i, j \in 1 .. Len(txn) : txn[i][1] = txn[j][1] => i = j
    /\ pc \in {"append", "data_sync", "super"} =>
          \A j \in 1 .. done : log[mem.end + j] = NewRecord(j)
    /\ pc = "super" => /\ \A k \in Slots : slotDur[k] = {slot[k]}
                       /\ \A i \in Positions : logDur[i] = {log[i]}

\* A closed file: open would adopt a newest superblock.
ClosedInv ==
    pc = "closed" /\ Recovered(slot, log) # NoSlot =>
        NoneAhead(slot[Recovered(slot, log)])

\* Slot k holds a superblock whatever happens.
Anchored(k) == slotDur[k] \subseteq Supers

\* Some superblock always survives; and when the clean flag is in use, it is
\* the active one, for set_clean_state writes the other without a flush.
AnchorInv ==
    SafeUse /\ born =>
        /\ \E k \in Slots : Anchored(k)
        /\ "flag" \in Ops =>
              /\ pc \in OpenPCs \ {"commit_sync"} => Anchored(active)
              /\ pc = "closed" => /\ Recovered(slot, log) # NoSlot
                                  /\ Anchored(Recovered(slot, log))

DataInv ==
    /\ DiskInv
    /\ CreateInv
    /\ OpenInv
    /\ TxnInv
    /\ ClosedInv
    /\ AnchorInv

IInv == TypeOK /\ CallShape /\ DataInv

-----------------------------------------------------------------------------
(* Operators *)

\* A nonempty set of positions has a largest one, which Latest returns: the
\* index scan_log builds points at the newest record of a block.
LEMMA LatestIsLargest ==
    ASSUME NEW n \in Nat, NEW P, P \subseteq 1 .. n, P # {}
    PROVE  Latest(P) \in P /\ \A j \in P : j <= Latest(P)
<1> DEFINE R == OpToRel(<, Nat)
           T == {n - i : i \in P}
<1>1. T \subseteq Nat /\ T # {}
  <2>1. \A i \in P : n - i \in Nat
    OBVIOUS
  <2>2. QED
    BY <2>1
<1>2. IsWellFoundedOn(R, Nat)
  BY NatLessThanWellFounded
<1> HIDE DEF T
<1>3. PICK x \in T : \A y \in T : <<y, x>> \notin R
  BY <1>1, <1>2, WFMin, Zenon DEF R
<1>4. \A y \in T : ~ (y < x)
  BY <1>1, <1>3 DEF R, OpToRel
<1>5. PICK i \in P : x = n - i
  BY DEF T
<1>6. \A j \in P : j <= i
  <2>1. SUFFICES ASSUME NEW j \in P PROVE j <= i
    OBVIOUS
  <2>2. n - j \in T
    BY DEF T
  <2>3. QED
    BY <1>4, <1>5, <2>2
<1>7. QED
  BY <1>6 DEF Latest

\* The same for a set that may hold 0, as the ends of superblocks do.
LEMMA LargestOfRange ==
    ASSUME NEW n \in Nat, NEW E, E \subseteq 0 .. n, E # {}
    PROVE  Latest(E) \in E /\ \A j \in E : j <= Latest(E)
<1>1. CASE E \subseteq 1 .. n
  BY <1>1, LatestIsLargest
<1>2. CASE E = {0}
  BY <1>2 DEF Latest
<1>3. CASE 0 \in E /\ E # {0}
  <2> DEFINE P == E \ {0}
  <2>1. P \subseteq 1 .. n /\ P # {}
    BY <1>3
  <2>2. \E m \in P : \A j \in P : j <= m
    BY <2>1, LatestIsLargest, Zenon
  <2>3. PICK m \in P : \A j \in P : j <= m
    BY <2>2
  <2>4. m \in Nat /\ m \in E
    BY <2>1
  <2>5. \A j \in E : j <= m
    BY <2>3, <2>4
  <2>6. \E i \in E : \A j \in E : j <= i
    BY <2>4, <2>5
  <2>7. QED
    BY <2>6, Zenon DEF Latest
<1>4. QED
  BY <1>1, <1>2, <1>3

\* Volume::open adopts a usable slot when there is one, and then no usable
\* slot is preferred to it.
LEMMA RecoveredIsPreferred ==
    ASSUME NEW sl, NEW lg, NEW k \in Slots, Usable(sl, lg, k)
    PROVE  /\ Recovered(sl, lg) \in Slots
           /\ Usable(sl, lg, Recovered(sl, lg))
           /\ Usable(sl, lg, 1 - Recovered(sl, lg))
                 => Preferred(sl, Recovered(sl, lg), 1 - Recovered(sl, lg))
<1> DEFINE Fits(j) == /\ Usable(sl, lg, j)
                      /\ Usable(sl, lg, 1 - j) => Preferred(sl, j, 1 - j)
<1>1. \E j \in Slots : Fits(j)
  <2>1. CASE Usable(sl, lg, 0) /\ Usable(sl, lg, 1)
    <3>1. sl[0].gen \in Nat /\ sl[1].gen \in Nat
      BY <2>1, BoundsAssumption DEF Usable, Supers
    <3>2. Preferred(sl, 0, 1 - 0) \/ Preferred(sl, 1, 1 - 1)
      BY <3>1 DEF Preferred
    <3>3. QED
      BY <2>1, <3>2 DEF Slots
  <2>2. CASE ~ (Usable(sl, lg, 0) /\ Usable(sl, lg, 1))
    <3>1. 1 - 0 = 1 /\ 1 - 1 = 0 /\ k \in {0, 1}
      BY DEF Slots
    <3>2. QED
      BY <2>2, <3>1 DEF Slots
  <2>3. QED
    BY <2>1, <2>2
<1>2. Recovered(sl, lg) = CHOOSE j \in Slots : Fits(j)
  BY DEF Recovered
<1>3. Recovered(sl, lg) \in Slots /\ Fits(Recovered(sl, lg))
  BY <1>1, <1>2, Zenon
<1>4. QED
  BY <1>3

\* A failed open leaves no other slot number than NoSlot.
LEMMA RecoveredRange ==
    ASSUME NEW sl, NEW lg, Recovered(sl, lg) # NoSlot
    PROVE  Recovered(sl, lg) \in Slots /\ Usable(sl, lg, Recovered(sl, lg))
<1>1. PICK k \in Slots : Usable(sl, lg, k)
  BY DEF Recovered
<1>2. QED
  BY <1>1, RecoveredIsPreferred

-----------------------------------------------------------------------------
(* Type correctness *)

\* The record scan_log keeps for a block lies in the log it scanned.
LEMMA ScanIndexType ==
    ASSUME NEW lg, NEW s \in Supers, ScanOK(lg, s)
    PROVE  ScanIndex(lg, s.end) \in [Blocks -> [pos : 0 .. MaxLog, gen : Nat]]
<1>1. SUFFICES ASSUME NEW b \in Blocks, RecordsOf(lg, s.end, b) # {}
               PROVE  LET P == RecordsOf(lg, s.end, b)
                      IN  /\ Latest(P) \in 0 .. MaxLog
                          /\ lg[Latest(P)].gen \in Nat
  BY BoundsAssumption DEF ScanIndex
<1> DEFINE P == RecordsOf(lg, s.end, b)
<1>2. s.end \in 0 .. MaxLog /\ s.end \in Nat
  BY BoundsAssumption DEF Supers
<1>3. P \subseteq 1 .. s.end
  BY DEF RecordsOf
<1>4. Latest(P) \in 1 .. s.end
  BY <1>1, <1>2, <1>3, LatestIsLargest
<1>5. lg[Latest(P)] \in Records
  BY <1>4 DEF ScanOK
<1>6. QED
  BY <1>2, <1>4, <1>5, BoundsAssumption DEF Records

\* A write to a slot keeps the slots typed.
LEMMA PutSlotType ==
    ASSUME TypeOK, NEW k \in Slots, NEW S \in SUBSET (Supers \cup {Torn}),
           PutSlot(k, S)
    PROVE  /\ slot' \in [Slots -> Supers \cup {Torn}]
           /\ slotDur' \in [Slots -> SUBSET (Supers \cup {Torn})]
BY DEF TypeOK, PutSlot

\* So does a failed one.
LEMMA SuperFailsType ==
    ASSUME TypeOK, NEW s \in Supers, 1 - active \in Slots, SuperFails(s)
    PROVE  /\ slot' \in [Slots -> Supers \cup {Torn}]
           /\ slotDur' \in [Slots -> SUBSET (Supers \cup {Torn})]
           /\ unsure' \in BOOLEAN /\ standing' \in Standings
<1>1. slot[1 - active] \in Supers \cup {Torn}
  BY DEF TypeOK
<1>2. CASE PutSlot(1 - active, {slot[1 - active], Torn}) /\ UNCHANGED <<unsure, standing>>
  <2>1. {slot[1 - active], Torn} \in SUBSET (Supers \cup {Torn})
    BY <1>1
  <2>2. QED
    BY <1>2, <2>1, PutSlotType DEF TypeOK
<1>3. CASE PutSlot(1 - active, {s}) /\ unsure' = TRUE /\ standing' = "behind"
  <2>1. {s} \in SUBSET (Supers \cup {Torn})
    OBVIOUS
  <2>2. QED
    BY <1>3, <2>1, PutSlotType DEF Standings
<1>4. QED
  BY <1>2, <1>3 DEF SuperFails

\* A write to a record position keeps the log typed.
LEMMA PutRecordType ==
    ASSUME TypeOK, NEW i, NEW S \in SUBSET (Records \cup {Torn}),
           PutRecord(i, S)
    PROVE  /\ log' \in [Positions -> Records \cup {NoRec, Torn}]
           /\ logDur' \in [Positions -> SUBSET (Records \cup {NoRec, Torn})]
<1> DEFINE All == Records \cup {NoRec, Torn}
<1>1. log \in [Positions -> All] /\ logDur \in [Positions -> SUBSET All]
  BY DEF TypeOK
<1>2. PICK v \in S : /\ log' = [log EXCEPT ![i] = v]
                     /\ logDur' = [logDur EXCEPT ![i] = @ \cup {v, Torn}]
  BY DEF PutRecord
<1>3. v \in All /\ Torn \in All
  OBVIOUS
<1> HIDE DEF All
<1>4. log' \in [Positions -> All]
  BY <1>1, <1>2, <1>3
<1>5. logDur' \in [Positions -> SUBSET All]
  BY <1>1, <1>2, <1>3
<1>6. QED
  BY <1>4, <1>5 DEF All

\* A flush keeps the disk typed.
LEMMA FlushType ==
    ASSUME TypeOK, Flush
    PROVE  /\ slot' \in [Slots -> Supers \cup {Torn}]
           /\ slotDur' \in [Slots -> SUBSET (Supers \cup {Torn})]
           /\ log' \in [Positions -> Records \cup {NoRec, Torn}]
           /\ logDur' \in [Positions -> SUBSET (Records \cup {NoRec, Torn})]
           /\ born' \in BOOLEAN
BY DEF TypeOK, Flush

\* The values a forgotten owner returns to.
LEMMA GenesisType ==
    /\ Genesis(1) \in Supers /\ Genesis(0) \in Supers
    /\ NoIndex \in [Blocks -> [pos : 0 .. MaxLog, gen : Nat]]
BY BoundsAssumption DEF Genesis, Supers, NoIndex

\* A superblock with its flag flipped is a superblock, for the other slot.
LEMMA FlagStateType ==
    ASSUME TypeOK, CallShape
    PROVE  /\ FlagState(~mem.clean) \in Supers
           /\ FlagState(~mem.clean).count = FlagState(~mem.clean).end
           /\ 1 - active \in Slots
<1>1. mem \in Supers /\ active \in Slots /\ mem.count = mem.end
  BY DEF TypeOK, CallShape
<1>2. mem.clean \in BOOLEAN /\ mem.gen \in 0 .. MaxGen
      /\ mem.end \in 0 .. MaxLog /\ mem.count \in 0 .. MaxLog
  BY <1>1 DEF Supers
<1>3. (~mem.clean) \in BOOLEAN
  BY <1>2
<1>4. (IF mem.gen < MaxGen THEN mem.gen + 1 ELSE MaxGen) \in 0 .. MaxGen
  BY <1>2, BoundsAssumption
<1>5. FlagState(~mem.clean) \in Supers
  BY <1>2, <1>3, <1>4, Zenon DEF FlagState, Supers
<1>6. FlagState(~mem.clean).count = FlagState(~mem.clean).end
  BY <1>1 DEF FlagState
<1>7. 1 - active \in Slots
  BY <1>1 DEF Slots
<1>8. QED
  BY <1>5, <1>6, <1>7

\* After GiveUp or Forget no call is in progress.
LEMMA NoCallType == <<>> \in Seq(Blocks \X Values) /\ 0 \in 0 .. Len(<<>>)
OBVIOUS

\* Every step keeps types, the accounting of memory and the shape of the call.
LEMMA TypeStep == TypeOK /\ CallShape /\ [Next]_vars => TypeOK' /\ CallShape'
<1> SUFFICES ASSUME TypeOK, CallShape, [Next]_vars
             PROVE  TypeOK' /\ CallShape'
  OBVIOUS
<1> USE GenesisType, NoCallType, BoundsAssumption DEF Settles, Standings
<1>1. CASE Create
  <2>1. CASE CreateFile
    BY <2>1 DEF CreateFile, TypeOK, CallShape, PCs, disk, owner, call, history
  <2>2. CASE CreateSlot(0, "create_a", "create_b")
    <3>1. {Genesis(1 - 0)} \in SUBSET (Supers \cup {Torn}) /\ 0 \in Slots
      BY DEF Slots
    <3>2. PutSlot(0, {Genesis(1 - 0)})
      BY <2>2 DEF CreateSlot
    <3>3. QED
      BY <2>2, <3>1, <3>2, PutSlotType
      DEF CreateSlot, TypeOK, CallShape, PCs, owner, call, history
  <2>3. CASE CreateSlot(1, "create_b", "create_sync")
    <3>1. {Genesis(1 - 1)} \in SUBSET (Supers \cup {Torn}) /\ 1 \in Slots
      BY DEF Slots
    <3>2. PutSlot(1, {Genesis(1 - 1)})
      BY <2>3 DEF CreateSlot
    <3>3. QED
      BY <2>3, <3>1, <3>2, PutSlotType
      DEF CreateSlot, TypeOK, CallShape, PCs, owner, call, history
  <2>4. CASE CreateSync
    BY <2>4, FlushType DEF CreateSync, TypeOK, CallShape, PCs, owner, call
  <2>5. CASE CreateFails
    BY <2>5 DEF CreateFails, TypeOK, CallShape, PCs, disk, owner, call, history
  <2>6. QED
    BY <1>1, <2>1, <2>2, <2>3, <2>4, <2>5 DEF Create
<1>2. CASE Open
  <2> DEFINE k == Recovered(slot, log)
  <2>1. k \in Slots /\ slot[k] \in Supers /\ ScanOK(log, slot[k])
    BY <1>2, RecoveredRange DEF Open, Usable
  <2>2. index' \in [Blocks -> [pos : 0 .. MaxLog, gen : Nat]]
    BY <1>2, <2>1, ScanIndexType DEF Open
  <2>3. log' \in [Positions -> Records \cup {NoRec, Torn}]
    BY <1>2 DEF Open, TypeOK
  <2>4. logDur' \in [Positions -> SUBSET (Records \cup {NoRec, Torn})]
    BY <1>2 DEF Open, TypeOK
  <2>5. mem' = slot[k] /\ active' = k /\ pc' \in {"open_sync", "ready"}
    BY <1>2 DEF Open
  <2>6. mem'.count = mem'.end
    BY <2>1, <2>5 DEF ScanOK
  <2> HIDE DEF k
  <2>7. UNCHANGED <<slot, slotDur, txn, done, born, acked, unsure, promise, standing>>
    BY <1>2 DEF Open, call, history
  <2>8. TypeOK'
    BY <2>1, <2>2, <2>3, <2>4, <2>5, <2>7 DEF TypeOK, PCs
  <2>9. CallShape'
    BY <2>5, <2>6 DEF CallShape
  <2>10. QED
    BY <2>8, <2>9
<1>3. CASE OpenSync
  BY <1>3, FlushType DEF OpenSync, TypeOK, CallShape, PCs, owner, call
<1>4. CASE OpenSyncFails
  BY <1>4 DEF OpenSyncFails, FlushFails, Forget, TypeOK, CallShape, PCs, Slots,
              disk, Genesis
<1>5. CASE Write
  <2>1. CASE BeginWrite
    <3>1. PICK t \in ValidTxns : txn' = t
      BY <2>1 DEF BeginWrite
    <3>2. t \in Seq(Blocks \X Values) /\ Len(t) \in 1 .. MaxTxn
          /\ mem.end + Len(t) <= MaxLog
      <4>1. PICK n \in 1 .. MaxTxn : t \in [1 .. n -> Blocks \X Values]
        BY <3>1 DEF ValidTxns
      <4>2. t \in Seq(Blocks \X Values) /\ Len(t) = n
        BY <4>1
      <4>3. QED
        BY <3>1, <4>1, <4>2 DEF ValidTxns
    <3>3. /\ done' = 0 /\ acked' = FALSE /\ pc' = "append"
          /\ UNCHANGED <<slot, slotDur, log, logDur, mem, active, index,
                         born, unsure, promise, standing>>
      BY <2>1 DEF BeginWrite, disk, owner
    <3>4. done' \in 0 .. Len(txn') /\ done' < Len(txn')
      BY <3>1, <3>2, <3>3
    <3>5. TypeOK'
      BY <3>1, <3>2, <3>3, <3>4 DEF TypeOK, PCs
    <3>6. CallShape'
      BY <3>1, <3>2, <3>3, <3>4 DEF CallShape
    <3>7. QED
      BY <3>5, <3>6
  <2>2. CASE AppendRecord
    <3>1. NewRecord(done + 1) \in Records
      <4>1. done + 1 \in 1 .. Len(txn)
        BY <2>2 DEF AppendRecord, CallShape, TypeOK
      <4>2. txn[done + 1] \in Blocks \X Values
        BY <4>1 DEF TypeOK
      <4>3. txn[done + 1][1] \in Blocks /\ txn[done + 1][2] \in Values
        BY <4>2
      <4>4. index[txn[done + 1][1]].gen \in Nat
        BY <4>3 DEF TypeOK
      <4>5. QED
        BY <4>3, <4>4 DEF NewRecord, Records
    <3>2. PutRecord(mem.end + done + 1, {NewRecord(done + 1)})
      BY <2>2 DEF AppendRecord
    <3>3. /\ log' \in [Positions -> Records \cup {NoRec, Torn}]
          /\ logDur' \in [Positions -> SUBSET (Records \cup {NoRec, Torn})]
      BY <3>1, <3>2, PutRecordType
    <3>4. /\ done' = done + 1
          /\ pc' = IF done' = Len(txn) THEN "data_sync" ELSE "append"
          /\ UNCHANGED <<slot, slotDur, mem, active, index, txn,
                         born, acked, unsure, promise, standing>>
          /\ pc = "append"
      BY <2>2 DEF AppendRecord, owner, history
    <3>5. done < Len(txn) /\ Len(txn) \in Nat /\ done \in Nat
          /\ mem.end + Len(txn) <= MaxLog
      BY <3>4 DEF TypeOK, CallShape
    <3>6. done' \in 0 .. Len(txn') /\ pc' \in {"append", "data_sync"}
          /\ (pc' = "append" => done' < Len(txn'))
          /\ (pc' = "data_sync" => done' = Len(txn'))
      BY <3>4, <3>5
    <3>7. TypeOK'
      BY <3>3, <3>4, <3>6 DEF TypeOK, PCs
    <3>8. CallShape'
      BY <3>4, <3>5, <3>6 DEF CallShape
    <3>9. QED
      BY <3>7, <3>8
  <2>3. CASE AppendFails
    <3>1. PutRecord(mem.end + done + 1, {Torn})
      BY <2>3 DEF AppendFails
    <3>2. /\ log' \in [Positions -> Records \cup {NoRec, Torn}]
          /\ logDur' \in [Positions -> SUBSET (Records \cup {NoRec, Torn})]
      BY <3>1, PutRecordType
    <3>3. QED
      BY <2>3, <3>2
      DEF AppendFails, GiveUp, TypeOK, CallShape, PCs, owner
  <2>4. CASE SyncData
    BY <2>4, FlushType
    DEF SyncData, GiveUp, TypeOK, CallShape, PCs, owner, call, Supers
  <2>5. CASE SyncDataFails
    BY <2>5 DEF SyncDataFails, FlushFails, GiveUp, TypeOK, CallShape, PCs,
                disk, owner
  <2>6. CASE WriteSuper
    <3>1. /\ mem \in Supers /\ mem.count = mem.end /\ mem.gen < MaxGen
          /\ mem.end + Len(txn) <= MaxLog /\ Len(txn) \in Nat
          /\ active \in Slots
      BY <2>6 DEF WriteSuper, TypeOK, CallShape
    <3>2. NextState \in Supers /\ NextState.count = NextState.end
      BY <3>1 DEF NextState, Supers
    <3>3. 1 - active \in Slots
      BY <3>1 DEF Slots
    <3>4. PutSlot(1 - active, {NextState})
      BY <2>6 DEF WriteSuper
    <3>5. /\ slot' \in [Slots -> Supers \cup {Torn}]
          /\ slotDur' \in [Slots -> SUBSET (Supers \cup {Torn})]
      BY <3>2, <3>3, <3>4, PutSlotType
    <3>6. index' \in [Blocks -> [pos : 0 .. MaxLog, gen : Nat]]
      <4>1. SUFFICES ASSUME NEW b \in Blocks,
                            \E k \in 1 .. Len(txn) : txn[k][1] = b
                     PROVE  LET k == CHOOSE k \in 1 .. Len(txn) : txn[k][1] = b
                            IN  /\ mem.end + k \in 0 .. MaxLog
                                /\ index[b].gen + 1 \in Nat
        BY <2>6 DEF WriteSuper, IndexWithTxn, TypeOK
      <4> DEFINE k == CHOOSE k \in 1 .. Len(txn) : txn[k][1] = b
      <4>2. k \in 1 .. Len(txn)
        BY <4>1
      <4>3. mem.end \in Nat /\ index[b].gen \in Nat
        BY <3>1 DEF Supers, TypeOK
      <4>4. QED
        BY <3>1, <4>2, <4>3
    <3>7. QED
      BY <2>6, <3>2, <3>3, <3>5, <3>6
      DEF WriteSuper, CleanInDoubt, TypeOK, CallShape, PCs, call
  <2>7. CASE WriteSuperFails
    <3>1. SuperFails(NextState) /\ 1 - active \in Slots /\ NextState \in Supers
      <4>1. /\ mem \in Supers /\ mem.count = mem.end /\ mem.gen < MaxGen
            /\ mem.end + Len(txn) <= MaxLog /\ Len(txn) \in Nat
            /\ active \in Slots
        BY <2>7 DEF WriteSuperFails, TypeOK, CallShape
      <4>2. QED
        BY <2>7, <4>1 DEF WriteSuperFails, NextState, Supers, Slots
    <3>2. /\ slot' \in [Slots -> Supers \cup {Torn}]
          /\ slotDur' \in [Slots -> SUBSET (Supers \cup {Torn})]
          /\ unsure' \in BOOLEAN /\ standing' \in Standings
      BY <3>1, SuperFailsType
    <3>3. QED
      BY <2>7, <3>2
      DEF WriteSuperFails, GiveUp, CleanInDoubt, TypeOK, CallShape, PCs, owner
  <2>8. CASE CommitSync
    BY <2>8, FlushType DEF CommitSync, TypeOK, CallShape, PCs, owner
  <2>9. CASE CommitSyncFails
    BY <2>9 DEF CommitSyncFails, FlushFails, GiveUp, TypeOK, CallShape, PCs,
                disk, owner
  <2>10. QED
    BY <1>5, <2>1, <2>2, <2>3, <2>4, <2>5, <2>6, <2>7, <2>8, <2>9 DEF Write
<1>6. CASE Flag
  <2>1. /\ FlagState(~mem.clean) \in Supers
        /\ FlagState(~mem.clean).count = FlagState(~mem.clean).end
        /\ 1 - active \in Slots
    BY FlagStateType
  <2>2. CASE SetCleanState
    <3>1. /\ {FlagState(~mem.clean)} \in SUBSET (Supers \cup {Torn})
          /\ 1 - active \in Slots /\ PutSlot(1 - active, {FlagState(~mem.clean)})
      BY <2>1, <2>2 DEF SetCleanState
    <3>2. /\ slot' \in [Slots -> Supers \cup {Torn}]
          /\ slotDur' \in [Slots -> SUBSET (Supers \cup {Torn})]
      BY <3>1, PutSlotType
    <3>3. QED
      BY <2>2, <3>2
      DEF SetCleanState, MayFlag, TypeOK, CallShape, PCs, owner, call
  <2>3. CASE SetCleanStateFails
    <3>1. /\ slot' \in [Slots -> Supers \cup {Torn}]
          /\ slotDur' \in [Slots -> SUBSET (Supers \cup {Torn})]
          /\ unsure' \in BOOLEAN /\ standing' \in Standings
      BY <2>1, <2>3, SuperFailsType DEF SetCleanStateFails
    <3>2. QED
      BY <2>3, <3>1
      DEF SetCleanStateFails, MayFlag, TypeOK, CallShape, PCs, owner, call
  <2>4. CASE FlagSync
    BY <2>1, <2>4, FlushType DEF FlagSync, FlagOf, TypeOK, CallShape, PCs, call
  <2>5. CASE FlagSyncFails
    BY <2>5 DEF FlagSyncFails, FlushFails, TypeOK, CallShape, PCs, disk, owner, call
  <2>6. CASE SetCleanStateKept
    BY <2>6 DEF SetCleanStateKept, FlagOf, TypeOK, CallShape, disk, owner, call
  <2>7. QED
    BY <1>6, <2>2, <2>3, <2>4, <2>5, <2>6 DEF Flag
<1>7. CASE Sync
  BY <1>7, FlushType DEF Sync, TypeOK, CallShape, owner, call
<1>8. CASE Drop
  BY <1>8 DEF Drop, Forget, TypeOK, CallShape, PCs, Slots, disk, history, Genesis
<1>9. CASE Kill
  BY <1>9 DEF Kill, Forget, TypeOK, CallShape, PCs, Slots, disk, history, Genesis
<1>10. CASE PowerLoss
  <2>1. slot' \in [Slots -> Supers \cup {Torn}]
    BY <1>10 DEF PowerLoss, Images, TypeOK
  <2>2. log' \in [Positions -> Records \cup {NoRec, Torn}]
    BY <1>10 DEF PowerLoss, Images, TypeOK
  <2>3. slotDur' \in [Slots -> SUBSET (Supers \cup {Torn})]
    BY <1>10, <2>1 DEF PowerLoss
  <2>4. logDur' \in [Positions -> SUBSET (Records \cup {NoRec, Torn})]
    BY <1>10, <2>2 DEF PowerLoss
  <2>5. QED
    BY <1>10, <2>1, <2>2, <2>3, <2>4
    DEF PowerLoss, Forget, TypeOK, CallShape, PCs, Slots, history, Genesis
<1>11. CASE UNCHANGED vars
  BY <1>11 DEF vars, disk, owner, call, history, TypeOK, CallShape
<1>12. QED
  BY <1>1, <1>2, <1>3, <1>4, <1>5, <1>6, <1>7, <1>8, <1>9, <1>10, <1>11 DEF Next

\* The file starts absent.
LEMMA TypeInit == Init => TypeOK /\ CallShape
<1> SUFFICES ASSUME Init PROVE TypeOK /\ CallShape
  OBVIOUS
<1>1. /\ slot \in [Slots -> Supers \cup {Torn}]
      /\ slotDur \in [Slots -> SUBSET (Supers \cup {Torn})]
  BY DEF Init
<1>2. /\ log \in [Positions -> Records \cup {NoRec, Torn}]
      /\ logDur \in [Positions -> SUBSET (Records \cup {NoRec, Torn})]
  BY DEF Init
<1>3. pc = "absent" /\ mem \in Supers /\ mem.count = mem.end /\ active \in Slots
      /\ index \in [Blocks -> [pos : 0 .. MaxLog, gen : Nat]]
  BY GenesisType DEF Init, Slots, Genesis
<1>4. txn \in Seq(Blocks \X Values) /\ done \in 0 .. Len(txn)
  BY NoCallType DEF Init
<1>5. QED
  BY <1>1, <1>2, <1>3, <1>4 DEF Init, TypeOK, CallShape, PCs, Standings

\* Type correctness: superblocks stay within generations and the log, and the
\* accounting (record_count against committed_end) never drifts.
THEOREM TypeCorrect == Spec => []TypeOK
<1>1. Init => TypeOK /\ CallShape
  BY TypeInit
<1>2. TypeOK /\ CallShape /\ [Next]_vars => (TypeOK /\ CallShape)'
  BY TypeStep
<1>3. QED
  BY <1>1, <1>2, PTL DEF Spec

-----------------------------------------------------------------------------
(* How a step that writes or flushes treats the surviving superblocks *)

\* When no new superblock may survive, and the log the old ones commit keeps
\* its contents, the surviving superblocks keep scanning.
LEMMA SurvivorsKept ==
    ASSUME SurvivorsScan, EndsGrow, Parity,
           \A k \in Slots : Surviving(k)' \subseteq Surviving(k),
           \A k \in Slots : \A s \in Surviving(k)' : \A i \in 1 .. s.end :
               log'[i] = log[i] /\ logDur'[i] = {log[i]}
    PROVE  SurvivorsScan' /\ EndsGrow' /\ Parity'
<1>1. SurvivorsScan'
  <2>1. SUFFICES ASSUME NEW k \in Slots, NEW s \in Surviving(k)'
                 PROVE  /\ ScanOK(log', s)
                        /\ \A i \in 1 .. s.end : logDur'[i] = {log'[i]}
    BY DEF SurvivorsScan
  <2>2. ScanOK(log, s)
    BY <2>1 DEF SurvivorsScan
  <2>3. \A i \in 1 .. s.end : log'[i] = log[i] /\ logDur'[i] = {log[i]}
    BY <2>1
  <2>4. QED
    BY <2>2, <2>3 DEF ScanOK
<1>2. EndsGrow'
  BY DEF EndsGrow
<1>3. Parity'
  BY DEF Parity
<1>4. QED
  BY <1>1, <1>2, <1>3

\* A flush rules survivors out and leaves one content everywhere.
LEMMA FlushKeeps ==
    ASSUME TypeOK, DiskInv, Flush
    PROVE  /\ DiskInv'
           /\ \A k \in Slots : Surviving(k)' \subseteq Surviving(k)
           /\ \A k \in Slots : slotDur'[k] = {slot[k]}
           /\ \A i \in Positions : logDur'[i] = {log[i]}
           /\ slot' = slot /\ log' = log /\ born'
<1>1. /\ \A k \in Slots : slotDur'[k] = {slot[k]}
      /\ \A i \in Positions : logDur'[i] = {log[i]}
      /\ slot' = slot /\ log' = log /\ born'
  BY DEF Flush
<1>2. \A k \in Slots : Surviving(k)' \subseteq Surviving(k)
  BY <1>1 DEF DiskInv, ShownMayStay, Surviving
<1>3. ShownMayStay'
  BY <1>1 DEF ShownMayStay
<1>4. \A k \in Slots : \A s \in Surviving(k)' : \A i \in 1 .. s.end :
          log'[i] = log[i] /\ logDur'[i] = {log[i]}
  <2>1. SUFFICES ASSUME NEW k \in Slots, NEW s \in Surviving(k)',
                        NEW i \in 1 .. s.end
                 PROVE  log'[i] = log[i] /\ logDur'[i] = {log[i]}
    OBVIOUS
  <2>2. s \in Supers
    BY DEF Surviving
  <2>3. i \in Positions
    BY <2>2, BoundsAssumption DEF Supers, Positions
  <2>4. QED
    BY <1>1, <2>3
<1>5. SurvivorsScan' /\ EndsGrow' /\ Parity'
  BY <1>2, <1>4, SurvivorsKept DEF DiskInv
<1>6. QED
  BY <1>1, <1>2, <1>3, <1>5 DEF DiskInv

\* The log a survivor commits is flushed, so it also stays when nothing but
\* slots is written.
LEMMA CommittedFlushed ==
    ASSUME SurvivorsScan, UNCHANGED <<log, logDur>>,
           \A k \in Slots : Surviving(k)' \subseteq Surviving(k)
    PROVE  \A k \in Slots : \A s \in Surviving(k)' : \A i \in 1 .. s.end :
               log'[i] = log[i] /\ logDur'[i] = {log[i]}
BY DEF SurvivorsScan

\* A superblock write that fails without landing adds no survivor.
LEMMA TornKeeps ==
    ASSUME TypeOK, DiskInv, NEW k \in Slots, PutSlot(k, {slot[k], Torn}),
           UNCHANGED <<log, logDur>>
    PROVE  /\ DiskInv'
           /\ \A l \in Slots : Surviving(l)' \subseteq Surviving(l)
           /\ \A l \in Slots \ {k} : slot'[l] = slot[l] /\ slotDur'[l] = slotDur[l]
<1>1. PICK v \in {slot[k], Torn} :
          /\ slot' = [slot EXCEPT ![k] = v]
          /\ slotDur' = [slotDur EXCEPT ![k] = @ \cup {v, Torn}]
  BY DEF PutSlot
<1>2. /\ slotDur'[k] = slotDur[k] \cup {v, Torn} /\ slot'[k] = v
      /\ \A l \in Slots \ {k} : slot'[l] = slot[l] /\ slotDur'[l] = slotDur[l]
  BY <1>1 DEF TypeOK
<1>3. slot[k] \in slotDur[k]
  BY DEF DiskInv, ShownMayStay
<1>4. \A l \in Slots : Surviving(l)' \subseteq Surviving(l)
  <2>1. Surviving(k)' \subseteq Surviving(k)
    BY <1>2, <1>3, NamesAssumption DEF Surviving
  <2>2. \A l \in Slots \ {k} : Surviving(l)' = Surviving(l)
    BY <1>2 DEF Surviving
  <2>3. QED
    BY <2>1, <2>2
<1>5. ShownMayStay'
  BY <1>2 DEF DiskInv, ShownMayStay
<1>6. SurvivorsScan' /\ EndsGrow' /\ Parity'
  BY <1>4, CommittedFlushed, SurvivorsKept DEF DiskInv
<1>7. QED
  BY <1>2, <1>4, <1>5, <1>6 DEF DiskInv

\* A new superblock that commits a flushed, scanning log, and whose end agrees
\* with its age among the survivors, may join them.
LEMMA SuperJoins ==
    ASSUME TypeOK, DiskInv, NEW k \in Slots, NEW s \in Supers,
           PutSlot(k, {s}), UNCHANGED <<log, logDur>>,
           ScanOK(log, s), \A i \in 1 .. s.end : logDur[i] = {log[i]},
           s.gen % 2 = 1 - k,
           \A l \in Slots \ {k} : \A t \in Surviving(l) :
               /\ t.gen <= s.gen => t.end <= s.end
               /\ s.gen <= t.gen => s.end <= t.end
    PROVE  /\ DiskInv'
           /\ \A l \in Slots : Surviving(l)' \subseteq Surviving(l) \cup {s}
           /\ \A l \in Slots \ {k} : slot'[l] = slot[l] /\ slotDur'[l] = slotDur[l]
           /\ slot'[k] = s
<1>1. /\ slot' = [slot EXCEPT ![k] = s]
      /\ slotDur' = [slotDur EXCEPT ![k] = @ \cup {s, Torn}]
  BY DEF PutSlot
<1>2. /\ slotDur'[k] = slotDur[k] \cup {s, Torn} /\ slot'[k] = s
      /\ \A l \in Slots \ {k} : slot'[l] = slot[l] /\ slotDur'[l] = slotDur[l]
  BY <1>1 DEF TypeOK
<1>3. /\ Surviving(k)' = Surviving(k) \cup {s}
      /\ \A l \in Slots \ {k} : Surviving(l)' = Surviving(l)
  BY <1>2, NamesAssumption DEF Surviving
<1>4. \A l \in Slots : Surviving(l)' \subseteq Surviving(l) \cup {s}
  BY <1>3
<1>5. ShownMayStay'
  BY <1>2 DEF DiskInv, ShownMayStay
<1>6. SurvivorsScan'
  BY <1>4 DEF DiskInv, SurvivorsScan
<1>7. EndsGrow'
  <2>1. SUFFICES ASSUME NEW l \in Slots, NEW m \in Slots, l # m,
                        NEW t \in Surviving(l)', NEW u \in Surviving(m)',
                        t.gen <= u.gen
                 PROVE  t.end <= u.end
    BY DEF EndsGrow
  <2>2. CASE t \in Surviving(l) /\ u \in Surviving(m)
    BY <2>1, <2>2 DEF DiskInv, EndsGrow
  <2>3. CASE t \notin Surviving(l)
    BY <1>3, <2>1, <2>3
  <2>4. CASE u \notin Surviving(m)
    BY <1>3, <2>1, <2>4
  <2>5. QED
    BY <2>2, <2>3, <2>4
<1>8. Parity'
  BY <1>3 DEF DiskInv, Parity
<1>9. QED
  BY <1>2, <1>4, <1>5, <1>6, <1>7, <1>8 DEF DiskInv

\* A record written behind everything the survivors commit disturbs none.
LEMMA RecordJoins ==
    ASSUME TypeOK, DiskInv, NEW i \in Positions, NEW v, PutRecord(i, {v}),
           UNCHANGED <<slot, slotDur>>,
           \A k \in Slots : \A s \in Surviving(k) : s.end < i
    PROVE  /\ DiskInv'
           /\ \A k \in Slots : Surviving(k)' = Surviving(k)
           /\ log'[i] = v
           /\ \A j \in Positions \ {i} : log'[j] = log[j]
<1>1. /\ log' = [log EXCEPT ![i] = v]
      /\ logDur' = [logDur EXCEPT ![i] = @ \cup {v, Torn}]
  BY DEF PutRecord
<1>2. /\ log'[i] = v /\ logDur'[i] = logDur[i] \cup {v, Torn}
      /\ \A j \in Positions \ {i} : log'[j] = log[j] /\ logDur'[j] = logDur[j]
  BY <1>1 DEF TypeOK
<1>3. \A k \in Slots : Surviving(k)' = Surviving(k)
  BY DEF Surviving
<1>4. ShownMayStay'
  BY <1>2 DEF DiskInv, ShownMayStay
<1>5. \A k \in Slots : \A s \in Surviving(k)' : \A j \in 1 .. s.end :
          log'[j] = log[j] /\ logDur'[j] = {log[j]}
  <2>1. SUFFICES ASSUME NEW k \in Slots, NEW s \in Surviving(k),
                        NEW j \in 1 .. s.end
                 PROVE  log'[j] = log[j] /\ logDur'[j] = {log[j]}
    BY <1>3
  <2>2. s.end \in 0 .. MaxLog /\ s.end < i
    BY DEF Surviving, Supers
  <2>3. j \in Positions \ {i}
    BY <2>2, BoundsAssumption DEF Positions
  <2>4. logDur[j] = {log[j]}
    BY DEF DiskInv, SurvivorsScan
  <2>5. QED
    BY <1>2, <2>3, <2>4
<1>6. SurvivorsScan' /\ EndsGrow' /\ Parity'
  BY <1>3, <1>5, SurvivorsKept DEF DiskInv
<1>7. QED
  BY <1>2, <1>3, <1>4, <1>6 DEF DiskInv

\* open adopts the slot that shows the newest survivor.
LEMMA NewestIsRecovered ==
    ASSUME TypeOK, DiskInv, NEW a \in Slots, slot[a] \in Supers,
           NoneAbove(slot[a])
    PROVE  Recovered(slot, log) = a
<1> DEFINE r == Recovered(slot, log)
<1>1. slot[a] \in Surviving(a)
  BY DEF DiskInv, ShownMayStay, Surviving
<1>2. Usable(slot, log, a)
  BY <1>1 DEF Usable, DiskInv, SurvivorsScan
<1>3. /\ r \in Slots /\ Usable(slot, log, r)
      /\ Usable(slot, log, 1 - r) => Preferred(slot, r, 1 - r)
  BY <1>2, RecoveredIsPreferred
<1> HIDE DEF r
<1>4. CASE r # a
  <2>1. a = 1 - r
    BY <1>3, <1>4 DEF Slots
  <2>2. slot[r] \in Surviving(r)
    BY <1>3 DEF DiskInv, ShownMayStay, Surviving, Usable
  <2>3. slot[r].gen \in Nat /\ slot[a].gen \in Nat
    BY <1>1, <2>2 DEF Surviving, Supers
  <2>4. slot[r].gen >= slot[a].gen
    BY <1>2, <1>3, <2>1, <2>3 DEF Preferred
  <2>5. slot[r].gen <= slot[a].gen
    BY <1>3, <2>2 DEF NoneAbove
  <2>6. slot[r].gen = slot[a].gen
    BY <2>3, <2>4, <2>5
  <2>7. slot[r].gen % 2 = 1 - r /\ slot[a].gen % 2 = 1 - a
    BY <1>1, <1>3, <2>2 DEF DiskInv, Parity
  <2>8. QED
    BY <1>3, <2>1, <2>6, <2>7 DEF Slots
<1>5. QED
  BY <1>4 DEF r

\* Where nothing is ahead by more than one flag change, the slot it adopts is
\* one ahead of which nothing is, either.
LEMMA AdoptedLeads ==
    ASSUME TypeOK, DiskInv, NEW a \in Slots, slot[a] \in Supers,
           NoneAhead(slot[a])
    PROVE  /\ Recovered(slot, log) \in Slots
           /\ NoneAhead(slot[Recovered(slot, log)])
<1>1. slot[a] \in Surviving(a) /\ 1 - a \in Slots
  BY DEF DiskInv, ShownMayStay, Surviving, Slots
<1>2. Usable(slot, log, a)
  BY <1>1 DEF Usable, DiskInv, SurvivorsScan
<1>3. PICK r : r = Recovered(slot, log)
  OBVIOUS
<1>4. /\ r \in Slots /\ Usable(slot, log, r)
      /\ Usable(slot, log, 1 - r) => Preferred(slot, r, 1 - r)
  BY <1>2, <1>3, RecoveredIsPreferred
<1>5. slot[r] \in Surviving(r) /\ slot[r] \in Supers
  BY <1>4 DEF DiskInv, ShownMayStay, Surviving, Usable
<1>6. CASE r = a
  BY <1>3, <1>4, <1>6
<1>7. CASE r # a
  <2>1. a = 1 - r
    BY <1>4, <1>7 DEF Slots
  <2>2. /\ slot[r].gen \in Nat /\ slot[a].gen \in Nat
        /\ slot[r].end \in Nat /\ slot[a].end \in Nat
    BY <1>5, BoundsAssumption DEF Supers
  <2>3. slot[a].gen <= slot[r].gen
    BY <1>2, <1>4, <2>1, <2>2 DEF Preferred
  <2>4. slot[a].end <= slot[r].end
    BY <1>1, <1>4, <1>5, <1>7, <2>3 DEF DiskInv, EndsGrow
  <2>5. SUFFICES ASSUME NEW k \in Slots, NEW t \in Surviving(k)
                 PROVE  t.gen <= slot[r].gen + Lead /\ t.end <= slot[r].end
    BY <1>3, <1>4 DEF NoneAhead
  <2>6. /\ t.gen <= slot[a].gen + Lead /\ t.end <= slot[a].end
        /\ t.gen \in Nat /\ t.end \in Nat /\ Lead \in Nat
    BY BoundsAssumption DEF NoneAhead, Surviving, Supers, Lead
  <2>7. QED
    BY <2>2, <2>3, <2>4, <2>6
<1>8. QED
  BY <1>6, <1>7

\* Nothing newer is nothing ahead; and under SafeUse, the other way round.
LEMMA AboveIsAhead ==
    ASSUME NEW s, s.gen \in Nat
    PROVE  /\ NoneAbove(s) => NoneAhead(s)
           /\ SafeUse /\ NoneAhead(s) => NoneAbove(s)
<1>1. \A k \in Slots : \A t \in Surviving(k) : t.gen \in Nat
  BY DEF Surviving, Supers
<1>2. Lead \in Nat /\ (SafeUse => Lead = 0)
  BY DEF Lead
<1>3. QED
  BY <1>1, <1>2 DEF NoneAbove, NoneAhead

\* In the active slot nothing is newer than memory: what is one generation ahead
\* has the parity of the other slot.
LEMMA ActiveIsTop ==
    ASSUME TypeOK, DiskInv, NEW a \in Slots, slot[a] \in Supers,
           NoneAhead(slot[a]), NEW t \in Surviving(a)
    PROVE  t.gen <= slot[a].gen
<1>1. slot[a] \in Surviving(a)
  BY DEF DiskInv, ShownMayStay, Surviving
<1>2. t.gen % 2 = 1 - a /\ slot[a].gen % 2 = 1 - a
  BY <1>1 DEF DiskInv, Parity
<1>3. t.gen \in Nat /\ slot[a].gen \in Nat
  BY DEF Surviving, Supers
<1>4. t.gen <= slot[a].gen + 1
  BY <1>3 DEF NoneAhead, Lead
<1>5. t.gen # slot[a].gen + 1
  <2>1. CASE a = 0
    BY <1>2, <1>3, <2>1
  <2>2. CASE a = 1
    BY <1>2, <1>3, <2>2
  <2>3. QED
    BY <2>1, <2>2 DEF Slots
<1>6. QED
  BY <1>3, <1>4, <1>5

-----------------------------------------------------------------------------
(* Creating and closing the file *)

\* When the file is closed without a write, open will find a superblock ahead
\* of which nothing is; with the clean flag in safe use, it is the one the owner
\* had in memory, and survives.
LEMMA ClosingKeeps ==
    ASSUME IInv, UNCHANGED <<disk, born>>, pc' = "closed",
           pc \notin {"absent", "closed"},
           SafeUse => /\ pc # "flag_sync"
                      /\ pc = "commit_sync" => "flag" \notin Ops
    PROVE  DataInv'
<1>1. UNCHANGED <<slot, slotDur, log, logDur, born>>
  BY DEF disk
<1>2. DiskInv'
  BY <1>1 DEF IInv, DataInv, DiskInv, ShownMayStay, SurvivorsScan, EndsGrow,
              Parity, Surviving
<1>3. mem \in Supers /\ mem.gen \in Nat /\ active \in Slots /\ 1 - active \in Slots
  BY DEF IInv, TypeOK, Supers, Slots
<1>4. CASE pc \in CreatePCs
  <2>1. ~born
    BY <1>4 DEF IInv, DataInv, CreateInv
  <2>2. Recovered(slot, log) # NoSlot => NoneAhead(slot[Recovered(slot, log)])
    <3>1. CASE pc = "create_a"
      BY <3>1 DEF IInv, DataInv, CreateInv, CreatePCs, NoneAhead
    <3>2. CASE pc \in {"create_b", "create_sync"}
      <4>1. slot[0] = mem /\ NoneAbove(mem) /\ 0 \in Slots
        BY <3>2 DEF IInv, DataInv, CreateInv, CreatePCs, Slots
      <4>2. NoneAhead(slot[0])
        BY <1>3, <4>1, AboveIsAhead
      <4>3. QED
        BY <1>3, <4>1, <4>2, AdoptedLeads DEF IInv, DataInv
    <3>3. QED
      BY <1>4, <3>1, <3>2 DEF CreatePCs
  <2>3. ClosedInv'
    BY <1>1, <2>2 DEF ClosedInv, NoneAhead, Surviving
  <2>4. CreateInv' /\ OpenInv' /\ TxnInv' /\ AnchorInv'
    BY <1>1, <2>1 DEF CreateInv, OpenInv, TxnInv, AnchorInv, CreatePCs, OpenPCs
  <2>5. QED
    BY <1>2, <2>3, <2>4 DEF DataInv
<1>5. CASE pc \in OpenPCs
  <2>1. slot[active] = mem
    BY <1>5 DEF IInv, DataInv, OpenInv
  <2>2. PICK a \in Slots : slot[a] \in Supers /\ NoneAhead(slot[a])
    <3>1. CASE pc = "flag_sync"
      <4>1. slot[1 - active] = FlagState(~mem.clean) /\ NoneAbove(FlagState(~mem.clean))
        BY <3>1 DEF IInv, DataInv, OpenInv, OpenPCs, PCs, CreatePCs
      <4>2. FlagState(~mem.clean) \in Supers /\ FlagState(~mem.clean).gen \in Nat
        BY FlagStateType DEF IInv, TypeOK, Supers
      <4>3. QED
        BY <1>3, <4>1, <4>2, AboveIsAhead
    <3>2. CASE pc # "flag_sync"
      BY <1>3, <1>5, <2>1, <3>2 DEF IInv, DataInv, OpenInv
    <3>3. QED
      BY <3>1, <3>2
  <2>3. Recovered(slot, log) \in Slots /\ NoneAhead(slot[Recovered(slot, log)])
    BY <2>2, AdoptedLeads DEF IInv, DataInv
  <2>4. Recovered(slot, log) # NoSlot
    BY <2>3 DEF Slots, NoSlot
  <2>5. ClosedInv'
    BY <1>1, <2>3 DEF ClosedInv, NoneAhead, Surviving
  <2>6. ASSUME SafeUse, born, "flag" \in Ops
        PROVE  Recovered(slot, log) = active /\ Anchored(active)
    <3>1. NoneAbove(mem)
      BY <1>3, <1>5, <2>6, AboveIsAhead DEF IInv, DataInv, OpenInv
    <3>2. Anchored(active)
      BY <1>5, <2>6 DEF IInv, DataInv, AnchorInv
    <3>3. QED
      BY <1>3, <2>1, <3>1, <3>2, NewestIsRecovered DEF IInv, DataInv
  <2>7. AnchorInv'
    BY <1>1, <2>4, <2>6 DEF IInv, DataInv, AnchorInv, Anchored, OpenPCs
  <2>8. CreateInv' /\ OpenInv' /\ TxnInv'
    BY DEF CreateInv, OpenInv, TxnInv, CreatePCs, OpenPCs
  <2>9. QED
    BY <1>2, <2>5, <2>7, <2>8 DEF DataInv
<1>6. QED
  BY <1>4, <1>5 DEF IInv, TypeOK, OpenPCs

\* The steps of Volume::create.
LEMMA CreateStep == ASSUME IInv, Create PROVE DataInv'
<1> USE DEF IInv, DataInv
<1>1. CASE CreateFile
  <2>1. /\ pc = "absent" /\ pc' = "create_a"
        /\ UNCHANGED <<slot, slotDur, log, logDur, mem, active, index, txn, done, born>>
    BY <1>1 DEF CreateFile, disk, owner, call, history
  <2>2. DiskInv'
    BY <2>1 DEF DiskInv, ShownMayStay, SurvivorsScan, EndsGrow, Parity, Surviving
  <2>3. CreateInv'
    BY <2>1 DEF CreateInv, CreatePCs, NoneAbove, Surviving
  <2>4. OpenInv' /\ TxnInv' /\ ClosedInv' /\ AnchorInv'
    BY <2>1 DEF CreateInv, CreatePCs, OpenInv, TxnInv, ClosedInv, AnchorInv, OpenPCs
  <2>5. QED
    BY <2>2, <2>3, <2>4
<1>2. CASE CreateSlot(0, "create_a", "create_b")
  <2>1. /\ pc = "create_a" /\ pc' = "create_b"
        /\ PutSlot(0, {Genesis(1)})
        /\ UNCHANGED <<log, logDur, mem, active, index, txn, done, born>>
    BY <1>2 DEF CreateSlot, owner, call, history
  <2>2. /\ mem = Genesis(1) /\ active = 0 /\ index = NoIndex /\ ~born
        /\ \A k \in Slots : Surviving(k) = {}
    BY <2>1 DEF CreateInv, CreatePCs
  <2>3. Genesis(1) \in Supers /\ ScanOK(log, Genesis(1))
        /\ Genesis(1).end = 0 /\ Genesis(1).gen = 1 /\ 0 \in Slots
    BY GenesisType DEF Genesis, ScanOK, Slots
  <2>4. /\ DiskInv'
        /\ \A l \in Slots : Surviving(l)' \subseteq Surviving(l) \cup {Genesis(1)}
        /\ slot'[0] = Genesis(1)
    BY <2>1, <2>2, <2>3, SuperJoins
  <2>5. NoneAbove(mem)'
    BY <2>1, <2>2, <2>3, <2>4 DEF NoneAbove
  <2>6. CreateInv'
    BY <2>1, <2>2, <2>4, <2>5 DEF CreateInv
  <2>7. OpenInv' /\ TxnInv' /\ ClosedInv' /\ AnchorInv'
    BY <2>1, <2>2 DEF OpenInv, TxnInv, ClosedInv, AnchorInv, OpenPCs, CreatePCs
  <2>8. QED
    BY <2>4, <2>6, <2>7
<1>3. CASE CreateSlot(1, "create_b", "create_sync")
  <2>1. /\ pc = "create_b" /\ pc' = "create_sync"
        /\ PutSlot(1, {Genesis(0)})
        /\ UNCHANGED <<log, logDur, mem, active, index, txn, done, born>>
    BY <1>3 DEF CreateSlot, owner, call, history
  <2>2. /\ mem = Genesis(1) /\ active = 0 /\ index = NoIndex /\ ~born
        /\ NoneAbove(mem) /\ slot[0] = mem
    BY <2>1 DEF CreateInv, CreatePCs
  <2>3. /\ Genesis(0) \in Supers /\ ScanOK(log, Genesis(0))
        /\ Genesis(0).end = 0 /\ Genesis(0).gen = 0
        /\ mem.end = 0 /\ mem.gen = 1 /\ 1 \in Slots
    BY <2>2, GenesisType DEF Genesis, ScanOK, Slots
  <2>4. \A l \in Slots : \A t \in Surviving(l) : t.end = 0
    <3>1. SUFFICES ASSUME NEW l \in Slots, NEW t \in Surviving(l) PROVE t.end = 0
      OBVIOUS
    <3>2. t.end <= 0 /\ t.end \in Nat
      BY <2>2, <2>3, BoundsAssumption DEF NoneAbove, Surviving, Supers
    <3>3. QED
      BY <3>2
  <2>5. /\ DiskInv'
        /\ \A l \in Slots : Surviving(l)' \subseteq Surviving(l) \cup {Genesis(0)}
        /\ slot'[0] = slot[0]
    <3>1. \A l \in Slots : \A t \in Surviving(l) :
              /\ t.gen <= Genesis(0).gen => t.end <= Genesis(0).end
              /\ Genesis(0).gen <= t.gen => Genesis(0).end <= t.end
      BY <2>3, <2>4
    <3>2. /\ Genesis(0).gen % 2 = 1 - 1
          /\ \A i \in 1 .. Genesis(0).end : logDur[i] = {log[i]}
      BY <2>3
    <3>3. 0 \in Slots \ {1}
      BY DEF Slots
    <3>4. QED
      BY <2>1, <2>3, <3>1, <3>2, <3>3, SuperJoins
  <2>6. NoneAbove(mem)'
    BY <2>1, <2>2, <2>3, <2>5 DEF NoneAbove
  <2>7. CreateInv'
    BY <2>1, <2>2, <2>5, <2>6 DEF CreateInv
  <2>8. OpenInv' /\ TxnInv' /\ ClosedInv' /\ AnchorInv'
    BY <2>1, <2>2 DEF OpenInv, TxnInv, ClosedInv, AnchorInv, OpenPCs, CreatePCs
  <2>9. QED
    BY <2>5, <2>7, <2>8
<1>4. CASE CreateSync
  <2>1. /\ pc = "create_sync" /\ pc' = "ready" /\ Flush
        /\ UNCHANGED <<mem, active, index>>
    BY <1>4 DEF CreateSync, owner
  <2>2. /\ mem = Genesis(1) /\ active = 0 /\ NoneAbove(mem) /\ slot[0] = mem
        /\ mem \in Supers /\ mem.end = 0 /\ 0 \in Slots
    <3>1. /\ mem = Genesis(1) /\ active = 0 /\ NoneAbove(mem) /\ slot[0] = mem
      BY <2>1 DEF CreateInv, CreatePCs
    <3>2. Genesis(1) \in Supers /\ Genesis(1).end = 0 /\ 0 \in Slots
      BY GenesisType DEF Genesis, Slots
    <3>3. QED
      BY <3>1, <3>2
  <2>3. /\ DiskInv'
        /\ \A k \in Slots : Surviving(k)' \subseteq Surviving(k)
        /\ slotDur'[0] = {mem} /\ slot' = slot /\ log' = log
    BY <2>1, <2>2, FlushKeeps
  <2>4. OpenInv'
    <3>1. NoneAbove(mem)' /\ mem'.gen \in Nat
      BY <2>1, <2>2, <2>3 DEF NoneAbove, Supers
    <3>2. \A k \in Slots : \A t \in Surviving(k)' : t.gen \in Nat
      BY DEF Surviving, Supers
    <3>3. NoneAhead(mem)'
      BY <3>1, <3>2 DEF NoneAbove, NoneAhead, Lead
    <3>4. QED
      BY <2>1, <2>2, <2>3, <3>3 DEF OpenInv
  <2>5. AnchorInv'
    BY <2>1, <2>2, <2>3 DEF AnchorInv, Anchored
  <2>6. CreateInv' /\ TxnInv' /\ ClosedInv'
    BY <2>1 DEF CreateInv, TxnInv, ClosedInv, CreatePCs
  <2>7. QED
    BY <2>3, <2>4, <2>5, <2>6
<1>5. CASE CreateFails
  BY <1>5, ClosingKeeps DEF CreateFails, Creating, history
<1>6. QED
  BY <1>1, <1>2, <1>3, <1>4, <1>5 DEF Create

-----------------------------------------------------------------------------
(* Opening the file *)

\* open drops what lies past the committed end of the slot it adopts, which is
\* past the end of every superblock that might still come back.
LEMMA OpenStep == ASSUME IInv, Open PROVE DataInv'
<1> DEFINE r == Recovered(slot, log)
<1>1. /\ pc = "closed" /\ r # NoSlot
      /\ mem' = slot[r] /\ active' = r
      /\ index' = ScanIndex(log, slot[r].end)
      /\ log' = [i \in Positions |-> IF i > slot[r].end THEN NoRec ELSE log[i]]
      /\ logDur' = [i \in Positions |->
                       IF i > slot[r].end THEN logDur[i] \cup {NoRec} ELSE logDur[i]]
      /\ pc' \in {"open_sync", "ready"}
      /\ UNCHANGED <<slot, slotDur, born>>
  BY DEF Open, history
<1>2. r \in Slots /\ slot[r] \in Supers /\ ScanOK(log, slot[r])
  BY <1>1, RecoveredRange DEF Usable
<1>3. NoneAhead(slot[r])
  BY <1>1 DEF IInv, DataInv, ClosedInv
<1>4. SafeUse /\ born => ("flag" \in Ops => Anchored(r)) /\ \E k \in Slots : Anchored(k)
  BY <1>1 DEF IInv, DataInv, AnchorInv
<1> HIDE DEF r
<1>5. slot[r].end \in 0 .. MaxLog /\ MaxLog \in Nat
  BY <1>2, BoundsAssumption DEF Supers
<1>6. \A i \in 1 .. slot[r].end : log'[i] = log[i] /\ logDur'[i] = logDur[i]
  BY <1>1, <1>5 DEF Positions
<1>7. \A k \in Slots : Surviving(k)' = Surviving(k)
  BY <1>1 DEF Surviving
<1>8. DiskInv'
  <2>1. ShownMayStay'
    BY <1>1 DEF IInv, DataInv, DiskInv, ShownMayStay
  <2>2. \A k \in Slots : \A s \in Surviving(k)' : \A i \in 1 .. s.end :
            log'[i] = log[i] /\ logDur'[i] = {log[i]}
    <3>1. SUFFICES ASSUME NEW k \in Slots, NEW s \in Surviving(k), NEW i \in 1 .. s.end
                   PROVE  log'[i] = log[i] /\ logDur'[i] = {log[i]}
      BY <1>7
    <3>2. s.end <= slot[r].end /\ s.end \in Nat
      BY <1>3, BoundsAssumption DEF NoneAhead, Surviving, Supers
    <3>3. logDur[i] = {log[i]}
      BY DEF IInv, DataInv, DiskInv, SurvivorsScan
    <3>4. QED
      BY <1>5, <1>6, <3>2, <3>3
  <2>3. QED
    BY <1>7, <2>1, <2>2, SurvivorsKept DEF IInv, DataInv, DiskInv
<1>9. \A i \in 1 .. mem'.end : log'[i].gen <= index'[log'[i].block].gen
  <2>1. SUFFICES ASSUME NEW i \in 1 .. slot[r].end
                 PROVE  log[i].gen <= index'[log[i].block].gen
    BY <1>1, <1>6
  <2> DEFINE b == log[i].block
             P == RecordsOf(log, slot[r].end, b)
  <2>2. log[i] \in Records /\ b \in Blocks
    BY <1>2 DEF ScanOK, Records
  <2>3. i \in P /\ P \subseteq 1 .. slot[r].end
    BY DEF RecordsOf
  <2>4. Latest(P) \in P /\ i <= Latest(P)
    BY <1>5, <2>3, LatestIsLargest
  <2>5. index'[b].gen = log[Latest(P)].gen
    BY <1>1, <2>2, <2>3 DEF ScanIndex
  <2>6. Latest(P) \in 1 .. slot[r].end /\ log[Latest(P)].block = b
    BY <2>3, <2>4 DEF RecordsOf
  <2>7. log[i].gen \in Nat
    BY <2>2 DEF Records
  <2> HIDE DEF P
  <2>8. CASE i = Latest(P)
    BY <2>5, <2>7, <2>8
  <2>9. CASE i < Latest(P)
    <3>1. log[i].gen < log[Latest(P)].gen
      BY <1>2, <2>6, <2>9 DEF ScanOK
    <3>2. log[Latest(P)].gen \in Nat
      BY <1>2, <2>6 DEF ScanOK, Records
    <3>3. QED
      BY <2>5, <2>7, <3>1, <3>2
  <2>10. QED
    BY <1>5, <2>4, <2>6, <2>8, <2>9
<1>10. OpenInv'
  <2>1. NoneAhead(mem)'
    BY <1>1, <1>3, <1>7 DEF NoneAhead
  <2>2. QED
    BY <1>1, <1>9, <2>1 DEF OpenInv
<1>11. AnchorInv'
  BY <1>1, <1>4 DEF AnchorInv, Anchored
<1>12. CreateInv' /\ TxnInv' /\ ClosedInv'
  BY <1>1 DEF CreateInv, TxnInv, ClosedInv, CreatePCs
<1>13. QED
  BY <1>8, <1>10, <1>11, <1>12 DEF DataInv

\* A flush between two calls: one content everywhere, and memory is it.
LEMMA FlushSettles ==
    ASSUME IInv, Flush, pc \in OpenPCs \ {"flag_sync"},
           UNCHANGED <<mem, active, index>>, pc' \in OpenPCs \ {"flag_sync"}
    PROVE  /\ DiskInv' /\ CreateInv' /\ OpenInv' /\ ClosedInv' /\ AnchorInv'
           /\ \A k \in Slots : slotDur'[k] = {slot'[k]}
           /\ \A i \in Positions : logDur'[i] = {log'[i]}
           /\ log' = log
<1>1. /\ slot[active] = mem /\ NoneAhead(mem) /\ active \in Slots /\ mem \in Supers
      /\ \A i \in 1 .. mem.end : log[i].gen <= index[log[i].block].gen
  BY DEF IInv, DataInv, OpenInv, TypeOK
<1>2. /\ DiskInv'
      /\ \A k \in Slots : Surviving(k)' \subseteq Surviving(k)
      /\ \A k \in Slots : slotDur'[k] = {slot[k]}
      /\ \A i \in Positions : logDur'[i] = {log[i]}
      /\ slot' = slot /\ log' = log /\ born'
  BY FlushKeeps DEF IInv, DataInv
<1>3. NoneAhead(mem)'
  BY <1>1, <1>2 DEF NoneAhead
<1>4. OpenInv'
  BY <1>1, <1>2, <1>3 DEF OpenInv
<1>5. AnchorInv'
  BY <1>1, <1>2 DEF AnchorInv, Anchored, OpenPCs
<1>6. CreateInv' /\ ClosedInv'
  BY DEF CreateInv, ClosedInv, OpenPCs
<1>7. QED
  BY <1>2, <1>4, <1>5, <1>6

-----------------------------------------------------------------------------
(* Writing blocks *)

\* Nothing on disk and nothing in memory moves, and the call does not enter a
\* step that needs more than the one it leaves.
LEMMA QuietStep ==
    ASSUME IInv, UNCHANGED <<disk, owner, born>>, pc \in OpenPCs \ {"flag_sync", "commit_sync"},
           pc' \in OpenPCs \ {"flag_sync"}
    PROVE  DiskInv' /\ CreateInv' /\ OpenInv' /\ ClosedInv' /\ AnchorInv'
<1>1. UNCHANGED <<slot, slotDur, log, logDur, mem, active, index, born>>
  BY DEF disk, owner
<1>2. DiskInv'
  BY <1>1 DEF IInv, DataInv, DiskInv, ShownMayStay, SurvivorsScan, EndsGrow,
              Parity, Surviving
<1>3. OpenInv'
  BY <1>1 DEF IInv, DataInv, OpenInv, NoneAhead, Surviving
<1>4. AnchorInv'
  BY <1>1 DEF IInv, DataInv, AnchorInv, Anchored, OpenPCs
<1>5. CreateInv' /\ ClosedInv'
  BY DEF CreateInv, ClosedInv, OpenPCs
<1>6. QED
  BY <1>2, <1>3, <1>4, <1>5

\* A record goes behind the committed log: past every surviving end.
LEMMA AppendKeeps ==
    ASSUME IInv, pc = "append", NEW v, PutRecord(mem.end + done + 1, {v}),
           UNCHANGED <<slot, slotDur, mem, active, index, born>>,
           pc' \in {"append", "data_sync", "ready"}
    PROVE  /\ DiskInv' /\ CreateInv' /\ OpenInv' /\ ClosedInv' /\ AnchorInv'
           /\ log'[mem.end + done + 1] = v
           /\ \A j \in 1 .. mem.end + done : log'[j] = log[j]
<1> DEFINE p == mem.end + done + 1
<1>1. /\ mem.end \in Nat /\ done \in Nat /\ Len(txn) \in Nat /\ MaxLog \in Nat
      /\ mem.end + Len(txn) <= MaxLog /\ done < Len(txn)
  BY BoundsAssumption DEF IInv, TypeOK, CallShape, Supers
<1>2. p \in Positions
  BY <1>1 DEF Positions
<1>3. /\ slot[active] = mem /\ NoneAhead(mem)
      /\ \A i \in 1 .. mem.end : log[i].gen <= index[log[i].block].gen
  BY DEF IInv, DataInv, OpenInv, OpenPCs, PCs, CreatePCs
<1>4. \A k \in Slots : \A s \in Surviving(k) : s.end < p
  <2>1. SUFFICES ASSUME NEW k \in Slots, NEW s \in Surviving(k) PROVE s.end < p
    OBVIOUS
  <2>2. s.end \in Nat /\ s.end <= mem.end
    BY <1>3, BoundsAssumption DEF NoneAhead, Surviving, Supers
  <2>3. QED
    BY <1>1, <2>2
<1>5. /\ DiskInv'
      /\ \A k \in Slots : Surviving(k)' = Surviving(k)
      /\ log'[p] = v
      /\ \A j \in Positions \ {p} : log'[j] = log[j]
  <2>1. PutRecord(p, {v})
    OBVIOUS
  <2> HIDE DEF p
  <2>2. QED
    BY <1>2, <1>4, <2>1, RecordJoins DEF IInv, DataInv
<1>6. \A j \in 1 .. mem.end + done : log'[j] = log[j]
  BY <1>1, <1>5 DEF Positions
<1>7. OpenInv'
  <2>1. NoneAhead(mem)'
    BY <1>3, <1>5 DEF NoneAhead
  <2>2. \A i \in 1 .. mem.end : log'[i] = log[i]
    BY <1>1, <1>6
  <2>3. QED
    BY <1>3, <2>1, <2>2 DEF OpenInv
<1>8. AnchorInv'
  BY DEF IInv, DataInv, AnchorInv, Anchored, OpenPCs, PCs, CreatePCs
<1>9. CreateInv' /\ ClosedInv'
  BY DEF CreateInv, ClosedInv, CreatePCs
<1>10. QED
  BY <1>5, <1>6, <1>7, <1>8, <1>9

\* With the appended records the log still scans: every block is written once
\* in the call, with a generation above all it had.
LEMMA NextStateScans ==
    ASSUME IInv, pc = "super"
    PROVE  /\ NextState \in Supers /\ ScanOK(log, NextState)
           /\ \A i \in 1 .. NextState.end : logDur[i] = {log[i]}
<1>1. /\ mem.end \in Nat /\ Len(txn) \in Nat /\ MaxLog \in Nat
      /\ mem.end + Len(txn) <= MaxLog /\ done = Len(txn)
      /\ mem.count = mem.end /\ mem.gen < MaxGen /\ mem \in Supers /\ active \in Slots
  BY BoundsAssumption DEF IInv, TypeOK, CallShape, Supers
<1>2. NextState \in Supers /\ NextState.count = NextState.end
      /\ NextState.end = mem.end + Len(txn)
  <2>1. NextState \in Supers
    BY <1>1, BoundsAssumption DEF NextState, Supers
  <2>2. QED
    BY <1>1, <2>1 DEF NextState
<1>3. /\ slot[active] = mem
      /\ \A i \in 1 .. mem.end : log[i].gen <= index[log[i].block].gen
  BY DEF IInv, DataInv, OpenInv, OpenPCs, PCs, CreatePCs
<1>4. ScanOK(log, mem)
  BY <1>1, <1>3 DEF IInv, DataInv, DiskInv, ShownMayStay, SurvivorsScan, Surviving
<1>5. /\ \A i, j \in 1 .. Len(txn) : txn[i][1] = txn[j][1] => i = j
      /\ \A j \in 1 .. Len(txn) : log[mem.end + j] = NewRecord(j)
      /\ \A i \in Positions : logDur[i] = {log[i]}
  BY <1>1 DEF IInv, DataInv, TxnInv
<1>6. \A j \in 1 .. Len(txn) :
         /\ NewRecord(j) \in Records
         /\ NewRecord(j).block = txn[j][1]
         /\ NewRecord(j).gen = index[txn[j][1]].gen + 1
         /\ index[txn[j][1]].gen \in Nat
  <2>1. SUFFICES ASSUME NEW j \in 1 .. Len(txn)
                 PROVE  /\ NewRecord(j) \in Records
                        /\ NewRecord(j).block = txn[j][1]
                        /\ NewRecord(j).gen = index[txn[j][1]].gen + 1
                        /\ index[txn[j][1]].gen \in Nat
    OBVIOUS
  <2>2. txn[j] \in Blocks \X Values
    BY DEF IInv, TypeOK
  <2>3. txn[j][1] \in Blocks /\ txn[j][2] \in Values
    BY <2>2
  <2>4. index[txn[j][1]].gen \in Nat
    BY <2>3 DEF IInv, TypeOK
  <2>5. QED
    BY <2>3, <2>4 DEF NewRecord, Records
<1>7. \A i \in 1 .. mem.end + Len(txn) :
         i \in 1 .. mem.end \/ \E j \in 1 .. Len(txn) : i = mem.end + j
  <2>1. SUFFICES ASSUME NEW i \in 1 .. mem.end + Len(txn), ~ (i \in 1 .. mem.end)
                 PROVE  \E j \in 1 .. Len(txn) : i = mem.end + j
    OBVIOUS
  <2>2. i - mem.end \in 1 .. Len(txn) /\ i = mem.end + (i - mem.end)
    BY <1>1, <2>1
  <2>3. QED
    BY <2>2
<1>8. \A i \in 1 .. mem.end + Len(txn) : log[i] \in Records
  BY <1>4, <1>5, <1>6, <1>7 DEF ScanOK
<1>9. \A i, j \in 1 .. mem.end + Len(txn) :
          i < j /\ log[i].block = log[j].block => log[i].gen < log[j].gen
  <2>1. SUFFICES ASSUME NEW i \in 1 .. mem.end + Len(txn),
                        NEW j \in 1 .. mem.end + Len(txn),
                        i < j, log[i].block = log[j].block
                 PROVE  log[i].gen < log[j].gen
    OBVIOUS
  <2>2. CASE i \in 1 .. mem.end /\ j \in 1 .. mem.end
    BY <1>4, <2>1, <2>2 DEF ScanOK
  <2>3. CASE i \in 1 .. mem.end /\ j \notin 1 .. mem.end
    <3>1. PICK m \in 1 .. Len(txn) : j = mem.end + m
      BY <1>7, <2>3
    <3>2. log[j] = NewRecord(m)
      BY <1>5, <3>1
    <3>3. log[i].gen <= index[txn[m][1]].gen /\ log[i].gen \in Nat
      BY <1>3, <1>6, <1>8, <2>1, <2>3, <3>2 DEF Records
    <3>4. QED
      BY <1>6, <3>2, <3>3
  <2>4. CASE i \notin 1 .. mem.end
    <3>1. PICK m \in 1 .. Len(txn) : i = mem.end + m
      BY <1>7, <2>4
    <3>2. j \notin 1 .. mem.end
      BY <1>1, <2>1, <2>4
    <3>3. PICK n \in 1 .. Len(txn) : j = mem.end + n
      BY <1>7, <3>2
    <3>4. txn[m][1] = txn[n][1]
      BY <1>5, <1>6, <2>1, <3>1, <3>3
    <3>5. m = n
      BY <1>5, <3>4
    <3>6. QED
      BY <1>1, <2>1, <3>1, <3>3, <3>5
  <2>5. QED
    BY <2>2, <2>3, <2>4
<1>10. \A i \in 1 .. NextState.end : logDur[i] = {log[i]}
  BY <1>1, <1>2, <1>5 DEF Positions
<1>11. QED
  BY <1>2, <1>8, <1>9, <1>10 DEF ScanOK

\* The commit point: the new superblock goes to the other slot, so the one in
\* memory, flushed before, stays whatever happens.
LEMMA WriteSuperStep == ASSUME IInv, WriteSuper PROVE DataInv'
<1>1. /\ pc = "super" /\ pc' = "commit_sync"
      /\ PutSlot(1 - active, {NextState})
      /\ mem' = NextState /\ active' = 1 - active /\ index' = IndexWithTxn
      /\ UNCHANGED <<log, logDur, txn, done, born>>
  BY DEF WriteSuper, call
<1>2. /\ NextState \in Supers /\ ScanOK(log, NextState)
      /\ \A i \in 1 .. NextState.end : logDur[i] = {log[i]}
  BY <1>1, NextStateScans
<1>3. /\ slot[active] = mem /\ NoneAhead(mem)
      /\ \A i \in 1 .. mem.end : log[i].gen <= index[log[i].block].gen
  BY <1>1 DEF IInv, DataInv, OpenInv, OpenPCs, PCs, CreatePCs
<1>4. /\ mem \in Supers /\ active \in Slots /\ 1 - active \in Slots
      /\ 1 - active # active
      /\ mem.gen \in Nat /\ mem.end \in Nat /\ Len(txn) \in Nat
      /\ done = Len(txn) /\ MaxLog \in Nat /\ mem.end + Len(txn) <= MaxLog
      /\ NextState.gen = mem.gen + 1 /\ NextState.end = mem.end + Len(txn)
  BY <1>1, BoundsAssumption DEF IInv, TypeOK, CallShape, Supers, Slots, NextState
<1>5. slotDur[active] = {mem} /\ mem \in Surviving(active)
  BY <1>1, <1>3, <1>4 DEF IInv, DataInv, TxnInv, Surviving
<1>6. NextState.gen % 2 = 1 - (1 - active)
  <2>1. mem.gen % 2 = 1 - active
    BY <1>4, <1>5 DEF IInv, DataInv, DiskInv, Parity
  <2>2. CASE active = 0
    BY <1>4, <2>1, <2>2
  <2>3. CASE active = 1
    BY <1>4, <2>1, <2>3
  <2>4. QED
    BY <1>4, <2>2, <2>3 DEF Slots
<1>7. \A l \in Slots : \A t \in Surviving(l) :
          t.gen <= mem.gen + 1 /\ t.end <= mem.end /\ t.gen \in Nat /\ t.end \in Nat
  BY <1>3, <1>4, BoundsAssumption DEF NoneAhead, Surviving, Supers, Lead
<1>8. \A l \in Slots \ {1 - active} : \A t \in Surviving(l) :
          /\ t.gen <= NextState.gen => t.end <= NextState.end
          /\ NextState.gen <= t.gen => NextState.end <= t.end
  <2>1. SUFFICES ASSUME NEW l \in Slots \ {1 - active}, NEW t \in Surviving(l)
                 PROVE  t.end <= NextState.end /\ t.gen < NextState.gen
    BY <1>4, <1>7
  <2>2. l = active
    BY <1>4 DEF Slots
  <2>3. t.gen <= mem.gen
    BY <1>3, <1>4, <2>1, <2>2, ActiveIsTop DEF IInv, DataInv
  <2>4. QED
    BY <1>4, <1>7, <2>1, <2>3
<1>9. /\ DiskInv'
      /\ \A l \in Slots : Surviving(l)' \subseteq Surviving(l) \cup {NextState}
      /\ \A l \in Slots \ {1 - active} : slot'[l] = slot[l] /\ slotDur'[l] = slotDur[l]
      /\ slot'[1 - active] = NextState
  BY <1>1, <1>2, <1>4, <1>6, <1>8, SuperJoins DEF IInv, DataInv
<1>10. NoneAhead(mem)'
  <2>1. \A l \in Slots : \A t \in Surviving(l)' :
            t.gen <= NextState.gen /\ t.end <= NextState.end /\ t.gen \in Nat
    BY <1>4, <1>7, <1>9
  <2>2. \A l \in Slots : \A t \in Surviving(l)' :
            t.gen <= NextState.gen + Lead /\ t.end <= NextState.end
    BY <1>4, <2>1 DEF Lead
  <2>3. QED
    BY <1>1, <2>2 DEF NoneAhead
<1>11. \A i \in 1 .. NextState.end : log[i].gen <= IndexWithTxn[log[i].block].gen
  <2>1. SUFFICES ASSUME NEW i \in 1 .. NextState.end
                 PROVE  log[i].gen <= IndexWithTxn[log[i].block].gen
    OBVIOUS
  <2> DEFINE b == log[i].block
  <2>2. b \in Blocks /\ log[i].gen \in Nat /\ index[b].gen \in Nat
    <3>1. log[i] \in Records
      BY <1>2 DEF ScanOK
    <3>2. b \in Blocks /\ log[i].gen \in Nat
      BY <3>1 DEF Records
    <3>3. QED
      BY <3>2 DEF IInv, TypeOK
  <2>3. /\ \A k \in 1 .. Len(txn) : txn[k][1] = b => IndexWithTxn[b].gen = index[b].gen + 1
        /\ (\A k \in 1 .. Len(txn) : txn[k][1] # b) => IndexWithTxn[b].gen = index[b].gen
    BY <2>2 DEF IndexWithTxn
  <2>4. index[b].gen <= IndexWithTxn[b].gen
    BY <2>2, <2>3
  <2>5. CASE i \in 1 .. mem.end
    BY <1>3, <2>2, <2>3, <2>5
  <2>6. CASE i \notin 1 .. mem.end
    <3>1. i - mem.end \in 1 .. Len(txn) /\ mem.end + (i - mem.end) = i
      BY <1>4, <2>6
    <3>2. log[i] = NewRecord(i - mem.end)
      BY <1>1, <1>4, <3>1 DEF IInv, DataInv, TxnInv
    <3>3. b = txn[i - mem.end][1] /\ log[i].gen = index[b].gen + 1
      BY <3>2 DEF NewRecord
    <3>4. QED
      BY <2>2, <2>3, <3>1, <3>3
  <2>7. QED
    BY <2>5, <2>6
<1>12. OpenInv'
  BY <1>1, <1>9, <1>10, <1>11 DEF OpenInv
<1>13. TxnInv'
  BY <1>1 DEF IInv, DataInv, TxnInv
<1>14. AnchorInv'
  <2>1. slotDur'[active] = {mem}
    BY <1>4, <1>5, <1>9
  <2>2. \E k \in Slots : slotDur'[k] \subseteq Supers
    BY <1>4, <2>1
  <2>3. QED
    BY <1>1, <2>2 DEF AnchorInv, Anchored
<1>15. CreateInv' /\ ClosedInv'
  BY <1>1 DEF CreateInv, ClosedInv, CreatePCs
<1>16. QED
  BY <1>9, <1>12, <1>13, <1>14, <1>15 DEF DataInv

\* A superblock write that fails without landing touches the other slot only;
\* at a commit the active one has just been flushed.
LEMMA FailedSuperKeeps ==
    ASSUME IInv, PutSlot(1 - active, {slot[1 - active], Torn}),
           pc = "super" \/ (pc = "ready" /\ "flag" \in Ops), pc' = "ready",
           UNCHANGED <<log, logDur, mem, active, index, born>>
    PROVE  DataInv'
<1>1. /\ slot[active] = mem /\ NoneAhead(mem) /\ mem \in Supers
      /\ active \in Slots /\ 1 - active \in Slots /\ 1 - active # active
      /\ \A i \in 1 .. mem.end : log[i].gen <= index[log[i].block].gen
  BY DEF IInv, DataInv, OpenInv, OpenPCs, PCs, CreatePCs, TypeOK, Slots
<1>2. /\ DiskInv'
      /\ \A l \in Slots : Surviving(l)' \subseteq Surviving(l)
      /\ \A l \in Slots \ {1 - active} : slot'[l] = slot[l] /\ slotDur'[l] = slotDur[l]
  BY <1>1, TornKeeps DEF IInv, DataInv
<1>3. NoneAhead(mem)'
  BY <1>1, <1>2 DEF NoneAhead
<1>4. OpenInv'
  BY <1>1, <1>2, <1>3 DEF OpenInv
<1>5. AnchorInv'
  <2>1. born /\ pc = "super" => slotDur[active] = {mem}
    BY <1>1 DEF IInv, DataInv, TxnInv
  <2>2. slotDur'[active] = slotDur[active]
    BY <1>1, <1>2
  <2>3. SafeUse /\ born => slotDur[active] \subseteq Supers
    BY <1>1, <2>1 DEF IInv, DataInv, AnchorInv, Anchored, OpenPCs, PCs, CreatePCs
  <2>4. QED
    BY <1>1, <2>2, <2>3 DEF AnchorInv, Anchored
<1>6. CreateInv' /\ ClosedInv' /\ TxnInv'
  BY DEF CreateInv, ClosedInv, TxnInv, CreatePCs
<1>7. QED
  BY <1>2, <1>4, <1>5, <1>6 DEF DataInv

\* The other steps of write_blocks.
LEMMA WriteStep == ASSUME IInv, InStep, Write PROVE DataInv'
<1>1. CASE BeginWrite
  <2>1. PICK t \in ValidTxns : txn' = t
    BY <1>1 DEF BeginWrite
  <2>2. \A i, j \in 1 .. Len(t) : t[i][1] = t[j][1] => i = j
    BY DEF ValidTxns
  <2>3. /\ pc = "ready" /\ pc' = "append" /\ done' = 0
        /\ UNCHANGED <<disk, owner, born>>
    BY <1>1 DEF BeginWrite
  <2>4. DiskInv' /\ CreateInv' /\ OpenInv' /\ ClosedInv' /\ AnchorInv'
    BY <2>3, QuietStep DEF OpenPCs, PCs, CreatePCs
  <2>5. TxnInv'
    BY <2>1, <2>2, <2>3 DEF TxnInv
  <2>6. QED
    BY <2>4, <2>5 DEF DataInv
<1>2. CASE AppendRecord
  <2>1. /\ pc = "append" /\ PutRecord(mem.end + done + 1, {NewRecord(done + 1)})
        /\ done' = done + 1 /\ pc' \in {"append", "data_sync"}
        /\ UNCHANGED <<slot, slotDur, mem, active, index, txn, born>>
    BY <1>2 DEF AppendRecord, owner, history
  <2>2. /\ DiskInv' /\ CreateInv' /\ OpenInv' /\ ClosedInv' /\ AnchorInv'
        /\ log'[mem.end + done + 1] = NewRecord(done + 1)
        /\ \A j \in 1 .. mem.end + done : log'[j] = log[j]
    BY <2>1, AppendKeeps
  <2>3. \A j \in 1 .. done + 1 : log'[mem.end + j] = NewRecord(j)
    <3>1. SUFFICES ASSUME NEW j \in 1 .. done + 1
                   PROVE  log'[mem.end + j] = NewRecord(j)
      OBVIOUS
    <3>2. mem.end \in Nat /\ done \in Nat
      BY BoundsAssumption DEF IInv, TypeOK, Supers
    <3>3. CASE j = done + 1
      BY <2>2, <3>2, <3>3
    <3>4. CASE j \in 1 .. done
      BY <2>1, <2>2, <3>2, <3>4 DEF IInv, DataInv, TxnInv
    <3>5. QED
      BY <3>2, <3>3, <3>4
  <2>4. TxnInv'
    BY <2>1, <2>3 DEF IInv, DataInv, TxnInv, NewRecord
  <2>5. QED
    BY <2>2, <2>4 DEF DataInv
<1>3. CASE AppendFails
  <2>1. /\ pc = "append" /\ PutRecord(mem.end + done + 1, {Torn})
        /\ pc' = "ready" /\ UNCHANGED <<slot, slotDur, mem, active, index, born>>
    BY <1>3 DEF AppendFails, GiveUp, owner
  <2>2. DiskInv' /\ CreateInv' /\ OpenInv' /\ ClosedInv' /\ AnchorInv'
    BY <2>1, AppendKeeps
  <2>3. TxnInv'
    BY <2>1 DEF TxnInv
  <2>4. QED
    BY <2>2, <2>3 DEF DataInv
<1>4. CASE SyncData
  <2>1. /\ pc = "data_sync" /\ Flush /\ UNCHANGED <<mem, active, index>>
        /\ \/ pc' = "super" /\ UNCHANGED <<txn, done>>
           \/ pc' = "ready"
    BY <1>4 DEF SyncData, GiveUp, owner, call
  <2>2. /\ DiskInv' /\ CreateInv' /\ OpenInv' /\ ClosedInv' /\ AnchorInv'
        /\ \A k \in Slots : slotDur'[k] = {slot'[k]}
        /\ \A i \in Positions : logDur'[i] = {log'[i]}
        /\ log' = log
    BY <2>1, FlushSettles DEF OpenPCs, PCs, CreatePCs
  <2>3. TxnInv'
    BY <2>1, <2>2 DEF IInv, DataInv, TxnInv, NewRecord
  <2>4. QED
    BY <2>2, <2>3 DEF DataInv
<1>5. CASE SyncDataFails
  <2>1. /\ pc = "data_sync" /\ pc' = "ready" /\ UNCHANGED <<disk, owner, born>>
    BY <1>5 DEF SyncDataFails, FlushFails, GiveUp
  <2>2. DiskInv' /\ CreateInv' /\ OpenInv' /\ ClosedInv' /\ AnchorInv'
    BY <2>1, QuietStep DEF OpenPCs, PCs, CreatePCs
  <2>3. TxnInv'
    BY <2>1 DEF TxnInv
  <2>4. QED
    BY <2>2, <2>3 DEF DataInv
<1>6. CASE WriteSuper
  BY <1>6, WriteSuperStep
<1>7. CASE WriteSuperFails
  <2>1. /\ pc = "super" /\ SuperFails(NextState) /\ pc' = "ready"
        /\ UNCHANGED <<log, logDur, mem, active, index, born>>
    BY <1>7 DEF WriteSuperFails, GiveUp, owner
  <2>2. PutSlot(1 - active, {slot[1 - active], Torn})
    BY <2>1 DEF SuperFails, InStep
  <2>3. DataInv'
    BY <2>1, <2>2, FailedSuperKeeps DEF OpenPCs, PCs, CreatePCs
  <2>4. QED
    BY <2>3
<1>8. CASE CommitSync
  <2>1. /\ pc = "commit_sync" /\ Flush /\ pc' = "ready"
        /\ UNCHANGED <<mem, active, index>>
    BY <1>8 DEF CommitSync, owner
  <2>2. DiskInv' /\ CreateInv' /\ OpenInv' /\ ClosedInv' /\ AnchorInv'
    BY <2>1, FlushSettles DEF OpenPCs, PCs, CreatePCs
  <2>3. TxnInv'
    BY <2>1 DEF TxnInv
  <2>4. QED
    BY <2>2, <2>3 DEF DataInv
<1>9. CASE CommitSyncFails
  <2>1. /\ pc = "commit_sync" /\ pc' = "ready"
        /\ SafeUse => "flag" \notin Ops
        /\ UNCHANGED <<slot, slotDur, log, logDur, mem, active, index, born>>
    BY <1>9 DEF CommitSyncFails, FlushFails, GiveUp, SafeUse, Unflushed, disk, owner
  <2>2. DiskInv'
    BY <2>1 DEF IInv, DataInv, DiskInv, ShownMayStay, SurvivorsScan, EndsGrow,
                Parity, Surviving
  <2>3. OpenInv'
    BY <2>1 DEF IInv, DataInv, OpenInv, OpenPCs, PCs, CreatePCs, NoneAhead, Surviving
  <2>4. AnchorInv'
    BY <2>1 DEF IInv, DataInv, AnchorInv, Anchored
  <2>5. CreateInv' /\ ClosedInv' /\ TxnInv'
    BY <2>1 DEF CreateInv, ClosedInv, TxnInv, CreatePCs
  <2>6. QED
    BY <2>2, <2>3, <2>4, <2>5 DEF DataInv
<1>10. QED
  BY <1>1, <1>2, <1>3, <1>4, <1>5, <1>6, <1>7, <1>8, <1>9 DEF Write

-----------------------------------------------------------------------------
(* Changing the clean flag *)

\* set_clean_state overwrites the other slot without a flush: a survivor is safe
\* while the active one is flushed, which is why SafeUse lets no Unflushed failure
\* precede it.
LEMMA FlagStep == ASSUME IInv, InStep, Flag PROVE DataInv'
<1> DEFINE s == FlagState(~mem.clean)
<1>1. /\ s \in Supers /\ 1 - active \in Slots /\ active \in Slots /\ mem \in Supers
      /\ 1 - active # active /\ mem.count = mem.end
      /\ mem.gen \in Nat /\ mem.end \in Nat /\ MaxGen \in Nat
      /\ FlagBound \in Nat /\ FlagBound <= MaxGen
  BY FlagStateType, BoundsAssumption DEF IInv, TypeOK, CallShape, Supers, Slots
<1>2. mem.gen < FlagBound => s.gen = mem.gen + 1 /\ s.end = mem.end /\ s.count = mem.end
  BY <1>1 DEF FlagState
<1>3. CASE SetCleanState
  <2>1. /\ pc = "ready" /\ "flag" \in Ops /\ mem.gen < FlagBound
        /\ PutSlot(1 - active, {s}) /\ pc' = "flag_sync"
        /\ UNCHANGED <<log, logDur, mem, active, index, born>>
    BY <1>3 DEF SetCleanState, MayFlag, owner
  <2>2. /\ slot[active] = mem /\ NoneAhead(mem)
        /\ \A i \in 1 .. mem.end : log[i].gen <= index[log[i].block].gen
    BY <2>1 DEF IInv, DataInv, OpenInv, OpenPCs, PCs, CreatePCs
  <2>3. mem \in Surviving(active)
    BY <1>1, <2>2 DEF IInv, DataInv, DiskInv, ShownMayStay, Surviving
  <2>4. ScanOK(log, mem) /\ \A i \in 1 .. mem.end : logDur[i] = {log[i]}
    BY <1>1, <2>3 DEF IInv, DataInv, DiskInv, SurvivorsScan
  <2>5. s.gen = mem.gen + 1 /\ s.end = mem.end /\ s.count = mem.end
    BY <1>2, <2>1
  <2>6. ScanOK(log, s) /\ \A i \in 1 .. s.end : logDur[i] = {log[i]}
    BY <2>4, <2>5 DEF ScanOK
  <2>7. mem.gen % 2 = 1 - active
    BY <1>1, <2>3 DEF IInv, DataInv, DiskInv, Parity
  <2>8. s.gen % 2 = 1 - (1 - active)
    <3>1. CASE active = 0
      BY <1>1, <2>5, <2>7, <3>1
    <3>2. CASE active = 1
      BY <1>1, <2>5, <2>7, <3>2
    <3>3. QED
      BY <1>1, <3>1, <3>2 DEF Slots
  <2>9. \A l \in Slots : \A t \in Surviving(l) :
            t.gen <= s.gen /\ t.end <= mem.end /\ t.gen \in Nat /\ t.end \in Nat
    BY <1>1, <2>2, <2>5, BoundsAssumption DEF NoneAhead, Surviving, Supers, Lead
  <2>10. \A l \in Slots \ {1 - active} : \A t \in Surviving(l) :
            /\ t.gen <= s.gen => t.end <= s.end
            /\ s.gen <= t.gen => s.end <= t.end
    <3>1. SUFFICES ASSUME NEW l \in Slots \ {1 - active}, NEW t \in Surviving(l)
                   PROVE  t.end <= s.end /\ t.gen < s.gen
      BY <1>1, <2>5, <2>9
    <3>2. l = active
      BY <1>1 DEF Slots
    <3>3. t.gen <= mem.gen
      BY <1>1, <2>2, <3>1, <3>2, ActiveIsTop DEF IInv, DataInv
    <3>4. QED
      BY <1>1, <2>5, <2>9, <3>1, <3>3
  <2> HIDE DEF s
  <2>11. /\ DiskInv'
         /\ \A l \in Slots : Surviving(l)' \subseteq Surviving(l) \cup {s}
         /\ \A l \in Slots \ {1 - active} : slot'[l] = slot[l] /\ slotDur'[l] = slotDur[l]
         /\ slot'[1 - active] = s
    BY <1>1, <2>1, <2>6, <2>8, <2>10, SuperJoins DEF IInv, DataInv
  <2>12. \A k \in Slots : \A t \in Surviving(k)' : t.gen <= s.gen /\ t.end <= s.end
    <3>1. s.gen <= s.gen /\ s.end <= s.end
      BY <1>1, <2>5
    <3>2. QED
      BY <1>1, <2>5, <2>9, <2>11, <3>1
  <2>13. s' = s
    BY <2>1 DEF s, FlagState
  <2>14. NoneAbove(s)'
    BY <2>12, <2>13 DEF NoneAbove
  <2>15. OpenInv'
    BY <1>1, <2>1, <2>2, <2>11, <2>13, <2>14 DEF OpenInv, s
  <2>16. AnchorInv'
    <3>1. SafeUse /\ born => slotDur[active] \subseteq Supers
      BY <2>1 DEF IInv, DataInv, AnchorInv, Anchored, OpenPCs, PCs, CreatePCs
    <3>2. slotDur'[active] = slotDur[active]
      BY <1>1, <2>11
    <3>3. QED
      BY <1>1, <2>1, <3>1, <3>2 DEF AnchorInv, Anchored
  <2>17. CreateInv' /\ ClosedInv' /\ TxnInv'
    BY <2>1 DEF CreateInv, ClosedInv, TxnInv, CreatePCs
  <2>18. QED
    BY <2>11, <2>15, <2>16, <2>17 DEF DataInv
<1>4. CASE SetCleanStateFails
  <2>1. /\ pc = "ready" /\ "flag" \in Ops /\ pc' = "ready" /\ SuperFails(s)
        /\ UNCHANGED <<log, logDur, mem, active, index, born>>
    BY <1>4 DEF SetCleanStateFails, MayFlag, owner
  <2>2. PutSlot(1 - active, {slot[1 - active], Torn})
    BY <2>1 DEF SuperFails, InStep
  <2>3. QED
    BY <2>1, <2>2, FailedSuperKeeps
<1>5. CASE FlagSync
  <2>1. /\ pc = "flag_sync" /\ pc' = "ready" /\ Flush
        /\ mem' = s /\ active' = 1 - active /\ index' = index
    BY <1>5 DEF FlagSync
  <2>2. mem.gen < FlagBound
    BY <2>1 DEF IInv, CallShape
  <2>3. /\ slot[1 - active] = s /\ NoneAbove(s)
        /\ \A i \in 1 .. mem.end : log[i].gen <= index[log[i].block].gen
    BY <2>1 DEF IInv, DataInv, OpenInv, OpenPCs, PCs, CreatePCs
  <2>4. s.end = mem.end
    BY <1>2, <2>2
  <2> HIDE DEF s
  <2>5. /\ DiskInv'
        /\ \A k \in Slots : Surviving(k)' \subseteq Surviving(k)
        /\ \A k \in Slots : slotDur'[k] = {slot[k]}
        /\ slot' = slot /\ log' = log
    BY <2>1, FlushKeeps DEF IInv, DataInv
  <2>6. NoneAhead(mem)'
    <3>1. NoneAhead(s)
      BY <1>1, <2>3, AboveIsAhead DEF Supers
    <3>2. QED
      BY <2>1, <2>5, <3>1 DEF NoneAhead
  <2>7. OpenInv'
    BY <2>1, <2>3, <2>4, <2>5, <2>6 DEF OpenInv
  <2>8. AnchorInv'
    BY <1>1, <2>1, <2>3, <2>5 DEF AnchorInv, Anchored
  <2>9. CreateInv' /\ ClosedInv' /\ TxnInv'
    BY <2>1 DEF CreateInv, ClosedInv, TxnInv, CreatePCs
  <2>10. QED
    BY <2>5, <2>7, <2>8, <2>9 DEF DataInv
<1>6. CASE FlagSyncFails
  <2>1. /\ pc = "flag_sync" /\ pc' = "ready" /\ "flag" \in Ops /\ ~SafeUse
        /\ UNCHANGED <<slot, slotDur, log, logDur, mem, active, index, born>>
    BY <1>6 DEF FlagSyncFails, FlushFails, IInv, CallShape, SafeUse, Unflushed, disk, owner
  <2>2. /\ slot[active] = mem /\ NoneAbove(s)
        /\ \A i \in 1 .. mem.end : log[i].gen <= index[log[i].block].gen
    BY <2>1 DEF IInv, DataInv, OpenInv, OpenPCs, PCs, CreatePCs
  <2>3. s.gen = mem.gen + 1 /\ s.end = mem.end /\ Lead = 1
    BY <1>2, <2>1 DEF IInv, CallShape, Lead
  <2> HIDE DEF s
  <2>4. NoneAhead(mem)
    BY <2>2, <2>3 DEF NoneAbove, NoneAhead
  <2>5. DiskInv'
    BY <2>1 DEF IInv, DataInv, DiskInv, ShownMayStay, SurvivorsScan, EndsGrow,
                Parity, Surviving
  <2>6. OpenInv'
    BY <2>1, <2>2, <2>4 DEF OpenInv, NoneAhead, Surviving
  <2>7. CreateInv' /\ ClosedInv' /\ TxnInv' /\ AnchorInv'
    BY <2>1 DEF CreateInv, ClosedInv, TxnInv, AnchorInv, CreatePCs
  <2>8. QED
    BY <2>5, <2>6, <2>7 DEF DataInv
<1>7. CASE SetCleanStateKept
  <2>1. /\ UNCHANGED <<slot, slotDur, log, logDur, mem, active, index, born>>
        /\ pc = "ready" /\ pc' = "ready"
    BY <1>7 DEF SetCleanStateKept, disk, owner
  <2>2. DiskInv' /\ AnchorInv'
    BY <2>1 DEF IInv, DataInv, DiskInv, ShownMayStay, SurvivorsScan, EndsGrow, Parity,
       Surviving, AnchorInv, Anchored
  <2>3. OpenInv'
    BY <2>1 DEF IInv, DataInv, OpenInv, NoneAhead, Surviving
  <2>4. CreateInv' /\ ClosedInv' /\ TxnInv'
    BY <2>1 DEF CreateInv, ClosedInv, TxnInv, CreatePCs
  <2>5. QED
    BY <2>2, <2>3, <2>4 DEF DataInv
<1>8. QED
  BY <1>3, <1>4, <1>5, <1>6, <1>7 DEF Flag

-----------------------------------------------------------------------------
(* The inductive invariant *)

\* A power loss leaves one of the surviving images; open then adopts the
\* newest superblock in it.
LEMMA PowerLossStep == ASSUME IInv, PowerLoss PROVE DataInv'
<1>1. /\ \A k \in Slots : slot'[k] \in slotDur[k] /\ slotDur'[k] = {slot'[k]}
      /\ \A i \in Positions : log'[i] \in logDur[i] /\ logDur'[i] = {log'[i]}
      /\ pc' = "closed" /\ born' = born
  BY DEF PowerLoss, Images, Forget, history
<1>2. \A k \in Slots : Surviving(k)' \subseteq Surviving(k)
  BY <1>1 DEF Surviving
<1>3. \A k \in Slots : \A s \in Surviving(k)' : \A i \in 1 .. s.end :
          log'[i] = log[i] /\ logDur'[i] = {log[i]}
  <2>1. SUFFICES ASSUME NEW k \in Slots, NEW s \in Surviving(k), NEW i \in 1 .. s.end
                 PROVE  log'[i] = log[i] /\ logDur'[i] = {log[i]}
    BY <1>2
  <2>2. i \in Positions
    BY BoundsAssumption DEF Surviving, Supers, Positions
  <2>3. logDur[i] = {log[i]}
    BY DEF IInv, DataInv, DiskInv, SurvivorsScan
  <2>4. QED
    BY <1>1, <2>2, <2>3
<1>4. DiskInv'
  <2>1. ShownMayStay'
    BY <1>1 DEF ShownMayStay
  <2>2. QED
    BY <1>2, <1>3, <2>1, SurvivorsKept DEF IInv, DataInv, DiskInv
<1>5. \A k \in Slots : slot'[k] \in Supers => Usable(slot', log', k)
  BY <1>1, <1>4 DEF DiskInv, SurvivorsScan, Surviving, Usable
<1>6. ClosedInv'
  <2> DEFINE r == Recovered(slot', log')
  <2>1. SUFFICES ASSUME r # NoSlot,
                        NEW k \in Slots, NEW t \in Surviving(k)'
                 PROVE  t.gen <= slot'[r].gen + Lead /\ t.end <= slot'[r].end
    BY DEF ClosedInv, NoneAhead
  <2>2. t = slot'[k] /\ t \in Supers /\ Usable(slot', log', k)
    BY <1>1, <1>5, <2>1 DEF Surviving
  <2>3. /\ r \in Slots /\ Usable(slot', log', r)
        /\ Usable(slot', log', 1 - r) => Preferred(slot', r, 1 - r)
    BY <2>2, RecoveredIsPreferred
  <2> HIDE DEF r
  <2>4. PICK q \in Slots : q = r
    BY <2>3
  <2>5. slot'[q] \in Surviving(q)' /\ slot'[q].gen \in Nat /\ t.gen \in Nat
    BY <1>1, <2>2, <2>3, <2>4, BoundsAssumption DEF Surviving, Supers, Usable
  <2>6. t.gen <= slot'[q].gen
    <3>1. CASE k = q
      BY <2>2, <2>5, <3>1
    <3>2. CASE k = 1 - q
      BY <2>2, <2>3, <2>4, <2>5, <3>2 DEF Preferred
    <3>3. QED
      BY <3>1, <3>2 DEF Slots
  <2>7. t.end <= slot'[q].end
    <3>1. CASE k = q
      BY <2>2, <2>5, <3>1, BoundsAssumption DEF Supers
    <3>2. CASE k # q
      BY <1>4, <2>1, <2>5, <2>6, <3>2 DEF DiskInv, EndsGrow
    <3>3. QED
      BY <3>1, <3>2
  <2>8. Lead \in Nat
    BY DEF Lead
  <2>9. QED
    BY <2>4, <2>5, <2>6, <2>7, <2>8
<1>7. AnchorInv'
  <2>1. CASE SafeUse /\ born
    <3>1. PICK k \in Slots : slotDur[k] \subseteq Supers
      BY <2>1 DEF IInv, DataInv, AnchorInv, Anchored
    <3>2. slot'[k] \in Supers /\ slotDur'[k] \subseteq Supers
      BY <1>1, <3>1
    <3>3. /\ Recovered(slot', log') \in Slots
          /\ Usable(slot', log', Recovered(slot', log'))
      BY <1>5, <3>2, RecoveredIsPreferred
    <3>4. slotDur'[Recovered(slot', log')] \subseteq Supers
      BY <1>1, <3>3 DEF Usable
    <3>5. QED
      BY <1>1, <3>2, <3>3, <3>4 DEF AnchorInv, Anchored, OpenPCs, Slots, NoSlot
  <2>2. CASE ~ (SafeUse /\ born)
    BY <1>1, <2>2 DEF AnchorInv
  <2>3. QED
    BY <2>1, <2>2
<1>8. CreateInv' /\ OpenInv' /\ TxnInv'
  BY <1>1 DEF CreateInv, OpenInv, TxnInv, CreatePCs, OpenPCs
<1>9. QED
  BY <1>4, <1>6, <1>7, <1>8 DEF DataInv

\* The invariant holds of a file that does not exist yet.
LEMMA IInvInit == Init => IInv
<1> SUFFICES ASSUME Init PROVE IInv
  OBVIOUS
<1>1. TypeOK /\ CallShape
  BY TypeInit
<1>2. \A k \in Slots : Surviving(k) = {}
  BY NamesAssumption DEF Init, Surviving
<1>3. ShownMayStay
  BY DEF Init, ShownMayStay
<1>4. DiskInv
  BY <1>2, <1>3 DEF DiskInv, SurvivorsScan, EndsGrow, Parity
<1>5. CreateInv
  BY <1>2 DEF Init, CreateInv, CreatePCs, NoneAbove
<1>6. OpenInv /\ TxnInv /\ ClosedInv /\ AnchorInv
  BY DEF Init, OpenInv, TxnInv, ClosedInv, AnchorInv, OpenPCs, CreatePCs
<1>7. QED
  BY <1>1, <1>4, <1>5, <1>6 DEF IInv, DataInv

\* Every step keeps it.
LEMMA IInvStep == ASSUME IInv, InStep, [Next]_vars PROVE IInv'
<1>1. TypeOK' /\ CallShape'
  BY TypeStep DEF IInv
<1>2. CASE Create
  BY <1>1, <1>2, CreateStep DEF IInv
<1>3. CASE Open
  BY <1>1, <1>3, OpenStep DEF IInv
<1>4. CASE OpenSync \/ Sync
  <2>1. /\ pc \in {"open_sync", "ready"} /\ pc' = "ready" /\ Flush
        /\ UNCHANGED <<mem, active, index>>
    BY <1>4 DEF OpenSync, Sync, owner
  <2>2. DiskInv' /\ CreateInv' /\ OpenInv' /\ ClosedInv' /\ AnchorInv'
    BY <2>1, FlushSettles DEF OpenPCs, PCs, CreatePCs
  <2>3. TxnInv'
    BY <2>1 DEF TxnInv
  <2>4. QED
    BY <1>1, <2>2, <2>3 DEF IInv, DataInv
<1>5. CASE OpenSyncFails \/ Drop \/ Kill
  <2>1. /\ UNCHANGED <<disk, born>> /\ pc' = "closed" /\ pc \notin {"absent", "closed"}
        /\ pc \in {"flag_sync", "commit_sync"} => "kill" \in Faults
    BY <1>5 DEF OpenSyncFails, FlushFails, Drop, Kill, Forget, history
  <2>2. SafeUse => pc # "flag_sync" /\ (pc = "commit_sync" => "flag" \notin Ops)
    BY <2>1 DEF SafeUse, Unflushed, IInv, CallShape
  <2>3. QED
    BY <1>1, <2>1, <2>2, ClosingKeeps DEF IInv
<1>6. CASE Write
  BY <1>1, <1>6, WriteStep DEF IInv
<1>7. CASE Flag
  BY <1>1, <1>7, FlagStep DEF IInv
<1>8. CASE PowerLoss
  BY <1>1, <1>8, PowerLossStep DEF IInv
<1>9. CASE UNCHANGED vars
  <2>1. /\ UNCHANGED <<slot, slotDur, log, logDur, mem, active, index, txn, done>>
        /\ UNCHANGED <<pc, born>>
    BY <1>9 DEF vars, disk, owner, call, history
  <2>2. DiskInv' /\ ClosedInv' /\ AnchorInv'
    BY <2>1 DEF IInv, DataInv, DiskInv, ShownMayStay, SurvivorsScan, EndsGrow, Parity,
       Surviving, ClosedInv, NoneAhead, AnchorInv, Anchored
  <2>3. CreateInv'
    BY <2>1 DEF IInv, DataInv, CreateInv, NoneAbove, Surviving
  <2>4. OpenInv'
    BY <2>1 DEF IInv, DataInv, OpenInv, NoneAhead, NoneAbove, Surviving, FlagState
  <2>5. TxnInv'
    BY <2>1 DEF IInv, DataInv, TxnInv, NewRecord
  <2>6. QED
    BY <1>1, <2>2, <2>3, <2>4, <2>5 DEF IInv, DataInv
<1>10. QED
  BY <1>2, <1>3, <1>4, <1>5, <1>6, <1>7, <1>8, <1>9 DEF Next

\* The invariant holds in every reachable state.
LEMMA Invariant == ASSUME InStep PROVE Spec => []IInv
<1>1. Init => IInv
  BY IInvInit
<1>2. IInv /\ [Next]_vars => IInv'
  BY IInvStep
<1>3. QED
  BY <1>1, <1>2, PTL DEF Spec

-----------------------------------------------------------------------------
(* The theorems *)

\* Recoverability.  After creation finished, at any instant of any call, a
\* power loss that keeps, drops or garbles every unflushed write on its own
\* leaves a file in which open finds a superblock and its whole log: provided
\* a failed superblock write did not land complete, and mark_clean and
\* mark_dirty never run on a superblock that was left unflushed.
THEOREM Recoverable == ASSUME SafeUse PROVE Spec => []AlwaysRecoverable
<1>1. InStep
  BY DEF SafeUse
<1>2. IInv => AlwaysRecoverable
  <2> SUFFICES ASSUME IInv, born,
                      NEW sl \in Images(slotDur, Slots),
                      NEW lg \in Images(logDur, 1 .. Reach)
               PROVE  Recovered(sl, lg) # NoSlot
    BY DEF AlwaysRecoverable
  <2>1. PICK k \in Slots : Anchored(k)
    BY DEF IInv, DataInv, AnchorInv
  <2> DEFINE s == sl[k]
  <2>2. s \in slotDur[k] /\ s \in Supers
    BY <2>1 DEF Images, Anchored
  <2>3. ScanOK(log, s) /\ \A i \in 1 .. s.end : logDur[i] = {log[i]}
    BY <2>2 DEF IInv, DataInv, DiskInv, SurvivorsScan, Surviving
  <2>4. s.end <= Reach /\ s.end \in Nat /\ Reach \in Nat
    <3> DEFINE E == {0} \cup UNION {{t.end : t \in slotDur[l] \cap Supers} : l \in Slots}
    <3>1. \A e \in E : e \in 0 .. MaxLog
      BY BoundsAssumption DEF Supers
    <3>2. s.end \in E
      BY <2>2
    <3> HIDE DEF E
    <3>3. Latest(E) \in E /\ \A e \in E : e <= Latest(E)
      BY <3>1, <3>2, BoundsAssumption, LargestOfRange
    <3>4. Reach = Latest(E)
      BY DEF Reach, E
    <3>5. QED
      BY <3>1, <3>2, <3>3, <3>4, BoundsAssumption
  <2>5. \A i \in 1 .. s.end : lg[i] = log[i]
    <3>1. SUFFICES ASSUME NEW i \in 1 .. s.end PROVE lg[i] = log[i]
      OBVIOUS
    <3>2. i \in 1 .. Reach
      BY <2>4
    <3>3. lg[i] \in logDur[i]
      BY <3>2 DEF Images
    <3>4. QED
      BY <2>3, <3>3
  <2>6. Usable(sl, lg, k)
    BY <2>2, <2>3, <2>5 DEF Usable, ScanOK
  <2>7. Recovered(sl, lg) \in Slots
    BY <2>6, RecoveredIsPreferred
  <2>8. QED
    BY <2>7 DEF Slots, NoSlot
<1>3. QED
  BY <1>1, <1>2, Invariant, PTL

\* No step touches a committed position.
LEMMA KeepsCommittedStep == ASSUME IInv, Next PROVE KeepsCommitted
<1>1. SUFFICES ASSUME NEW k \in Slots, NEW s \in Surviving(k), NEW i \in 1 .. s.end
               PROVE  log'[i] = log[i]
  BY DEF KeepsCommitted, Surviving
<1>2. s.end \in 0 .. MaxLog /\ MaxLog \in Nat /\ i \in Positions
  BY BoundsAssumption DEF Surviving, Supers, Positions
<1>3. CASE Open
  <2> DEFINE r == Recovered(slot, log)
  <2>1. /\ pc = "closed" /\ r # NoSlot
        /\ log' = [j \in Positions |-> IF j > slot[r].end THEN NoRec ELSE log[j]]
    BY <1>3 DEF Open
  <2>2. slot[r] \in Supers /\ NoneAhead(slot[r])
    BY <2>1, RecoveredRange DEF Usable, IInv, DataInv, ClosedInv
  <2> HIDE DEF r
  <2>3. s.end <= slot[r].end /\ slot[r].end \in Nat
    BY <2>2, BoundsAssumption DEF NoneAhead, Supers
  <2>4. QED
    BY <1>2, <2>1, <2>3
<1>4. CASE AppendRecord \/ AppendFails
  <2>1. pc = "append" /\ \E v : PutRecord(mem.end + done + 1, {v})
    BY <1>4 DEF AppendRecord, AppendFails
  <2>2. s.end <= mem.end /\ mem.end \in Nat /\ done \in Nat
    BY <2>1, BoundsAssumption
    DEF IInv, DataInv, OpenInv, OpenPCs, PCs, CreatePCs, NoneAhead, TypeOK, Supers
  <2>3. i # mem.end + done + 1
    BY <1>2, <2>2
  <2>4. QED
    BY <2>1, <2>3 DEF PutRecord, IInv, TypeOK
<1>5. CASE PowerLoss
  <2>1. log'[i] \in logDur[i]
    BY <1>2, <1>5 DEF PowerLoss, Images
  <2>2. logDur[i] = {log[i]}
    BY DEF IInv, DataInv, DiskInv, SurvivorsScan
  <2>3. QED
    BY <2>1, <2>2
<1>6. CASE ~ (Open \/ AppendRecord \/ AppendFails \/ PowerLoss)
  <2>1. UNCHANGED log
    BY <1>6 DEF Next, Create, CreateFile, CreateSlot, CreateSync, CreateFails,
       OpenSync, OpenSyncFails, Write, BeginWrite, SyncData, SyncDataFails,
       WriteSuper, WriteSuperFails, CommitSync, CommitSyncFails, Flag,
       SetCleanStateKept, SetCleanState, SetCleanStateFails, FlagSync, FlagSyncFails,
       Sync, Drop, Kill, Flush, FlushFails, disk
  <2>2. QED
    BY <2>1
<1>7. QED
  BY <1>3, <1>4, <1>5, <1>6

\* The append-only log: whatever call runs, fails or is cut off, with the clean
\* flag in use or not, no position that some surviving superblock commits changes
\* its contents.  (A failed superblock write that landed is what breaks this.)
THEOREM CommittedLogStays == ASSUME InStep PROVE Spec => CommittedLogIsStable
<1>1. IInv /\ [Next]_vars => [KeepsCommitted]_vars
  BY KeepsCommittedStep
<1>2. QED
  BY <1>1, Invariant, PTL DEF CommittedLogIsStable, Spec

-----------------------------------------------------------------------------
(* Volume implements CrashStore *)

\* What the first n records of a log show.
LogView(lg, n) == View(lg, ScanIndex(lg, n))

\* Slot q of an image holds its newest superblock.
Newest(sl, q) ==
    /\ sl[q] \in Supers
    /\ sl[1 - q] \in Supers => sl[1 - q].gen <= sl[q].gen

\* The index in memory is the one a scan of the committed log would build.
IndexInv == pc \in OpenPCs => index = ScanIndex(log, mem.end)

\* Before the first flush nothing was committed.
UnbornInv ==
    ~born => /\ \A k \in Slots : \A s \in Surviving(k) : s.end = 0
             /\ pc \in OpenPCs => mem.end = 0
             /\ pc \notin {"super", "commit_sync"}

\* A write in progress has blocks to write, and is not acknowledged.
WritingInv ==
    /\ pc \in {"append", "data_sync", "super"} => Len(txn) > 0
    /\ pc \in {"append", "data_sync", "super", "commit_sync"} => ~acked

\* With the clean flag in use, a power loss leaves the slot that open would
\* adopt as it is.
Settled(k) == slotDur[k] = {slot[k]}
SettledInv ==
    born /\ "flag" \in Ops =>
        /\ pc \in OpenPCs \ {"commit_sync"} => Settled(active)
        /\ pc = "closed" => Settled(Recovered(slot, log))

RInv == IInv /\ SafeUse /\ IndexInv /\ UnbornInv /\ WritingInv /\ SettledInv

-----------------------------------------------------------------------------
(* Images of the disk and what they show *)

\* The scan of a log depends on its committed records alone.
LEMMA LogViewLocal ==
    ASSUME NEW n \in Nat, NEW f, NEW g, \A i \in 1 .. n : f[i] = g[i]
    PROVE  ScanIndex(f, n) = ScanIndex(g, n) /\ LogView(f, n) = LogView(g, n)
<1>1. \A b \in Blocks : RecordsOf(f, n, b) = RecordsOf(g, n, b)
  BY DEF RecordsOf
<1>2. ASSUME NEW b \in Blocks, RecordsOf(f, n, b) # {}
      PROVE  Latest(RecordsOf(f, n, b)) \in 1 .. n
  <2>1. RecordsOf(f, n, b) \subseteq 1 .. n
    BY DEF RecordsOf
  <2>2. QED
    BY <1>2, <2>1, LatestIsLargest
<1>3. ScanIndex(f, n) = ScanIndex(g, n)
  BY <1>1, <1>2 DEF ScanIndex
<1>4. ASSUME NEW b \in Blocks
      PROVE  ReadBlock(f, ScanIndex(f, n), b) = ReadBlock(g, ScanIndex(f, n), b)
  <2>1. CASE RecordsOf(f, n, b) = {}
    BY <2>1 DEF ReadBlock, ScanIndex
  <2>2. CASE RecordsOf(f, n, b) # {}
    <3>1. ScanIndex(f, n)[b].pos \in 1 .. n
      BY <1>2, <2>2 DEF ScanIndex
    <3>2. QED
      BY <3>1 DEF ReadBlock
  <2>3. QED
    BY <2>1, <2>2
<1>5. QED
  BY <1>3, <1>4 DEF LogView, View

\* Nothing is in an empty log.
LEMMA EmptyLogView ==
    ASSUME NEW f PROVE LogView(f, 0) = [b \in Blocks |-> NoVal]
<1>1. \A b \in Blocks : RecordsOf(f, 0, b) = {}
  BY DEF RecordsOf
<1>2. \A b \in Blocks : ScanIndex(f, 0)[b] = [pos |-> 0, gen |-> 0]
  BY <1>1 DEF ScanIndex
<1>3. QED
  BY <1>2 DEF LogView, View, ReadBlock

\* A superblock that survives commits records that a power loss leaves alone.
LEMMA SurvivorLog ==
    ASSUME IInv, NEW k \in Slots, NEW s \in Surviving(k)
    PROVE  /\ s \in Supers /\ s.end \in 0 .. MaxLog /\ ScanOK(log, s)
           /\ \A i \in 1 .. s.end : i \in Positions /\ logDur[i] = {log[i]}
<1>1. s \in Supers /\ s.end \in 0 .. MaxLog /\ MaxLog \in Nat
  BY BoundsAssumption DEF Surviving, Supers
<1>2. QED
  BY <1>1 DEF IInv, DataInv, DiskInv, SurvivorsScan, Positions

\* Such a superblock lies within Reach.
LEMMA SurvivorReach ==
    ASSUME IInv, NEW k \in Slots, NEW s \in Surviving(k)
    PROVE  Reach \in Nat /\ s.end <= Reach
<1> DEFINE E == {0} \cup UNION {{t.end : t \in slotDur[l] \cap Supers} : l \in Slots}
<1>1. \A e \in E : e \in 0 .. MaxLog
  BY BoundsAssumption DEF Supers
<1>2. s.end \in E
  BY DEF Surviving
<1> HIDE DEF E
<1>3. Latest(E) \in E /\ \A e \in E : e <= Latest(E)
  BY <1>1, <1>2, BoundsAssumption, LargestOfRange
<1>4. Reach = Latest(E)
  BY DEF Reach, E
<1>5. QED
  BY <1>1, <1>2, <1>3, <1>4, BoundsAssumption

\* In every image of the disk the committed logs are whole, so that a slot is
\* usable exactly if it holds a superblock.
LEMMA ImageUsable ==
    ASSUME IInv, NEW sl \in Images(slotDur, Slots), NEW lg \in Images(logDur, 1 .. Reach),
           NEW k \in Slots
    PROVE  /\ sl[k] \in slotDur[k]
           /\ Usable(sl, lg, k) <=> sl[k] \in Supers
           /\ sl[k] \in Supers => sl[k] \in Surviving(k) /\ \A i \in 1 .. sl[k].end : lg[i] = log[i]
<1>1. sl[k] \in slotDur[k]
  BY DEF Images
<1>2. ASSUME sl[k] \in Supers PROVE Usable(sl, lg, k) /\ \A i \in 1 .. sl[k].end : lg[i] = log[i]
  <2>1. sl[k] \in Surviving(k)
    BY <1>1, <1>2 DEF Surviving
  <2>2. /\ sl[k].end \in Nat /\ ScanOK(log, sl[k])
        /\ \A i \in 1 .. sl[k].end : logDur[i] = {log[i]}
    BY <2>1, SurvivorLog, BoundsAssumption
  <2>3. \A i \in 1 .. sl[k].end : i \in 1 .. Reach
    BY <2>1, <2>2, SurvivorReach
  <2>4. \A i \in 1 .. sl[k].end : lg[i] = log[i]
    BY <2>2, <2>3 DEF Images
  <2>5. QED
    BY <1>2, <2>2, <2>4 DEF Usable, ScanOK
<1>3. QED
  BY <1>1, <1>2 DEF Usable, Surviving

\* The same of the disk as shown under the image of the slots.
LEMMA ShownUsable ==
    ASSUME IInv, NEW sl \in Images(slotDur, Slots), NEW k \in Slots
    PROVE  Usable(sl, log, k) <=> sl[k] \in Supers
<1>1. sl[k] \in Supers => sl[k] \in Surviving(k)
  BY DEF Images, Surviving
<1>2. QED
  BY <1>1, SurvivorLog DEF Usable

\* open adopts the newest superblock of an image.
LEMMA NewestRecovered ==
    ASSUME IInv, NEW sl \in Images(slotDur, Slots), NEW lg,
           \A k \in Slots : Usable(sl, lg, k) <=> sl[k] \in Supers,
           NEW q \in Slots, Newest(sl, q)
    PROVE  Recovered(sl, lg) = q
<1>1. PICK r : r = Recovered(sl, lg)
  OBVIOUS
<1>2. r \in Slots /\ sl[r] \in Supers
      /\ (sl[1 - r] \in Supers /\ 1 - r \in Slots => Preferred(sl, r, 1 - r))
  BY <1>1, RecoveredIsPreferred DEF Newest
<1>3. ASSUME r # q PROVE FALSE
  <2>1. q = 1 - r /\ r = 1 - q
    BY <1>2, <1>3 DEF Slots
  <2>2. sl[r].gen \in Nat /\ sl[q].gen \in Nat /\ sl[r] \in Surviving(r) /\ sl[q] \in Surviving(q)
    BY <1>2 DEF Newest, Supers, Surviving, Images
  <2>3. sl[r].gen = sl[q].gen
    BY <1>2, <2>1, <2>2 DEF Newest, Preferred
  <2>4. sl[r].gen % 2 = 1 - r /\ sl[q].gen % 2 = 1 - q
    BY <1>2, <2>2 DEF IInv, DataInv, DiskInv, Parity
  <2>5. 1 - r = 1 - q
    BY <2>3, <2>4
  <2>6. QED
    BY <1>2, <1>3, <2>5 DEF Slots
<1>4. QED
  BY <1>1, <1>3

\* Once the file was flushed, every image has a newest superblock.
LEMMA NewestExists ==
    ASSUME IInv, SafeUse, born, NEW sl \in Images(slotDur, Slots)
    PROVE  \E q \in Slots : Newest(sl, q)
<1>1. PICK k \in Slots : sl[k] \in Supers
  BY DEF IInv, DataInv, AnchorInv, Anchored, Images
<1>2. 1 - k \in Slots /\ 1 - (1 - k) = k
  BY DEF Slots
<1>3. CASE sl[1 - k] \in Supers
  <2>1. sl[k].gen \in Nat /\ sl[1 - k].gen \in Nat
    BY <1>1, <1>3 DEF Supers
  <2>2. sl[1 - k].gen <= sl[k].gen \/ sl[k].gen <= sl[1 - k].gen
    BY <2>1
  <2>3. QED
    BY <1>1, <1>2, <1>3, <2>2 DEF Newest
<1>4. QED
  BY <1>1, <1>3 DEF Newest

\* The views a power loss could leave are those of the newest superblocks of
\* the images of the slots.
LEMMA MaybeViewsAre ==
    ASSUME IInv, SafeUse, born
    PROVE  /\ \A v \in MaybeViews : \E sl \in Images(slotDur, Slots), q \in Slots :
                  Newest(sl, q) /\ v = LogView(log, sl[q].end)
           /\ \A sl \in Images(slotDur, Slots), q \in Slots :
                  Newest(sl, q) => LogView(log, sl[q].end) \in MaybeViews
<1>1. ASSUME NEW sl \in Images(slotDur, Slots), NEW lg \in Images(logDur, 1 .. Reach),
             NEW q \in Slots, Newest(sl, q)
      PROVE  RecoveredView(sl, lg) = LogView(log, sl[q].end)
  <2>1. \A k \in Slots : Usable(sl, lg, k) <=> sl[k] \in Supers
    BY ImageUsable
  <2>2. Recovered(sl, lg) = q /\ q # NoSlot
    BY <1>1, <2>1, NewestRecovered DEF Slots, NoSlot
  <2>3. sl[q].end \in Nat /\ \A i \in 1 .. sl[q].end : lg[i] = log[i]
    BY <1>1, ImageUsable, SurvivorLog, BoundsAssumption DEF Newest
  <2>4. LogView(lg, sl[q].end) = LogView(log, sl[q].end)
    BY <2>3, LogViewLocal
  <2>5. QED
    BY <2>2, <2>4 DEF RecoveredView, LogView
<1>2. MaybeViews = {RecoveredView(sl, lg) :
                       sl \in Images(slotDur, Slots), lg \in Images(logDur, 1 .. Reach)}
  BY DEF MaybeViews
<1>3. ASSUME NEW v \in MaybeViews
      PROVE  \E sl \in Images(slotDur, Slots), q \in Slots :
                 Newest(sl, q) /\ v = LogView(log, sl[q].end)
  <2>1. PICK sl \in Images(slotDur, Slots), lg \in Images(logDur, 1 .. Reach) :
            v = RecoveredView(sl, lg)
    BY <1>2
  <2>2. PICK q \in Slots : Newest(sl, q)
    BY NewestExists
  <2>3. QED
    BY <1>1, <2>1, <2>2
<1>4. ASSUME NEW sl \in Images(slotDur, Slots), NEW q \in Slots, Newest(sl, q)
      PROVE  LogView(log, sl[q].end) \in MaybeViews
  <2>1. PICK lg : lg = [i \in 1 .. Reach |-> log[i]]
    OBVIOUS
  <2>2. Reach \in 0 .. MaxLog
    <3> DEFINE E == {0} \cup UNION {{t.end : t \in slotDur[l] \cap Supers} : l \in Slots}
    <3>1. \A e \in E : e \in 0 .. MaxLog
      BY BoundsAssumption DEF Supers
    <3>2. E # {}
      OBVIOUS
    <3> HIDE DEF E
    <3>3. Latest(E) \in E
      BY <3>1, <3>2, BoundsAssumption, LargestOfRange
    <3>4. Reach = Latest(E)
      BY DEF Reach, E
    <3>5. QED
      BY <3>1, <3>3, <3>4
  <2>3. \A i \in 1 .. Reach : log[i] \in logDur[i]
    BY <2>2, BoundsAssumption DEF IInv, DataInv, DiskInv, ShownMayStay, Positions
  <2>4. lg \in Images(logDur, 1 .. Reach)
    BY <2>1, <2>3 DEF Images
  <2>5. QED
    BY <1>1, <1>2, <1>4, <2>4
<1>5. QED
  BY <1>3, <1>4

\* A reader sees the newest superblock of the disk as it is.
LEMMA ShownIsNewest ==
    ASSUME RInv, born
    PROVE  /\ slot \in Images(slotDur, Slots)
           /\ \E q \in Slots : /\ Newest(slot, q)
                               /\ CurrentView = LogView(log, slot[q].end)
                               /\ pc \in OpenPCs => slot[q].end = mem.end
                               /\ pc = "closed" => q = Recovered(slot, log)
<1>1. slot \in Images(slotDur, Slots)
  BY DEF RInv, IInv, TypeOK, DataInv, DiskInv, ShownMayStay, Images
<1>2. PICK q \in Slots : Newest(slot, q)
  BY <1>1, NewestExists DEF RInv
<1>3. Recovered(slot, log) = q
  BY <1>1, <1>2, NewestRecovered, ShownUsable DEF RInv
<1>4. pc \notin CreatePCs
  BY DEF RInv, IInv, DataInv, CreateInv
<1>5. CASE pc = "closed"
  <2>1. CurrentView = LogView(log, slot[q].end)
    BY <1>3, <1>5 DEF CurrentView, RecoveredView, LogView, Slots, NoSlot
  <2>2. QED
    BY <1>1, <1>2, <1>3, <1>5, <2>1 DEF OpenPCs
<1>6. CASE pc \in OpenPCs
  <2>1. CurrentView = LogView(log, mem.end)
    BY <1>6 DEF CurrentView, LogView, OpenPCs, CreatePCs, RInv, IndexInv
  <2>2. active \in Slots /\ slot[active] = mem /\ mem \in Supers /\ 1 - active \in Slots
    BY <1>6 DEF RInv, IInv, DataInv, OpenInv, TypeOK, Slots
  <2>3. slot[q] \in Surviving(q) /\ slot[active] \in Surviving(active)
    BY <1>1, <1>2, <2>2 DEF Newest, Surviving, Images
  <2>4. CASE pc # "flag_sync"
    <3>1. NoneAbove(mem)
      BY <1>6, <2>2, <2>4, AboveIsAhead DEF RInv, IInv, DataInv, OpenInv, Supers
    <3>2. Recovered(slot, log) = active
      BY <2>2, <3>1, NewestIsRecovered DEF RInv, IInv, DataInv
    <3>3. QED
      BY <1>1, <1>2, <1>3, <1>6, <2>1, <2>2, <3>2 DEF OpenPCs
  <2>5. CASE pc = "flag_sync"
    <3>1. slot[1 - active] = FlagState(~mem.clean) /\ NoneAbove(FlagState(~mem.clean))
      BY <1>6, <2>5 DEF RInv, IInv, DataInv, OpenInv
    <3>2. FlagState(~mem.clean) \in Supers
      BY FlagStateType DEF RInv, IInv
    <3>3. Recovered(slot, log) = 1 - active
      BY <2>2, <3>1, <3>2, NewestIsRecovered DEF RInv, IInv, DataInv
    <3>4. slot[q].end = mem.end
      BY <1>3, <3>1, <3>3 DEF FlagState
    <3>5. QED
      BY <1>1, <1>2, <1>6, <2>1, <2>5, <3>4 DEF OpenPCs
  <2>6. QED
    BY <2>4, <2>5
<1>7. QED
  BY <1>4, <1>5, <1>6 DEF RInv, IInv, TypeOK, OpenPCs

\* What a reader sees may survive.
LEMMA ViewMayStay ==
    ASSUME RInv
    PROVE  CurrentView \in MaybeViews /\ (~born => MaybeViews = {CurrentView})
<1>1. CASE born
  BY <1>1, ShownIsNewest, MaybeViewsAre DEF RInv
<1>2. CASE ~born
  BY <1>2 DEF MaybeViews, CurrentView
<1>3. QED
  BY <1>1, <1>2

-----------------------------------------------------------------------------
(* The invariant *)

\* The largest element of a set of positions is what Latest returns.
LEMMA LatestIs ==
    ASSUME NEW n \in Nat, NEW P, P \subseteq 1 .. n, NEW m \in P, \A j \in P : j <= m
    PROVE  Latest(P) = m
<1>1. Latest(P) \in P /\ \A j \in P : j <= Latest(P)
  BY LatestIsLargest
<1>2. Latest(P) \in 1 .. n /\ m \in 1 .. n /\ Latest(P) <= m /\ m <= Latest(P)
  BY <1>1
<1>3. QED
  BY <1>1, <1>2

\* write_blocks enters into its index what a scan of the log would find.
LEMMA CommittedIndex ==
    ASSUME RInv, pc = "super"
    PROVE  IndexWithTxn = ScanIndex(log, mem.end + Len(txn))
<1> DEFINE n == mem.end + Len(txn)
<1>1. /\ mem.end \in Nat /\ Len(txn) \in Nat /\ n \in Nat
      /\ done = Len(txn) /\ txn \in Seq(Blocks \X Values)
  BY BoundsAssumption DEF RInv, IInv, TypeOK, CallShape, Supers
<1>2. \A j \in 1 .. Len(txn) : log[mem.end + j] = NewRecord(j)
  BY <1>1 DEF RInv, IInv, DataInv, TxnInv
<1>3. index = ScanIndex(log, mem.end)
  BY DEF RInv, IndexInv, OpenPCs, PCs, CreatePCs
<1>4. \A i, j \in 1 .. Len(txn) : txn[i][1] = txn[j][1] => i = j
  BY DEF RInv, IInv, DataInv, TxnInv
<1>5. \A j \in 1 .. Len(txn) : /\ log[mem.end + j].block = txn[j][1]
                               /\ log[mem.end + j].gen = index[txn[j][1]].gen + 1
  <2>1. \A j : NewRecord(j).block = txn[j][1] /\ NewRecord(j).gen = index[txn[j][1]].gen + 1
    BY DEF NewRecord
  <2>2. QED
    BY <1>2, <2>1
<1>6. ASSUME NEW b \in Blocks, NEW k \in 1 .. Len(txn), txn[k][1] = b
      PROVE  IndexWithTxn[b] = ScanIndex(log, n)[b]
  <2>1. IndexWithTxn[b] = [pos |-> mem.end + k, gen |-> index[b].gen + 1]
    <3>1. PICK c : c = CHOOSE i \in 1 .. Len(txn) : txn[i][1] = b
      OBVIOUS
    <3>2. c \in 1 .. Len(txn) /\ txn[c][1] = b
      BY <1>6, <3>1
    <3>3. c = k
      BY <1>4, <1>6, <3>2
    <3>4. QED
      BY <1>6, <3>1, <3>3 DEF IndexWithTxn
  <2>2. mem.end + k \in RecordsOf(log, n, b)
    BY <1>1, <1>5, <1>6 DEF RecordsOf
  <2>3. \A i \in RecordsOf(log, n, b) : i <= mem.end + k
    <3>1. SUFFICES ASSUME NEW i \in RecordsOf(log, n, b), i > mem.end PROVE i <= mem.end + k
      BY <1>1 DEF RecordsOf
    <3>2. i - mem.end \in 1 .. Len(txn) /\ mem.end + (i - mem.end) = i /\ log[i].block = b
      BY <1>1, <3>1 DEF RecordsOf
    <3>3. txn[i - mem.end][1] = b
      BY <1>5, <3>2
    <3>4. i - mem.end = k
      BY <1>4, <1>6, <3>2, <3>3
    <3>5. QED
      BY <1>1, <3>2, <3>4
  <2>4. Latest(RecordsOf(log, n, b)) = mem.end + k
    <3>1. RecordsOf(log, n, b) \subseteq 1 .. n
      BY DEF RecordsOf
    <3>2. QED
      BY <1>1, <2>2, <2>3, <3>1, LatestIs
  <2>5. ScanIndex(log, n)[b] = [pos |-> mem.end + k, gen |-> log[mem.end + k].gen]
    BY <2>2, <2>4 DEF ScanIndex
  <2>6. QED
    BY <1>5, <1>6, <2>1, <2>5
<1>7. ASSUME NEW b \in Blocks, ~ \E k \in 1 .. Len(txn) : txn[k][1] = b
      PROVE  IndexWithTxn[b] = ScanIndex(log, n)[b]
  <2>1. RecordsOf(log, n, b) = RecordsOf(log, mem.end, b)
    <3>1. ASSUME NEW i \in 1 .. n, log[i].block = b PROVE i \in 1 .. mem.end
      <4>1. SUFFICES ASSUME i > mem.end PROVE FALSE
        BY <1>1
      <4>2. i - mem.end \in 1 .. Len(txn) /\ mem.end + (i - mem.end) = i
        BY <1>1, <4>1
      <4>3. QED
        BY <1>5, <1>7, <3>1, <4>2
    <3>2. 1 .. mem.end \subseteq 1 .. n
      BY <1>1
    <3>3. QED
      BY <3>1, <3>2 DEF RecordsOf
  <2>2. QED
    BY <1>3, <1>7, <2>1 DEF IndexWithTxn, ScanIndex
<1>8. \A b \in Blocks : IndexWithTxn[b] = ScanIndex(log, n)[b]
  BY <1>6, <1>7
<1>9. QED
  BY <1>8 DEF IndexWithTxn, ScanIndex

\* The index stays right while the committed log does.
LEMMA IndexKept ==
    ASSUME RInv, pc \in OpenPCs, index' = index, mem'.end = mem.end,
           \A i \in 1 .. mem.end : log'[i] = log[i]
    PROVE  IndexInv'
<1>1. mem.end \in Nat
  BY BoundsAssumption DEF RInv, IInv, TypeOK, Supers
<1>2. ScanIndex(log', mem.end) = ScanIndex(log, mem.end)
  BY <1>1, LogViewLocal
<1>3. QED
  BY <1>2 DEF RInv, IndexInv

\* Every step keeps the index right.
LEMMA IndexStep == ASSUME RInv, SafeUse, [Next]_vars PROVE IndexInv'
<1>1. CASE Create
  <2>1. CASE CreateSync
    <3>1. index' = NoIndex /\ mem'.end = 0
      BY <2>1 DEF CreateSync, owner, RInv, IInv, DataInv, CreateInv, CreatePCs, Genesis
    <3>2. \A b \in Blocks : RecordsOf(log', 0, b) = {}
      BY DEF RecordsOf
    <3>3. ScanIndex(log', 0) = NoIndex
      BY <3>2 DEF ScanIndex, NoIndex
    <3>4. QED
      BY <3>1, <3>3 DEF IndexInv
  <2>2. CASE ~ CreateSync
    <3>1. pc' \in CreatePCs \cup {"closed"}
      BY <1>1, <2>2 DEF Create, CreateFile, CreateSlot, CreateFails, CreatePCs
    <3>2. QED
      BY <3>1 DEF IndexInv, OpenPCs
  <2>3. QED
    BY <2>1, <2>2
<1>2. CASE Open
  <2>1. PICK k : k = Recovered(slot, log)
    OBVIOUS
  <2>2. /\ k # NoSlot /\ mem' = slot[k] /\ index' = ScanIndex(log, slot[k].end)
        /\ log' = [i \in Positions |-> IF i > slot[k].end THEN NoRec ELSE log[i]]
    BY <1>2, <2>1 DEF Open
  <2>3. slot[k] \in Supers
    BY <2>1, <2>2, RecoveredRange DEF Usable
  <2>4. slot[k].end \in Nat /\ \A i \in 1 .. slot[k].end : log'[i] = log[i]
    BY <2>2, <2>3, BoundsAssumption DEF Supers, Positions
  <2>5. ScanIndex(log', slot[k].end) = ScanIndex(log, slot[k].end)
    BY <2>4, LogViewLocal
  <2>6. QED
    BY <2>2, <2>5 DEF IndexInv
<1>3. CASE AppendRecord \/ AppendFails
  <2>1. /\ pc = "append" /\ UNCHANGED owner /\ \E v : PutRecord(mem.end + done + 1, {v})
    BY <1>3 DEF AppendRecord, AppendFails, GiveUp, owner
  <2>2. mem.end \in Nat /\ mem.end <= MaxLog /\ done \in Nat /\ MaxLog \in Nat
    BY BoundsAssumption DEF RInv, IInv, TypeOK, Supers
  <2>3. \A i \in 1 .. mem.end : log'[i] = log[i]
    BY <2>1, <2>2 DEF PutRecord, RInv, IInv, TypeOK, Positions
  <2>4. QED
    BY <2>1, <2>3, IndexKept DEF owner, OpenPCs, PCs, CreatePCs
<1>4. CASE WriteSuper
  <2>1. /\ pc = "super" /\ index' = IndexWithTxn /\ mem' = NextState /\ log' = log
    BY <1>4 DEF WriteSuper
  <2>2. NextState.end = mem.end + Len(txn)
    BY DEF NextState
  <2>3. QED
    BY <2>1, <2>2, CommittedIndex DEF IndexInv
<1>5. CASE FlagSync
  <2>1. pc = "flag_sync" /\ index' = index /\ log' = log /\ mem'.end = mem.end
    BY <1>5 DEF FlagSync, Flush, FlagState
  <2>2. QED
    BY <2>1, IndexKept DEF OpenPCs, PCs, CreatePCs
<1>6. CASE OpenSyncFails \/ Drop \/ Kill \/ PowerLoss
  BY <1>6 DEF OpenSyncFails, Drop, Kill, PowerLoss, Forget, IndexInv, OpenPCs
<1>7. CASE \/ OpenSync \/ Sync \/ BeginWrite \/ SyncData \/ SyncDataFails \/ WriteSuperFails
           \/ CommitSync \/ CommitSyncFails \/ SetCleanState \/ SetCleanStateFails
           \/ FlagSyncFails \/ SetCleanStateKept
  <2>1. pc \in OpenPCs /\ UNCHANGED <<owner, log>>
    BY <1>7 DEF SetCleanStateKept, OpenSync, Sync, BeginWrite, SyncData, SyncDataFails, WriteSuperFails,
       CommitSync, CommitSyncFails, SetCleanState, SetCleanStateFails, FlagSyncFails,
       Flush, FlushFails, GiveUp, MayFlag, disk, OpenPCs, PCs, CreatePCs
  <2>2. QED
    BY <2>1, IndexKept DEF owner
<1>8. CASE UNCHANGED vars
  BY <1>8 DEF vars, disk, owner, RInv, IndexInv
<1>9. QED
  BY <1>1, <1>2, <1>3, <1>4, <1>5, <1>6, <1>7, <1>8 DEF Next, Write, Flag

\* Nothing is committed before the first flush.
LEMMA UnbornStep == ASSUME RInv, SafeUse, [Next]_vars PROVE UnbornInv'
<1>1. SUFFICES ASSUME ~born' PROVE UnbornInv'
  BY DEF UnbornInv
<1>2. CASE born
  <2>1. born' = born
    BY <1>2 DEF Next, Create, CreateFile, CreateSlot, CreateSync, CreateFails, Open,
       OpenSync, OpenSyncFails, Write, BeginWrite, AppendRecord, AppendFails, SyncData,
       SyncDataFails, WriteSuper, WriteSuperFails, CommitSync, CommitSyncFails, Flag,
       SetCleanStateKept, SetCleanState, SetCleanStateFails, FlagSync, FlagSyncFails, Sync,
       Drop, Kill, PowerLoss, Flush, FlushFails, disk, history, vars
  <2>2. QED
    BY <1>1, <1>2, <2>1
<1>3. CASE ~born
  <2>1. /\ \A k \in Slots : \A s \in Surviving(k) : s.end = 0
        /\ pc \in OpenPCs => mem.end = 0
        /\ pc \notin {"super", "commit_sync"}
    BY <1>3 DEF RInv, UnbornInv
  <2>2. CASE Create
    <3>1. CASE CreateSlot(0, "create_a", "create_b") \/ CreateSlot(1, "create_b", "create_sync")
      <4>1. PICK k \in Slots : PutSlot(k, {Genesis(1 - k)})
        BY <3>1 DEF CreateSlot, Slots
      <4>2. \A l \in Slots : slotDur'[l] \subseteq slotDur[l] \cup {Genesis(1 - k), Torn}
        BY <4>1 DEF PutSlot, RInv, IInv, TypeOK
      <4>3. \A l \in Slots : \A s \in Surviving(l)' : s.end = 0
        BY <2>1, <4>2, NamesAssumption DEF Surviving, Genesis
      <4>4. pc' \in CreatePCs
        BY <3>1 DEF CreateSlot, CreatePCs
      <4>5. QED
        BY <4>3, <4>4 DEF UnbornInv, OpenPCs, CreatePCs
    <3>2. CASE CreateFile \/ CreateFails
      <4>1. slotDur' = slotDur /\ pc' \in {"create_a", "closed"}
        BY <3>2 DEF CreateFile, CreateFails, disk
      <4>2. QED
        BY <2>1, <4>1 DEF UnbornInv, Surviving, OpenPCs, CreatePCs
    <3>3. QED
      BY <1>1, <2>2, <3>1, <3>2 DEF Create, CreateSync, Flush
  <2>3. CASE Open
    <3>1. PICK k : k = Recovered(slot, log)
      OBVIOUS
    <3>2. k # NoSlot /\ mem' = slot[k] /\ slotDur' = slotDur /\ pc' \in {"open_sync", "ready"}
      BY <2>3, <3>1 DEF Open
    <3>3. k \in Slots /\ slot[k] \in Surviving(k)
      BY <3>1, <3>2, RecoveredRange DEF Usable, Surviving, RInv, IInv, DataInv, DiskInv, ShownMayStay
    <3>4. QED
      BY <2>1, <3>2, <3>3 DEF UnbornInv, Surviving
  <2>4. CASE OpenSyncFails \/ Drop \/ Kill
    <3>1. pc' = "closed" /\ slotDur' = slotDur
      BY <2>4 DEF OpenSyncFails, FlushFails, Drop, Kill, Forget, disk
    <3>2. QED
      BY <2>1, <3>1 DEF UnbornInv, Surviving, OpenPCs
  <2>5. CASE PowerLoss
    <3>1. pc' = "closed" /\ \A k \in Slots : slotDur'[k] \subseteq slotDur[k]
      BY <2>5 DEF PowerLoss, Images, Forget
    <3>2. QED
      BY <2>1, <3>1 DEF UnbornInv, Surviving, OpenPCs
  <2>6. CASE \/ BeginWrite \/ AppendRecord \/ AppendFails \/ SyncDataFails \/ FlagSyncFails
             \/ SetCleanStateKept
    <3>1. /\ pc \in OpenPCs /\ pc' \notin {"super", "commit_sync"}
          /\ UNCHANGED <<slotDur, mem>>
      BY <2>6 DEF BeginWrite, AppendRecord, AppendFails, SyncDataFails, FlagSyncFails,
         SetCleanStateKept, FlushFails, GiveUp, disk, owner, OpenPCs, PCs, CreatePCs
    <3>2. QED
      BY <2>1, <3>1 DEF UnbornInv, Surviving
  <2>7. CASE SetCleanState \/ SetCleanStateFails
    <3>1. pc = "ready" /\ pc' \in {"ready", "flag_sync"} /\ mem' = mem
      BY <2>7 DEF SetCleanState, SetCleanStateFails, MayFlag, owner
    <3>2. mem.end = 0 /\ FlagState(~mem.clean).end = 0 /\ 1 - active \in Slots
      BY <2>1, <3>1 DEF FlagState, OpenPCs, PCs, CreatePCs, RInv, IInv, TypeOK, Slots
    <3>3. slot[1 - active] \in slotDur[1 - active]
      BY <3>2 DEF RInv, IInv, DataInv, DiskInv, ShownMayStay
    <3>4. \A l \in Slots : slotDur'[l] \subseteq slotDur[l] \cup {FlagState(~mem.clean), Torn}
      <4>1. \E v \in {FlagState(~mem.clean), slot[1 - active], Torn} :
                slotDur' = [slotDur EXCEPT ![1 - active] = @ \cup {v, Torn}]
        BY <2>7 DEF SetCleanState, SetCleanStateFails, SuperFails, PutSlot
      <4>2. QED
        BY <3>2, <3>3, <4>1 DEF RInv, IInv, TypeOK
    <3>5. \A l \in Slots : \A s \in Surviving(l)' : s.end = 0
      BY <2>1, <3>2, <3>4, NamesAssumption DEF Surviving
    <3>6. QED
      BY <3>1, <3>2, <3>5 DEF UnbornInv
  <2>8. CASE OpenSync \/ SyncData \/ CommitSync \/ FlagSync \/ Sync
    BY <1>1, <2>8 DEF OpenSync, SyncData, CommitSync, FlagSync, Sync, Flush
  <2>9. CASE WriteSuper \/ WriteSuperFails \/ CommitSyncFails
    BY <2>1, <2>9 DEF WriteSuper, WriteSuperFails, CommitSyncFails
  <2>10. CASE UNCHANGED vars
    BY <2>1, <2>10 DEF vars, disk, owner, UnbornInv, Surviving
  <2>11. QED
    BY <2>2, <2>3, <2>4, <2>5, <2>6, <2>7, <2>8, <2>9, <2>10 DEF Next, Write, Flag
<1>4. QED
  BY <1>2, <1>3

\* Every step keeps what is said of a write in progress.
LEMMA WritingStep == ASSUME RInv, [Next]_vars PROVE WritingInv'
<1>1. CASE BeginWrite
  <2>1. txn' \in ValidTxns /\ ~acked'
    BY <1>1 DEF BeginWrite
  <2>2. Len(txn') > 0
    BY <2>1, BoundsAssumption DEF ValidTxns
  <2>3. QED
    BY <2>1, <2>2 DEF WritingInv
<1>2. CASE Write /\ ~BeginWrite
  BY <1>2 DEF Write, AppendRecord, AppendFails, SyncData, SyncDataFails, WriteSuper,
     WriteSuperFails, CommitSync, CommitSyncFails, GiveUp, call, history, RInv, WritingInv
<1>3. CASE Create \/ Open \/ OpenSync \/ OpenSyncFails \/ Flag \/ Sync \/ Drop \/ Kill \/ PowerLoss
  <2>1. pc' \notin {"append", "data_sync", "super", "commit_sync"}
    BY <1>3 DEF Create, CreateFile, CreateSlot, CreateSync, CreateFails, Open, OpenSync,
       OpenSyncFails, Flag, SetCleanStateKept, SetCleanState, SetCleanStateFails, MayFlag,
       FlagSync, FlagSyncFails, Sync, Drop, Kill, PowerLoss, Forget
  <2>2. QED
    BY <2>1 DEF WritingInv
<1>4. CASE UNCHANGED vars
  BY <1>4 DEF vars, call, history, RInv, WritingInv
<1>5. QED
  BY <1>1, <1>2, <1>3, <1>4 DEF Next

\* Every step keeps the slot that open would adopt settled.
LEMMA SettledStep == ASSUME RInv, IInv', SafeUse, [Next]_vars PROVE SettledInv'
<1>1. SUFFICES ASSUME born', "flag" \in Ops
               PROVE  /\ pc' \in OpenPCs \ {"commit_sync"} => Settled(active)'
                      /\ pc' = "closed" => Settled(Recovered(slot, log))'
  BY DEF SettledInv
<1>2. Faults \cap {"kill", "commit_sync", "flag_sync", "super_landed"} = {}
  BY <1>1 DEF SafeUse, InStep, Unflushed
<1>3. active \in Slots /\ active' \in Slots /\ 1 - active \in Slots
  BY DEF RInv, IInv, TypeOK, Slots
<1>4. CASE Flush /\ pc' # "closed"
  BY <1>3, <1>4 DEF Flush, Settled
<1>5. CASE PowerLoss
  <2>1. pc' = "closed" /\ \A k \in Slots : slotDur'[k] = {slot'[k]}
    BY <1>5 DEF PowerLoss, Forget
  <2>2. Recovered(slot', log') \in Slots
    BY <1>1, <2>1, RecoveredRange DEF IInv, DataInv, AnchorInv
  <2>3. QED
    BY <2>1, <2>2 DEF Settled, OpenPCs
<1>6. CASE Open
  <2>1. /\ pc = "closed" /\ active' = Recovered(slot, log)
        /\ UNCHANGED <<slot, slotDur, born>> /\ pc' # "closed"
    BY <1>6 DEF Open, history
  <2>2. QED
    BY <1>1, <2>1 DEF RInv, SettledInv, Settled
<1>7. CASE OpenSyncFails \/ Drop
  <2>1. /\ pc \in {"open_sync", "ready"} /\ pc' = "closed"
        /\ UNCHANGED <<slot, slotDur, log, born>>
    BY <1>7 DEF OpenSyncFails, FlushFails, Drop, Forget, disk, history
  <2>2. slot[active] = mem /\ NoneAbove(mem) /\ mem \in Supers
    <3>1. slot[active] = mem /\ NoneAhead(mem) /\ mem \in Supers
      BY <2>1 DEF RInv, IInv, TypeOK, DataInv, OpenInv, OpenPCs, PCs, CreatePCs
    <3>2. QED
      BY <3>1, AboveIsAhead DEF Supers
  <2>3. Recovered(slot, log) = active
    BY <1>3, <2>2, NewestIsRecovered DEF RInv, IInv, DataInv
  <2>4. Settled(active)
    BY <1>1, <2>1 DEF RInv, SettledInv, OpenPCs, PCs, CreatePCs
  <2>5. QED
    BY <2>1, <2>3, <2>4 DEF Settled, OpenPCs
<1>8. CASE BeginWrite \/ AppendRecord \/ AppendFails \/ SyncDataFails \/ SetCleanStateKept
  <2>1. /\ pc \in OpenPCs \ {"commit_sync"} /\ pc' # "closed"
        /\ UNCHANGED <<slot, slotDur, active, born>>
    BY <1>8 DEF BeginWrite, AppendRecord, AppendFails, SyncDataFails, FlushFails, GiveUp,
       SetCleanStateKept, disk, owner, history, OpenPCs, PCs, CreatePCs
  <2>2. QED
    BY <1>1, <2>1 DEF RInv, SettledInv, Settled
<1>9. CASE WriteSuperFails \/ SetCleanState \/ SetCleanStateFails
  <2>1. /\ pc \in OpenPCs \ {"commit_sync"} /\ pc' # "closed"
        /\ UNCHANGED <<active, born>>
    BY <1>9 DEF WriteSuperFails, SetCleanState, SetCleanStateFails, MayFlag, GiveUp,
       owner, OpenPCs, PCs, CreatePCs
  <2>2. \E S : PutSlot(1 - active, S)
    BY <1>2, <1>9 DEF WriteSuperFails, SetCleanState, SetCleanStateFails, SuperFails
  <2>3. slot'[active] = slot[active] /\ slotDur'[active] = slotDur[active]
    BY <1>3, <2>2 DEF PutSlot, RInv, IInv, TypeOK, Slots
  <2>4. QED
    BY <1>1, <2>1, <2>3 DEF RInv, SettledInv, Settled
<1>10. CASE WriteSuper
  BY <1>10 DEF WriteSuper
<1>11. CASE UNCHANGED vars
  BY <1>1, <1>11 DEF vars, disk, owner, history, RInv, SettledInv, Settled
<1>12. CASE CreateFile \/ CreateSlot(0, "create_a", "create_b") \/ CreateSlot(1, "create_b", "create_sync") \/ CreateFails \/ Kill
            \/ CommitSyncFails \/ FlagSyncFails
  <2>1. CASE CreateFile \/ CreateSlot(0, "create_a", "create_b") \/ CreateSlot(1, "create_b", "create_sync") \/ CreateFails
    <3>1. pc \in CreatePCs /\ born' = born
      BY <2>1 DEF CreateFile, CreateSlot, CreateFails, Creating, history, CreatePCs
    <3>2. QED
      BY <1>1, <3>1 DEF RInv, IInv, DataInv, CreateInv
  <2>2. QED
    BY <1>2, <1>12, <2>1 DEF Kill, CommitSyncFails, FlagSyncFails
<1>13. CASE CreateSync \/ OpenSync \/ Sync \/ SyncData \/ CommitSync \/ FlagSync
  <2>1. Flush /\ pc' # "closed"
    BY <1>13 DEF CreateSync, OpenSync, Sync, SyncData, CommitSync, FlagSync, GiveUp
  <2>2. QED
    BY <1>4, <2>1
<1>14. QED
  BY <1>5, <1>6, <1>7, <1>8, <1>9, <1>10, <1>11, <1>12, <1>13 DEF Next, Create, Write, Flag

\* The invariant holds at the start and after every step.
LEMMA RInvInit == ASSUME SafeUse PROVE Init => RInv
<1> SUFFICES ASSUME Init PROVE RInv
  OBVIOUS
<1>1. IInv
  BY IInvInit
<1>2. IndexInv /\ WritingInv /\ SettledInv
  BY DEF Init, IndexInv, WritingInv, SettledInv, OpenPCs, CreatePCs
<1>3. \A k \in Slots : Surviving(k) = {}
  BY NamesAssumption DEF Init, Surviving
<1>4. UnbornInv
  BY <1>3 DEF Init, UnbornInv, OpenPCs, CreatePCs
<1>5. QED
  BY <1>1, <1>2, <1>4 DEF RInv

\* Every step keeps the invariant the refinement rests on.
LEMMA RInvStep == ASSUME RInv, SafeUse, [Next]_vars PROVE RInv'
<1>1. IInv'
  BY IInvStep DEF RInv, SafeUse
<1>2. QED
  BY <1>1, IndexStep, UnbornStep, WritingStep, SettledStep DEF RInv

-----------------------------------------------------------------------------
(* What a step does to the views *)

\* What the lemmas on images say, for use before and after a step.
MaybeShape ==
    born =>
        /\ \A v \in MaybeViews : \E sl \in Images(slotDur, Slots), q \in Slots :
               Newest(sl, q) /\ v = LogView(log, sl[q].end)
        /\ \A sl \in Images(slotDur, Slots), q \in Slots :
               Newest(sl, q) => LogView(log, sl[q].end) \in MaybeViews

CurrentShape ==
    born =>
        /\ slot \in Images(slotDur, Slots)
        /\ \E q \in Slots : Newest(slot, q)
        /\ \A q \in Slots : Newest(slot, q) =>
               /\ CurrentView = LogView(log, slot[q].end)
               /\ pc \in OpenPCs => slot[q].end = mem.end

UnbornShape ==
    ~born => CurrentView = [b \in Blocks |-> NoVal] /\ MaybeViews = {CurrentView}

FlushedShape ==
    born /\ (\A k \in Slots : slotDur[k] = {slot[k]}) => MaybeViews = {CurrentView}

Shapes == MaybeShape /\ CurrentShape /\ UnbornShape /\ FlushedShape /\ CurrentView \in MaybeViews

\* The invariant of the refinement gives the shapes of headers, slots and records.
LEMMA ShapesHold == RInv => Shapes
<1> SUFFICES ASSUME RInv PROVE Shapes
  OBVIOUS
<1>1. MaybeShape
  BY MaybeViewsAre DEF MaybeShape, RInv
<1>2. CurrentShape
  <2> SUFFICES ASSUME born
               PROVE  /\ slot \in Images(slotDur, Slots)
                      /\ \E q \in Slots : Newest(slot, q)
                      /\ \A q \in Slots : Newest(slot, q) =>
                             /\ CurrentView = LogView(log, slot[q].end)
                             /\ pc \in OpenPCs => slot[q].end = mem.end
    BY DEF CurrentShape
  <2>1. slot \in Images(slotDur, Slots)
    BY ShownIsNewest
  <2>2. PICK p \in Slots : /\ Newest(slot, p)
                           /\ CurrentView = LogView(log, slot[p].end)
                           /\ pc \in OpenPCs => slot[p].end = mem.end
    BY ShownIsNewest
  <2>3. \A q \in Slots : Newest(slot, q) => q = Recovered(slot, log)
    BY <2>1, NewestRecovered, ShownUsable DEF RInv
  <2>4. \A q \in Slots : Newest(slot, q) => q = p
    BY <2>2, <2>3
  <2>5. QED
    BY <2>1, <2>2, <2>4
<1>3. UnbornShape
  BY ViewMayStay DEF UnbornShape, CurrentView
<1>4. FlushedShape
  <2> SUFFICES ASSUME born, \A k \in Slots : slotDur[k] = {slot[k]},
                      NEW v \in MaybeViews
               PROVE  v = CurrentView
    BY ViewMayStay DEF FlushedShape
  <2>1. PICK sl \in Images(slotDur, Slots), q \in Slots :
            Newest(sl, q) /\ v = LogView(log, sl[q].end)
    BY <1>1 DEF MaybeShape
  <2>2. \A k \in Slots : sl[k] = slot[k]
    BY DEF Images
  <2>3. Newest(slot, q) /\ sl[q] = slot[q]
    BY <2>1, <2>2 DEF Newest, Slots
  <2>4. QED
    BY <1>2, <2>1, <2>3 DEF CurrentShape
<1>5. QED
  BY <1>1, <1>2, <1>3, <1>4, ViewMayStay DEF Shapes

\* The same after a step.
LEMMA ShapesHoldNext == RInv' => Shapes'
BY ShapesHold, PTL

\* A step that leaves the slots and every committed record alone changes no view.
LEMMA ViewsKept ==
    ASSUME RInv, RInv', UNCHANGED <<slot, slotDur, born>>,
           \A k \in Slots : \A s \in Surviving(k) : \A i \in 1 .. s.end : log'[i] = log[i]
    PROVE  CurrentView' = CurrentView /\ MaybeViews' = MaybeViews
<1>1. Shapes /\ Shapes'
  BY ShapesHold, ShapesHoldNext
<1>2. CASE born
  <2>1. ASSUME NEW sl \in Images(slotDur, Slots), NEW q \in Slots, Newest(sl, q)
        PROVE  LogView(log', sl[q].end) = LogView(log, sl[q].end)
    <3>1. sl[q] \in Surviving(q)
      BY <2>1 DEF Images, Newest, Surviving
    <3>2. sl[q].end \in Nat /\ \A i \in 1 .. sl[q].end : log'[i] = log[i]
      BY <3>1, SurvivorLog, BoundsAssumption DEF RInv
    <3>3. QED
      BY <3>2, LogViewLocal
  <2>2. PICK q \in Slots : Newest(slot, q)
    BY <1>1, <1>2 DEF Shapes, CurrentShape
  <2>3. slot \in Images(slotDur, Slots) /\ CurrentView = LogView(log, slot[q].end)
    BY <1>1, <1>2, <2>2 DEF Shapes, CurrentShape
  <2>4. CurrentView' = LogView(log', slot[q].end)
    BY <1>1, <1>2, <2>2 DEF Shapes, CurrentShape
  <2>5. \A v \in MaybeViews' : v \in MaybeViews
    <3> SUFFICES ASSUME NEW v \in MaybeViews' PROVE v \in MaybeViews
      OBVIOUS
    <3>1. PICK sl \in Images(slotDur, Slots), p \in Slots :
              Newest(sl, p) /\ v = LogView(log', sl[p].end)
      BY <1>1, <1>2 DEF Shapes, MaybeShape
    <3>2. v = LogView(log, sl[p].end)
      BY <2>1, <3>1
    <3>3. QED
      BY <1>1, <1>2, <3>1, <3>2 DEF Shapes, MaybeShape
  <2>6. \A v \in MaybeViews : v \in MaybeViews'
    <3> SUFFICES ASSUME NEW v \in MaybeViews PROVE v \in MaybeViews'
      OBVIOUS
    <3>1. PICK sl \in Images(slotDur, Slots), p \in Slots :
              Newest(sl, p) /\ v = LogView(log, sl[p].end)
      BY <1>1, <1>2 DEF Shapes, MaybeShape
    <3>2. v = LogView(log', sl[p].end)
      BY <2>1, <3>1
    <3>3. QED
      BY <1>1, <1>2, <3>1, <3>2 DEF Shapes, MaybeShape
  <2>7. QED
    BY <2>1, <2>2, <2>3, <2>4, <2>5, <2>6
<1>3. CASE ~born
  BY <1>1, <1>3 DEF Shapes, UnbornShape
<1>4. QED
  BY <1>2, <1>3

\* A flush leaves the current view as the only one.
LEMMA FlushHardens ==
    ASSUME RInv, RInv', Flush, pc \in OpenPCs \cup {"create_sync"}, pc' \in OpenPCs,
           mem'.end = mem.end
    PROVE  CurrentView' = CurrentView /\ MaybeViews' = {CurrentView}
<1>1. Shapes /\ Shapes'
  BY ShapesHold, ShapesHoldNext
<1>2. born' /\ log' = log /\ slot' = slot /\ \A k \in Slots : slotDur'[k] = {slot'[k]}
  BY DEF Flush
<1>3. MaybeViews' = {CurrentView'}
  BY <1>1, <1>2 DEF Shapes, FlushedShape
<1>4. CurrentView' = LogView(log, mem.end)
  <2>1. PICK q \in Slots : Newest(slot', q)
    BY <1>1, <1>2 DEF Shapes, CurrentShape
  <2>2. CurrentView' = LogView(log', slot'[q].end) /\ slot'[q].end = mem'.end
    BY <1>1, <1>2, <2>1 DEF Shapes, CurrentShape
  <2>3. QED
    BY <1>2, <2>2
<1>5. CASE born
  <2>1. pc \in OpenPCs
    BY <1>5 DEF RInv, IInv, DataInv, CreateInv, CreatePCs
  <2>2. CurrentView = LogView(log, mem.end)
    BY <1>1, <1>5, <2>1 DEF Shapes, CurrentShape
  <2>3. QED
    BY <1>3, <1>4, <2>2
<1>6. CASE ~born
  <2>1. mem.end = 0
    BY <1>6 DEF RInv, UnbornInv, IInv, DataInv, CreateInv, CreatePCs, Genesis
  <2>2. QED
    BY <1>1, <1>3, <1>4, <1>6, <2>1, EmptyLogView DEF Shapes, UnbornShape
<1>7. QED
  BY <1>5, <1>6

\* A write to the other slot that changes no end but to the current one, over
\* an active slot that is settled, adds no view.
LEMMA OtherSlotKeeps ==
    ASSUME RInv, RInv', UNCHANGED <<log, mem, active, born>>,
           pc \in OpenPCs, pc' \in OpenPCs,
           born => Settled(active) /\ slot[active] = mem,
           slotDur'[active] = slotDur[active],
           \A x \in slotDur'[1 - active] :
               x \in slotDur[1 - active] \/ x = Torn \/ x.end = mem.end
    PROVE  CurrentView' = CurrentView /\ MaybeViews' \subseteq MaybeViews \cup {CurrentView}
<1>1. Shapes /\ Shapes'
  BY ShapesHold, ShapesHoldNext
<1>2. active \in Slots /\ Slots = {active, 1 - active}
  BY DEF RInv, IInv, TypeOK, Slots
<1>3. CASE born
  <2>1. CurrentView = LogView(log, mem.end) /\ CurrentView' = LogView(log, mem.end)
    BY <1>1, <1>3 DEF Shapes, CurrentShape
  <2>2. ASSUME NEW v \in MaybeViews' PROVE v \in MaybeViews \cup {CurrentView}
    <3>1. PICK sl \in Images(slotDur', Slots), q \in Slots :
              Newest(sl, q) /\ v = LogView(log, sl[q].end)
      BY <1>1, <1>3, <2>2 DEF Shapes, MaybeShape
    <3>2. sl[active] = mem /\ sl[1 - active] \in slotDur'[1 - active]
      BY <1>2, <1>3 DEF Images, Settled
    <3>3. CASE sl[q].end = mem.end
      BY <2>1, <3>1, <3>3
    <3>4. CASE sl[q].end # mem.end
      <4>1. q = 1 - active
        BY <1>2, <3>2, <3>4
      <4>2. sl[1 - active] \in slotDur[1 - active]
        BY <3>1, <3>2, <3>4, <4>1, NamesAssumption DEF Newest
      <4>3. sl[active] \in slotDur[active]
        BY <1>2 DEF Images
      <4>4. sl \in Images(slotDur, Slots)
        <5>1. sl = [k \in Slots |-> sl[k]]
          BY DEF Images
        <5>2. \A k \in Slots : sl[k] \in slotDur[k]
          BY <1>2, <4>2, <4>3
        <5>3. QED
          BY <5>1, <5>2 DEF Images
      <4>5. QED
        BY <1>1, <1>3, <3>1, <4>4 DEF Shapes, MaybeShape
    <3>5. QED
      BY <3>3, <3>4
  <2>3. QED
    BY <2>1, <2>2
<1>4. CASE ~born
  BY <1>1, <1>4 DEF Shapes, UnbornShape
<1>5. QED
  BY <1>3, <1>4

-----------------------------------------------------------------------------
(* Every step is one of the abstract store *)

Quiet == UNCHANGED <<CurrentView, MaybeViews, acked, unsure>>
Hardens ==
    /\ UNCHANGED <<acked, unsure, CurrentView>>
    /\ MaybeViews' \subseteq MaybeViews \cup {CurrentView}
    /\ CurrentView \in MaybeViews'

\* A successful write_superblock is a commit of the whole transaction.
LEMMA CommitIsCommit == ASSUME RInv, RInv', WriteSuper PROVE Store!Commit
<1>1. Shapes /\ Shapes'
  BY ShapesHold, ShapesHoldNext
<1>2. /\ pc = "super" /\ pc' = "commit_sync" /\ log' = log /\ mem' = NextState
      /\ index' = IndexWithTxn /\ PutSlot(1 - active, {NextState})
      /\ UNCHANGED <<acked, unsure, born, txn>>
  BY DEF WriteSuper, call
<1>3. born /\ ~acked /\ Len(txn) > 0
  BY <1>2 DEF RInv, UnbornInv, WritingInv
<1>4. /\ active \in Slots /\ Slots = {active, 1 - active} /\ 1 - active \in Slots
      /\ slot[active] = mem /\ mem \in Supers /\ NoneAhead(mem)
      /\ \A k \in Slots : slotDur[k] = {slot[k]}
  BY <1>2 DEF RInv, IInv, TypeOK, DataInv, OpenInv, TxnInv, Slots, OpenPCs, PCs, CreatePCs
<1>5. /\ CurrentView = View(log, index) /\ CurrentView = LogView(log, mem.end)
      /\ CurrentView' = View(log, IndexWithTxn) /\ CurrentView' = LogView(log, NextState.end)
  BY <1>1, <1>2, <1>3 DEF Shapes, CurrentShape, CurrentView, OpenPCs, PCs, CreatePCs
<1>6. /\ mem.end \in Nat /\ Len(txn) \in Nat /\ txn \in Seq(Blocks \X Values) /\ done = Len(txn)
      /\ NextState.end = mem.end + Len(txn)
      /\ index \in [Blocks -> [pos : 0 .. MaxLog, gen : Nat]]
  BY <1>2, BoundsAssumption DEF RInv, IInv, TypeOK, CallShape, Supers, NextState
<1>7. \A j \in 1 .. Len(txn) : /\ log[mem.end + j] = NewRecord(j)
                               /\ log[mem.end + j] \in Records
  <2>1. \A j \in 1 .. Len(txn) : log[mem.end + j] = NewRecord(j)
    BY <1>2, <1>6 DEF RInv, IInv, DataInv, TxnInv
  <2>2. ScanOK(log, NextState)
    BY <1>2, NextStateScans DEF RInv
  <2>3. \A j \in 1 .. Len(txn) : mem.end + j \in 1 .. NextState.end
    BY <1>6
  <2>4. QED
    BY <2>1, <2>2, <2>3 DEF ScanOK
<1>7a. \A k \in 1 .. Len(txn) : txn[k][1] \in Blocks /\ txn[k][2] \in Values
  <2>1. \A k \in 1 .. Len(txn) : txn[k] \in Blocks \X Values
    BY <1>6
  <2>2. QED
    BY <2>1
<1> DEFINE B == {txn[k][1] : k \in 1 .. Len(txn)}
           t == [b \in B |-> txn[CHOOSE k \in 1 .. Len(txn) : txn[k][1] = b][2]]
<1>8. t \in Store!Transactions
  <2>1. B \in SUBSET Blocks /\ B # {}
    <3>1. 1 \in 1 .. Len(txn)
      BY <1>3, <1>6
    <3>2. QED
      BY <1>7a, <3>1
  <2>2. \A b \in B : t[b] \in Values
    <3>1. SUFFICES ASSUME NEW b \in B,
                          NEW c, c = CHOOSE k \in 1 .. Len(txn) : txn[k][1] = b
                   PROVE  txn[c][2] \in Values
      OBVIOUS
    <3>2. c \in 1 .. Len(txn)
      BY <3>1
    <3>3. QED
      BY <1>7a, <3>2
  <2>3. t \in [B -> Values]
    BY <2>2
  <2>4. QED
    BY <2>1, <2>3 DEF Store!Transactions
<1>9. CurrentView' = Store!Apply(CurrentView, t)
  <2>1. ASSUME NEW b \in B
        PROVE  ReadBlock(log, IndexWithTxn, b) = t[b]
    <3>1. PICK c : c = CHOOSE k \in 1 .. Len(txn) : txn[k][1] = b
      OBVIOUS
    <3>2. c \in 1 .. Len(txn) /\ txn[c][1] = b /\ b \in Blocks /\ mem.end + c # 0
      <4>1. \E k \in 1 .. Len(txn) : txn[k][1] = b
        OBVIOUS
      <4>2. c \in 1 .. Len(txn) /\ txn[c][1] = b
        BY <3>1, <4>1
      <4>3. QED
        BY <1>6, <1>7a, <4>2
    <3>3. IndexWithTxn[b] = [pos |-> mem.end + c, gen |-> index[b].gen + 1]
      BY <3>1, <3>2 DEF IndexWithTxn
    <3>4. log[mem.end + c] = [block |-> b, gen |-> index[b].gen + 1, val |-> txn[c][2]]
      BY <1>7, <3>2 DEF NewRecord
    <3>5. t[b] = txn[c][2]
      BY <3>1
    <3>6. QED
      BY <1>7, <3>2, <3>3, <3>4, <3>5 DEF ReadBlock
  <2>2. ASSUME NEW b \in Blocks \ B
        PROVE  ReadBlock(log, IndexWithTxn, b) = ReadBlock(log, index, b)
    <3>1. IndexWithTxn[b] = index[b]
      BY <2>2 DEF IndexWithTxn
    <3>2. QED
      BY <3>1 DEF ReadBlock
  <2>3. \A b \in Blocks : View(log, IndexWithTxn)[b] = IF b \in B THEN t[b] ELSE View(log, index)[b]
    BY <2>1, <2>2 DEF View
  <2>4. DOMAIN t = B
    OBVIOUS
  <2> HIDE DEF t, B
  <2>5. View(log, IndexWithTxn) =
            [b \in Blocks |-> IF b \in B THEN t[b] ELSE View(log, index)[b]]
    BY <2>3 DEF View
  <2>6. QED
    BY <1>5, <2>4, <2>5 DEF Store!Apply
<1> HIDE DEF t, B
<1>10. MaybeViews' \subseteq MaybeViews \cup {CurrentView, CurrentView'}
  <2> SUFFICES ASSUME NEW v \in MaybeViews' PROVE v \in {CurrentView, CurrentView'}
    OBVIOUS
  <2>1. PICK sl \in Images(slotDur', Slots), q \in Slots :
            Newest(sl, q) /\ v = LogView(log, sl[q].end)
    BY <1>1, <1>2, <1>3 DEF Shapes, MaybeShape
  <2>2. sl[active] \in slotDur'[active] /\ sl[1 - active] \in slotDur'[1 - active]
    BY <1>4 DEF Images
  <2>3. sl[active] = mem /\ sl[1 - active] \in {slot[1 - active], NextState, Torn}
    <3>1. slotDur' = [slotDur EXCEPT ![1 - active] = @ \cup {NextState, Torn}]
      BY <1>2 DEF PutSlot
    <3>2. active # 1 - active
      BY <1>4 DEF Slots
    <3>3. /\ slotDur'[active] = slotDur[active]
          /\ slotDur'[1 - active] = slotDur[1 - active] \cup {NextState, Torn}
      BY <1>4, <3>1, <3>2 DEF RInv, IInv, TypeOK
    <3>4. QED
      BY <1>4, <2>2, <3>3
  <2>4. CASE sl[q] \in {mem, NextState}
    BY <1>5, <2>1, <2>4
  <2>5. CASE q = 1 - active /\ sl[q] = slot[q] /\ sl[q] \in Supers
    <3>1. slot[q] \in Surviving(q) /\ slot[active] \in Surviving(active)
      BY <1>4, <2>5 DEF Surviving
    <3>2. mem.gen <= slot[q].gen
      BY <1>4, <2>1, <2>3, <2>5 DEF Newest
    <3>3. mem.end <= slot[q].end /\ slot[q].end <= mem.end
      BY <1>4, <3>1, <3>2 DEF NoneAhead, RInv, IInv, DataInv, DiskInv, EndsGrow
    <3>4. mem.end \in Nat /\ slot[q].end \in Nat
      BY <1>4, <2>5, BoundsAssumption DEF Supers
    <3>5. slot[q].end = mem.end
      BY <3>3, <3>4
    <3>6. QED
      BY <1>5, <2>1, <2>5, <3>5
  <2>6. QED
    BY <1>4, <2>1, <2>3, <2>4, <2>5, NamesAssumption DEF Newest
<1>11. QED
  BY <1>1, <1>2, <1>3, <1>8, <1>9, <1>10 DEF Store!Commit, Shapes

\* After a power loss the store comes back with one of the views it could leave.
LEMMA LossIsLoss == ASSUME RInv, RInv', PowerLoss PROVE Store!PowerLoss
<1>1. Shapes /\ Shapes'
  BY ShapesHold, ShapesHoldNext
<1>2. /\ slot' \in Images(slotDur, Slots) /\ \A k \in Slots : slotDur'[k] = {slot'[k]}
      /\ \A i \in Positions : log'[i] \in logDur[i]
      /\ UNCHANGED <<born, acked, unsure>>
  BY DEF PowerLoss, Images, history
<1>3. CASE born
  <2>1. MaybeViews' = {CurrentView'}
    BY <1>1, <1>2, <1>3 DEF Shapes, FlushedShape
  <2>2. PICK q \in Slots : Newest(slot', q) /\ CurrentView' = LogView(log', slot'[q].end)
    BY <1>1, <1>2, <1>3 DEF Shapes, CurrentShape
  <2>3. slot'[q] \in Surviving(q)
    BY <1>2, <2>2 DEF Images, Newest, Surviving
  <2>4. slot'[q].end \in Nat /\ \A i \in 1 .. slot'[q].end : i \in Positions /\ logDur[i] = {log[i]}
    BY <2>3, SurvivorLog, BoundsAssumption DEF RInv
  <2>5. \A i \in 1 .. slot'[q].end : log'[i] = log[i]
    BY <1>2, <2>4
  <2>6. LogView(log', slot'[q].end) = LogView(log, slot'[q].end)
    BY <2>4, <2>5, LogViewLocal
  <2>7. CurrentView' \in MaybeViews
    BY <1>1, <1>2, <1>3, <2>2, <2>6 DEF Shapes, MaybeShape
  <2>8. QED
    BY <1>2, <2>1, <2>7 DEF Store!PowerLoss
<1>4. CASE ~born
  BY <1>1, <1>2, <1>4 DEF Shapes, UnbornShape, Store!PowerLoss
<1>5. QED
  BY <1>3, <1>4

\* Steps that a reader and a power loss cannot tell from no step.
LEMMA QuietSteps ==
    ASSUME RInv, RInv', SafeUse,
           \/ CreateFile \/ CreateSlot(0, "create_a", "create_b")
           \/ CreateSlot(1, "create_b", "create_sync") \/ CreateFails
           \/ Open \/ OpenSyncFails \/ Drop \/ Kill
           \/ AppendRecord \/ AppendFails \/ SyncDataFails \/ CommitSyncFails
           \/ FlagSyncFails \/ SetCleanStateKept \/ UNCHANGED vars
    PROVE  Quiet
<1>1. Shapes /\ Shapes'
  BY ShapesHold, ShapesHoldNext
<1>2. UNCHANGED <<acked, unsure, born>>
  BY DEF CreateFile, CreateSlot, CreateFails, Open, OpenSyncFails, FlushFails, Drop, Kill,
     AppendRecord, AppendFails, SyncDataFails, CommitSyncFails, FlagSyncFails, GiveUp,
     SetCleanStateKept, disk, owner, history, vars
<1>3. CASE ~born
  BY <1>1, <1>2, <1>3 DEF Shapes, UnbornShape, Quiet
<1>4. CASE born
  <2>1. pc \notin CreatePCs
    BY <1>4 DEF RInv, IInv, DataInv, CreateInv
  <2>2. ~ (\/ CreateFile \/ CreateSlot(0, "create_a", "create_b")
           \/ CreateSlot(1, "create_b", "create_sync") \/ CreateFails)
    BY <2>1 DEF CreateFile, CreateSlot, CreateFails, Creating, CreatePCs
  <2>3. UNCHANGED <<slot, slotDur>>
    BY <2>2 DEF Open, OpenSyncFails, FlushFails, Drop, Kill, AppendRecord, AppendFails,
       SyncDataFails, CommitSyncFails, FlagSyncFails, SetCleanStateKept, disk, vars
  <2>4. \A k \in Slots : \A s \in Surviving(k) : \A i \in 1 .. s.end : log'[i] = log[i]
    <3>1. CASE Next
      BY <3>1, KeepsCommittedStep DEF KeepsCommitted, Surviving, RInv
    <3>2. CASE UNCHANGED vars
      BY <3>2 DEF vars, disk
    <3>3. QED
      BY <2>2, <3>1, <3>2 DEF Next, Write, Flag
  <2>5. QED
    BY <1>2, <2>3, <2>4, ViewsKept DEF Quiet
<1>5. QED
  BY <1>3, <1>4

\* Flushes and failed or unfinished superblock writes rule outcomes out.
LEMMA HardeningSteps ==
    ASSUME RInv, RInv', SafeUse,
           \/ CreateSync \/ OpenSync \/ Sync \/ SyncData \/ FlagSync
           \/ SetCleanState \/ SetCleanStateFails \/ WriteSuperFails
    PROVE  Hardens
<1>1. Shapes'
  BY ShapesHoldNext
<1>2. CASE CreateSync \/ OpenSync \/ Sync \/ SyncData \/ FlagSync
  <2>1. /\ Flush /\ pc \in OpenPCs \cup {"create_sync"} /\ pc' \in OpenPCs /\ mem'.end = mem.end
        /\ UNCHANGED <<acked, unsure>>
    BY <1>2 DEF CreateSync, OpenSync, Sync, SyncData, FlagSync, FlagState, GiveUp, owner,
       OpenPCs, PCs, CreatePCs
  <2>2. QED
    BY <2>1, FlushHardens DEF Hardens
<1>3. CASE SetCleanState \/ SetCleanStateFails \/ WriteSuperFails
  <2>1. /\ pc \in {"ready", "super"} /\ pc' \in OpenPCs
        /\ UNCHANGED <<log, mem, active, born, acked>>
        /\ pc = "ready" => "flag" \in Ops
    BY <1>3 DEF SetCleanState, SetCleanStateFails, WriteSuperFails, GiveUp, MayFlag, owner,
       OpenPCs, PCs, CreatePCs
  <2>2. UNCHANGED unsure /\ \E v \in {FlagState(~mem.clean), slot[1 - active], Torn} :
            slotDur' = [slotDur EXCEPT ![1 - active] = @ \cup {v, Torn}]
    BY <1>3 DEF SetCleanState, SetCleanStateFails, WriteSuperFails, SuperFails, PutSlot, SafeUse, InStep
  <2>3. active \in Slots /\ 1 - active \in Slots /\ active # 1 - active
    BY DEF RInv, IInv, TypeOK, Slots
  <2>4. slot[1 - active] \in slotDur[1 - active]
    BY <2>3 DEF RInv, IInv, DataInv, DiskInv, ShownMayStay
  <2>5. FlagState(~mem.clean).end = mem.end
    BY DEF FlagState
  <2>6. /\ slotDur'[active] = slotDur[active]
        /\ slotDur'[1 - active] \subseteq slotDur[1 - active] \cup {FlagState(~mem.clean), Torn}
    BY <2>2, <2>3, <2>4 DEF RInv, IInv, TypeOK
  <2>7. \A x \in slotDur'[1 - active] :
            x \in slotDur[1 - active] \/ x = Torn \/ x.end = mem.end
    BY <2>5, <2>6
  <2>8. born => Settled(active) /\ slot[active] = mem
    <3>1. slot[active] = mem
      BY <2>1 DEF RInv, IInv, DataInv, OpenInv, OpenPCs, PCs, CreatePCs
    <3>2. CASE pc = "super"
      BY <2>3, <3>1, <3>2 DEF RInv, IInv, DataInv, TxnInv, Settled
    <3>3. CASE pc = "ready"
      BY <2>1, <3>1, <3>3 DEF RInv, SettledInv, OpenPCs, PCs, CreatePCs
    <3>4. QED
      BY <2>1, <3>2, <3>3
  <2>9. CurrentView' = CurrentView /\ MaybeViews' \subseteq MaybeViews \cup {CurrentView}
    BY <2>1, <2>6, <2>7, <2>8, OtherSlotKeeps DEF OpenPCs, PCs, CreatePCs
  <2>10. QED
    BY <1>1, <2>1, <2>2, <2>9 DEF Hardens, Shapes
<1>4. QED
  BY <1>2, <1>3

\* Within the safe use, every step of the volume is a step or a stutter of the abstract store.
LEMMA StoreStep == ASSUME RInv, SafeUse, [Next]_vars PROVE [Store!Next]_Store!vars
<1>1. RInv' /\ Shapes
  BY RInvStep, ShapesHold
<1>2. ASSUME Quiet PROVE [Store!Next]_Store!vars
  BY <1>2 DEF Quiet, Store!vars
<1>3. ASSUME Hardens PROVE [Store!Next]_Store!vars
  BY <1>3 DEF Hardens, Store!Next, Store!Harden
<1>4. CASE BeginWrite
  <2>1. /\ UNCHANGED <<slot, slotDur, log, born, unsure>> /\ acked' = FALSE
    BY <1>4 DEF BeginWrite, disk
  <2>2. CurrentView' = CurrentView /\ MaybeViews' = MaybeViews
    BY <1>1, <2>1, ViewsKept
  <2>3. QED
    BY <2>1, <2>2 DEF Store!Next, Store!Begin
<1>5. CASE WriteSuper
  BY <1>1, <1>5, CommitIsCommit DEF Store!Next
<1>6. CASE CommitSync
  <2>1. /\ Flush /\ pc \in OpenPCs /\ pc' \in OpenPCs /\ mem' = mem
        /\ acked' = TRUE /\ unsure' = FALSE
    BY <1>6 DEF CommitSync, owner, OpenPCs, PCs, CreatePCs
  <2>2. CurrentView' = CurrentView /\ MaybeViews' = {CurrentView}
    BY <1>1, <2>1, FlushHardens
  <2>3. QED
    BY <2>1, <2>2 DEF Store!Next, Store!Ack
<1>7. CASE PowerLoss
  BY <1>1, <1>7, LossIsLoss DEF Store!Next
<1>8. CASE \/ CreateSync \/ OpenSync \/ Sync \/ SyncData \/ FlagSync
           \/ SetCleanState \/ SetCleanStateFails \/ WriteSuperFails
  BY <1>1, <1>3, <1>8, HardeningSteps
<1>9. CASE \/ CreateFile \/ CreateSlot(0, "create_a", "create_b")
           \/ CreateSlot(1, "create_b", "create_sync") \/ CreateFails
           \/ Open \/ OpenSyncFails \/ Drop \/ Kill
           \/ AppendRecord \/ AppendFails \/ SyncDataFails \/ CommitSyncFails
           \/ FlagSyncFails \/ SetCleanStateKept \/ UNCHANGED vars
  BY <1>1, <1>2, <1>9, QuietSteps
<1>10. QED
  BY <1>4, <1>5, <1>6, <1>7, <1>8, <1>9 DEF Next, Create, Write, Flag

-----------------------------------------------------------------------------
(* The theorems *)

\* The invariant of the refinement holds in every reachable state.
LEMMA RInvAlways == ASSUME SafeUse PROVE Spec => []RInv
<1>1. Init => RInv
  BY RInvInit
<1>2. RInv /\ [Next]_vars => RInv'
  BY RInvStep
<1>3. QED
  BY <1>1, <1>2, PTL DEF Spec

\* The log-structured volume is a crash-safe store of blocks: a reader sees
\* whole write_blocks calls only, and a power loss at any instant of any call
\* leaves one of the views the abstract store allows.
THEOREM Refinement == ASSUME SafeUse PROVE Spec => ImplementsCrashStore
<1>1. Init => Store!Init
  BY DEF Init, Store!Init, Store!Empty, CurrentView, MaybeViews
<1>2. RInv /\ [Next]_vars => [Store!Next]_Store!vars
  BY StoreStep
<1>3. QED
  BY <1>1, <1>2, RInvAlways, PTL DEF Spec, ImplementsCrashStore, Store!Spec

\* What write_blocks acknowledged with Ok is what every later power loss leaves,
\* until another write begins.
THEOREM AcknowledgedStays == ASSUME SafeUse PROVE Spec => []AcknowledgedIsDurable
<1>1. Init => AcknowledgedIsDurable
  BY DEF Init, AcknowledgedIsDurable, Store!AckedIsDurable
<1>2. ASSUME RInv, AcknowledgedIsDurable, [Next]_vars PROVE AcknowledgedIsDurable'
  <2>1. Shapes' /\ [Store!Next]_Store!vars
    BY <1>2, RInvStep, ShapesHoldNext, StoreStep
  <2>2. CASE UNCHANGED Store!vars
    BY <1>2, <2>2 DEF Store!vars, AcknowledgedIsDurable, Store!AckedIsDurable
  <2>3. CASE Store!Next
    BY <1>2, <2>1, <2>3 DEF Store!Next, Store!Begin, Store!Commit, Store!Doubt, Store!Harden,
       Store!Ack, Store!PowerLoss, Store!Adopt, AcknowledgedIsDurable, Store!AckedIsDurable,
       Shapes
  <2>4. QED
    BY <2>1, <2>2, <2>3
<1>3. QED
  BY <1>1, <1>2, RInvAlways, PTL DEF Spec

-----------------------------------------------------------------------------
(* The clean flag *)

\* What memory says of the file.  A promised flag, or memory known to be flushed,
\* leaves no newer superblock in the file; unless memory is behind, the file shows
\* none (so that a flush rules it out); and what is known to be flushed survives.
Sure == promise # "none" \/ standing = "flushed"

ShownTop ==
    slot[1 - active] \in Supers => slot[1 - active].gen <= mem.gen

StandingInv ==
    /\ pc \in CreatePCs \cup {"flag_sync"} => promise = "none"
    /\ pc \in CreatePCs => standing # "flushed"
    /\ pc \in OpenPCs \ {"flag_sync"} =>
          /\ Sure \/ pc = "commit_sync" => NoneAbove(mem)
          /\ standing # "behind" => ShownTop
    /\ pc \in OpenPCs \ {"commit_sync"} /\ standing = "flushed" =>
          slotDur[active] = {mem}
    /\ pc = "closed" /\ Recovered(slot, log) # NoSlot =>
          LET r == Recovered(slot, log)
          IN  /\ Sure => NoneAbove(slot[r])
              /\ standing = "flushed" => slotDur[r] = {slot[r]}

\* After a flush memory is the newest superblock, unless it is behind.
LEMMA FlushStanding ==
    ASSUME IInv, StandingInv, Flush, UNCHANGED <<mem, active>>,
           pc \in OpenPCs \ {"flag_sync"},
           Sure \/ pc = "commit_sync" \/ standing # "behind"
    PROVE  /\ NoneAbove(mem)'
           /\ slotDur'[active] = {mem}
           /\ ShownTop'
<1>1. /\ active \in Slots /\ 1 - active \in Slots /\ mem \in Supers
      /\ mem.gen \in Nat /\ Slots = {active, 1 - active}
      /\ slot[active] = mem /\ NoneAhead(mem)
  BY DEF IInv, TypeOK, DataInv, OpenInv, Supers, Slots
<1>2. /\ \A k \in Slots : Surviving(k)' \subseteq Surviving(k)
      /\ \A k \in Slots : slotDur'[k] = {slot[k]}
      /\ slot' = slot
  BY FlushKeeps DEF IInv, DataInv
<1>3. ShownTop
  <2>1. CASE NoneAbove(mem)
    <3>1. slot[1 - active] \in Supers => slot[1 - active] \in Surviving(1 - active)
      BY <1>1 DEF IInv, DataInv, DiskInv, ShownMayStay, Surviving
    <3>2. QED
      BY <1>1, <2>1, <3>1 DEF ShownTop, NoneAbove
  <2>2. QED
    BY <2>1 DEF StandingInv
<1>4. NoneAbove(mem)'
  <2>1. SUFFICES ASSUME NEW k \in Slots, NEW t \in Surviving(k)'
                 PROVE  t.gen <= mem.gen /\ t.end <= mem.end
    BY DEF NoneAbove
  <2>2. t = slot[k] /\ t \in Supers /\ t \in Surviving(k)
    BY <1>2 DEF Surviving
  <2>3. t.end <= mem.end
    BY <1>1, <2>2 DEF NoneAhead
  <2>4. t.gen <= mem.gen
    BY <1>1, <1>3, <2>2 DEF ShownTop
  <2>5. QED
    BY <2>3, <2>4
<1>5. QED
  BY <1>1, <1>2, <1>3, <1>4 DEF ShownTop

\* The slots, memory and the history stay, or the history comes to claim less.
LEMMA StandingKept ==
    ASSUME IInv, StandingInv, UNCHANGED <<slot, slotDur, mem, active>>,
           pc \in OpenPCs \ {"flag_sync"}, pc' \in OpenPCs \ {"flag_sync", "commit_sync"},
           promise' = promise \/ standing = "flushed",
           standing' = IF pc = "commit_sync" THEN "unflushed" ELSE standing
    PROVE  StandingInv'
<1>1. \A k \in Slots : Surviving(k)' = Surviving(k)
  BY DEF Surviving
<1>2. NoneAbove(mem) => NoneAbove(mem)'
  BY <1>1 DEF NoneAbove
<1>3. Sure' \/ pc' = "commit_sync" => NoneAbove(mem)'
  BY <1>2 DEF StandingInv, Sure
<1>4. standing' # "behind" => ShownTop'
  <2>1. CASE pc = "commit_sync"
    <3>1. NoneAbove(mem)
      BY <2>1 DEF StandingInv, Sure
    <3>2. 1 - active \in Slots /\ slot[1 - active] \in slotDur[1 - active]
      BY DEF IInv, TypeOK, DataInv, DiskInv, ShownMayStay, Slots
    <3>3. QED
      BY <3>1, <3>2 DEF ShownTop, NoneAbove, Surviving
  <2>2. CASE pc # "commit_sync"
    BY <2>2 DEF StandingInv, ShownTop
  <2>3. QED
    BY <2>1, <2>2
<1>5. QED
  BY <1>3, <1>4 DEF StandingInv, OpenPCs, CreatePCs

\* A write to the other slot that does not advance memory.
LEMMA StandingFails ==
    ASSUME IInv, StandingInv, PutSlot(1 - active, {slot[1 - active], Torn}),
           UNCHANGED <<log, logDur, mem, active, standing>>,
           pc \in {"super", "ready"}, pc' = "ready", promise' \in {promise, "none"}
    PROVE  StandingInv'
<1>1. /\ active \in Slots /\ 1 - active \in Slots /\ active # 1 - active
      /\ pc \in OpenPCs \ {"flag_sync", "commit_sync"}
  BY DEF IInv, TypeOK, Slots, OpenPCs, PCs, CreatePCs
<1>2. /\ \A l \in Slots : Surviving(l)' \subseteq Surviving(l)
      /\ slotDur'[active] = slotDur[active]
  BY <1>1, TornKeeps DEF IInv, DataInv
<1>3. slot'[1 - active] \in {slot[1 - active], Torn}
  BY <1>1 DEF PutSlot, IInv, TypeOK
<1>4. NoneAbove(mem) => NoneAbove(mem)'
  BY <1>2 DEF NoneAbove
<1>5. ShownTop => ShownTop'
  BY <1>3, NamesAssumption DEF ShownTop
<1>6. QED
  BY <1>1, <1>2, <1>4, <1>5 DEF StandingInv, Sure, OpenPCs, CreatePCs

\* A file that is closed as it is: what was sure stays sure.
LEMMA StandingCloses ==
    ASSUME IInv, StandingInv, UNCHANGED <<slot, slotDur, log, promise>>, pc' = "closed",
           pc \notin {"absent", "closed"},
           standing' # "flushed" \/ (pc \in {"open_sync", "ready"} /\ standing = "flushed")
    PROVE  StandingInv'
<1>1. \A k \in Slots : Surviving(k)' = Surviving(k)
  BY DEF Surviving
<1>2. CASE Sure'
  <2>1. Sure /\ pc \in OpenPCs \ {"flag_sync"}
    BY <1>2 DEF Sure, StandingInv, IInv, TypeOK, OpenPCs, CreatePCs, PCs
  <2>2. slot[active] = mem /\ mem \in Supers /\ active \in Slots /\ NoneAbove(mem)
    BY <2>1 DEF StandingInv, IInv, TypeOK, DataInv, OpenInv
  <2>3. Recovered(slot, log) = active
    BY <2>2, NewestIsRecovered DEF IInv, DataInv
  <2>4. Recovered(slot', log') = active
    BY <2>3
  <2>5. NoneAbove(slot[Recovered(slot, log)])'
    BY <1>1, <2>2, <2>4 DEF NoneAbove
  <2>6. standing' = "flushed" => slotDur[active] = {mem}
    BY <2>1 DEF StandingInv
  <2>7. QED
    BY <2>2, <2>4, <2>5, <2>6 DEF StandingInv, OpenPCs, CreatePCs
<1>3. CASE ~Sure'
  BY <1>3 DEF StandingInv, Sure, OpenPCs, CreatePCs
<1>4. QED
  BY <1>2, <1>3

\* Every step keeps the standing.
LEMMA StandingStep == ASSUME IInv, InStep, StandingInv, [Next]_vars PROVE StandingInv'
<1>1. /\ IInv' /\ active \in Slots /\ 1 - active \in Slots /\ active # 1 - active
      /\ mem \in Supers /\ mem.gen \in Nat /\ mem.end \in Nat
      /\ Slots = {active, 1 - active} /\ 1 - (1 - active) = active
  BY IInvStep, BoundsAssumption DEF IInv, TypeOK, Supers, Slots
<1>2. CASE \/ CreateFile \/ CreateSlot(0, "create_a", "create_b")
           \/ CreateSlot(1, "create_b", "create_sync")
  BY <1>2 DEF CreateFile, CreateSlot, history, StandingInv, CreatePCs, OpenPCs
<1>3. CASE CreateSync
  <2>1. /\ pc = "create_sync" /\ pc' = "ready" /\ Flush /\ promise' = promise
        /\ UNCHANGED <<mem, active>>
    BY <1>3 DEF CreateSync, owner
  <2>2. slot[0] = mem /\ active = 0 /\ NoneAbove(mem)
    BY <2>1 DEF IInv, DataInv, CreateInv, CreatePCs
  <2>3. /\ \A k \in Slots : Surviving(k)' \subseteq Surviving(k)
        /\ \A k \in Slots : slotDur'[k] = {slot[k]}
        /\ slot' = slot
    BY <2>1, FlushKeeps DEF IInv, DataInv
  <2>4. NoneAbove(mem)' /\ slotDur'[active] = {mem}
    BY <1>1, <2>1, <2>2, <2>3 DEF NoneAbove
  <2>5. slot[1 - active] \in Supers => slot[1 - active] \in Surviving(1 - active)'
    BY <1>1, <2>1, <2>3 DEF Surviving
  <2>6. ShownTop'
    BY <1>1, <2>1, <2>3, <2>4, <2>5 DEF ShownTop, NoneAbove
  <2>7. QED
    BY <2>1, <2>4, <2>6 DEF StandingInv, OpenPCs, CreatePCs
<1>4. CASE CreateFails \/ OpenSyncFails \/ Drop \/ Kill
  <2>1. /\ UNCHANGED <<slot, slotDur, log, promise>> /\ pc' = "closed"
        /\ pc \notin {"absent", "closed"}
        /\ \/ standing' = standing /\ pc \in CreatePCs \cup {"open_sync", "ready"}
           \/ standing' = "unflushed"
    BY <1>4 DEF CreateFails, Creating, OpenSyncFails, FlushFails, Drop, Kill, Forget, disk,
       history, CreatePCs
  <2>2. standing' # "flushed" \/ (pc \in {"open_sync", "ready"} /\ standing = "flushed")
    BY <2>1 DEF StandingInv
  <2>3. QED
    BY <2>1, <2>2, StandingCloses
<1>5. CASE Open
  <2> DEFINE r == Recovered(slot, log)
  <2>1. /\ pc = "closed" /\ r # NoSlot /\ mem' = slot[r] /\ active' = r
        /\ pc' \in {"open_sync", "ready"} /\ UNCHANGED <<slot, slotDur, promise, standing>>
    BY <1>5 DEF Open, history
  <2>2. PICK q \in Slots : q = r
    BY <2>1, RecoveredRange
  <2>3. /\ Usable(slot, log, q)
        /\ Usable(slot, log, 1 - q) => Preferred(slot, q, 1 - q)
    BY <2>1, <2>2, RecoveredRange, RecoveredIsPreferred
  <2> HIDE DEF r
  <2>4. ShownTop'
    <3>1. SUFFICES ASSUME slot[1 - q] \in Supers PROVE slot[1 - q].gen <= slot[q].gen
      BY <2>1, <2>2 DEF ShownTop
    <3>2. 1 - q \in Slots
      BY DEF Slots
    <3>3. Usable(slot, log, 1 - q)
      BY <3>1, <3>2 DEF IInv, DataInv, DiskInv, ShownMayStay, SurvivorsScan, Surviving, Usable
    <3>4. slot[q].gen \in Nat /\ slot[1 - q].gen \in Nat
      BY <2>3, <3>1 DEF Usable, Supers
    <3>5. QED
      BY <2>3, <3>3, <3>4 DEF Preferred
  <2>5. Sure => NoneAbove(slot[q])
    BY <2>1, <2>2 DEF StandingInv, r
  <2>6. standing = "flushed" => slotDur[q] = {slot[q]}
    BY <2>1, <2>2 DEF StandingInv, r
  <2>7. Sure' => NoneAbove(mem)'
    BY <2>1, <2>2, <2>5 DEF Sure, NoneAbove, Surviving
  <2>8. QED
    BY <2>1, <2>2, <2>4, <2>6, <2>7 DEF StandingInv, OpenPCs, CreatePCs
<1>6. CASE OpenSync \/ Sync \/ SyncData
  <2>1. /\ pc \in OpenPCs \ {"flag_sync", "commit_sync"} /\ Flush
        /\ pc' \in {"ready", "super"} /\ UNCHANGED <<mem, active, promise>>
        /\ standing' = IF standing = "behind" THEN "behind" ELSE "flushed"
    BY <1>6 DEF OpenSync, Sync, SyncData, GiveUp, Settles, owner, OpenPCs, PCs, CreatePCs
  <2>2. Sure \/ standing # "behind" => /\ NoneAbove(mem)'
                                        /\ slotDur'[active] = {mem}
                                        /\ ShownTop'
    BY <2>1, FlushStanding
  <2>3. QED
    BY <2>1, <2>2 DEF StandingInv, Sure, OpenPCs, CreatePCs
<1>7. CASE \/ BeginWrite \/ AppendRecord \/ AppendFails \/ SyncDataFails
           \/ CommitSyncFails \/ SetCleanStateKept
  <2>1. /\ UNCHANGED <<slot, slotDur, mem, active>> /\ pc \in OpenPCs \ {"flag_sync"}
        /\ pc' \in {"append", "data_sync", "ready"}
        /\ promise' = promise \/ standing = "flushed"
        /\ standing' = IF pc = "commit_sync" THEN "unflushed" ELSE standing
    BY <1>7 DEF BeginWrite, AppendRecord, AppendFails, SyncDataFails, CommitSyncFails,
       SetCleanStateKept, FlushFails, GiveUp, disk, owner, history, OpenPCs, PCs, CreatePCs
  <2>2. QED
    BY <2>1, StandingKept DEF OpenPCs, PCs, CreatePCs
<1>8. CASE WriteSuper
  <2>1. /\ pc = "super" /\ pc' = "commit_sync" /\ PutSlot(1 - active, {NextState})
        /\ mem' = NextState /\ active' = 1 - active
    BY <1>8 DEF WriteSuper
  <2>2. slot[active] = mem /\ NoneAhead(mem) /\ Len(txn) \in Nat
    BY <2>1 DEF IInv, TypeOK, DataInv, OpenInv, OpenPCs, PCs, CreatePCs
  <2>3. NextState.gen = mem.gen + 1 /\ NextState.end = mem.end + Len(txn)
    BY DEF NextState
  <2>4. /\ slotDur'[1 - active] = slotDur[1 - active] \cup {NextState, Torn}
        /\ slot'[active] = mem /\ slotDur'[active] = slotDur[active]
    BY <1>1, <2>1, <2>2 DEF PutSlot, IInv, TypeOK
  <2>5. \A l \in Slots : Surviving(l)' \subseteq Surviving(l) \cup {NextState}
    BY <1>1, <2>4, NamesAssumption DEF Surviving
  <2>6. \A l \in Slots : \A t \in Surviving(l) :
            t.gen <= mem.gen + 1 /\ t.end <= mem.end /\ t.gen \in Nat /\ t.end \in Nat
    BY <1>1, <2>2, BoundsAssumption DEF NoneAhead, Surviving, Supers, Lead
  <2>7. \A l \in Slots : \A t \in Surviving(l)' :
            t.gen <= NextState.gen /\ t.end <= NextState.end
    BY <1>1, <2>2, <2>3, <2>5, <2>6
  <2>8. NoneAbove(mem)'
    BY <2>1, <2>7 DEF NoneAbove
  <2>9. ShownTop'
    BY <1>1, <2>1, <2>3, <2>4 DEF ShownTop
  <2>10. QED
    BY <2>1, <2>8, <2>9 DEF StandingInv, OpenPCs, CreatePCs
<1>9. CASE WriteSuperFails \/ SetCleanStateFails
  <2>1. PICK s : SuperFails(s)
    BY <1>9 DEF WriteSuperFails, SetCleanStateFails
  <2>2. /\ PutSlot(1 - active, {slot[1 - active], Torn})
        /\ standing' = standing
    BY <2>1 DEF SuperFails, InStep
  <2>3. /\ UNCHANGED <<log, logDur, mem, active>> /\ pc \in {"super", "ready"}
        /\ pc' = "ready" /\ promise' \in {promise, "none"}
    BY <1>9 DEF WriteSuperFails, SetCleanStateFails, MayFlag, GiveUp, CleanInDoubt, owner
  <2>4. QED
    BY <2>2, <2>3, StandingFails
<1>10. CASE CommitSync
  <2>1. /\ pc = "commit_sync" /\ pc' = "ready" /\ Flush /\ UNCHANGED <<mem, active>>
    BY <1>10 DEF CommitSync, owner
  <2>2. NoneAbove(mem)' /\ slotDur'[active] = {mem} /\ ShownTop'
    BY <2>1, FlushStanding DEF OpenPCs, PCs, CreatePCs
  <2>3. QED
    BY <2>1, <2>2 DEF StandingInv, OpenPCs, CreatePCs
<1>11. CASE SetCleanState
  <2>1. /\ pc = "ready" /\ pc' = "flag_sync" /\ promise' = "none"
        /\ PutSlot(1 - active, {FlagState(~mem.clean)})
        /\ UNCHANGED <<mem, active, standing>>
    BY <1>11 DEF SetCleanState, MayFlag, owner
  <2>2. slotDur'[active] = slotDur[active]
    BY <1>1, <2>1 DEF PutSlot, IInv, TypeOK
  <2>3. QED
    BY <2>1, <2>2 DEF StandingInv, OpenPCs, CreatePCs, PCs
<1>12. CASE FlagSync
  <2>1. /\ pc = "flag_sync" /\ pc' = "ready" /\ Flush
        /\ mem' = FlagState(~mem.clean) /\ active' = 1 - active
    BY <1>12 DEF FlagSync
  <2>2. /\ slot[active] = mem /\ slot[1 - active] = FlagState(~mem.clean)
        /\ NoneAbove(FlagState(~mem.clean))
    BY <2>1 DEF IInv, DataInv, OpenInv, OpenPCs, PCs, CreatePCs
  <2>3. /\ \A k \in Slots : Surviving(k)' \subseteq Surviving(k)
        /\ \A k \in Slots : slotDur'[k] = {slot[k]}
        /\ slot' = slot
    BY <2>1, FlushKeeps DEF IInv, DataInv
  <2>4. NoneAbove(mem)' /\ slotDur'[active'] = {mem'}
    BY <1>1, <2>1, <2>2, <2>3 DEF NoneAbove
  <2>5. \E k \in Slots : slot[active] \in Surviving(k)'
    BY <1>1, <2>2, <2>3 DEF Surviving
  <2>6. ShownTop'
    BY <1>1, <2>1, <2>3, <2>4, <2>5 DEF ShownTop, NoneAbove
  <2>7. QED
    BY <2>1, <2>4, <2>6 DEF StandingInv, OpenPCs, CreatePCs
<1>13. CASE FlagSyncFails
  <2>1. /\ pc = "flag_sync" /\ pc' = "ready" /\ standing' = "behind" /\ promise' = "none"
    BY <1>13 DEF FlagSyncFails, StandingInv
  <2>2. QED
    BY <2>1 DEF StandingInv, Sure, OpenPCs, CreatePCs
<1>14. CASE PowerLoss
  <2>1. /\ pc' = "closed" /\ \A k \in Slots : slotDur'[k] = {slot'[k]}
    BY <1>14 DEF PowerLoss, Forget
  <2>2. SUFFICES ASSUME Recovered(slot', log') # NoSlot
                 PROVE  /\ NoneAbove(slot[Recovered(slot, log)])'
                        /\ slotDur'[Recovered(slot', log')] = {slot'[Recovered(slot', log')]}
    BY <2>1 DEF StandingInv, OpenPCs, CreatePCs
  <2>3. PICK r \in Slots : r = Recovered(slot', log')
    BY <2>2, RecoveredRange
  <2>4. /\ Usable(slot', log', r)
        /\ Usable(slot', log', 1 - r) => Preferred(slot', r, 1 - r)
    BY <2>2, <2>3, RecoveredRange, RecoveredIsPreferred
  <2>5. SUFFICES ASSUME NEW k \in Slots, NEW t \in Surviving(k)'
                 PROVE  t.gen <= slot'[r].gen /\ t.end <= slot'[r].end
    BY <2>1, <2>3 DEF NoneAbove
  <2>6. t = slot'[k] /\ t \in Supers
    BY <2>1 DEF Surviving
  <2>7. CASE k = r
    <3>1. slot'[r].gen \in Nat /\ slot'[r].end \in Nat
      BY <2>6, <2>7, BoundsAssumption DEF Supers
    <3>2. QED
      BY <2>6, <2>7, <3>1
  <2>8. CASE k # r
    <3>1. k = 1 - r
      BY <2>8 DEF Slots
    <3>2. Usable(slot', log', k)
      BY <1>1, <2>5, <2>6 DEF IInv, DataInv, DiskInv, SurvivorsScan, Usable
    <3>3. slot'[r] \in Surviving(r)' /\ slot'[r].gen \in Nat /\ t.gen \in Nat
      BY <2>1, <2>4, <2>6 DEF Surviving, Supers, Usable
    <3>4. t.gen <= slot'[r].gen
      BY <2>4, <2>6, <3>1, <3>2, <3>3 DEF Preferred
    <3>5. t.end <= slot'[r].end
      BY <1>1, <2>5, <2>8, <3>3, <3>4 DEF IInv, DataInv, DiskInv, EndsGrow
    <3>6. QED
      BY <3>4, <3>5
  <2>9. QED
    BY <2>7, <2>8
<1>15. CASE UNCHANGED vars
  BY <1>15 DEF vars, disk, owner, history, StandingInv, Sure, ShownTop, NoneAbove, Surviving
<1>16. QED
  BY <1>2, <1>3, <1>4, <1>5, <1>6, <1>7, <1>8, <1>9, <1>10, <1>11, <1>12, <1>13, <1>14,
     <1>15 DEF Next, Create, Write, Flag

\* Whatever image a power loss leaves, its newest superblock has the flag that
\* was promised; a superblock that commits a write clears it; nothing is
\* promised of a file that has not got both its slots.
Fresh == {"absent", "create_a", "create_b"}

FlagInv ==
    /\ promise # "none" =>
          \A sl \in Images(slotDur, Slots), q \in Slots :
              Newest(sl, q) => sl[q].clean = (promise = "clean")
    /\ pc = "commit_sync" => mem.clean = FALSE
    /\ pc \in Fresh => promise = "none"

\* A step that adds no contents to a slot adds no image.
LEMMA FewerImages ==
    ASSUME FlagInv, promise' = promise, \A k \in Slots : slotDur'[k] \subseteq slotDur[k],
           pc' = "commit_sync" => mem'.clean = FALSE, pc' \in Fresh => pc \in Fresh
    PROVE  FlagInv'
<1>1. ASSUME NEW sl \in Images(slotDur', Slots) PROVE sl \in Images(slotDur, Slots)
  <2>1. sl = [k \in Slots |-> sl[k]] /\ \A k \in Slots : sl[k] \in slotDur'[k]
    BY DEF Images
  <2>2. \A k \in Slots : sl[k] \in slotDur[k]
    BY <2>1
  <2>3. QED
    BY <2>1, <2>2 DEF Images
<1>2. QED
  BY <1>1 DEF FlagInv, Newest

\* After a flush the newest superblock is the one that is shown.
LEMMA FlushedFlag ==
    ASSUME IInv', Flush, NEW a \in Slots, slot'[a] \in Supers,
           \A k \in Slots : slot'[k] \in Supers => slot'[k].gen <= slot'[a].gen,
           slot'[a].clean = (promise' = "clean"), pc' = "ready"
    PROVE  FlagInv'
<1> SUFFICES ASSUME NEW sl \in Images(slotDur', Slots), NEW q \in Slots, Newest(sl, q)
             PROVE  sl[q].clean = (promise' = "clean")
  BY DEF FlagInv, Fresh
<1>1. \A k \in Slots : sl[k] = slot'[k]
  BY DEF Images, Flush
<1>2. 1 - a \in Slots /\ 1 - q \in Slots
  BY DEF Slots
<1>3. CASE q = a
  BY <1>1, <1>3
<1>4. CASE q # a
  <2>1. q = 1 - a /\ a = 1 - q
    BY <1>4 DEF Slots
  <2>2. slot'[q] \in Supers /\ slot'[a].gen <= slot'[q].gen
    BY <1>1, <2>1 DEF Newest
  <2>3. slot'[q] \in Surviving(q)' /\ slot'[a] \in Surviving(a)'
    BY <2>2 DEF Surviving, Flush
  <2>4. slot'[q].gen <= slot'[a].gen
    BY <2>2
  <2>5. slot'[q].gen \in Nat /\ slot'[a].gen \in Nat
    BY <2>2 DEF Supers
  <2>6. slot'[q].gen = slot'[a].gen
    BY <2>2, <2>4, <2>5
  <2>7. slot'[q].gen % 2 = 1 - q /\ slot'[a].gen % 2 = 1 - a
    BY <2>3 DEF IInv, DataInv, DiskInv, Parity
  <2>8. 1 - q = 1 - a
    BY <2>6, <2>7
  <2>9. QED
    BY <2>1, <2>8 DEF Slots
<1>5. QED
  BY <1>3, <1>4

\* Every step keeps the promise.
LEMMA FlagInvStep ==
    ASSUME IInv, StandingInv, FlagInv, InStep, [Next]_vars
    PROVE  FlagInv'
<1>1. /\ IInv' /\ StandingInv'
      /\ active \in Slots /\ 1 - active \in Slots /\ active # 1 - active
  BY IInvStep, StandingStep DEF IInv, TypeOK, Slots
<1>2. ASSUME NEW k \in Slots PROVE slot[k] \in slotDur[k]
  BY DEF IInv, DataInv, DiskInv, ShownMayStay
<1>3. CASE SetCleanState \/ SetCleanStateFails
  BY <1>3 DEF SetCleanState, SetCleanStateFails, MayFlag, FlagInv, Fresh
<1>4. CASE CommitSync
  <2>1. /\ pc = "commit_sync" /\ Flush /\ pc' = "ready" /\ promise' = "dirty"
        /\ active' = active /\ mem' = mem /\ slot' = slot
    BY <1>4 DEF CommitSync, owner, Flush
  <2>2. slot'[active] = mem /\ NoneAbove(mem)' /\ mem \in Supers
    BY <1>1, <2>1 DEF IInv, TypeOK, DataInv, OpenInv, StandingInv, Sure, OpenPCs, PCs,
       CreatePCs
  <2>3. slot'[active].clean = FALSE
    BY <2>1, <2>2 DEF FlagInv
  <2>4. \A k \in Slots : slot'[k] \in Supers => slot'[k].gen <= slot'[active].gen
    BY <2>1, <2>2 DEF NoneAbove, Surviving, Flush
  <2>5. QED
    BY <1>1, <2>1, <2>2, <2>3, <2>4, FlushedFlag
<1>5. CASE FlagSync
  <2>1. /\ pc = "flag_sync" /\ Flush /\ pc' = "ready"
        /\ active' = 1 - active /\ mem' = FlagState(~mem.clean) /\ slot' = slot
        /\ promise' = IF mem.gen = MaxGen THEN "none"
                      ELSE IF mem.clean THEN "dirty" ELSE "clean"
    BY <1>5 DEF FlagSync, Flush, FlagOf, FlagState
  <2>2. mem.gen < FlagBound /\ mem.gen \in Nat /\ mem.clean \in BOOLEAN
    BY <2>1, BoundsAssumption DEF IInv, CallShape, TypeOK, Supers
  <2>3. promise' = IF mem.clean THEN "dirty" ELSE "clean"
    BY <2>1, <2>2, BoundsAssumption
  <2>4. slot'[1 - active] = mem' /\ NoneAbove(mem)' /\ mem' \in Supers
    BY <1>1, <2>1, <2>3 DEF IInv, TypeOK, DataInv, OpenInv, StandingInv, Sure, OpenPCs, PCs,
       CreatePCs
  <2>5. mem'.clean = ~mem.clean
    BY <2>1 DEF FlagState
  <2>6. slot'[1 - active].clean = (promise' = "clean")
    BY <2>2, <2>3, <2>4, <2>5
  <2>7. \A k \in Slots : slot'[k] \in Supers => slot'[k].gen <= slot'[1 - active].gen
    BY <2>1, <2>4 DEF NoneAbove, Surviving, Flush
  <2>8. QED
    BY <1>1, <2>1, <2>4, <2>6, <2>7, FlushedFlag
<1>6. CASE WriteSuper \/ WriteSuperFails
  <2>1. /\ pc = "super" /\ promise' \in {promise, "none"} /\ promise' # "clean"
        /\ pc' = "commit_sync" => mem'.clean = FALSE
        /\ pc' \notin Fresh
    BY <1>6 DEF WriteSuper, WriteSuperFails, GiveUp, CleanInDoubt, NextState, Fresh
  <2>2. \E v \in {NextState, slot[1 - active], Torn} :
            slotDur' = [slotDur EXCEPT ![1 - active] = @ \cup {v, Torn}]
    BY <1>6 DEF WriteSuper, WriteSuperFails, SuperFails, PutSlot, InStep
  <2>3. /\ slot[active] = mem /\ mem \in Supers
        /\ promise # "none" => NoneAbove(mem)
        /\ \A k \in Slots : slotDur[k] = {slot[k]}
    BY <2>1 DEF IInv, TypeOK, DataInv, OpenInv, TxnInv, StandingInv, Sure, OpenPCs, PCs,
       CreatePCs
  <2>4. /\ slotDur'[active] = {mem}
        /\ slotDur'[1 - active] \subseteq {slot[1 - active], NextState, Torn}
    BY <1>1, <2>2, <2>3 DEF IInv, TypeOK
  <2> SUFFICES ASSUME promise' # "none",
                      NEW sl \in Images(slotDur', Slots), NEW q \in Slots, Newest(sl, q)
               PROVE  sl[q].clean = (promise' = "clean")
    BY <2>1 DEF FlagInv
  <2>5. sl[active] = mem /\ sl[1 - active] \in {slot[1 - active], NextState, Torn}
    BY <1>1, <2>4 DEF Images
  <2>6. slot \in Images(slotDur, Slots) /\ Newest(slot, active)
    <3>1. slot \in Images(slotDur, Slots)
      BY <1>2 DEF IInv, TypeOK, Images
    <3>2. slot[1 - active] \in Supers => slot[1 - active] \in Surviving(1 - active)
      BY <1>1, <1>2 DEF Surviving
    <3>3. QED
      BY <1>1, <2>1, <2>3, <3>1, <3>2 DEF Newest, NoneAbove
  <2>7. promise' = promise /\ mem.clean = (promise = "clean")
    BY <1>1, <2>1, <2>3, <2>6 DEF FlagInv
  <2>8. CASE sl[q] = NextState \/ q = active
    <3>1. CASE q = active
      BY <2>5, <2>7, <3>1
    <3>2. CASE sl[q] = NextState
      <4>1. sl[q].clean = FALSE
        BY <3>2 DEF NextState
      <4>2. QED
        BY <2>1, <4>1
    <3>3. QED
      BY <2>8, <3>1, <3>2
  <2>9. CASE q = 1 - active /\ sl[q] = slot[q]
    <3>1. slot[q] \in Surviving(q) /\ mem \in Surviving(active)
      BY <1>1, <1>2, <2>3, <2>9 DEF Newest, Surviving
    <3>2. mem.gen <= slot[q].gen /\ slot[q].gen <= mem.gen
      BY <1>1, <2>1, <2>3, <2>5, <2>9, <3>1 DEF Newest, NoneAbove, Slots
    <3>3. slot[q].gen \in Nat /\ mem.gen \in Nat
      BY <3>1 DEF Surviving, Supers
    <3>4. slot[q].gen % 2 = 1 - q /\ mem.gen % 2 = 1 - active
      BY <1>1, <3>1 DEF IInv, DataInv, DiskInv, Parity
    <3>5. 1 - q = 1 - active
      BY <3>2, <3>3, <3>4
    <3>6. QED
      BY <1>1, <2>9, <3>5 DEF Slots
  <2>10. QED
    BY <1>1, <2>5, <2>8, <2>9, NamesAssumption DEF Newest, Slots
<1>7. CASE CreateSlot(0, "create_a", "create_b") \/ CreateSlot(1, "create_b", "create_sync")
  <2>1. pc \in {"create_a", "create_b"} /\ promise' = promise /\ pc' # "commit_sync"
    BY <1>7 DEF CreateSlot, history
  <2>2. promise = "none"
    BY <2>1 DEF FlagInv, Fresh
  <2>3. QED
    BY <2>1, <2>2 DEF FlagInv
<1>8. CASE \/ CreateFile \/ CreateSync \/ CreateFails \/ Open \/ OpenSync \/ OpenSyncFails
           \/ BeginWrite \/ AppendRecord \/ AppendFails \/ SyncData \/ SyncDataFails
           \/ CommitSyncFails \/ FlagSyncFails \/ Sync \/ Drop \/ Kill \/ PowerLoss
           \/ UNCHANGED vars
  <2>1. promise' = promise
    BY <1>8 DEF CreateFile, CreateSync, CreateFails, Open, OpenSync, OpenSyncFails, BeginWrite,
       AppendRecord, AppendFails, SyncData, SyncDataFails, CommitSyncFails, FlagSyncFails,
       Sync, Drop, Kill, PowerLoss, history, vars
  <2>2. \A k \in Slots : slotDur'[k] \subseteq slotDur[k]
    BY <1>2, <1>8 DEF CreateFile, CreateSync, CreateFails, Open, OpenSync, OpenSyncFails,
       BeginWrite, AppendRecord, AppendFails, SyncData, SyncDataFails, CommitSyncFails,
       FlagSyncFails, Sync, Drop, Kill, PowerLoss, Images, Flush, FlushFails, disk, vars
  <2>3. pc' = "commit_sync" => mem'.clean = FALSE
    BY <1>8 DEF CreateFile, CreateSync, CreateFails, Open, OpenSync, OpenSyncFails, BeginWrite,
       AppendRecord, AppendFails, SyncData, SyncDataFails, CommitSyncFails, FlagSyncFails,
       Sync, Drop, Kill, PowerLoss, GiveUp, Forget, owner, vars, FlagInv
  <2>4. pc' \in Fresh => pc \in Fresh
    BY <1>8 DEF CreateFile, CreateSync, CreateFails, Open, OpenSync, OpenSyncFails, BeginWrite,
       AppendRecord, AppendFails, SyncData, SyncDataFails, CommitSyncFails, FlagSyncFails,
       Sync, Drop, Kill, PowerLoss, GiveUp, Forget, owner, vars, Fresh
  <2>5. QED
    BY <2>1, <2>2, <2>3, <2>4, FewerImages
<1>9. CASE SetCleanStateKept
  <2>1. /\ pc = "ready" /\ UNCHANGED <<slotDur, pc>>
        /\ promise' = IF standing = "flushed" THEN FlagOf(mem) ELSE promise
    BY <1>9 DEF SetCleanStateKept, disk
  <2>2. CASE standing # "flushed"
    BY <2>1, <2>2, FewerImages
  <2>3. CASE standing = "flushed"
    <3>1. slotDur[active] = {mem} /\ NoneAbove(mem) /\ mem \in Supers
      BY <2>1, <2>3 DEF StandingInv, Sure, IInv, TypeOK, OpenPCs, PCs, CreatePCs
    <3>2. mem.clean = (promise' = "clean")
      BY <2>1, <2>3, <3>1 DEF FlagOf, Supers
    <3>3. SUFFICES ASSUME NEW sl \in Images(slotDur, Slots), NEW q \in Slots, Newest(sl, q)
                   PROVE  q = active /\ sl[active] = mem
      BY <2>1, <3>2 DEF FlagInv, Fresh
    <3>4. /\ sl[active] = mem /\ sl[q] \in Surviving(q) /\ mem \in Surviving(active)
      BY <1>1, <3>1, <3>3 DEF Images, Newest, Surviving
    <3>5. CASE q # active
      <4>1. q = 1 - active /\ active = 1 - q
        BY <1>1, <3>5 DEF Slots
      <4>2. mem.gen <= sl[q].gen /\ sl[q].gen <= mem.gen
        BY <3>1, <3>3, <3>4, <4>1 DEF Newest, NoneAbove
      <4>3. sl[q].gen \in Nat /\ mem.gen \in Nat
        BY <3>4 DEF Surviving, Supers
      <4>4. sl[q].gen % 2 = 1 - q /\ mem.gen % 2 = 1 - active
        BY <1>1, <3>4 DEF IInv, DataInv, DiskInv, Parity
      <4>5. 1 - q = 1 - active
        BY <4>2, <4>3, <4>4
      <4>6. QED
        BY <1>1, <3>4, <4>1, <4>5 DEF Slots
    <3>6. QED
      BY <3>4, <3>5
  <2>4. QED
    BY <2>2, <2>3
<1>10. QED
  BY <1>3, <1>4, <1>5, <1>6, <1>7, <1>8, <1>9 DEF Next, Create, Write, Flag

\* The clean flag is reliable: what mark_clean, mark_dirty or a write returned
\* Ok for is the flag every later open reads, until a call that sets the other
\* value reaches the file.  The process may die in any call and any flush may
\* fail; only a superblock write must not land and return an error.
THEOREM FlagStays == ASSUME InStep PROVE Spec => []FlagIsDurable
<1>1. Init => FlagInv /\ StandingInv
  BY DEF Init, FlagInv, StandingInv, CreatePCs, OpenPCs
<1>2. IInv /\ StandingInv /\ FlagInv /\ [Next]_vars => StandingInv' /\ FlagInv'
  BY StandingStep, FlagInvStep
<1>3. IInv /\ FlagInv => FlagIsDurable
  <2> SUFFICES ASSUME IInv, FlagInv, promise # "none",
                      NEW sl \in Images(slotDur, Slots),
                      NEW lg \in Images(logDur, 1 .. Reach),
                      Recovered(sl, lg) # NoSlot
               PROVE  sl[Recovered(sl, lg)].clean = (promise = "clean")
    BY DEF FlagIsDurable
  <2>1. PICK k : k = Recovered(sl, lg)
    OBVIOUS
  <2>2. k \in Slots /\ Usable(sl, lg, k)
    BY <2>1, RecoveredRange
  <2>3. Usable(sl, lg, 1 - k) => Preferred(sl, k, 1 - k)
    BY <2>1, <2>2, RecoveredIsPreferred
  <2>4. 1 - k \in Slots /\ sl[k] \in Supers
    BY <2>2 DEF Slots, Usable
  <2>5. Newest(sl, k)
    <3>1. SUFFICES ASSUME sl[1 - k] \in Supers PROVE sl[1 - k].gen <= sl[k].gen
      BY <2>4 DEF Newest
    <3>2. Preferred(sl, k, 1 - k)
      BY <2>3, <2>4, <3>1, ImageUsable
    <3>3. sl[k].gen \in Nat /\ sl[1 - k].gen \in Nat
      BY <2>4, <3>1 DEF Supers
    <3>4. QED
      BY <3>2, <3>3 DEF Preferred
  <2>6. QED
    BY <2>1, <2>2, <2>5 DEF FlagInv
<1>4. QED
  BY <1>1, <1>2, <1>3, Invariant, PTL DEF Spec

=============================================================================
