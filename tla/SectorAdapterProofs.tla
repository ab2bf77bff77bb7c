-------------------------- MODULE SectorAdapterProofs --------------------------
(***************************************************************************)
(* Theorems about SectorAdapter, for every number of threads, all requests *)
(* and all sizes of sectors, blocks and volumes.                           *)
(***************************************************************************)
EXTENDS SectorAdapter, SequenceTheorems, TLAPS

-----------------------------------------------------------------------------
(* Cells, blocks and sectors *)

Cells == 0 .. Capacity - 1

\* Multiplication by the block size is monotonic.
LEMMA TimesBlock ==
    ASSUME NEW p \in Nat, NEW q \in Nat, p < q
    PROVE  /\ p * BlockSize \in Nat /\ q * BlockSize \in Nat
           /\ p * BlockSize + BlockSize <= q * BlockSize
<1>1. BlockSize \in Nat
  BY AdapterAssumption
<1>2. PICK d \in Nat : q = p + 1 + d
  <2>1. q = p + 1 + (q - p - 1) /\ q - p - 1 \in Nat
    OBVIOUS
  <2>2. QED
    BY <2>1
<1>3. q * BlockSize = p * BlockSize + BlockSize + d * BlockSize
  BY <1>1, <1>2
<1>4. p * BlockSize \in Nat /\ d * BlockSize \in Nat
  BY <1>1
<1>5. QED
  BY <1>1, <1>3, <1>4

\* A cell is where division says it is.
LEMMA Division ==
    ASSUME NEW c \in Nat
    PROVE  /\ c \div BlockSize \in Nat /\ c % BlockSize \in 0 .. BlockSize - 1
           /\ c = (c \div BlockSize) * BlockSize + (c % BlockSize)
<1>1. BlockSize \in Nat /\ BlockSize > 0
  BY AdapterAssumption
<1>2. QED
  BY <1>1

\* And nowhere else.
LEMMA DivisionUnique ==
    ASSUME NEW b \in Nat, NEW i \in 0 .. BlockSize - 1
    PROVE  /\ b * BlockSize + i \in Nat
           /\ (b * BlockSize + i) \div BlockSize = b
           /\ (b * BlockSize + i) % BlockSize = i
<1>1. BlockSize \in Nat /\ BlockSize > 0 /\ i \in Nat
  BY AdapterAssumption
<1>2. b * BlockSize \in Nat
  BY <1>1
<1> DEFINE c == b * BlockSize + i
<1>3. c \in Nat
  BY <1>1, <1>2
<1>4. /\ c \div BlockSize \in Nat /\ c % BlockSize \in 0 .. BlockSize - 1
      /\ c = (c \div BlockSize) * BlockSize + (c % BlockSize)
  BY <1>3, Division
<1> DEFINE q == c \div BlockSize
           p == c % BlockSize
<1> HIDE DEF q, p
<1>5. q \in Nat /\ p \in 0 .. BlockSize - 1 /\ b * BlockSize + i = q * BlockSize + p
  BY <1>4 DEF q, p
<1>6. ~ (q < b)
  BY <1>1, <1>5, TimesBlock
<1>7. ~ (b < q)
  BY <1>1, <1>2, <1>5, TimesBlock
<1>8. q = b
  BY <1>5, <1>6, <1>7
<1>9. p = i
  BY <1>1, <1>2, <1>5, <1>8
<1>10. QED
  BY <1>3, <1>8, <1>9 DEF q, p

\* Every block begins below the capacity, so it has cells.
LEMMA BlocksBegin ==
    ASSUME NEW b \in Blocks
    PROVE  /\ b \in Nat /\ b * BlockSize \in Nat /\ b * BlockSize < Capacity
           /\ LogicalLength(b) \in 1 .. BlockSize
           /\ b * BlockSize + LogicalLength(b) <= Capacity
           /\ LogicalLength(b) < BlockSize => b * BlockSize + LogicalLength(b) = Capacity
<1>1. BlockSize \in Nat /\ BlockSize > 0 /\ Capacity \in Nat /\ Capacity > 0
  BY AdapterAssumption
<1> DEFINE n == Capacity + BlockSize - 1
<1>2. n \in Nat
  BY <1>1
<1>3. BlockCount \in Nat /\ n % BlockSize \in Nat /\ n = BlockCount * BlockSize + (n % BlockSize)
  BY <1>1, <1>2, Division DEF BlockCount
<1>4. b \in Nat /\ b < BlockCount
  BY <1>3 DEF Blocks
<1>5. /\ b * BlockSize \in Nat /\ BlockCount * BlockSize \in Nat
      /\ b * BlockSize + BlockSize <= BlockCount * BlockSize
  BY <1>3, <1>4, TimesBlock
<1>6. b * BlockSize < Capacity
  BY <1>1, <1>3, <1>5
<1>7. QED
  BY <1>1, <1>4, <1>5, <1>6 DEF LogicalLength, Least

\* A cell of the disk lies in a block, before the block's end.
LEMMA CellsAreInBlocks ==
    ASSUME NEW c \in Cells
    PROVE  /\ c \div BlockSize \in Blocks
           /\ c % BlockSize \in 0 .. LogicalLength(c \div BlockSize) - 1
           /\ c = (c \div BlockSize) * BlockSize + (c % BlockSize)
<1>1. BlockSize \in Nat /\ BlockSize > 0 /\ Capacity \in Nat /\ c \in Nat /\ c < Capacity
  BY AdapterAssumption DEF Cells
<1> DEFINE n == Capacity + BlockSize - 1
           q == c \div BlockSize
           p == c % BlockSize
<1>2. n \in Nat
  BY <1>1
<1>3. /\ BlockCount \in Nat /\ n % BlockSize \in 0 .. BlockSize - 1
      /\ n = BlockCount * BlockSize + (n % BlockSize)
  BY <1>1, <1>2, Division DEF BlockCount
<1>4. q \in Nat /\ p \in 0 .. BlockSize - 1 /\ c = q * BlockSize + p
  BY <1>1, Division
<1> HIDE DEF n, q, p
<1>5. q < BlockCount
  <2>1. SUFFICES ASSUME BlockCount <= q PROVE FALSE
    BY <1>3, <1>4
  <2>2. BlockCount * BlockSize <= q * BlockSize
    BY <1>1, <1>3, <1>4, <2>1, TimesBlock
  <2>3. BlockCount * BlockSize \in Nat /\ q * BlockSize \in Nat
    BY <1>1, <1>3, <1>4
  <2>4. QED
    BY <1>1, <1>3, <1>4, <2>2, <2>3 DEF n
<1>6. q \in Blocks
  BY <1>3, <1>4, <1>5 DEF Blocks
<1>7. q * BlockSize \in Nat
  BY <1>1, <1>4
<1>8. QED
  BY <1>1, <1>4, <1>6, <1>7, BlocksBegin DEF q, p

-----------------------------------------------------------------------------
(* The inductive invariant *)

TypeInv ==
    /\ readOnly \in BOOLEAN /\ registered \in BOOLEAN
    /\ inside \subseteq Threads /\ failed \subseteq Threads
    /\ req \in [Threads -> Requests \cup {NoRequest}]
    /\ answer \in [Threads -> [status : {"none", "good", "error"}, data : Seq(Nat)]]
    /\ done \in [Threads -> Nat]
    /\ output \in [Threads -> Seq(Nat)]
    /\ DOMAIN updates = Threads
    /\ updates = [t \in Threads |-> updates[t]]
    /\ \A t \in Threads : DOMAIN updates[t] \subseteq Blocks

\* A block is absent or ends where the volume does.
StoreInv ==
    /\ store \in [Blocks -> Seq(Nat)]
    /\ \A b \in Blocks : Len(store[b]) \in {0, LogicalLength(b)}

DoneInv ==
    \A t \in Threads :
        /\ req[t] = NoRequest => done[t] = 0 /\ answer[t] = NoAnswer
        /\ req[t] # NoRequest => done[t] \in 0 .. Length(req[t])

\* One thread at a time holds the mutex, at a request it has not answered.
MutexInv ==
    /\ \A t, u \in inside : t = u
    /\ \A t \in inside : Pending(t)

\* What a read has gathered is what the disk has held since the mutex was taken.
ReadSoFar(t) ==
    /\ Len(output[t]) = done[t]
    /\ \A i \in 1 .. done[t] : output[t][i] = SectorView[From(req[t]) + i - 1]

\* The disk as it will be when the blocks a write has changed are committed.
Overlay(t, c) ==
    IF c \div BlockSize \in DOMAIN updates[t]
    THEN updates[t][c \div BlockSize][(c % BlockSize) + 1] ELSE SectorView[c]

\* It differs from the disk in the cells written so far; and a turn of the loop
\* never returns to a block.
WrittenSoFar(t) ==
    /\ \A b \in DOMAIN updates[t] :
        /\ updates[t][b] \in Seq(Nat) /\ Len(updates[t][b]) = LogicalLength(b)
        /\ done[t] < Length(req[t]) => b * BlockSize + BlockSize <= From(req[t]) + done[t]
    /\ \A c \in Cells :
        Overlay(t, c) = IF c \in From(req[t]) .. From(req[t]) + done[t] - 1
                        THEN req[t].data[c - From(req[t]) + 1] ELSE SectorView[c]

Work(t) ==
    /\ ~ MustRefuse(req[t])
    /\ req[t].op = "read" => ReadSoFar(t)
    /\ req[t].op = "write" => WrittenSoFar(t)

WorkInv == \A t \in inside \ failed : Work(t)

IInv == TypeInv /\ StoreInv /\ DoneInv /\ MutexInv /\ WorkInv

-----------------------------------------------------------------------------
(* What follows from it at once *)

\* The offset and the length of a request are numbers, and it is not the absence of one.
LEMMA RequestNumbers ==
    ASSUME NEW r \in Requests
    PROVE  From(r) \in Nat /\ Length(r) \in Nat /\ r # NoRequest
<1>1. r.lba \in Nat /\ r.count \in Nat /\ SectorSize \in Nat /\ r.op # "none"
  BY RequestsAssumption, AdapterAssumption
<1>2. QED
  BY <1>1 DEF From, Length, NoRequest

\* SectorView shows every cell of a stored block, zeros of the others.
LEMMA ViewOfCell ==
    ASSUME StoreInv, NEW c \in Cells
    PROVE  /\ SectorView[c] \in Nat
           /\ store[c \div BlockSize] = <<>> => SectorView[c] = 0
           /\ store[c \div BlockSize] # <<>> =>
                 SectorView[c] = store[c \div BlockSize][(c % BlockSize) + 1]
<1> DEFINE b == c \div BlockSize
           p == c % BlockSize
<1>1. b \in Blocks /\ p \in 0 .. LogicalLength(b) - 1 /\ LogicalLength(b) \in 1 .. BlockSize
  BY CellsAreInBlocks, BlocksBegin
<1>2. SectorView[c] = IF p < Len(BlockOr0(b, BlockSize)) THEN BlockOr0(b, BlockSize)[p + 1] ELSE 0
  BY DEF SectorView, Cells
<1>3. store[b] \in Seq(Nat) /\ Len(store[b]) \in {0, LogicalLength(b)} /\ BlockSize \in Nat
  BY <1>1, AdapterAssumption DEF StoreInv
<1> HIDE DEF b, p
<1>4. CASE store[b] = <<>>
  <2>1. BlockOr0(b, BlockSize) = [i \in 1 .. BlockSize |-> 0]
    BY <1>4 DEF BlockOr0
  <2>2. SectorView[c] = 0
    BY <1>1, <1>2, <1>3, <2>1
  <2>3. QED
    BY <1>4, <2>2 DEF b
<1>5. CASE store[b] # <<>>
  <2>1. BlockOr0(b, BlockSize) = store[b]
    BY <1>5 DEF BlockOr0
  <2>2. Len(store[b]) = LogicalLength(b)
    BY <1>3, <1>5
  <2>3. p + 1 \in 1 .. Len(store[b]) /\ p < Len(store[b])
    BY <1>1, <2>2
  <2>4. SectorView[c] = store[b][p + 1] /\ store[b][p + 1] \in Nat
    BY <1>2, <1>3, <2>1, <2>3
  <2>5. QED
    BY <1>5, <2>4 DEF b, p
<1>6. QED
  BY <1>4, <1>5

ShowsStore ==
    \A c \in Cells :
        /\ store[c \div BlockSize] = <<>> => SectorView[c] = 0
        /\ store[c \div BlockSize] # <<>> =>
              SectorView[c] = store[c \div BlockSize][(c % BlockSize) + 1]

\* What the store holds is what the sector view of the refinement shows.
LEMMA StoreIsShown == StoreInv => ShowsStore
BY ViewOfCell DEF ShowsStore

\* The same of the next state.
LEMMA ViewNextHolds == (StoreInv => ShowsStore)'
BY StoreIsShown, PTL

\* After a step, a cell of the view is zero or the byte of its stored block.
LEMMA ViewNext ==
    ASSUME StoreInv', NEW c \in Cells
    PROVE  /\ store'[c \div BlockSize] = <<>> => SectorView'[c] = 0
           /\ store'[c \div BlockSize] # <<>> =>
                 SectorView'[c] = store'[c \div BlockSize][(c % BlockSize) + 1]
BY ViewNextHolds DEF ShowsStore, Cells

\* The view covers the cells of the disk, and no other.
LEMMA ViewIsDisk == DOMAIN SectorView = Cells
BY DEF SectorView, Cells

\* The view depends on the store alone.
LEMMA ViewKept == ASSUME store' = store PROVE SectorView' = SectorView
BY DEF SectorView, BlockOr0

-----------------------------------------------------------------------------
(* Steps that leave the store alone *)

\* What one thread does leaves the work of another as it is.
LEMMA WorkUntouched ==
    ASSUME NEW u \in Threads, Work(u), store' = store, readOnly' = readOnly,
           req'[u] = req[u], done'[u] = done[u], output'[u] = output[u],
           updates'[u] = updates[u]
    PROVE  Work(u)'
<1>1. SectorView' = SectorView
  BY ViewKept
<1>2. MustRefuse(req[u])' = MustRefuse(req[u])
  BY DEF MustRefuse, WritesReadOnly, OutOfRange
<1>3. ReadSoFar(u)' = ReadSoFar(u)
  BY <1>1 DEF ReadSoFar
<1>4. \A c : Overlay(u, c)' = Overlay(u, c)
  BY <1>1 DEF Overlay
<1>5. WrittenSoFar(u) => WrittenSoFar(u)'
  BY <1>1, <1>4 DEF WrittenSoFar
<1>6. QED
  BY <1>2, <1>3, <1>5 DEF Work

\* The adapter starts with the invariant true.
LEMMA InitInv == Init => IInv
<1> SUFFICES ASSUME Init PROVE IInv
  OBVIOUS
<1>1. \A b \in Blocks : LogicalLength(b) \in Nat
  BY BlocksBegin, AdapterAssumption
<1>2. TypeInv
  <2>1. <<>> \in Seq(Nat) /\ DOMAIN <<>> = {}
    OBVIOUS
  <2>2. answer \in [Threads -> [status : {"none", "good", "error"}, data : Seq(Nat)]]
    BY <2>1 DEF Init, NoAnswer
  <2>3. output \in [Threads -> Seq(Nat)]
    BY <2>1 DEF Init
  <2>4. /\ DOMAIN updates = Threads /\ updates = [t \in Threads |-> updates[t]]
        /\ \A t \in Threads : updates[t] = <<>>
    BY DEF Init
  <2>5. QED
    BY <2>1, <2>2, <2>3, <2>4 DEF Init, TypeInv
<1>3. StoreInv
  BY <1>1 DEF Init, StoreInv
<1>4. DoneInv /\ MutexInv /\ WorkInv
  BY DEF Init, DoneInv, MutexInv, WorkInv
<1>5. QED
  BY <1>2, <1>3, <1>4 DEF IInv

\* Mounting keeps the invariant.
LEMMA MountInv == IInv /\ Mount => IInv'
<1> SUFFICES ASSUME IInv, Mount PROVE IInv'
  OBVIOUS
<1>1. inside = {}
  BY DEF IInv, TypeInv, MutexInv, Mount, Idle, Pending
<1>2. TypeInv' /\ StoreInv'
  BY DEF IInv, TypeInv, StoreInv, Mount
<1>3. DoneInv' /\ MutexInv'
  BY <1>1 DEF IInv, DoneInv, MutexInv, Mount, Pending
<1>4. WorkInv'
  BY <1>1 DEF WorkInv, Mount
<1>5. QED
  BY <1>2, <1>3, <1>4 DEF IInv

\* Unregistering the dispatcher, and a stuttering step, keep the invariant.
LEMMA UnregisterInv == IInv /\ (Unregister \/ UNCHANGED vars) => IInv'
<1> SUFFICES ASSUME IInv, Unregister \/ UNCHANGED vars PROVE IInv'
  OBVIOUS
<1>1. UNCHANGED <<readOnly, store, inside, failed, req, answer, done, output, updates>>
  BY DEF Unregister, vars
<1>2. TypeInv' /\ StoreInv' /\ DoneInv' /\ MutexInv'
  BY <1>1 DEF IInv, TypeInv, StoreInv, DoneInv, MutexInv, Pending, Unregister, vars
<1>3. WorkInv'
  BY <1>1, WorkUntouched DEF IInv, TypeInv, WorkInv
<1>4. QED
  BY <1>2, <1>3 DEF IInv

\* A request that arrives keeps the invariant.
LEMMA SubmitInv == ASSUME IInv, NEW t \in Threads, Submit(t) PROVE IInv'
<1>1. PICK r \in Requests : req' = [req EXCEPT ![t] = r]
  BY DEF Submit
<1>2. /\ req[t] = NoRequest /\ t \notin inside
      /\ UNCHANGED <<readOnly, store, registered, inside, failed, answer, done, output, updates>>
  BY DEF Submit, IInv, MutexInv, Pending
<1>3. TypeInv' /\ StoreInv'
  BY <1>1, <1>2 DEF IInv, TypeInv, StoreInv
<1>4. DoneInv'
  <2>1. r # NoRequest /\ Length(r) \in Nat
    BY RequestNumbers
  <2>2. done[t] = 0 /\ req'[t] = r
    BY <1>1, <1>2 DEF IInv, DoneInv, TypeInv
  <2>3. \A u \in Threads : u # t => req'[u] = req[u]
    BY <1>1 DEF IInv, TypeInv
  <2>4. QED
    BY <1>2, <2>1, <2>2, <2>3 DEF IInv, DoneInv
<1>5. \A u \in inside : u \in Threads /\ u # t /\ req'[u] = req[u]
  BY <1>1, <1>2 DEF IInv, TypeInv
<1>6. MutexInv'
  BY <1>2, <1>5 DEF IInv, MutexInv, Pending
<1>7. WorkInv'
  BY <1>2, <1>5, WorkUntouched DEF IInv, WorkInv
<1>8. QED
  BY <1>3, <1>4, <1>6, <1>7 DEF IInv

\* A request whose answer is delivered keeps the invariant.
LEMMA ReturnInv == ASSUME IInv, NEW t \in Threads, Return(t) PROVE IInv'
<1>1. /\ t \notin inside /\ UNCHANGED <<readOnly, store, registered, inside>>
      /\ failed' = failed \ {t}
  BY DEF Return, IInv, MutexInv, Pending
<1>2. TypeInv'
  <2>1. answer' \in [Threads -> [status : {"none", "good", "error"}, data : Seq(Nat)]]
    BY DEF IInv, TypeInv, Return, NoAnswer
  <2>2. updates' = [updates EXCEPT ![t] = <<>>] /\ DOMAIN <<>> = {}
    BY DEF Return
  <2>3. /\ DOMAIN updates' = Threads /\ updates' = [u \in Threads |-> updates'[u]]
        /\ \A u \in Threads : DOMAIN updates'[u] \subseteq Blocks
    BY <2>2 DEF IInv, TypeInv
  <2>4. output' \in [Threads -> Seq(Nat)] /\ done' \in [Threads -> Nat]
    BY DEF IInv, TypeInv, Return
  <2>5. req' \in [Threads -> Requests \cup {NoRequest}]
    BY DEF IInv, TypeInv, Return
  <2>6. QED
    BY <1>1, <2>1, <2>3, <2>4, <2>5 DEF IInv, TypeInv
<1>3. StoreInv'
  BY <1>1 DEF IInv, StoreInv
<1>4. \A u \in Threads : u # t =>
         /\ req'[u] = req[u] /\ answer'[u] = answer[u] /\ done'[u] = done[u]
         /\ output'[u] = output[u] /\ updates'[u] = updates[u]
  BY DEF Return, IInv, TypeInv
<1>5. req'[t] = NoRequest /\ answer'[t] = NoAnswer /\ done'[t] = 0
  BY DEF Return, IInv, TypeInv
<1>6. DoneInv'
  BY <1>4, <1>5 DEF IInv, DoneInv
<1>7. MutexInv'
  BY <1>1, <1>4 DEF IInv, TypeInv, MutexInv, Pending
<1>8. WorkInv'
  BY <1>1, <1>4, WorkUntouched DEF IInv, TypeInv, WorkInv
<1>9. QED
  BY <1>2, <1>3, <1>6, <1>7, <1>8 DEF IInv

\* An answer, given inside the mutex or before it.
LEMMA AnswerInv ==
    ASSUME IInv, NEW t \in Threads, Pending(t),
           NEW status \in {"good", "error"}, NEW data \in Seq(Nat),
           Answer(t, status, data), inside' = inside \ {t},
           UNCHANGED <<readOnly, registered, failed, req, done, output, updates>>,
           StoreInv', store' = store \/ inside \subseteq {t}
    PROVE  IInv'
<1>1. /\ TypeInv'
      /\ answer'[t] = [status |-> status, data |-> data]
      /\ \A u \in Threads : u # t => answer'[u] = answer[u]
  BY DEF IInv, TypeInv, Answer, StoreInv
<1>2. DoneInv'
  BY <1>1 DEF IInv, DoneInv, Pending
<1>3. MutexInv'
  BY <1>1 DEF IInv, TypeInv, MutexInv, Pending
<1>4. WorkInv'
  BY WorkUntouched DEF IInv, TypeInv, WorkInv
<1>5. QED
  BY <1>1, <1>2, <1>3, <1>4 DEF IInv

\* An answer given before the store is locked keeps the invariant.
LEMMA AnswerEarlyInv == ASSUME IInv, NEW t \in Threads, AnswerEarly(t) PROVE IInv'
<1>1. PICK status \in {"good", "error"} : Answer(t, status, <<>>)
  BY DEF AnswerEarly
<1>2. /\ Pending(t) /\ inside' = inside \ {t}
      /\ UNCHANGED <<readOnly, store, registered, failed, req, done, output, updates>>
  BY DEF AnswerEarly
<1>3. StoreInv' /\ <<>> \in Seq(Nat)
  BY <1>2 DEF IInv, StoreInv
<1>4. QED
  BY <1>1, <1>2, <1>3, AnswerInv

\* A storage operation that fails under a request keeps the invariant.
LEMMA BreakInv == ASSUME IInv, NEW t \in Threads, Break(t) PROVE IInv'
<1>1. UNCHANGED <<readOnly, store, registered, inside, req, answer, done, output, updates>>
      /\ failed' = failed \cup {t}
  BY DEF Break
<1>2. TypeInv' /\ StoreInv' /\ DoneInv' /\ MutexInv'
  BY <1>1 DEF IInv, TypeInv, StoreInv, DoneInv, MutexInv, Pending
<1>3. WorkInv'
  BY <1>1, WorkUntouched DEF IInv, TypeInv, WorkInv
<1>4. QED
  BY <1>2, <1>3 DEF IInv

\* The answers after a failed, a read and a synchronising request keep the invariant.
LEMMA AnswersInv ==
    ASSUME IInv, NEW t \in Threads, AnswerError(t) \/ AnswerRead(t) \/ AnswerSync(t)
    PROVE  IInv'
<1>1. t \in inside /\ Pending(t) /\ store' = store
  BY DEF AnswerError, AnswerRead, AnswerSync, Running, IInv, MutexInv
<1>2. PICK status \in {"good", "error"}, data \in {<<>>, output[t]} : Release(t, status, data)
  BY DEF AnswerError, AnswerRead, AnswerSync
<1>3. data \in Seq(Nat)
  <2>1. <<>> \in Seq(Nat)
    OBVIOUS
  <2>2. output[t] \in Seq(Nat)
    BY DEF IInv, TypeInv
  <2>3. QED
    BY <1>2, <2>1, <2>2
<1>4. StoreInv'
  BY <1>1 DEF IInv, StoreInv
<1>5. QED
  BY <1>1, <1>2, <1>3, <1>4, AnswerInv DEF Release

\* The commit of a write keeps the invariant.
LEMMA CommitInv == ASSUME IInv, NEW t \in Threads, Commit(t) PROVE IInv'
<1>1. t \in inside /\ t \notin failed /\ Pending(t) /\ inside \subseteq {t}
      /\ WrittenSoFar(t)
  BY DEF Commit, Running, IInv, MutexInv, WorkInv, Work
<1>2. PICK status \in {"good", "error"} : Release(t, status, <<>>)
  BY DEF Commit
<1>3. StoreInv'
  <2>1. CASE store' = store
    BY <2>1 DEF IInv, StoreInv
  <2>2. CASE store' = [b \in Blocks |->
                          IF b \in DOMAIN updates[t] THEN updates[t][b] ELSE store[b]]
    BY <1>1, <2>2 DEF IInv, StoreInv, WrittenSoFar
  <2>3. QED
    BY <2>1, <2>2 DEF Commit
<1>4. <<>> \in Seq(Nat)
  OBVIOUS
<1>5. QED
  BY <1>1, <1>2, <1>3, <1>4, AnswerInv DEF Release

\* Taking the lock of the store keeps the invariant.
LEMMA LockInv == ASSUME IInv, NEW t \in Threads, Lock(t) PROVE IInv'
<1>1. /\ inside = {} /\ inside' = {t} /\ Pending(t)
      /\ UNCHANGED <<readOnly, store, registered, req, answer>>
      /\ done' = [done EXCEPT ![t] = 0] /\ output' = [output EXCEPT ![t] = <<>>]
      /\ updates' = [updates EXCEPT ![t] = <<>>]
      /\ failed' = IF MustRefuse(req[t]) THEN failed \cup {t} ELSE failed \ {t}
  BY DEF Lock, Enter
<1>2. done'[t] = 0 /\ output'[t] = <<>> /\ updates'[t] = <<>> /\ DOMAIN <<>> = {}
  BY <1>1 DEF IInv, TypeInv
<1>3. TypeInv'
  <2>1. /\ DOMAIN updates' = Threads /\ updates' = [u \in Threads |-> updates'[u]]
        /\ \A u \in Threads : DOMAIN updates'[u] \subseteq Blocks
    BY <1>1, <1>2 DEF IInv, TypeInv
  <2>2. output' \in [Threads -> Seq(Nat)] /\ done' \in [Threads -> Nat]
    BY <1>1 DEF IInv, TypeInv
  <2>3. QED
    BY <1>1, <2>1, <2>2 DEF IInv, TypeInv
<1>4. StoreInv'
  BY <1>1 DEF IInv, StoreInv
<1>5. DoneInv'
  <2>1. \A u \in Threads : req[u] # NoRequest => Length(req[u]) \in Nat
    BY RequestNumbers DEF IInv, TypeInv
  <2>2. \A u \in Threads : done'[u] = IF u = t THEN 0 ELSE done[u]
    BY <1>1 DEF IInv, TypeInv
  <2>3. QED
    BY <1>1, <2>1, <2>2 DEF IInv, DoneInv
<1>6. MutexInv'
  BY <1>1 DEF MutexInv, Pending
<1>7. WorkInv'
  <2> SUFFICES ASSUME t \notin failed' PROVE Work(t)'
    BY <1>1 DEF WorkInv
  <2>1. ~ MustRefuse(req[t]) /\ MustRefuse(req[t])' = MustRefuse(req[t])
    BY <1>1 DEF MustRefuse, WritesReadOnly, OutOfRange
  <2>2. ReadSoFar(t)'
    BY <1>2 DEF ReadSoFar
  <2>3. req[t] \in Requests /\ From(req[t]) \in Nat
    BY <1>1, RequestNumbers DEF IInv, TypeInv, Pending
  <2>4. WrittenSoFar(t)'
    <3>1. \A c \in Cells : Overlay(t, c)' = SectorView'[c]
      BY <1>2 DEF Overlay
    <3>2. \A c \in Cells : c \notin From(req'[t]) .. From(req'[t]) + done'[t] - 1
      BY <1>1, <1>2, <2>3 DEF Cells
    <3>3. QED
      BY <1>2, <3>1, <3>2 DEF WrittenSoFar
  <2>5. QED
    BY <2>1, <2>2, <2>4 DEF Work
<1>8. QED
  BY <1>3, <1>4, <1>5, <1>6, <1>7 DEF IInv

-----------------------------------------------------------------------------
(* The loops of read_bytes and write_bytes *)

\* Where a turn of a loop is, and how far it may go.
LEMMA TurnFacts ==
    ASSUME IInv, NEW t \in Threads, Running(t), req[t].op # "sync", done[t] < Length(req[t])
    PROVE  /\ req[t] \in Requests /\ From(req[t]) \in Nat /\ Length(req[t]) \in Nat
           /\ done[t] \in Nat /\ From(req[t]) + Length(req[t]) <= Capacity
           /\ Index(t) \in Blocks /\ BlockOffset(t) \in 0 .. LogicalLength(Index(t)) - 1
           /\ From(req[t]) + done[t] = Index(t) * BlockSize + BlockOffset(t)
           /\ Index(t) * BlockSize \in Nat /\ LogicalLength(Index(t)) \in 1 .. BlockSize
<1>1. Pending(t) /\ req[t] \in Requests /\ ~ MustRefuse(req[t])
  BY DEF IInv, TypeInv, MutexInv, WorkInv, Work, Running, Pending
<1>2. From(req[t]) \in Nat /\ Length(req[t]) \in Nat
  BY <1>1, RequestNumbers
<1>3. done[t] \in Nat /\ Capacity \in Nat
  BY AdapterAssumption DEF IInv, TypeInv
<1>4. From(req[t]) + Length(req[t]) <= Capacity
  BY <1>1, <1>2, <1>3 DEF MustRefuse, WritesReadOnly, OutOfRange
<1>5. Absolute(t) \in Cells
  BY <1>2, <1>3, <1>4 DEF Absolute, Cells
<1>6. /\ Index(t) \in Blocks /\ BlockOffset(t) \in 0 .. LogicalLength(Index(t)) - 1
      /\ From(req[t]) + done[t] = Index(t) * BlockSize + BlockOffset(t)
  BY <1>5, CellsAreInBlocks DEF Index, BlockOffset, Absolute
<1>7. QED
  BY <1>1, <1>2, <1>3, <1>4, <1>6, BlocksBegin

\* The cells of a block, seen on the disk.
LEMMA CellOfBlock ==
    ASSUME NEW b \in Blocks, NEW i \in 0 .. LogicalLength(b) - 1
    PROVE  /\ b * BlockSize + i \in Cells
           /\ (b * BlockSize + i) \div BlockSize = b /\ (b * BlockSize + i) % BlockSize = i
<1>1. /\ b \in Nat /\ b * BlockSize \in Nat /\ LogicalLength(b) \in 1 .. BlockSize
      /\ b * BlockSize + LogicalLength(b) <= Capacity /\ BlockSize \in Nat /\ Capacity \in Nat
  BY BlocksBegin, AdapterAssumption
<1>2. i \in 0 .. BlockSize - 1 /\ i \in Nat
  BY <1>1
<1>3. b * BlockSize + i \in Cells
  BY <1>1, <1>2 DEF Cells
<1>4. QED
  BY <1>1, <1>2, <1>3, DivisionUnique

\* A patched block has the length of the block, the cells written, and for the
\* others what the disk shows.
LEMMA PatchedBlock ==
    ASSUME StoreInv, NEW b \in Blocks, NEW offset \in Nat, NEW cells \in Seq(Nat),
           offset + Len(cells) <= LogicalLength(b)
    PROVE  /\ Patched(b, offset, cells) \in Seq(Nat)
           /\ Len(Patched(b, offset, cells)) = LogicalLength(b)
           /\ \A i \in 0 .. LogicalLength(b) - 1 :
                 Patched(b, offset, cells)[i + 1] =
                     IF i \in offset .. offset + Len(cells) - 1 THEN cells[i - offset + 1]
                     ELSE SectorView[b * BlockSize + i]
<1> DEFINE n == LogicalLength(b)
           old == BlockOr0(b, n)
           new(i) == IF i \in offset + 1 .. offset + Len(cells) THEN cells[i - offset]
                     ELSE IF i <= Len(old) THEN old[i] ELSE 0
<1>1. n \in Nat /\ n > 0
  BY BlocksBegin, AdapterAssumption
<1>2. Patched(b, offset, cells) = [i \in 1 .. n |-> new(i)]
  BY DEF Patched, WrittenLength
<1>3. \A i \in 0 .. n - 1 : (IF i + 1 <= Len(old) THEN old[i + 1] ELSE 0) = SectorView[b * BlockSize + i]
  <2> TAKE i \in 0 .. n - 1
  <2>1. /\ b * BlockSize + i \in Cells
        /\ (b * BlockSize + i) \div BlockSize = b /\ (b * BlockSize + i) % BlockSize = i
    BY CellOfBlock
  <2>2. CASE store[b] = <<>>
    <3>1. old = [k \in 1 .. n |-> 0]
      BY <2>2 DEF BlockOr0
    <3>2. QED
      BY <1>1, <2>1, <2>2, <3>1, ViewOfCell
  <2>3. CASE store[b] # <<>>
    <3>1. old = store[b] /\ store[b] \in Seq(Nat) /\ Len(store[b]) = n
      BY <2>3 DEF BlockOr0, StoreInv
    <3>2. QED
      BY <1>1, <2>1, <2>3, <3>1, ViewOfCell
  <2>4. QED
    BY <2>2, <2>3
<1>4. \A i \in 0 .. n - 1 : SectorView[b * BlockSize + i] \in Nat
  BY CellOfBlock, ViewOfCell
<1> HIDE DEF old, n
<1>5. Len(cells) \in Nat /\ \A i \in 1 .. Len(cells) : cells[i] \in Nat
  OBVIOUS
<1>6. \A i \in 0 .. n - 1 :
         new(i + 1) = IF i \in offset .. offset + Len(cells) - 1 THEN cells[i - offset + 1]
                      ELSE SectorView[b * BlockSize + i]
  <2> TAKE i \in 0 .. n - 1
  <2>1. i + 1 \in offset + 1 .. offset + Len(cells) <=> i \in offset .. offset + Len(cells) - 1
    BY <1>1, <1>5
  <2>2. (i + 1) - offset = i - offset + 1
    BY <1>1, <1>5
  <2>3. QED
    BY <1>3, <2>1, <2>2
<1>7. \A i \in 1 .. n : new(i) \in Nat
  <2> TAKE i \in 1 .. n
  <2>1. i - 1 \in 0 .. n - 1 /\ (i - 1) + 1 = i
    BY <1>1
  <2>2. \A k \in 0 .. n - 1 : new(k + 1) \in Nat
    <3> TAKE k \in 0 .. n - 1
    <3>1. k \in offset .. offset + Len(cells) - 1 => k - offset + 1 \in 1 .. Len(cells)
      BY <1>1, <1>5
    <3>2. QED
      BY <1>4, <1>5, <1>6, <3>1
  <2>3. QED
    BY <2>1, <2>2
<1> HIDE DEF new
<1>8. \A i \in 0 .. n - 1 : i + 1 \in 1 .. n
  BY <1>1
<1>9. Patched(b, offset, cells) \in [1 .. n -> Nat]
  BY <1>2, <1>7
<1>10. Patched(b, offset, cells) \in Seq(Nat) /\ Len(Patched(b, offset, cells)) = n
  BY <1>1, <1>9
<1>11. \A i \in 0 .. n - 1 : Patched(b, offset, cells)[i + 1] = new(i + 1)
  BY <1>2, <1>8
<1>12. QED
  BY <1>6, <1>10, <1>11 DEF n

\* Reading one block of a request keeps the invariant.
LEMMA ReadStepInv == ASSUME IInv, NEW t \in Threads, ReadStep(t) PROVE IInv'
<1> DEFINE b == Index(t)
           off == BlockOffset(t)
           take == Take(t, BlockSize - off)
           block == BlockOr0(b, BlockSize)
           cell(i) == IF off + i <= Len(block) THEN block[off + i] ELSE 0
           more == [i \in 1 .. take |-> cell(i)]
<1>1. /\ Running(t) /\ req[t].op = "read" /\ done[t] < Length(req[t])
      /\ output' = [output EXCEPT ![t] = @ \o more]
      /\ done' = [done EXCEPT ![t] = @ + take]
      /\ UNCHANGED <<readOnly, store, registered, inside, failed, req, answer, updates>>
  BY DEF ReadStep
<1>2. /\ req[t] \in Requests /\ From(req[t]) \in Nat /\ Length(req[t]) \in Nat
      /\ done[t] \in Nat /\ From(req[t]) + Length(req[t]) <= Capacity
      /\ b \in Blocks /\ off \in 0 .. LogicalLength(b) - 1
      /\ From(req[t]) + done[t] = b * BlockSize + off
      /\ b * BlockSize \in Nat /\ LogicalLength(b) \in 1 .. BlockSize /\ BlockSize \in Nat
      /\ b \in Nat /\ Capacity \in Nat
  BY <1>1, TurnFacts, BlocksBegin, AdapterAssumption
<1> HIDE DEF b, off
<1>3. /\ take \in Nat /\ done[t] + take <= Length(req[t]) /\ off + take <= BlockSize
      /\ off \in Nat
  BY <1>1, <1>2 DEF Take, Least
<1>4. \A i \in 1 .. take : cell(i) = SectorView[From(req[t]) + done[t] + i - 1]
  <2> TAKE i \in 1 .. take
  <2> DEFINE c == b * BlockSize + (off + i - 1)
  <2>1. off + i - 1 \in 0 .. BlockSize - 1
    BY <1>2, <1>3
  <2>2. c \div BlockSize = b /\ c % BlockSize = off + i - 1 /\ c \in Nat
    BY <1>2, <2>1, DivisionUnique
  <2>3. c = From(req[t]) + done[t] + i - 1
    BY <1>2, <1>3
  <2>4. c \in Cells
    BY <1>2, <1>3, <2>2, <2>3 DEF Cells
  <2> HIDE DEF c
  <2>5. SectorView[c] = LET bl == BlockOr0(c \div BlockSize, BlockSize)
                        IN  IF c % BlockSize < Len(bl) THEN bl[(c % BlockSize) + 1] ELSE 0
    BY <2>4 DEF SectorView, Cells
  <2>6. SectorView[c] = IF off + i - 1 < Len(block) THEN block[(off + i - 1) + 1] ELSE 0
    BY <2>2, <2>5
  <2>7. Len(block) \in Nat
    <3>1. store[b] \in Seq(Nat) /\ Len(store[b]) \in Nat
      BY <1>2 DEF IInv, StoreInv
    <3>2. [k \in 1 .. BlockSize |-> 0] \in Seq(Nat)
      BY <1>2
    <3>3. block \in Seq(Nat)
      BY <3>1, <3>2 DEF BlockOr0
    <3>4. QED
      BY <3>3
  <2>8. off + i - 1 < Len(block) <=> off + i <= Len(block)
    BY <1>3, <2>7
  <2>9. (off + i - 1) + 1 = off + i
    BY <1>3
  <2>10. QED
    BY <2>3, <2>6, <2>8, <2>9
<1>5. \A i \in 1 .. take : From(req[t]) + done[t] + i - 1 \in Cells
  BY <1>2, <1>3 DEF Cells
<1>6. \A i \in 1 .. take : cell(i) \in Nat
  BY <1>4, <1>5, ViewOfCell DEF IInv
<1> HIDE DEF take, cell
<1>7. more \in Seq(Nat) /\ Len(more) = take /\ \A i \in 1 .. take : more[i] = cell(i)
  <2>1. more \in [1 .. take -> Nat]
    BY <1>6
  <2>2. QED
    BY <1>3, <2>1
<1> HIDE DEF more
<1>8. /\ output'[t] = output[t] \o more /\ done'[t] = done[t] + take
      /\ \A u \in Threads : u # t => output'[u] = output[u] /\ done'[u] = done[u]
  BY <1>1 DEF IInv, TypeInv
<1>9. output[t] \in Seq(Nat)
  BY DEF IInv, TypeInv
<1>10. TypeInv'
  <2>1. output[t] \o more \in Seq(Nat)
    BY <1>7, <1>9
  <2>2. output' \in [Threads -> Seq(Nat)]
    BY <1>1, <2>1 DEF IInv, TypeInv
  <2>3. done' \in [Threads -> Nat]
    <3>1. done \in [Threads -> Nat] /\ take \in Nat
      BY <1>3 DEF IInv, TypeInv
    <3>2. done' = [done EXCEPT ![t] = done[t] + take]
      BY <1>1
    <3>3. QED
      BY <3>1, <3>2
  <2>4. QED
    BY <1>1, <2>2, <2>3 DEF IInv, TypeInv
<1>11. StoreInv' /\ MutexInv'
  BY <1>1 DEF IInv, StoreInv, MutexInv, Pending
<1>12. DoneInv'
  <2>1. req[t] # NoRequest /\ Length(req[t]) \in Nat
    BY <1>2, RequestNumbers
  <2>2. done[t] \in Nat /\ done'[t] = done[t] + take
    BY <1>2, <1>8
  <2>3. done'[t] \in 0 .. Length(req[t])
    BY <1>3, <2>1, <2>2
  <2>4. QED
    BY <1>1, <1>8, <2>1, <2>3 DEF IInv, DoneInv
<1>13. inside \subseteq {t} /\ t \in inside /\ t \notin failed
  BY <1>1 DEF Running, IInv, MutexInv
<1>14. Work(t)'
  <2>1. ~ MustRefuse(req[t]) /\ ReadSoFar(t)
    BY <1>1, <1>13 DEF IInv, WorkInv, Work
  <2>2. ~ MustRefuse(req[t])'
    BY <1>1, <2>1 DEF MustRefuse, WritesReadOnly, OutOfRange
  <2>3. ReadSoFar(t)'
    <3>1. Len(output[t]) = done[t] /\ Len(output'[t]) = done[t] + take
      <4>1. Len(output[t]) = done[t]
        BY <2>1 DEF ReadSoFar
      <4>2. Len(output[t] \o more) = Len(output[t]) + Len(more)
        BY <1>7, <1>9, ConcatProperties
      <4>3. QED
        BY <1>7, <1>8, <4>1, <4>2
    <3>2. \A i \in 1 .. done[t] + take :
             output'[t][i] = IF i <= done[t] THEN output[t][i] ELSE more[i - done[t]]
      BY <1>7, <1>8, <1>9, <3>1
    <3>3. \A i \in 1 .. done[t] + take : output'[t][i] = SectorView[From(req[t]) + i - 1]
      <4> TAKE i \in 1 .. done[t] + take
      <4>1. CASE i <= done[t]
        <5>1. i \in 1 .. done[t]
          BY <1>2, <1>3, <4>1
        <5>2. output'[t][i] = output[t][i]
          BY <3>2, <4>1
        <5>3. QED
          BY <2>1, <5>1, <5>2 DEF ReadSoFar
      <4>2. CASE i > done[t]
        <5>1. i - done[t] \in 1 .. take
          BY <1>2, <1>3, <4>2
        <5>2. From(req[t]) + done[t] + (i - done[t]) - 1 = From(req[t]) + i - 1
          BY <1>2
        <5>3. output'[t][i] = cell(i - done[t])
          BY <1>2, <1>7, <3>2, <4>2, <5>1, SMTT(30)
        <5>4. QED
          BY <1>4, <5>1, <5>2, <5>3
      <4>3. QED
        BY <1>2, <4>1, <4>2
    <3>4. SectorView' = SectorView /\ req'[t] = req[t]
      BY <1>1, ViewKept
    <3>5. QED
      BY <1>8, <3>1, <3>3, <3>4 DEF ReadSoFar
  <2>4. req'[t].op = "read"
    BY <1>1
  <2>5. QED
    BY <2>2, <2>3, <2>4 DEF Work
<1>15. WorkInv'
  BY <1>1, <1>13, <1>14 DEF WorkInv
<1>16. QED
  BY <1>10, <1>11, <1>12, <1>15 DEF IInv

\* Writing one block of a request keeps the invariant.
LEMMA WriteStepInv == ASSUME IInv, NEW t \in Threads, WriteStep(t) PROVE IInv'
<1> DEFINE b == Index(t)
           off == BlockOffset(t)
           take == Take(t, LogicalLength(b) - off)
           from == From(req[t])
           base == b * BlockSize
           data == req[t].data
           cells == SubSeq(data, done[t] + 1, done[t] + take)
           new == Patched(b, off, cells)
<1>1. /\ Running(t) /\ req[t].op = "write" /\ done[t] < Length(req[t])
      /\ updates' = [updates EXCEPT ![t] = [c \in DOMAIN @ \cup {b} |->
                                               IF c = b THEN new ELSE @[c]]]
      /\ done' = [done EXCEPT ![t] = @ + take]
      /\ UNCHANGED <<readOnly, store, registered, inside, failed, req, answer, output>>
  BY DEF WriteStep
<1>2. /\ req[t] \in Requests /\ from \in Nat /\ Length(req[t]) \in Nat
      /\ done[t] \in Nat /\ from + Length(req[t]) <= Capacity
      /\ b \in Blocks /\ off \in 0 .. LogicalLength(b) - 1
      /\ from + done[t] = base + off
      /\ base \in Nat /\ LogicalLength(b) \in 1 .. BlockSize
  BY <1>1, TurnFacts
<1>3. /\ BlockSize \in Nat /\ Capacity \in Nat
      /\ LogicalLength(b) < BlockSize => base + LogicalLength(b) = Capacity
  BY <1>2, BlocksBegin, AdapterAssumption
<1>4. /\ take \in Nat /\ done[t] + take <= Length(req[t]) /\ off \in Nat
      /\ off + take <= LogicalLength(b)
      /\ done[t] + take < Length(req[t]) => off + take = LogicalLength(b)
  BY <1>1, <1>2, <1>3 DEF Take, Least
<1>5. data \in Seq(Nat) /\ Len(data) = Length(req[t])
  BY <1>1, <1>2, RequestsAssumption DEF Length
<1> HIDE DEF b, off, take, from, base, data
<1>6. /\ cells \in Seq(Nat) /\ Len(cells) = take
      /\ \A i \in 1 .. take : cells[i] = data[done[t] + i]
  <2> DEFINE first == done[t] + 1
             end == done[t] + take
  <2>1. first \in Int /\ end \in Int /\ end - first + 1 = take
        /\ (first <= end <=> take > 0)
        /\ \A i \in 1 .. take : first + i - 1 = done[t] + i
    BY <1>2, <1>4
  <2>2. \A i \in first .. end : data[i] \in Nat
    <3>1. \A i \in first .. end : i \in 1 .. Len(data)
      BY <1>2, <1>4, <1>5
    <3>2. QED
      BY <1>5, <3>1
  <2> HIDE DEF first, end
  <2>3. /\ SubSeq(data, first, end) \in Seq(Nat)
        /\ Len(SubSeq(data, first, end)) = IF first <= end THEN end - first + 1 ELSE 0
        /\ \A i \in 1 .. end - first + 1 : SubSeq(data, first, end)[i] = data[first + i - 1]
    BY <2>1, <2>2, SubSeqProperties
  <2>4. cells = SubSeq(data, first, end)
    BY DEF first, end
  <2>5. Len(cells) = take
    <3>1. CASE first <= end
      BY <2>1, <2>3, <2>4, <3>1
    <3>2. CASE ~ (first <= end)
      <4>1. take = 0
        BY <1>4, <2>1, <3>2
      <4>2. QED
        BY <2>3, <2>4, <3>2, <4>1
    <3>3. QED
      BY <3>1, <3>2
  <2>6. \A i \in 1 .. take : cells[i] = data[done[t] + i]
    BY <2>1, <2>3, <2>4
  <2>7. QED
    BY <2>3, <2>4, <2>5, <2>6
<1> HIDE DEF cells
<1>7. /\ new \in Seq(Nat) /\ Len(new) = LogicalLength(b)
      /\ \A i \in 0 .. LogicalLength(b) - 1 :
            new[i + 1] = IF i \in off .. off + take - 1 THEN cells[i - off + 1]
                         ELSE SectorView[base + i]
  <2>1. StoreInv /\ off + Len(cells) <= LogicalLength(b)
    BY <1>4, <1>6 DEF IInv
  <2>2. b \in Blocks /\ off \in Nat /\ cells \in Seq(Nat)
    BY <1>2, <1>4, <1>6
  <2>3. /\ new \in Seq(Nat) /\ Len(new) = LogicalLength(b)
        /\ \A i \in 0 .. LogicalLength(b) - 1 :
              new[i + 1] = IF i \in off .. off + Len(cells) - 1 THEN cells[i - off + 1]
                           ELSE SectorView[b * BlockSize + i]
    BY <2>1, <2>2, PatchedBlock
  <2>4. QED
    BY <1>6, <2>3 DEF base
<1> HIDE DEF new
<1>8. /\ done'[t] = done[t] + take
      /\ DOMAIN updates'[t] = DOMAIN updates[t] \cup {b}
      /\ updates'[t][b] = new
      /\ \A k \in DOMAIN updates[t] : k # b => updates'[t][k] = updates[t][k]
      /\ \A u \in Threads : u # t => updates'[u] = updates[u] /\ done'[u] = done[u]
  BY <1>1 DEF IInv, TypeInv
<1>9. TypeInv'
  <2>1. /\ DOMAIN updates' = Threads /\ updates' = [u \in Threads |-> updates'[u]]
    BY <1>1 DEF IInv, TypeInv
  <2>2. \A u \in Threads : DOMAIN updates'[u] \subseteq Blocks
    BY <1>2, <1>8 DEF IInv, TypeInv
  <2>3. done' \in [Threads -> Nat]
    <3>1. done \in [Threads -> Nat] /\ take \in Nat
      BY <1>4 DEF IInv, TypeInv
    <3>2. done' = [done EXCEPT ![t] = done[t] + take]
      BY <1>1
    <3>3. QED
      BY <3>1, <3>2
  <2>4. QED
    BY <1>1, <2>1, <2>2, <2>3 DEF IInv, TypeInv
<1>10. StoreInv' /\ MutexInv'
  BY <1>1 DEF IInv, StoreInv, MutexInv, Pending
<1>11. DoneInv'
  <2>1. req[t] # NoRequest /\ done'[t] \in 0 .. Length(req[t])
    BY <1>2, <1>4, <1>8, RequestNumbers
  <2>2. QED
    BY <1>1, <1>8, <2>1 DEF IInv, DoneInv
<1>12. inside \subseteq {t} /\ t \in inside /\ t \notin failed
  BY <1>1 DEF Running, IInv, MutexInv
<1>13. ~ MustRefuse(req[t]) /\ WrittenSoFar(t)
  BY <1>1, <1>12 DEF IInv, WorkInv, Work
<1>14. SectorView' = SectorView /\ req'[t] = req[t] /\ From(req[t]) = from
  BY <1>1, ViewKept DEF from
<1>15. b \notin DOMAIN updates[t]
  BY <1>1, <1>2, <1>3, <1>4, <1>13, <1>14 DEF WrittenSoFar, base
<1>16. ASSUME NEW k \in DOMAIN updates'[t]
       PROVE  /\ updates'[t][k] \in Seq(Nat) /\ Len(updates'[t][k]) = LogicalLength(k)
              /\ done'[t] < Length(req[t]) => k * BlockSize + BlockSize <= from + done'[t]
  <2>1. CASE k = b
    <3>1. updates'[t][k] \in Seq(Nat) /\ Len(updates'[t][k]) = LogicalLength(k)
      BY <1>7, <1>8, <2>1
    <3>2. done'[t] < Length(req[t]) => k * BlockSize + BlockSize <= from + done'[t]
      <4>1. SUFFICES ASSUME done'[t] < Length(req[t])
                     PROVE  base + BlockSize <= from + done'[t]
        BY <2>1 DEF base
      <4>2. from + done'[t] = base + LogicalLength(b)
        BY <1>2, <1>4, <1>8, <4>1
      <4>3. LogicalLength(b) = BlockSize
        BY <1>2, <1>3, <1>4, <1>8, <4>1, <4>2
      <4>4. QED
        BY <1>2, <1>3, <4>2, <4>3
    <3>3. QED
      BY <3>1, <3>2
  <2>2. CASE k # b
    <3>1. k \in DOMAIN updates[t] /\ updates'[t][k] = updates[t][k] /\ k \in Blocks
      BY <1>8, <2>2 DEF IInv, TypeInv
    <3>2. PICK kb \in Nat : kb = k * BlockSize
      BY <3>1, BlocksBegin
    <3>3. done'[t] < Length(req[t]) => done[t] < Length(req[t]) /\ done[t] <= done'[t]
      BY <1>2, <1>4, <1>8
    <3>4. done[t] < Length(req[t]) => k * BlockSize + BlockSize <= from + done[t]
      BY <1>13, <1>14, <3>1 DEF WrittenSoFar
    <3>5. done'[t] < Length(req[t]) => k * BlockSize + BlockSize <= from + done'[t]
      BY <1>2, <1>3, <1>4, <1>8, <3>2, <3>3, <3>4
    <3>6. updates[t][k] \in Seq(Nat) /\ Len(updates[t][k]) = LogicalLength(k)
      BY <1>13, <3>1 DEF WrittenSoFar
    <3>7. QED
      BY <3>1, <3>5, <3>6
  <2>3. QED
    BY <2>1, <2>2
<1>17. ASSUME NEW c \in Cells
       PROVE  Overlay(t, c)' = IF c \in from .. from + done'[t] - 1
                               THEN data[c - from + 1] ELSE SectorView[c]
  <2> DEFINE k == c \div BlockSize
             i == c % BlockSize
  <2>1. k \in Blocks /\ i \in 0 .. LogicalLength(k) - 1 /\ c = k * BlockSize + i /\ c \in Nat
        /\ k * BlockSize \in Nat /\ i \in Nat /\ k \in Nat /\ b \in Nat
        /\ LogicalLength(k) \in 1 .. BlockSize
    BY <1>2, CellsAreInBlocks, BlocksBegin DEF Cells
  <2>2. Overlay(t, c) = IF c \in from .. from + done[t] - 1
                        THEN data[c - from + 1] ELSE SectorView[c]
    BY <1>13, <1>14 DEF WrittenSoFar, data
  <2>3. /\ Overlay(t, c) = IF k \in DOMAIN updates[t] THEN updates[t][k][i + 1] ELSE SectorView[c]
        /\ Overlay(t, c)' = IF k \in DOMAIN updates'[t] THEN updates'[t][k][i + 1] ELSE SectorView[c]
    BY <1>14 DEF Overlay
  <2> HIDE DEF k, i
  <2>4. CASE k = b
    <3>1. Overlay(t, c) = SectorView[c] /\ Overlay(t, c)' = new[i + 1]
      BY <1>8, <1>15, <2>3, <2>4
    <3>2. Overlay(t, c)' = IF i \in off .. off + take - 1 THEN cells[i - off + 1]
                           ELSE SectorView[c]
      BY <1>7, <2>1, <2>4, <3>1 DEF base
    <3>3. CASE i \in off .. off + take - 1
      <4>1. c \in from .. from + done'[t] - 1
        BY <1>2, <1>4, <1>8, <2>1, <2>4, <3>3 DEF base
      <4>2. i - off + 1 \in 1 .. take /\ done[t] + (i - off + 1) = c - from + 1
        BY <1>2, <1>4, <2>1, <2>4, <3>3 DEF base
      <4>3. QED
        BY <1>6, <3>2, <3>3, <4>1, <4>2
    <3>4. CASE i \notin off .. off + take - 1
      <4>1. c \in from .. from + done'[t] - 1 <=> c \in from .. from + done[t] - 1
        BY <1>2, <1>4, <1>8, <2>1, <2>4, <3>4 DEF base
      <4>2. QED
        BY <2>2, <3>1, <3>2, <3>4, <4>1
    <3>5. QED
      BY <3>3, <3>4
  <2>5. CASE k # b
    <3>1. Overlay(t, c)' = Overlay(t, c)
      BY <1>8, <2>3, <2>5
    <3>2. c \in from .. from + done'[t] - 1 <=> c \in from .. from + done[t] - 1
      <4>1. CASE k < b
        <5>1. k * BlockSize + BlockSize <= base
          BY <2>1, <4>1, TimesBlock DEF base
        <5>2. QED
          BY <1>2, <1>3, <1>4, <1>8, <2>1, <5>1
      <4>2. CASE b < k
        <5>1. base + BlockSize <= k * BlockSize
          BY <2>1, <4>2, TimesBlock DEF base
        <5>2. QED
          BY <1>2, <1>3, <1>4, <1>8, <2>1, <5>1
      <4>3. QED
        BY <2>1, <2>5, <4>1, <4>2
    <3>3. QED
      BY <2>2, <3>1, <3>2
  <2>6. QED
    BY <2>4, <2>5
<1>18. WrittenSoFar(t)'
  BY <1>14, <1>16, <1>17 DEF WrittenSoFar, from, data
<1>19. ~ MustRefuse(req[t])' /\ req'[t].op = "write"
  BY <1>1, <1>13 DEF MustRefuse, WritesReadOnly, OutOfRange
<1>20. WorkInv'
  BY <1>1, <1>12, <1>18, <1>19 DEF WorkInv, Work
<1>21. QED
  BY <1>9, <1>10, <1>11, <1>20 DEF IInv

\* The partition table is a patch at the head of block 0.
LEMMA PartitionBlock ==
    ASSUME StoreInv, Capacity >= MinCapacity
    PROVE  /\ 0 \in Blocks /\ Len(Mbr) <= LogicalLength(0) /\ Len(Mbr) \in Nat
           /\ Patched(0, 0, Mbr) \in Seq(Nat) /\ Len(Patched(0, 0, Mbr)) = LogicalLength(0)
           /\ \A i \in 0 .. LogicalLength(0) - 1 :
                 Patched(0, 0, Mbr)[i + 1] = IF i < Len(Mbr) THEN Mbr[i + 1] ELSE SectorView[i]
<1>1. /\ BlockSize \in Nat /\ Capacity \in Nat /\ BlockSize <= Capacity /\ BlockSize > 0
      /\ SectorSize \in Nat /\ SectorSize > 0 /\ Mbr \in Seq(Nat) /\ Len(Mbr) \in Nat
      /\ Len(Mbr) <= SectorSize /\ BlockSize % SectorSize = 0
  BY AdapterAssumption
<1>2. 0 \in Cells /\ 0 \div BlockSize = 0
  BY <1>1, DivisionUnique DEF Cells
<1>3. 0 \in Blocks
  BY <1>2, CellsAreInBlocks
<1>4. LogicalLength(0) = BlockSize
  BY <1>1 DEF LogicalLength, Least
<1>5. SectorSize <= BlockSize
  BY <1>1
<1>6. 0 + Len(Mbr) <= LogicalLength(0)
  BY <1>1, <1>4, <1>5
<1>7. /\ Patched(0, 0, Mbr) \in Seq(Nat) /\ Len(Patched(0, 0, Mbr)) = LogicalLength(0)
      /\ \A i \in 0 .. LogicalLength(0) - 1 :
            Patched(0, 0, Mbr)[i + 1] =
                IF i \in 0 .. 0 + Len(Mbr) - 1 THEN Mbr[i - 0 + 1]
                ELSE SectorView[0 * BlockSize + i]
  BY <1>1, <1>3, <1>6, PatchedBlock
<1>8. \A i \in 0 .. LogicalLength(0) - 1 :
         /\ i \in 0 .. 0 + Len(Mbr) - 1 <=> i < Len(Mbr)
         /\ i - 0 + 1 = i + 1 /\ 0 * BlockSize + i = i
  BY <1>1, <1>4
<1> DEFINE new == Patched(0, 0, Mbr)
<1> HIDE DEF new
<1>9. \A i \in 0 .. LogicalLength(0) - 1 :
         new[i + 1] = IF i < Len(Mbr) THEN Mbr[i + 1] ELSE SectorView[i]
  <2>1. SUFFICES ASSUME NEW i \in 0 .. LogicalLength(0) - 1
                 PROVE  new[i + 1] = IF i < Len(Mbr) THEN Mbr[i + 1] ELSE SectorView[i]
    OBVIOUS
  <2>2. new[i + 1] = IF i \in 0 .. 0 + Len(Mbr) - 1 THEN Mbr[i - 0 + 1]
                     ELSE SectorView[0 * BlockSize + i]
    BY <1>7 DEF new
  <2>3. /\ i \in 0 .. 0 + Len(Mbr) - 1 <=> i < Len(Mbr)
        /\ i - 0 + 1 = i + 1 /\ 0 * BlockSize + i = i
    BY <1>8
  <2>4. QED
    BY <2>2, <2>3
<1>10. Len(Mbr) \in Nat /\ Len(Mbr) <= LogicalLength(0)
  BY <1>1, <1>6
<1>11. QED
  BY <1>3, <1>7, <1>9, <1>10 DEF new

\* Writing the first partition table keeps the invariant.
LEMMA PartitionInv == IInv /\ Partition => IInv'
<1> SUFFICES ASSUME IInv, Partition PROVE IInv'
  OBVIOUS
<1>1. /\ inside = {} /\ store' = [store EXCEPT ![0] = Patched(0, 0, Mbr)]
      /\ UNCHANGED <<readOnly, registered, inside, failed, req, answer, done, output, updates>>
  BY DEF IInv, TypeInv, MutexInv, Partition, Idle, Pending
<1>2. /\ 0 \in Blocks
      /\ Patched(0, 0, Mbr) \in Seq(Nat) /\ Len(Patched(0, 0, Mbr)) = LogicalLength(0)
  BY PartitionBlock DEF IInv, Partition
<1>3. StoreInv'
  BY <1>1, <1>2 DEF IInv, StoreInv
<1>4. TypeInv' /\ DoneInv' /\ MutexInv' /\ WorkInv'
  BY <1>1 DEF IInv, TypeInv, DoneInv, MutexInv, Pending, WorkInv
<1>5. QED
  BY <1>3, <1>4 DEF IInv

\* Every step keeps the invariant.
LEMMA NextInv == IInv /\ [Next]_vars => IInv'
BY MountInv, PartitionInv, UnregisterInv, SubmitInv, LockInv, AnswerEarlyInv, ReadStepInv,
   WriteStepInv, BreakInv, AnswersInv, CommitInv, ReturnInv DEF Next, Callback

\* The inductive invariant holds in every reachable state.
LEMMA Invariant == Spec => []IInv
BY InitInv, NextInv, PTL DEF Spec

\* Every callback keeps its buffers, positions and block lists in bounds.
THEOREM TypeCorrect == Spec => []TypeOK
<1>1. IInv => TypeOK
  BY DEF IInv, TypeInv, StoreInv, DoneInv, TypeOK
<1>2. QED
  BY <1>1, Invariant, PTL

\* No block is ever written past the logical capacity or short of its length,
\* whatever the sizes of sectors, blocks and volume.
THEOREM BlocksEndWithVolume == Spec => []BlocksFit
<1>1. IInv => BlocksFit
  BY DEF IInv, StoreInv, BlocksFit
<1>2. QED
  BY <1>1, Invariant, PTL

-----------------------------------------------------------------------------
(* The callbacks are an atomic disk *)

\* The initial states of the adapter map to initial states of the disk.
LEMMA InitIsInit == Init => Promise!Init
<1> SUFFICES ASSUME Init PROVE Promise!Init
  OBVIOUS
<1>1. StoreInv
  BY InitInv DEF IInv
<1>2. \A c \in Cells : SectorView[c] = 0
  BY <1>1, ViewOfCell, CellsAreInBlocks DEF Init
<1>3. SectorView = [c \in 0 .. Capacity - 1 |-> 0]
  <2>1. SectorView = [c \in Cells |-> SectorView[c]]
    BY DEF SectorView, Cells
  <2>2. QED
    BY <1>2, <2>1 DEF Cells
<1>4. QED
  BY <1>3 DEF Init, Promise!Init, NoRequest, NoAnswer, Promise!NoRequest, Promise!NoAnswer

\* The table goes where the disk is zero, and only there.
LEMMA PartitionIsPartition == IInv /\ Partition => Promise!Partition
<1> SUFFICES ASSUME IInv, Partition PROVE Promise!Partition
  OBVIOUS
<1>1. /\ 0 \in Blocks /\ Len(Mbr) <= LogicalLength(0) /\ Len(Mbr) \in Nat
      /\ \A i \in 0 .. LogicalLength(0) - 1 :
            Patched(0, 0, Mbr)[i + 1] = IF i < Len(Mbr) THEN Mbr[i + 1] ELSE SectorView[i]
      /\ Len(Patched(0, 0, Mbr)) = LogicalLength(0)
  BY PartitionBlock DEF IInv, Partition
<1>2. /\ LogicalLength(0) \in 1 .. BlockSize /\ LogicalLength(0) <= Capacity
      /\ BlockSize \in Nat /\ Capacity \in Nat
  BY <1>1, BlocksBegin, AdapterAssumption
<1>3. store' = [store EXCEPT ![0] = Patched(0, 0, Mbr)] /\ store'[0] = Patched(0, 0, Mbr)
  BY <1>1 DEF IInv, StoreInv, Partition
<1>4. StoreInv /\ StoreInv'
  BY PartitionInv DEF IInv
<1>5. store'[0] # <<>>
  BY <1>1, <1>2, <1>3
<1>6. ASSUME NEW i \in 0 .. LogicalLength(0) - 1
      PROVE  /\ i \in Cells /\ i \div BlockSize = 0 /\ i % BlockSize = i
  <2>1. 0 * BlockSize + i = i
    BY <1>2
  <2>2. QED
    BY <1>1, <2>1, CellOfBlock
<1>7. \A c \in 0 .. Len(Mbr) - 1 : SectorView[c] = 0
  <2> TAKE c \in 0 .. Len(Mbr) - 1
  <2> DEFINE head == BlockOr0(0, Len(Mbr))
  <2>1. \A i \in 1 .. Len(Mbr) : i <= Len(head) => head[i] = 0
    BY DEF Partition
  <2>2. c \in 0 .. LogicalLength(0) - 1 /\ c + 1 \in 1 .. Len(Mbr)
    BY <1>1, <1>2
  <2>3. CASE store[0] = <<>>
    BY <1>4, <1>6, <2>2, <2>3, ViewOfCell
  <2>4. CASE store[0] # <<>>
    <3>1. head = store[0] /\ Len(store[0]) = LogicalLength(0)
      BY <1>1, <1>4, <2>4 DEF BlockOr0, StoreInv
    <3>2. c + 1 <= Len(head)
      BY <1>2, <2>2, <3>1
    <3>3. SectorView[c] = store[0][c + 1]
      BY <1>4, <1>6, <2>2, <2>4, ViewOfCell
    <3>4. QED
      BY <2>1, <2>2, <3>1, <3>2, <3>3
  <2>5. QED
    BY <2>3, <2>4
<1>8. ASSUME NEW c \in Cells
      PROVE  SectorView'[c] = IF c < Len(Mbr) THEN Mbr[c + 1] ELSE SectorView[c]
  <2>1. /\ c \div BlockSize \in Blocks
        /\ c % BlockSize \in 0 .. LogicalLength(c \div BlockSize) - 1
        /\ c = (c \div BlockSize) * BlockSize + (c % BlockSize)
    BY CellsAreInBlocks
  <2>2. CASE c \div BlockSize = 0
    <3>1. c \in 0 .. LogicalLength(0) - 1 /\ c % BlockSize = c
      BY <1>2, <2>1, <2>2
    <3>2. SectorView'[c] = store'[0][c + 1]
      BY <1>4, <1>5, <2>2, <3>1, ViewNext
    <3>3. QED
      BY <1>1, <1>3, <3>1, <3>2
  <2>3. CASE c \div BlockSize # 0
    <3>1. ~ (c < Len(Mbr))
      BY <1>1, <1>2, <1>6, <2>3 DEF Cells
    <3>2. store'[c \div BlockSize] = store[c \div BlockSize]
      BY <1>3, <2>1, <2>3 DEF IInv, StoreInv
    <3>3. QED
      BY <1>4, <3>1, <3>2, ViewOfCell, ViewNext
  <2>4. QED
    BY <2>2, <2>3
<1>9. /\ DOMAIN SectorView = Cells
      /\ SectorView' = [c \in Cells |-> IF c < Len(Mbr) THEN Mbr[c + 1] ELSE SectorView[c]]
  <2>1. SectorView' = [c \in Cells |-> SectorView'[c]]
    BY DEF SectorView, Cells
  <2>2. QED
    BY <1>8, <2>1, ViewIsDisk
<1>10. QED
  BY <1>7, <1>9 DEF Promise!Partition, Partition, Idle, NoRequest, Promise!NoRequest

\* A failed request is a failed request of the disk.
LEMMA AnswerErrorIsFail ==
    ASSUME IInv, NEW t \in Threads, AnswerError(t) PROVE Promise!Fail(t)
<1>1. Pending(t) /\ store' = store /\ Answer(t, "error", <<>>) /\ req' = req
  BY DEF AnswerError, Release, IInv, MutexInv
<1>2. SectorView' = SectorView
  BY <1>1, ViewKept
<1>3. QED
  BY <1>1, <1>2 DEF Promise!Fail, Promise!Answer, Promise!Pending, Pending, Answer,
     NoRequest, NoAnswer, Promise!NoRequest, Promise!NoAnswer

\* An answer given early is, for the disk, a failure or an answer that changes nothing.
LEMMA AnswerEarlyIsAnswer ==
    ASSUME IInv, NEW t \in Threads, AnswerEarly(t) PROVE Promise!Fail(t) \/ Promise!Nothing(t)
<1>1. Pending(t) /\ store' = store /\ req' = req
  BY DEF AnswerEarly
<1>2. SectorView' = SectorView
  BY <1>1, ViewKept
<1>3. CASE Answer(t, "error", <<>>)
  BY <1>1, <1>2, <1>3 DEF Promise!Fail, Promise!Answer, Promise!Pending, Pending, Answer,
     NoRequest, NoAnswer, Promise!NoRequest, Promise!NoAnswer
<1>4. CASE req[t].count = 0 /\ Answer(t, "good", <<>>)
  <2>1. Promise!Length(req[t]) = 0
    BY <1>4, AdapterAssumption DEF Promise!Length
  <2>2. QED
    BY <1>1, <1>2, <1>4, <2>1 DEF Promise!Nothing, Promise!Answer, Promise!Pending, Pending,
       Answer, NoRequest, NoAnswer, Promise!NoRequest, Promise!NoAnswer
<1>5. QED
  BY <1>3, <1>4 DEF AnswerEarly

\* A synchronising request changes nothing on the disk.
LEMMA AnswerSyncIsNothing ==
    ASSUME IInv, NEW t \in Threads, AnswerSync(t) PROVE Promise!Nothing(t)
<1>1. /\ Pending(t) /\ store' = store /\ Answer(t, "good", <<>>) /\ req' = req
      /\ req[t].op = "sync"
  BY DEF AnswerSync, Running, Release, IInv, MutexInv
<1>2. SectorView' = SectorView
  BY <1>1, ViewKept
<1>3. QED
  BY <1>1, <1>2 DEF Promise!Nothing, Promise!Answer, Promise!Pending, Pending, Answer,
     NoRequest, NoAnswer, Promise!NoRequest, Promise!NoAnswer

\* A request that was not refused lies on the disk.
LEMMA NotRefusedOnDisk ==
    ASSUME IInv, NEW t \in Threads, Running(t), req[t].op # "sync"
    PROVE  /\ Pending(t) /\ req[t] \in Requests /\ Promise!OnDisk(req[t])
           /\ From(req[t]) \in Nat /\ Length(req[t]) \in Nat
           /\ Promise!From(req[t]) = From(req[t]) /\ Promise!Length(req[t]) = Length(req[t])
           /\ From(req[t]) + Length(req[t]) <= Capacity
<1>1. Pending(t) /\ req[t] \in Requests /\ ~ MustRefuse(req[t])
  BY DEF IInv, TypeInv, MutexInv, WorkInv, Work, Running, Pending
<1>2. From(req[t]) \in Nat /\ Length(req[t]) \in Nat /\ Capacity \in Nat
  BY <1>1, RequestNumbers, AdapterAssumption
<1>3. From(req[t]) + Length(req[t]) <= Capacity
  BY <1>1, <1>2 DEF MustRefuse, WritesReadOnly, OutOfRange
<1>4. Promise!From(req[t]) = From(req[t]) /\ Promise!Length(req[t]) = Length(req[t])
  BY DEF From, Length, Promise!From, Promise!Length
<1>5. QED
  BY <1>1, <1>2, <1>3, <1>4 DEF Promise!OnDisk

\* A read answers the bytes the disk holds at once, between its request and its answer.
LEMMA AnswerReadIsRead ==
    ASSUME IInv, NEW t \in Threads, AnswerRead(t) PROVE Promise!Read(t)
<1>1. /\ Running(t) /\ req[t].op = "read" /\ done[t] = Length(req[t]) /\ store' = store
      /\ Answer(t, "good", output[t]) /\ req' = req
  BY DEF AnswerRead, Release
<1>2. SectorView' = SectorView
  BY <1>1, ViewKept
<1>3. /\ Pending(t) /\ Promise!OnDisk(req[t]) /\ Length(req[t]) \in Nat
      /\ Promise!From(req[t]) = From(req[t]) /\ Promise!Length(req[t]) = Length(req[t])
  BY <1>1, NotRefusedOnDisk
<1>4. ReadSoFar(t) /\ output[t] \in Seq(Nat)
  BY <1>1 DEF Running, IInv, TypeInv, WorkInv, Work
<1>5. output[t] = Promise!Slice(SectorView, req[t])
  <2>1. DOMAIN output[t] = 1 .. Length(req[t])
    BY <1>1, <1>4 DEF ReadSoFar
  <2>2. \A i \in 1 .. Length(req[t]) : output[t][i] = SectorView[From(req[t]) + i - 1]
    BY <1>1, <1>4 DEF ReadSoFar
  <2>3. output[t] = [i \in DOMAIN output[t] |-> output[t][i]]
    BY <1>4
  <2>4. QED
    BY <1>3, <2>1, <2>2, <2>3 DEF Promise!Slice
<1>6. QED
  BY <1>1, <1>2, <1>3, <1>5 DEF Promise!Read, Promise!Answer, Promise!Pending, Pending, Answer,
     NoRequest, NoAnswer, Promise!NoRequest, Promise!NoAnswer

\* A commit writes the whole request to the disk at once, or fails.
LEMMA CommitIsWrite ==
    ASSUME IInv, NEW t \in Threads, Commit(t) PROVE Promise!Write(t) \/ Promise!Fail(t)
<1>1. Running(t) /\ req[t].op = "write" /\ done[t] = Length(req[t]) /\ req' = req
  BY DEF Commit, Release
<1>2. /\ Pending(t) /\ Promise!OnDisk(req[t]) /\ From(req[t]) \in Nat /\ Length(req[t]) \in Nat
      /\ Promise!From(req[t]) = From(req[t]) /\ Promise!Length(req[t]) = Length(req[t])
  BY <1>1, NotRefusedOnDisk
<1>3. CASE Release(t, "error", <<>>) /\ UNCHANGED store
  <2>1. Answer(t, "error", <<>>) /\ SectorView' = SectorView
    BY <1>3, ViewKept DEF Release
  <2>2. QED
    BY <1>1, <1>2, <2>1 DEF Promise!Fail, Promise!Answer, Promise!Pending, Pending, Answer,
       NoRequest, NoAnswer, Promise!NoRequest, Promise!NoAnswer
<1>4. ASSUME store' = [b \in Blocks |->
                          IF b \in DOMAIN updates[t] THEN updates[t][b] ELSE store[b]],
             NEW status \in {"good", "error"}, Release(t, status, <<>>)
      PROVE  Promise!Write(t)
  <2>1. WrittenSoFar(t)
    BY <1>1 DEF Running, IInv, WorkInv, Work
  <2>2. StoreInv /\ StoreInv'
    BY CommitInv DEF IInv
  <2>3. ASSUME NEW c \in Cells PROVE SectorView'[c] = Overlay(t, c)
    <3>1. c \div BlockSize \in Blocks /\ LogicalLength(c \div BlockSize) \in 1 .. BlockSize
      BY CellsAreInBlocks, BlocksBegin
    <3>2. CASE c \div BlockSize \in DOMAIN updates[t]
      <4>1. store'[c \div BlockSize] = updates[t][c \div BlockSize]
        BY <1>4, <3>1, <3>2
      <4>2. Len(updates[t][c \div BlockSize]) = LogicalLength(c \div BlockSize)
        BY <2>1, <3>2 DEF WrittenSoFar
      <4>3. store'[c \div BlockSize] # <<>>
        BY <3>1, <4>1, <4>2
      <4>4. QED
        BY <2>2, <3>2, <4>1, <4>3, ViewNext DEF Overlay
    <3>3. CASE c \div BlockSize \notin DOMAIN updates[t]
      <4>1. store'[c \div BlockSize] = store[c \div BlockSize]
        BY <1>4, <3>1, <3>3
      <4>2. QED
        BY <2>2, <3>3, <4>1, ViewNext, ViewOfCell DEF Overlay
    <3>4. QED
      BY <3>2, <3>3
  <2>4. \A c \in Cells :
           SectorView'[c] = IF c \in From(req[t]) .. From(req[t]) + Length(req[t]) - 1
                            THEN req[t].data[c - From(req[t]) + 1] ELSE SectorView[c]
    BY <1>1, <2>1, <2>3 DEF WrittenSoFar
  <2>5. SectorView' = [c \in Cells |-> SectorView'[c]] /\ DOMAIN SectorView = Cells
    BY DEF SectorView, Cells
  <2>6. SectorView' = Promise!Overwrite(SectorView, req[t])
    BY <1>2, <2>4, <2>5 DEF Promise!Overwrite
  <2>7. Answer(t, status, <<>>)
    BY <1>4 DEF Release
  <2>8. QED
    BY <1>1, <1>2, <2>6, <2>7 DEF Promise!Write, Promise!Answer, Promise!Pending, Pending, Answer,
       NoRequest, NoAnswer, Promise!NoRequest, Promise!NoAnswer
<1>5. QED
  BY <1>3, <1>4 DEF Commit

\* The mutex makes a callback one step of the disk: the one that answers it.
LEMMA StepIsStep == IInv /\ [Next]_vars => [Promise!Next]_(Promise!vars)
<1> SUFFICES ASSUME IInv, [Next]_vars PROVE [Promise!Next]_(Promise!vars)
  OBVIOUS
<1>1. CASE Mount \/ Unregister \/ UNCHANGED vars
  BY <1>1, ViewKept DEF Mount, Unregister, vars, Promise!vars
<1>2. CASE Partition
  BY <1>2, PartitionIsPartition DEF Promise!Next
<1>3. ASSUME NEW t \in Threads, Submit(t) \/ Lock(t) \/ Callback(t)
      PROVE  [Promise!Next]_(Promise!vars)
  <2>1. CASE Submit(t)
    <3>1. Promise!Submit(t)
      BY <2>1, ViewKept DEF Submit, Promise!Submit, NoRequest, Promise!NoRequest
    <3>2. QED
      BY <3>1 DEF Promise!Next
  <2>2. CASE Lock(t) \/ ReadStep(t) \/ WriteStep(t) \/ Break(t)
    <3>1. store' = store /\ req' = req /\ answer' = answer
      BY <2>2 DEF Lock, Enter, ReadStep, WriteStep, Break
    <3>2. QED
      BY <3>1, ViewKept DEF Promise!vars
  <2>3. CASE AnswerEarly(t)
    BY <2>3, AnswerEarlyIsAnswer DEF Promise!Next
  <2>4. CASE AnswerError(t)
    BY <2>4, AnswerErrorIsFail DEF Promise!Next
  <2>5. CASE AnswerRead(t)
    BY <2>5, AnswerReadIsRead DEF Promise!Next
  <2>6. CASE AnswerSync(t)
    BY <2>6, AnswerSyncIsNothing DEF Promise!Next
  <2>7. CASE Commit(t)
    BY <2>7, CommitIsWrite DEF Promise!Next
  <2>8. CASE Return(t)
    <3>1. Promise!Return(t)
      BY <2>8, ViewKept DEF Return, Promise!Return, NoRequest, NoAnswer, Promise!NoRequest,
         Promise!NoAnswer
    <3>2. QED
      BY <3>1 DEF Promise!Next
  <2>9. QED
    BY <1>3, <2>1, <2>2, <2>3, <2>4, <2>5, <2>6, <2>7, <2>8 DEF Callback
<1>4. QED
  BY <1>1, <1>2, <1>3 DEF Next

\* The callbacks are the disk Windows expects: whatever requests overlap and
\* whatever fails, each takes effect at once, wholly or not at all, on exactly
\* its own cells; and a partition table only replaces zeros.
THEOREM Refinement == Spec => ImplementsDisk
<1>1. Init => Promise!Init
  BY InitIsInit
<1>2. IInv /\ [Next]_vars => [Promise!Next]_(Promise!vars)
  BY StepIsStep
<1>3. QED
  BY <1>1, <1>2, Invariant, PTL DEF Spec, ImplementsDisk, Promise!Spec

-----------------------------------------------------------------------------
(* The way to the release of the mutex *)

\* How far thread t is from the release: the cells of its request that are not
\* done, a step more if nothing has failed, and the release.
Away(t) ==
    IF t \notin inside THEN 0
    ELSE IF t \in failed THEN 1
    ELSE 2 + (Length(req[t]) - done[t])

\* Every step of the thread that holds the mutex takes it nearer to the release,
\* and no step of another thread, of the dispatcher or of a mount takes it back.
HolderAdvances ==
    \A t \in inside :
        /\ Callback(t) => Away(t)' < Away(t)
        /\ ~ Callback(t) => Away(t)' = Away(t)

\* The holder is at a request, and the distance is a number.
LEMMA HolderFacts ==
    ASSUME IInv, NEW t \in inside
    PROVE  /\ t \in Threads /\ answer[t] = NoAnswer /\ req[t] # NoRequest
           /\ Length(req[t]) \in Nat /\ done[t] \in 0 .. Length(req[t])
           /\ inside = {t} /\ Away(t) \in Nat \ {0}
<1>1. t \in Threads /\ Pending(t) /\ req[t] \in Requests /\ inside = {t}
  BY DEF IInv, TypeInv, MutexInv, Pending
<1>2. Length(req[t]) \in Nat /\ done[t] \in 0 .. Length(req[t])
  BY <1>1, RequestNumbers DEF IInv, DoneInv, Pending
<1>3. QED
  BY <1>1, <1>2 DEF Away, Pending

\* A turn of a loop does at least one cell.
LEMMA TurnTakes ==
    ASSUME IInv, NEW t \in Threads, Running(t), req[t].op # "sync", done[t] < Length(req[t]),
           NEW room \in {BlockSize - BlockOffset(t), LogicalLength(Index(t)) - BlockOffset(t)}
    PROVE  Take(t, room) \in Nat \ {0} /\ Take(t, room) <= Length(req[t]) - done[t]
<1>1. /\ Length(req[t]) \in Nat /\ done[t] \in Nat
      /\ BlockOffset(t) \in 0 .. LogicalLength(Index(t)) - 1
      /\ LogicalLength(Index(t)) \in 1 .. BlockSize /\ BlockSize \in Nat
  BY TurnFacts, AdapterAssumption
<1>2. room \in Nat \ {0} /\ Length(req[t]) - done[t] \in Nat \ {0}
  BY <1>1
<1>3. QED
  BY <1>2 DEF Take, Least

\* What the holder does.
LEMMA HolderGoes ==
    ASSUME IInv, NEW t \in inside, Callback(t)
    PROVE  Away(t)' < Away(t)
<1>1. /\ t \in Threads /\ answer[t] = NoAnswer /\ req[t] # NoRequest
      /\ Length(req[t]) \in Nat /\ done[t] \in 0 .. Length(req[t])
      /\ inside = {t} /\ Away(t) \in Nat \ {0}
  BY HolderFacts
<1>2. CASE AnswerError(t) \/ AnswerRead(t) \/ AnswerSync(t) \/ Commit(t)
  <2>1. inside' = inside \ {t}
    BY <1>2 DEF AnswerError, AnswerRead, AnswerSync, Commit, Release
  <2> QED
    BY <1>1, <2>1 DEF Away
<1>3. CASE Break(t)
  <2>1. Running(t) /\ failed' = failed \cup {t} /\ UNCHANGED <<inside, req, done>>
    BY <1>3 DEF Break
  <2> QED
    BY <1>1, <2>1 DEF Away, Running
<1>4. CASE ReadStep(t) \/ WriteStep(t)
  <2>1. Running(t) /\ req[t].op # "sync" /\ done[t] < Length(req[t])
    BY <1>4 DEF ReadStep, WriteStep
  <2>2. PICK room \in {BlockSize - BlockOffset(t), LogicalLength(Index(t)) - BlockOffset(t)} :
           done' = [done EXCEPT ![t] = @ + Take(t, room)] /\ UNCHANGED <<inside, failed, req>>
    BY <1>4 DEF ReadStep, WriteStep
  <2>3. Take(t, room) \in Nat \ {0} /\ Take(t, room) <= Length(req[t]) - done[t]
    BY <1>1, <2>1, TurnTakes
  <2>4. done'[t] = done[t] + Take(t, room)
    BY <1>1, <2>2 DEF IInv, TypeInv
  <2>5. t \in inside' /\ t \notin failed' /\ Length(req[t])' = Length(req[t])
    BY <2>1, <2>2 DEF Running, Length
  <2> QED
    BY <1>1, <2>1, <2>3, <2>4, <2>5 DEF Away, Running
<1>5. CASE AnswerEarly(t) \/ Return(t)
  BY <1>1, <1>5 DEF AnswerEarly, Return
<1>6. QED
  BY <1>2, <1>3, <1>4, <1>5 DEF Callback

\* What the others do.
LEMMA OthersStayOut ==
    ASSUME IInv, NEW t \in inside, [Next]_vars, ~ Callback(t)
    PROVE  Away(t)' = Away(t)
<1>1. t \in Threads /\ answer[t] = NoAnswer /\ req[t] # NoRequest /\ inside = {t}
  BY HolderFacts
<1>2. ASSUME t \in inside', t \in failed' <=> t \in failed, req'[t] = req[t], done'[t] = done[t]
      PROVE  Away(t)' = Away(t)
  BY <1>2 DEF Away, Length
<1>3. CASE Mount \/ Unregister \/ Partition \/ UNCHANGED vars
  BY <1>2, <1>3 DEF Mount, Unregister, Partition, vars
<1>4. ASSUME NEW u \in Threads, Submit(u) \/ Lock(u) \/ Callback(u)
      PROVE  Away(t)' = Away(t)
  <2>1. CASE Submit(u)
    <3>1. u # t /\ UNCHANGED <<inside, failed, done>>
      BY <1>1, <2>1 DEF Submit
    <3>2. req'[t] = req[t]
      BY <1>1, <2>1, <3>1 DEF Submit, IInv, TypeInv
    <3> QED
      BY <1>2, <3>1, <3>2
  <2>2. ~ Lock(u)
    BY <1>1 DEF Lock
  <2>3. CASE Callback(u) /\ u # t
    <3>1. u \notin inside
      BY <1>1, <2>3
    <3>2. AnswerEarly(u) \/ Return(u)
      BY <2>3, <3>1 DEF Callback, ReadStep, WriteStep, Break, AnswerError, AnswerRead, AnswerSync,
         Commit, Running
    <3>3. CASE AnswerEarly(u)
      BY <1>2, <3>3 DEF AnswerEarly
    <3>4. CASE Return(u)
      <4>1. inside' = inside /\ failed' = failed \ {u}
        BY <3>4 DEF Return
      <4>2. req'[t] = req[t] /\ done'[t] = done[t]
        BY <1>1, <2>3, <3>4 DEF Return, IInv, TypeInv
      <4> QED
        BY <1>2, <2>3, <4>1, <4>2
    <3> QED
      BY <3>2, <3>3, <3>4
  <2> QED
    BY <1>4, <2>1, <2>2, <2>3
<1>5. QED
  BY <1>3, <1>4 DEF Next

\* A callback holds the mutex for a bounded number of its own steps, whatever the
\* other threads do meanwhile and whatever fails: no
\* callback keeps it from the others for ever while its thread runs.
THEOREM HolderMakesWay == Spec => [][HolderAdvances]_vars
<1>1. IInv /\ [Next]_vars => [HolderAdvances]_vars
  BY HolderGoes, OthersStayOut DEF HolderAdvances
<1>2. QED
  BY <1>1, Invariant, PTL DEF Spec

=============================================================================
