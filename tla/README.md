# OrIsyVra: models and proofs

TLA+ models of OrIsyVra (a Rust workspace: encrypted files, visual key cards
and, on Windows, encrypted drives), the TLC instances that check them, and
TLAPS proofs. Paths are relative to `crates/`; line numbers are those of the
commit the project was written against. Each definition's lines are in
`PROJECT.json` under `map`.

## 1. The system

| component | state it keeps | operations | hard behaviour |
|---|---|---|---|
| **sparse volume** `orisyvra-volume/src/lib.rs` | a file with two superblock slots and an append-only record log; superblock, active slot and index in memory | `create`, `open` (recovery), `read_block`, `write_blocks`, `sync`, `mark_clean`, `mark_dirty`, drop | I/O errors at any step, process death, power loss with reordered and torn writes |
| **mount host, session** `orisyvra-volume/src/bin/orisyvra-volume-mount.rs` | entry mutex, open volume, WinSpd unit, drive letter, `ACTIVE_*`/`SAFE_SHUTDOWN` statics, `<id>.mounted`, `<id>.stop` | `run-entry`, `mount` at a console, stop-watch thread, console handler | two hosts, Windows changing drives meanwhile, retries, failing start-up steps |
| **mount host, sectors** same file, volume GUI | one `MountContext` behind a mutex | read, write, flush callbacks; a partition table written between mounts | concurrent callbacks, sectors smaller than blocks, a short last block, a failure in the middle of a request |
| **automatic mounting** `orisyvra-volume-gui`, `orisyvra-windows` | `<id>.conf`, credential capsule, DPAPI secret, logon task, Run entry of the registry, GUI copies | create, connect, policies, remove, sign-in prompts; `register-entry`, `unregister-entry`; host reads and expires the secret | GUI and host share only files; failing saves, refused elevation, crashes between two files |
| **encrypted files** `orisyvra/src/container.rs` | input position, transcript, counters, temporary output | `encrypt_file`, `decrypt_file` | damaged, cut, reordered, mixed files; limits |
| **outputs** `container.rs`, `keyfile.rs`, `keycard.rs`, `orisyvra-gui/src/main.rs` | names in a directory, temporary file or folder | name choice, check, write, sync, remove, move; folder runs | several windows and commands in one directory, failure, end of a process, power loss |
| **key cards** `orisyvra-pin`, `orisyvra-gui`, `keycard.rs`, `keyfile.rs` | card files, bindings, settings, selected and unlocked key, one worker task | select, drop, unlock, lock, forget, create, recovery, copy, use | outcomes applied after the user did something else; three-step creation; other programs at the same files |
| **key-card images** `keycard.rs`, `orisyvra-pin` | none; a PNG's private chunks | inject and extract a key chunk, add and find the PIN marker, export, decode | two crates walk the same chunks on their own; cut or rewritten images |
| **native permutation and PRF** `orisyvra-core` | sponge state, buffer, position | `permute` and its inverse, `prf_parts` | framing of inputs, ends of blocks, lanes changed in place |
| **command line** `orisyvra/src/main.rs` | none | calls the library once | `--force`; key cards made and copied beside the desktop application |

How they interact: the desktop application and the command line call
*encrypted files*, *outputs* and *key cards*. The volume GUI writes
registrations and credentials (*automatic mounting*) and starts a *mount host*
through the logon task; the host reads the credential, opens the *sparse
volume*, serves Windows' *sector* callbacks from it and is stopped by a marker
file. The host and the GUIs share nothing but files.

What makes each correct:

- volume: whole transactions, an acknowledged write survives, `open` always
  finds a superblock with a valid log, the clean flag tells the truth;
- host: a volume marked clean was dismounted; another drive's letters stay as they
  are; a session is shown, and a stop request ends it;
- sectors: concurrent callbacks are an atomic disk, a partition table never
  replaces data;
- automatic mounting: a one-shot credential mounts once, switching off removes
  it, an automatic entry's secret opens its credential, a connection starts with a
  pair that fits, the GUI is started at sign-in exactly while some entry prompts;
- files: what was written decrypts to its text, nothing else decrypts;
- outputs: a name only ever holds something whole, and without `--force` no job
  replaces what it found there;
- key cards: the unlocked key is the selected card's, a finished PIN card
  opens, a backup does not cost the card it copies and gives its capsule back;
- permutation and PRF: the inverse undoes each round, every byte is absorbed
  once and in order, no two calls are computed alike.

## 2. Modules

| module | models | relation |
|---|---|---|
| `CrashStore` | what a volume promises: blocks updated by whole transactions, and the set of views a power loss could leave | abstract |
| `Volume` | `orisyvra-volume/src/lib.rs`, one action per step that reaches the file | implements `CrashStore` by `Store == INSTANCE CrashStore WITH view <- CurrentView, maybe <- MaybeViews` |
| `VolumeProofs` | theorems about `Volume`: what it keeps to, and that it implements `CrashStore` | extends it |
| `MountHost` | one entry's hosts, some at a console, the stop thread, the GUI's stop and look, Windows | the volume reduced to its clean flag |
| `MountHostProofs` | theorems about `MountHost` | extends it |
| `SectorDisk` | a disk whose requests take effect at once | abstract |
| `SectorAdapter` | the WinSpd callbacks, and the partition table | implements `SectorDisk` (`Promise`, with the blocks seen as sectors); uses of the volume what `CrashStore` promises |
| `SectorAdapterProofs` | theorems about `SectorAdapter` and its refinement | extends it |
| `AutoMount` | registration, credential, secret, task, Run entry, and the host up to the mount | ends where `MountHost` begins |
| `AutoMountProofs` | theorems about `AutoMount` | extends it |
| `Container` | encrypted files, with a medium between writing and reading | |
| `ContainerProofs` | theorems about `Container` | extends it |
| `Outputs` | names, temporary files, folder runs, several jobs | a job's content is what `Container` decides about |
| `OutputsProofs` | theorems about `Outputs` | extends it |
| `CardImage` | what a card file holds and what each reader finds in it | operators |
| `KeyCards` | cards, bindings, the desktop application's key and its task, the command line | extends `CardImage` |
| `KeyCardsProofs` | theorems about `CardImage` and `KeyCards` | extends them |
| `Permutation` | a round of the permutation and its inverse, over words given as parameters | operators |
| `Sponge` | `prf_parts`, one turn of each loop at a time | extends `Permutation` |
| `SpongeProofs` | theorems about `Permutation` and `Sponge` | extends them |
| `MC*` | constants' values for TLC, sets of faults, symmetry | |

Constants are assumed about where they are declared (`BoundsAssumption`,
`HostAssumption`, ...). Definitions that follow a comment beginning with
"Mutant:" are not part of any specification; each is a plausible mistake in the
definition after it, kept so that it can be seen that the property notices.

### Correspondence to the code

**Volume.** A location of the file is a pair: what the operating system shows
(`slot`, `log`) and the set of contents a power loss could leave there
(`slotDur`, `logDur`). A write adds to the set, garbage (`Torn`) included; a
flush (`sync_data`, `sync_all`) makes it a singleton; `PowerLoss` picks one of
each. `write_blocks` is the sequence `BeginWrite`, `AppendRecord` per block,
`SyncData`, `WriteSuper`, `CommitSync`, each with a failing variant;
`set_clean_state` is `SetCleanState` and `FlagSync`, or `SetCleanStateKept` where
it returns `Ok` at once because memory has the flag. `standing` is history: whether
memory agrees with the file and the file is flushed; `promise` is the flag that an
`Ok` promised. Memory (`mem`, `active`,
`index`) changes where the code assigns it, so before the final flush.
`Recovered` is `open`'s choice between the slots and its fallback. Records have
unit length; a generation limit stands for `u64::MAX`.

**MountHost.** `pc[h]` walks through `mount_volume_with_master`; the stop thread
is `stopper`; `target` is the letter it read from `ACTIVE_DRIVE_LETTER` before its
tries to dismount. `fs` is the filesystem inside: dismounted, in use or cut off.
`flag` is the clean flag. Windows may hand out letters, add and remove another
drive and refuse a dismount. `console` holds the hosts that were started with
`mount` at a console: they take no mutex and write no markers, but open the same
file. `faults` is chosen in `Init` from the constant's sets and names what may go
wrong in that behaviour, so that an error the code handles, a fault of the
machine and an act of Windows are told apart; a property that one of them breaks
says so in its condition.

**SectorAdapter.** A cell is part of a sector; a callback is `Submit`, `Lock`, one
`ReadStep` or `WriteStep` per block, `Commit` and the answer. `Mount` and
`Unregister` enter the context in the map and take it out; a callback looks it up
in `Submit` and may take its mutex after it was taken out; `Partition` is
`initialize_mbr` (host) or `initialize_windows_mbr` (GUI) on a volume that is not
mounted, with the table reduced to some cells at the head of sector 0.

**AutoMount.** `at` is the step the GUI's one thread is in and `why` the operation
it belongs to; `host` is the step of the host. A password is the number of the
`prepare_credential` call that drew it. `conf` is the registration file, `row` the
GUI's copy, `runKey` the value in the registry that starts the GUI at sign-in,
`prompts` the key cards it then asks for, one after the other. `others` is a second
entry that prompts at sign-in; where its row is decides what the loops over rows
meet. A write that fails may have cut the file off first (`Torn`). `crossed` is history:
a host removed a file of the pair while the GUI was writing it. `faults` is chosen
in `Init`.

**Container.** A file is the sequence of its parts. What is sealed carries the
header and frame it is bound to; it opens only under the same ones (`RecordOpens`,
`ManifestOpens`), and the digest is the transcript itself.

**CardImage.** A PNG is the sequence of its chunks, told apart as key chunk, PIN
marker, end, one that is cut off, and any other; a digest or checksum is what it
was computed of. `Found` is the walk that each reader makes. A PDF is its printed
code, a photograph a code without chunks.

**KeyCards.** `task` is the window's running task and how far its worker is; an
outcome is applied by `Poll`, in a later frame than the worker's last step. `outside`
counts what the command line and an editor did to the files. Every output is looked for
(`WriteCard`, `CopyCard`, `Prepares`), written to a temporary file and moved over
whatever is at the path by then (`Persist`, `CommandMoves`), each a step of its own;
`--force` removes what it finds before the move. `command` is the file the command line
is about to move; `keygen --card` is `Keygen` and then `KeycardExport`. `crossed` is
history: the files that another program wrote between two steps of the task that works
on them.

**Permutation and Sponge.** Words and their operations are parameters of which
`WordAssumption` states what `u64` guarantees. A byte, a length and a counter are
one word each, so a block is six words. One action is one turn of a loop of
`absorb`, `permute` or `squeeze`; `last` and `blocks` are history.

**Outputs.** A job is one run of the command line or one window's run. A folder
job runs the file steps inside its own temporary folder. Moving a file replaces a
file; moving a folder replaces an empty folder and is refused where anything else is.
The user may put a file, a folder or an empty folder under a name at any time. `after`
is history: the jobs that had looked at a name before this came under it. An input equal to its own
output is refused by the code and is not represented.

## 3. What is checked

Passing runs:

| run | shows | instance |
|---|---|---|
| `volume_flags` | writes and clean flags under I/O errors and power loss: `ImplementsCrashStore`, always recoverable, reliable flag, committed log untouched | 2 blocks, 1 value, log of 2, generations to 4 |
| `volume_crash` | writes, syncs and one change of the flag, with the process dying anywhere after creation, a last flush failing, and power loss: `ImplementsCrashStore`, acknowledged writes stay, and so does the flag that a call promised | log of 3, generations to 3 |
| `host` | a clean volume was dismounted; a running session is shown; a stop request ends in the unit being deleted (liveness); another drive keeps its letters, but for the three ways round that are listed below; the GUI takes no entry without a host for connected | 2 hosts, the second perhaps at a console, 2 letters, 2 drives; three sets of faults: what a host survives (crashes, failing steps, late letters), another drive with refusals and console events, and a drive that comes while ours still has no letter |
| `automount` | one-shot credentials mount once; switching automatic connection off removes the secret; where no save of a pair is interrupted, an automatic entry's secret opens its credential; a connection that asked for the key has a new pair, whatever died before; without faults the Run entry is there exactly while some entry prompts; all of it with a user who goes on while a host starts | 2 passwords, every place of the other entry; no fault, refused elevations and failing saves, files that cannot be removed, and torn writes with crashes |
| `container` | round trip, damage is detected, the temporary file is always a beginning of the one text | 7 texts, chunks of 2, 3 records, 2 edits |
| `sector_disk` | the callbacks are an atomic disk, and blocks end with the volume | 2 threads, sector 2, block 4, capacity 6, table of 1, 10 requests, mounts in any number |
| `keys_safe` | the unlocked key is the selected card's; a ready PIN card opens; marking keeps a capsule; no task costs a card but the one it makes; a backup gives its card's capsule back; every task ends (liveness); with another program's move between any two steps | 2 images, 1 PDF, 2 capsules, 1 act of another program, all of its acts on one path |
| `outputs_whole` | a name holds only whole things; no job without `--force` replaces what it found, and nothing is replaced before the new output is complete | 3 jobs, 2 names, a user who puts files and folders there |
| `sponge` | the inverse round leads back; blocks are the input, once and in order; no two calls are computed alike | words of 4 bits, 108 calls: parts that look like lengths, parts that end around a block's end, other keys, domains and lengths |

Runs whose counterexample is a disagreement between the code and what the
repository says of it (each is quoted in `PROJECT.json` under `findings`):

| run | what happens |
|---|---|
| `volume_killed` | a process dies with its newest superblock unflushed; after a reopen a flag change leaves both slots unflushed, and a power loss may leave none (`lib.rs:577`) |
| `host_dispatcher` | a dispatcher that fails to start marks an interrupted volume clean (mount host, 1107) |
| `keys_lost` | creating a PIN card over an existing card is refused, and deletes that card (`orisyvra-pin`, 297) |

### Other disagreements

The same models show more of them when a constant is changed. They have no run
of their own; the passing runs stay clear of them, which is why their faults are
chosen as they are.

| model, constants | violated | what happens |
|---|---|---|
| `Volume`, `Faults = {"super_landed", "power"}` | `ImplementsCrashStore` | a superblock write reports an error although it landed; the next transaction overwrites the records it commits (`lib.rs:523`; `docs/VOLUME.md:84`: "Windows I/O touching several internal blocks is committed as one authenticated block transaction.") |
| `Volume`, `Ops` with `flag`, faults `commit_sync`, `flag_sync` or `kill` | `FlagIsDurable`, if the early `Ok` of `set_clean_state` promised as well | after a flush that failed, or a process that died in it, `mark_dirty` finds the flag in memory and returns `Ok`, while the file has the other flag, or loses this one with the power (`lib.rs:563`; `docs/WINDOWS_AUTOMOUNT.md:133`: "the volume remains dirty") |
| `MountHost`, fault `crash` | `ShowsLiveHost` | the state file of a killed host shows its entry as connected for ever (volume GUI, 265; `docs/WINDOWS_AUTOMOUNT.md:106` speaks of a process id that the host does not write) |
| `MountHost`, `other`, `slow_letter` | `OthersUntouched` without `NeverLearned` | a volume whose letter is not known yet: the stop thread dismounts the preferred letter, whoever owns it (mount host, 986; `docs/WINDOWS_AUTOMOUNT.md:121`: "An occupied preferred letter is left unchanged.") |
| `MountHost`, `other` | `OthersUntouched` without `mounts["ours"] = {}` | our drive has lost its letter, by a dismount whose flush failed, or `ACTIVE_DRIVE_LETTER` was reset by the teardown: a further dismount takes the letter from the drive that has it by then (986, 1166) |
| `MountHost`, `arrival` | `OthersUntouched` without `found = "other"` | a drive that arrives during the start is taken for the volume; its letter is moved, and it is dismounted (893) |
| `MountHost`, `arrival` | `CleanMeansDismounted` | a drive that arrives during the start is taken for the volume and dismounted in its place (893; `docs/VOLUME.md:123`: "A clean flag is written only after the safe path completes.") |
| `MountHost`, `sync`, `FairSpec` | `StopDetaches` | a sync that fails once after the dismount succeeded makes every retry fail (1136; `docs/WINDOWS_AUTOMOUNT.md:125-131`) |
| `AutoMount` | `OneShot`, for hosts that had loaded the entry as automatic | a policy switched off while such a host starts: the temporary secret written meanwhile is kept, and mounts twice (mount host, 780; `docs/WINDOWS_AUTOMOUNT.md:21`: "Temporary credentials are one-shot and expire after five minutes.") |
| `AutoMount` | `AutomaticWorks`, `ConnectHasPair` without `crossed` | a host drops an expired secret, and with it the credential that the GUI has just renewed: the new secret opens nothing (`orisyvra-windows/src/lib.rs:240`) |
| `AutoMount`, `uac` | `PromptsAtSignIn` | after a refused elevation a new entry that prompts has no Run entry until a policy changes, because `mount_entry` never calls `sync_startup` (volume GUI, 587; `docs/WINDOWS_AUTOMOUNT.md:97`) |
| `KeyCards`, `MaxOutside > 0` | `BackupsKeepCards` without `crossed` | a file that the command line moves to a path after the task has looked there is replaced without notice (`keycard.rs:477`, `orisyvra-pin` 138; `error.rs:27`: "output already exists: {0}") |
| `KeyCards`, `MaxOutside > 0` | `ReadyCardsOpen` without `crossed` | a card moved over a PIN card in the making is marked in its place, and the device secret is bound to its fingerprint, so that it does not open (`orisyvra-pin`, 290-292, 319-321) |
| `KeyCards`, `MaxOutside > 0` | `UnlockedIsSelected` without `crossed` | a card replaced between the two reads of an unlocking: the key is the old card's, the fingerprint shown the new one's (`orisyvra-gui`, 1030-1035) |
| `Outputs` | `KeepsWhatItFound` without `after` | what comes under a name after a job has looked is replaced by a file, or if it is an empty folder by a folder (`container.rs:450`, `orisyvra-gui/src/main.rs:475`) |
| `Outputs`, `Forced` | a name that had something never has nothing | `--force` removes the old output before it moves the new one: a failure or an end in between leaves neither under the name (`container.rs:447`) |

The exceptions are written into the properties, as conditions on `faults`, on
`crossed`, `after` or `standing`, or as the ways round that a step must have taken, so
that removing one shows its counterexample. They are as narrow as the counterexamples
require: they speak of the step or the file that goes wrong, and leave the rest of the
run to the property.

Five more were met while reading and are not stated as properties: switching
automatic connection off leaves the credential capsule (volume GUI, 490;
`docs/WINDOWS_AUTOMOUNT.md:36`); at sign-in the GUI goes on to the next key card
whichever card was unlocked, so another card chosen there skips a prompt (516;
`docs/WINDOWS_AUTOMOUNT.md:15`); removing an entry above another ends the GUI,
because `entries_panel` counts the rows once (716); Lock, clicked while a card is
being made, does not last, since the task's outcome brings a key back
(`orisyvra-gui`, 580; `docs/SPEC.md:123`); of two windows with the same automatic
name the later replaces the earlier's file (`container.rs`, 450;
`orisyvra-gui/src/main.rs:859`).

### Bounds, and why they are enough

- `Volume`: `MaxLog`, `MaxTxn`, `MaxGen`, `FlagBound`. Two slots alternate, so
  three commits show every pattern of old, new and torn slot; two blocks show a
  torn transaction; a log of 3 leaves room for a committed record, a torn one and
  the one that replaces it. The generation limit is reached. The proofs below
  hold for every bound. Flag changes stop at `FlagBound`, because
  `set_clean_state` saturates at `u64::MAX` where both slots could tie. In
  `volume_crash` that bound allows one change of the flag, before and after which the
  early `Ok` is open at any time: a second change after a process died in the first is the
  failure of `volume_killed`. Process death and
  power loss inside creation go with the fault "create", so they belong to
  `volume_flags`; so do errors of the other steps of a call.
- `MountHost`: two hosts show every race for the mutex, the volume and the state
  file; two drives and two letters show a drive taken for another, and a letter that
  passes from ours to it. Nothing counts.
- `SectorAdapter`: capacity 6 with blocks of 4 gives a whole and a short block;
  requests cover one block, both, part of each and beyond the end. The code writes
  the table where the first sector is empty and `MinCapacity` is reached; the
  table covers half a sector, so that both halves can differ.
- `AutoMount`: two passwords, so that a pair can be replaced while the one before is
  still in use. The user operates the GUI at any time, also while a host starts.
- `Container`: empty text, short and full last record, the most records and one
  too many; two edits compose to moves and replacements.
- `KeyCards`: no card at first, or one that `keygen` made; one file selected while another
  is made or printed; `MaxCards` of 2
  gives two keys, or a key and its recovery card; `MaxOutside` of 1 puts another
  program's look, and later its move, anywhere between the application's steps. Files
  differ in nothing but their names, so the card made before and what the other program writes are at one path (`FirstPaths`,
  `OutsidePaths`), and the user saves over existing files at the others (`PickPaths`): where
  the other program writes, a task meets what came after its path was picked. The application selects, makes and
  copies from and to every path.
- `Sponge`: the words have 4 bits, so lengths are taken modulo 16; every length of
  the calls is below. Key, domain and parts differ in one place at a time.
- `Outputs`: three jobs for one name and its variant; two files in a folder. That a
  folder's entries are on the disk when its files are synchronised is assumed of the file
  system: the code synchronises no folder.

Symmetry is used over blocks and jobs, which no definition orders, in the
volume runs and `outputs_whole`, which have no liveness property.

`CHECK_DEADLOCK` is on in every run.

### Fairness

- `host`: weak fairness of each host's own steps and of the stop thread
  (threads the system schedules), of Windows exposing the volume and giving it a
  letter, and strong fairness of the successful dismount: it may be refused
  again and again, as when files are open, but not for ever. No fairness for
  users, console events or faults.
- `keys_safe`: weak fairness of the worker and of `Poll`; the window asks for
  a repaint every 100 ms as long as a task exists.

## 4. What is proved

Each theorem holds for every value of the constants that satisfies the named
assumptions of its module. The pattern is always the same: an inductive invariant
(`IInv`, in `KeyCardsProofs` `Inv`), checked with TLC on a small instance first, one lemma per action that it is
preserved, and PTL at the end.

**The volume.** `VolumeProofs` proves, for every set of blocks and values and every
bound:

- `TypeCorrect`: `Spec => []TypeOK`, under every failure;
- `CommittedLogStays`: `Spec => CommittedLogIsStable`, under `InStep`;
- `FlagStays`: `Spec => []FlagIsDurable`, under `InStep`;
- `Recoverable`: `Spec => []AlwaysRecoverable`, under `SafeUse`.

`InStep` is what the first of the other disagreements shows to be necessary: no
superblock write reports an error after landing whole. `SafeUse` is what
`volume_killed` shows to be necessary besides: where the clean flag is used, no
process runs with its newest superblock unflushed. Log and flag do not need it: they
stay when a process dies in any call and when any flush fails. The log must also be
proved append-only for superblocks that are *not* in memory, so the invariant
`IInv` speaks of all contents that may survive a power loss:

- `ShownMayStay`, `SurvivorsScan`: every surviving superblock commits a log that
  is flushed and scans;
- `EndsGrow`, `Parity`: a higher generation never commits less, and the
  slots' generations never tie, so falling back never loses what a newer
  superblock commits;
- `OpenInv`, `TxnInv`, `CreateInv`, `ClosedInv`: memory is the newest
  superblock, but for a flag change whose flush failed or in which the process died,
  which is one generation ahead of it (`Lead`, 0 under `SafeUse`) and commits the same
  log; and what the call in progress has appended lies behind everything committed;
- `AnchorInv`: one slot always holds a superblock whatever happens, under `SafeUse`, and it is the
  active one when the flag is in use, because a flag change overwrites the other
  slot without a flush.

`Init => IInv` and its preservation by each group of actions (`Create`, `Open`,
`Write`, `Flag`, `Drop`, `Kill`, `PowerLoss`) are separate lemmas; the
theorems follow with PTL.

The second half of the module goes on from `IInv`, also under `SafeUse`:

- `Refinement`: `Spec => Store!Spec`, the volume is a `CrashStore`;
- `AcknowledgedStays`: `Spec => []AcknowledgedIsDurable`.

`RInv` adds to `IInv` that the index in memory is what a scan of the committed log
builds (`IndexInv`), what holds before the first flush (`UnbornInv`), that a write in
progress is not acknowledged (`WritingInv`), and that with the flag in use a power
loss leaves the slot that `open` would adopt (`SettledInv`). The views of the
abstract store are unions over all images that a power loss can leave; `Shapes`
says of each step's views what the step needs of them, and every action is then
shown to harden, extend, commit or keep them.

The last part is the flag, from `IInv` and `InStep` alone. `StandingInv` says what each
`standing` of memory to the file means: where a flag is promised or memory is known to
be flushed, no superblock in the file is newer than memory; and what is known to be
flushed survives, which is why the early `Ok` of `set_clean_state` may promise then, and
only then. `FlagInv` says of every image that its newest superblock has the promised
flag.

**The mount host.** `MountHostProofs` proves, for any hosts, letters, consoles and
faults, `TypeOK`, `CleanMeansDismounted`, `SessionIsShown`, `ShowsLiveHost` and
`OthersUntouched`. `IInv`: the file belongs to one host from opening to end and the
mutex to one that is no console (`Holds`); the unit, the statics and the flag
follow that host (`UnitFollows`); our drive is there while the unit runs and no
letter is that of two drives (`DrivesFollow`); from its dismount on the stop thread
may rely on it (`Vouched`); a drive found to be ours keeps the letter the host
knows as long as it has one, and the letter to be dismounted is that one
(`FoundOurs`); the state file is there for a session (`Shown`). The properties'
conditions on `faults` are the only assumptions. `LettersOfOthersStay` is about every
run: that the three ways round listed in section 3 are the only ones to another drive's
letters. Three more theorems are the safety
half of `StopDetaches`: a session whose unit runs has its stop thread, whatever that
thread fails at (`SessionsListen`); nobody but that thread takes a stop request away,
and only after the dismount and the flush (`RequestsStay`); and the first dismount
takes our volume offline, no other (`DismountIsOurs`).

**Sectors.** `SectorAdapterProofs` proves, for any threads, requests and sizes,
`TypeOK`, `BlocksFit` and that `SectorAdapter` implements `SectorDisk`. `IInv`: one
thread holds the mutex (`MutexInv`); what a read has gathered is what the disk has
held since it took the mutex (`ReadSoFar`); the disk, with the blocks that a
write has changed laid over it, differs from it in the cells written so far
(`WrittenSoFar`). The first part of the module is the arithmetic of cells,
sectors and blocks; `Least` of the volume's end and a block's is why the short
last block works. `HolderMakesWay` says that the mutex becomes free where its thread runs: every
step of the thread that holds the mutex lowers a number (`Away`) that no other
thread's step changes, so a callback holds the mutex for a bounded number of its steps.

**Automatic mounting.** `AutoMountProofs` proves `TypeOK`, `OneShot`, `AutomaticWorks`,
`ConnectHasPair`, `PromptsAtSignIn` and `DisabledRemovesSecret`, for any number of
passwords, with a user who operates the GUI while hosts start; the conditions in the
properties are the only assumptions. `IInv`: what each step of an operation may rely on
(`Steps`, `Entered`), where registration and Run entry may differ (`Withdrawn`,
`Synced`), that outside the steps that change it a pair fits, unless a host has crossed
them (`Paired`), and that no spent password is stored, held by a starting host or drawn
again, and none is left where a host unlocks that found the entry not automatic
(`OneUse`).

**Encrypted files.** `ContainerProofs` proves `RoundTrip`, `DetectsDamage` and
`TempIsPrefix` for any texts, chunk size, record limit and number of edits. `IInv`
says that a medium only ever holds parts of complete files and parts nobody
wrote (`Written`), and that `decrypt_file` holds the text of the records it has read
(`Decrypting`). A seal opens only under the header and digest it was made of; that
is what symbolic cryptography assumes.

**Outputs.** `OutputsProofs` proves, for any number of jobs, names, parts and files,
every property that `outputs_whole` checks. `WholeOutputs` is not inductive: that
a power loss cuts nothing short needs that whatever has a name is synchronised
(`Settled`), and that in turn how far a job has come at each step (`Progress`).
`IInv` is the two and `TypeOK`; `JobStep` and `NameStep` reduce a step to the one job
and the one name it touches. `FoundIsKept` needs `FoundInv` besides: what is under the
name of a job that went on came there after the job had looked. It is preserved because a
job only goes on from its look when the name is free or `--force` is given. `UniquePathIsName`
uses the library's minimum principle for the naturals, because `Min` is a CHOOSE.

**Key cards.** `KeyCardsProofs` proves, for any paths, any number of capsules and of
acts of other programs, every safety property that `keys_safe` checks. Its first
part is about files: `FoundIsFirst` says what a walk over the chunks finds,
`MarkerKeepsAll` that marking keeps a capsule, `EditedHolds` that no editor or
bad copy adds a capsule or makes a PIN card. From `Holding`, the capsules that are
anywhere in a file whether a reader finds them or not, follows what the rest needs:
no step brings a capsule to the cards but the one it makes (`Grown`). `Inv`: a
capsule that is anywhere, also in what the worker or the command line is about to move,
has been drawn (`Numbered`) and a number is one capsule (`Distinct`); a file holds one
at most (`OneEach`); a binding is of a card that was made, and its device secret
(`Bound`); the card being made, in its temporary file or in place, has the secret that
will be bound (`Making`); the key in memory or in an outcome fits its path and
fingerprint (`Unlocked`, `Opened`), also while a task writes to that very path. What
these say of secrets, and of a key and its fingerprint together, they say for tasks that
nobody crossed. The action properties follow from `Inv` and from `Copying`: the kind of
copy that was looked up before the task started is still right when it writes, and its
temporary file holds what was read.
`OnlyTheCleanUpLosesCards` says how far the finding of `keys_lost` reaches: while
nobody else writes cards, no step loses one but the clean-up of `create_pin_card`
(`FoundStays`: until then a task's path holds what it held when the task started).
`TasksAreShort` is the safety half of `TaskEnds`: each step of the worker and the window
lowers `Ahead`, eight at most, and nothing but them and the end of the application touches a task.

**Permutation and sponge.** `SpongeProofs` proves of words of any width and any
constants that a round is undone by its inverse (`RoundInverts`, one lemma per
stage), so that rounds are one-to-one (`RoundsAreOneToOne`), also onto when the words
are finitely many (`RoundsPermute`), that all rounds together are undone
(`PermutationInverts`) and nothing is lost inside `prf_parts` (`NothingIsLost`, which is
`RoundsInvert`). Of the sponge it proves the types (`TypeCorrect`), that the blocks are
the input and its padding (`BlocksHoldInput`), that no other call is computed alike
(`CallsAreSeparate`), and that the output is as long as was asked for
(`OutputIsWhole`).

`BlocksHoldInput` needs `BInv`: what is still to come is always the end of the whole
input (`Ordered`); until the padding, blocks and buffer together are its beginning
(`Collected`); after it, the blocks are all of it with the padding (`Complete`). Bytes
that are `Joined` from parts are added up by `Behind` and `Associative`. That calls are
separate then is arithmetic on sequences: the padding can be taken off again
(`PaddedDiffers`), the length in front of a part says where it ends (`PartsDiffer`), and
key and domain show in the start (`StartsDiffer`); together `FedDiffers`.
`EncodingAssumption` is what this rests on: a `usize` fits into 64 bits, so lengths
are different words when they are different numbers, and the padding byte changes a
zero byte. The proofs argue about recursive functions by sets of numbers: a set that
holds 0 and each successor holds every number (lemma `Numbers`, from the
library's minimum principle).

Only model-checked: liveness (`StopDetaches`, `TaskEnds`), because
fairness and `ENABLED` are out of the prover's reach. What of each is a matter of safety
is proved, as said above. Every other property that a passing run checks is a
theorem.

## 5. Not modelled

- Pixels, fonts and layout of key cards, the printed code's error correction,
  Argon2 and the byte layouts: pure conversions, which appear as what they yield.
- WinSpd, DPAPI, `mountvol`, `schtasks`, the registry and the file systems: external;
  they appear as the code uses them.
- The text of a registration file. An entry is its policy, or does not parse.
- More than one other entry, and what the GUI does with several that need the
  same key card at once.
- A worker thread that panics: it sends no `Finished` message and `poll_task` does not
  look at the disconnected channel (`orisyvra-gui`, 558), so the window would stay
  disabled. No panic of the called functions is known.
- `remove_pin_binding` has no caller. The analysis tool, fuzz targets, mascot,
  installers and workflows are not part of the running system.

## 6. Plan

Built, in this order: `CrashStore` and `Volume`, its proofs, `MountHost`, `AutoMount`,
`Container`, `SectorAdapter`, `KeyCards`, `Outputs` and its proofs; then `CardImage`,
`Permutation` and `Sponge`, the console hosts, partition tables, creation and
removal of entries and the sign-in prompts, and the proofs of every component.

What is left, most important first:

1. `Entries`: several registered entries of one GUI, with one key card for some of
   them, composed from `AutoMount`'s states;
2. the composition of `AutoMount` and `MountHost` at the moment of the mount, to see
   a whole session with its registration.
