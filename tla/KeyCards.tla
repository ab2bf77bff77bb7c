------------------------------- MODULE KeyCards -------------------------------
(***************************************************************************)
(* Key cards and the unlocked key on Windows: the desktop application      *)
(* (crates/orisyvra-gui/src/main.rs) and the PIN cards it makes            *)
(* (crates/orisyvra-pin/src/lib.rs).  The window is one thread; one worker *)
(* thread at a time runs a task and sends its outcome, which the window    *)
(* picks up in a later frame.  The top bar and dropped files stay usable   *)
(* while a task runs.  The application may be ended anywhere; the command  *)
(* line (crates/orisyvra/src/main.rs) works on the same files beside it,   *)
(* and an image editor may rewrite a card without knowing what it is.      *)
(*                                                                         *)
(* A card file (CardImage) holds a capsule that wraps a master key; its    *)
(* fingerprint is that of the capsule.  A PIN card is marked as one, and   *)
(* opens with the PIN and the device secret that the binding of its        *)
(* fingerprint holds.                                                      *)
(* The user may type a wrong credential, so opening a card may always      *)
(* fail.                                                                   *)
(***************************************************************************)
EXTENDS CardImage

CONSTANTS
    Paths,        \* card files
    PdfPaths,     \* those named .pdf
    FirstPaths,   \* where the one card made before may be
    OutsidePaths, \* the files that other programs write
    PickPaths,    \* where the user may save a new file over an existing one
    MaxCards,     \* bound on the capsules ever made
    MaxOutside    \* bound on what the command line and an editor do

Numbers == 1 .. MaxCards
NoPath == "none"

ASSUME KeyCardsAssumption ==
    /\ MaxCards \in Nat \ {0} /\ MaxOutside \in Nat
    /\ NoPath \notin Paths /\ PdfPaths \subseteq Paths
    /\ FirstPaths \subseteq Paths \ PdfPaths /\ OutsidePaths \subseteq Paths /\ PickPaths \subseteq Paths
    /\ Capsules = [id : Numbers, master : Numbers, secret : {0} \cup Numbers]

None == 0
NoCard == [id |-> None]
NoTask == [kind |-> "none", step |-> "none"]
NoCommand == [path |-> NoPath]

VARIABLES
    disk,        \* the card file at each path, or NoCard
    bindings,    \* fingerprint -> device secret, None when not registered
    drawn,       \* capsules made so far
    settings,    \* settings.txt, the remembered path
    up,          \* the application runs
    keySource, keyFingerprint, unlockedKey, \* App.key_source, ...
    unlockOpen,  \* App.unlock.open
    task,        \* App.task, where its worker is, and (history) the card its
                 \* path held when it started
    command,     \* what the command line is about to move, and where to
    outside,     \* history: what the command line and editors did so far
    crossed      \* history: files of a task that one of them wrote behind the
                 \* worker's back

app == <<keySource, keyFingerprint, unlockedKey, unlockOpen>>
files == <<disk, bindings, drawn>>
others == <<command, outside, crossed>>
vars == <<files, settings, up, app, task, others>>

Kinds == {"unlock", "create", "recovery", "copy", "file"}

IsFile(p) == p # NoPath /\ disk[p] # NoCard
Source(p) == SourceBytes(disk[p])
\* key_source_info succeeds
Holds(p) == IsFile(p) /\ Source(p) # Error

TypeOK ==
    /\ DOMAIN disk = Paths
    /\ \A p \in Paths : IsFile(p) => disk[p].chunks \in Seq(Chunk)
    /\ \A p \in Paths : Holds(p) =>
          Source(p) \in Capsules /\ Source(p).id \in 1 .. drawn /\ Source(p).master \in 1 .. drawn
    /\ bindings \in [Numbers -> {None} \cup Numbers]
    /\ drawn \in 0 .. MaxCards
    /\ settings \in Paths \cup {NoPath} /\ keySource \in Paths \cup {NoPath}
    /\ keyFingerprint \in 0 .. drawn /\ unlockedKey \in 0 .. drawn
    /\ up \in BOOLEAN /\ unlockOpen \in BOOLEAN
    /\ task.kind \in Kinds \cup {"none"}
    /\ command.path \in Paths \cup {NoPath}
    /\ outside \in 0 .. MaxOutside /\ crossed \subseteq Paths

\* Mutant: the fingerprint is that of the master key.
CardIdOfMaster(n, master) == master
\* card_id: the digest of the capsule, whose salt and nonce are fresh.
CardId(n, master) == n

\* Capsule number n of a master key, a fresh one when none is given; device
\* secret n, or None for a passphrase.
Card(n, given, pin) ==
    LET master == IF given = None THEN n ELSE given
    IN  [id |-> CardId(n, master), master |-> master,
         secret |-> IF pin THEN n ELSE None]

\* There is no card yet, or one that keygen made.
Init ==
    /\ \/ drawn = 0 /\ disk = [p \in Paths |-> NoCard]
       \/ /\ drawn = 1
          /\ \E made \in FirstPaths :
                disk = [p \in Paths |-> IF p = made THEN ExportBytes(Card(1, None, FALSE), FALSE)
                                                     ELSE NoCard]
    /\ bindings = [n \in Numbers |-> None]
    /\ settings = NoPath
    /\ up = TRUE
    /\ keySource = NoPath /\ keyFingerprint = None /\ unlockedKey = None
    /\ unlockOpen = FALSE
    /\ task = NoTask
    /\ command = NoCommand /\ outside = 0 /\ crossed = {}

\* pin_card_state, NotPinCard also when it fails
NotPinCard(p) == ~ IsFile(p) \/ ~ Marked(disk[p]) \/ ~ Holds(p)
Ready(p) == ~ NotPinCard(p) /\ bindings[Source(p).id] # None
BindingMissing(p) == ~ NotPinCard(p) /\ bindings[Source(p).id] = None

-----------------------------------------------------------------------------
(* The window *)

\* select_key: the Choose buttons while no task runs, a dropped file any time.
SelectKey(p) ==
    /\ up /\ Holds(p)
    /\ keySource' = p /\ settings' = p
    /\ keyFingerprint' = Source(p).id
    /\ unlockedKey' = None
    /\ unlockOpen' = TRUE
    /\ UNCHANGED <<files, up, task>>

\* lock_key; the button of the top bar is never disabled.
Lock ==
    /\ up /\ unlockedKey # None
    /\ unlockedKey' = None
    /\ UNCHANGED <<files, settings, up, keySource, keyFingerprint, unlockOpen, task>>

\* forget_key
Forget ==
    /\ up /\ task = NoTask /\ keySource # NoPath
    /\ unlockedKey' = None
    /\ keySource' = NoPath /\ keyFingerprint' = None /\ settings' = NoPath
    /\ UNCHANGED <<files, up, unlockOpen, task>>

OpenUnlock ==
    /\ up /\ task = NoTask /\ IsFile(keySource) /\ ~ unlockOpen
    /\ unlockedKey = None /\ ~ BindingMissing(keySource)
    /\ unlockOpen' = TRUE
    /\ UNCHANGED <<files, settings, up, keySource, keyFingerprint, unlockedKey, task>>

\* The user closes the dialog, or show_unlock_dialog finds nothing to unlock.
CloseUnlock ==
    /\ up /\ unlockOpen
    /\ unlockOpen' = FALSE
    /\ UNCHANGED <<files, settings, up, keySource, keyFingerprint, unlockedKey, task>>

\* start_task; one that runs keeps another from starting.
StartTask(kind, path, step, more) ==
    /\ up /\ task = NoTask
    /\ task' = [kind |-> kind, path |-> path, step |-> step, more |-> more,
                found |-> disk[path]]
    /\ UNCHANGED <<files, settings, up, keySource, keyFingerprint, unlockedKey>>

\* Whether the card asks for a PIN is looked up before the task starts.
StartUnlock ==
    /\ unlockOpen /\ IsFile(keySource) /\ ~ BindingMissing(keySource)
    /\ StartTask("unlock", keySource, "open", [pin |-> Ready(keySource)])
    /\ unlockOpen' = FALSE

\* The file dialog lets the user take an existing path.
MayPick(p) == p \in PickPaths \/ disk[p] = NoCard

StartCreate(p) ==
    /\ p \notin PdfPaths /\ MayPick(p) /\ drawn < MaxCards
    /\ StartTask("create", p, "write", [given |-> unlockedKey])
    /\ UNCHANGED unlockOpen

StartRecovery(p) ==
    /\ p \notin PdfPaths /\ MayPick(p) /\ drawn < MaxCards /\ unlockedKey # None
    /\ StartTask("recovery", p, "write", [given |-> unlockedKey])
    /\ UNCHANGED unlockOpen

\* export_png_copy looks up the kind of card before the task starts, and so
\* does export_legacy_pdf, which is offered for a passphrase card only.
StartCopy(p) ==
    /\ p \notin PdfPaths /\ MayPick(p) /\ IsFile(keySource)
    /\ StartTask("copy", p, "write", [source |-> keySource, pin |-> ~ NotPinCard(keySource)])
    /\ UNCHANGED unlockOpen

StartPdf(p) ==
    /\ p \in PdfPaths /\ MayPick(p) /\ IsFile(keySource) /\ NotPinCard(keySource)
    /\ StartTask("copy", p, "write", [source |-> keySource, pin |-> FALSE])
    /\ UNCHANGED unlockOpen

\* execute: a file or a folder is encrypted or decrypted.
StartFile ==
    /\ IsFile(keySource) /\ unlockedKey # None
    /\ StartTask("file", keySource, "work", [key |-> unlockedKey])
    /\ UNCHANGED unlockOpen

\* Mutant: an error leaves the task in place.
PollErrorIgnored == task.step = "error" /\ UNCHANGED vars

PollError ==
    /\ task.step = "error"
    /\ task' = NoTask
    /\ UNCHANGED <<files, settings, up, app>>

PollDone ==
    /\ task.step = "done"
    /\ task' = NoTask
    /\ UNCHANGED <<files, settings, up, app>>

\* Mutant: the outcome's key is taken over, the file it is of is not.
PollKeyOnly ==
    /\ task.step = "opened"
    /\ task' = NoTask
    /\ unlockedKey' = task.more.key /\ keyFingerprint' = task.more.id
    /\ UNCHANGED <<files, settings, up, keySource, unlockOpen>>

PollKey ==
    /\ task.step = "opened"
    /\ task' = NoTask
    /\ keySource' = task.path /\ settings' = task.path
    /\ unlockedKey' = task.more.key /\ keyFingerprint' = task.more.id
    /\ UNCHANGED <<files, up, unlockOpen>>

\* poll_task
Poll == up /\ (PollError \/ PollDone \/ PollKey)

-----------------------------------------------------------------------------
(* The worker *)

Step(s) == task' = [task EXCEPT !.step = s]
Finish(s) == task' = [task EXCEPT !.step = s, !.more = None]
At(s) == up /\ task.step = s
WindowStays == UNCHANGED <<settings, up, app>>

\* Any step that touches a file may fail; create_pin_card then removes its
\* output, whatever it holds.
WorkFails ==
    /\ \E s \in {"open", "inform", "work", "write", "persist", "mark", "rename", "bind"} :
          At(s)
    /\ Finish(IF task.kind = "create" /\ task.step # "open" THEN "remove" ELSE "error")
    /\ WindowStays /\ UNCHANGED files

\* OutputExists
WriteRefused ==
    /\ At("write") /\ disk[task.path] # NoCard
    /\ Finish(IF task.kind = "create" THEN "remove" ELSE "error")
    /\ WindowStays /\ UNCHANGED files

\* The output was looked for and not found; its temporary file is written.
Written(more) ==
    /\ task' = [task EXCEPT !.step = "persist", !.more = more]
    /\ WindowStays /\ UNCHANGED <<disk, bindings>>

\* Mutant: the card written is not the one that was drawn.
WriteCardUncounted ==
    /\ At("write") /\ task.kind \in {"create", "recovery"} /\ disk[task.path] = NoCard
    /\ LET card == Card(drawn + 1, task.more.given, task.kind = "create")
       IN  Written([file |-> ExportBytes(card, FALSE), secret |-> card.secret])
    /\ UNCHANGED drawn

\* create_keycard, export_recovery_keycard_from_master
WriteCard ==
    /\ At("write") /\ task.kind \in {"create", "recovery"} /\ disk[task.path] = NoCard
    /\ drawn < MaxCards /\ drawn' = drawn + 1
    /\ LET card == Card(drawn', task.more.given, task.kind = "create")
       IN  Written([file |-> ExportBytes(card, FALSE), secret |-> card.secret])

\* The copy of a source, as it was read.
Copied(source, pin, pdf) ==
    IF pin THEN disk[source] ELSE ExportBytes(Source(source), pdf)

\* Mutant: a copy overwrites.
CopyCardOver ==
    /\ At("write") /\ task.kind = "copy" /\ Holds(task.more.source)
    /\ task.more.pin => ~ NotPinCard(task.more.source)
    /\ Written([file |-> Copied(task.more.source, task.more.pin, task.path \in PdfPaths),
                pin |-> task.more.pin, of |-> disk[task.more.source]])
    /\ UNCHANGED drawn

\* Mutant: every copy is drawn anew.
CopyCardRedrawn ==
    /\ At("write") /\ task.kind = "copy" /\ disk[task.path] = NoCard
    /\ Holds(task.more.source)
    /\ Written([file |-> Copied(task.more.source, FALSE, task.path \in PdfPaths),
                pin |-> task.more.pin, of |-> disk[task.more.source]])
    /\ UNCHANGED drawn

\* copy_pin_card takes the bytes over, export_keycard draws the card anew.
\* ("of" is history.)
CopyCard ==
    /\ At("write") /\ task.kind = "copy" /\ disk[task.path] = NoCard
    /\ Holds(task.more.source)
    /\ task.more.pin => ~ NotPinCard(task.more.source)
    /\ Written([file |-> Copied(task.more.source, task.more.pin, task.path \in PdfPaths),
                pin |-> task.more.pin, of |-> disk[task.more.source]])
    /\ UNCHANGED drawn

\* The temporary file is moved over whatever is at the path by now; create_pin_card
\* goes on with its device secret, copy_pin_card reads its copy.
Persist ==
    /\ At("persist")
    /\ disk' = [disk EXCEPT ![task.path] = task.more.file]
    /\ CASE task.kind = "create" -> Step("mark")
         [] task.kind = "copy" /\ task.more.pin -> Step("inform")
         [] OTHER -> Finish("done")
    /\ WindowStays /\ UNCHANGED <<bindings, drawn>>

\* mark_pin_card reads the card, writes it marked to another file, removes it
\* and renames.
MarkRemove ==
    /\ At("mark") /\ IsFile(task.path)
    /\ LET marked == AddPinMarker(disk[task.path].chunks)
       IN  /\ marked # Error
           /\ task' = [task EXCEPT !.step = "rename",
                          !.more = [secret |-> task.more.secret, file |-> Png(marked)]]
    /\ disk' = [disk EXCEPT ![task.path] = NoCard]
    /\ WindowStays /\ UNCHANGED <<bindings, drawn>>

MarkRename ==
    /\ At("rename")
    /\ disk' = [disk EXCEPT ![task.path] = task.more.file]
    /\ Step("bind")
    /\ WindowStays /\ UNCHANGED <<bindings, drawn>>

\* store_binding: under the fingerprint of the card, read again, over what is
\* there.
Bind ==
    /\ At("bind") /\ Holds(task.path)
    /\ bindings' = [bindings EXCEPT ![Source(task.path).id] = task.more.secret]
    /\ task' = [task EXCEPT !.step = "open", !.more = [pin |-> TRUE, id |-> Source(task.path).id]]
    /\ WindowStays /\ UNCHANGED <<disk, drawn>>

RemoveOutput ==
    /\ At("remove")
    /\ disk' = [disk EXCEPT ![task.path] = NoCard]
    /\ Finish("error")
    /\ WindowStays /\ UNCHANGED <<bindings, drawn>>

\* unlock_pin_card, unlock_key_source
Opens(p, pin) ==
    /\ Holds(p)
    /\ IF pin THEN Ready(p) /\ Source(p).secret = bindings[Source(p).id]
              ELSE Source(p).secret = None

\* A card that was made is unlocked under the fingerprint that was bound; the
\* fingerprint of any other is read after its key.
Open ==
    /\ At("open") /\ Opens(task.path, task.more.pin)
    /\ LET key == Source(task.path).master
       IN  IF task.kind = "create"
           THEN task' = [task EXCEPT !.step = "opened", !.more = [key |-> key, id |-> task.more.id]]
           ELSE task' = [task EXCEPT !.step = "inform", !.more = [key |-> key]]
    /\ WindowStays /\ UNCHANGED files

\* key_source_info, of the unlocked card or of the copy
Inform ==
    /\ At("inform") /\ Holds(task.path)
    /\ IF task.kind = "copy" THEN Finish("done")
       ELSE task' = [task EXCEPT !.step = "opened",
                        !.more = [key |-> task.more.key, id |-> Source(task.path).id]]
    /\ WindowStays /\ UNCHANGED files

WorkDone == At("work") /\ Finish("done") /\ WindowStays /\ UNCHANGED files

Work ==
    \/ WorkFails \/ WriteRefused \/ WriteCard \/ CopyCard \/ Persist
    \/ MarkRemove \/ MarkRename \/ Bind \/ RemoveOutput
    \/ Open \/ Inform \/ WorkDone

-----------------------------------------------------------------------------
(* The application ends, by itself or not, and is started again *)

End ==
    /\ up /\ up' = FALSE
    /\ task' = NoTask
    /\ keySource' = NoPath /\ keyFingerprint' = None /\ unlockedKey' = None
    /\ unlockOpen' = FALSE
    /\ UNCHANGED <<files, settings>>

\* App::new
Start ==
    /\ ~ up /\ up' = TRUE
    /\ IF Holds(settings)
       THEN /\ keySource' = settings /\ keyFingerprint' = Source(settings).id
            /\ unlockOpen' = TRUE
       ELSE UNCHANGED <<keySource, keyFingerprint, unlockOpen>>
    /\ UNCHANGED <<files, settings, unlockedKey, task>>

-----------------------------------------------------------------------------
(* Beside the application: the command line, which asks for passphrases, never
   for a PIN, and refuses an existing output without --force; and editors. *)

Outside ==
    /\ outside < MaxOutside /\ outside' = outside + 1
    /\ UNCHANGED <<settings, up, app, task>>

\* The worker has looked at the file of its task and is not done with it.
Halfway ==
    \/ task.step \in {"persist", "mark", "rename", "bind", "remove", "inform"}
    \/ task.step = "open" /\ task.kind = "create"

\* Another program writes a file.
Puts(p, file) ==
    /\ disk' = [disk EXCEPT ![p] = file]
    /\ crossed' = IF Halfway /\ p = task.path THEN crossed \cup {p} ELSE crossed

\* The command line writes a temporary file, and either its output was not there
\* or --force removes it.
Prepares(p, file) ==
    /\ Outside /\ command = NoCommand
    /\ command' = [path |-> p, file |-> file]
    /\ (disk[p] = NoCard /\ UNCHANGED <<disk, crossed>>) \/ Puts(p, NoCard)
    /\ UNCHANGED bindings

\* keygen, to a visual key or a capsule file
Keygen(p) ==
    /\ p \notin PdfPaths /\ drawn < MaxCards
    /\ drawn' = drawn + 1
    /\ LET card == Card(drawn', None, FALSE)
       IN  Prepares(p, ExportBytes(card, FALSE)) \/ Prepares(p, Raw(card))

\* keycard export; a PIN card is exported as any other, without its marker.
KeycardExport(source, p) ==
    /\ Holds(source)
    /\ Prepares(p, ExportBytes(Source(source), p \in PdfPaths))
    /\ UNCHANGED drawn

\* keycard recovery
KeycardRecovery(source, p) ==
    /\ Opens(source, FALSE) /\ drawn < MaxCards
    /\ drawn' = drawn + 1
    /\ Prepares(p, ExportBytes(Card(drawn', Source(source).master, FALSE), p \in PdfPaths))

\* keycard import, of a visual key or of a photograph of a card
KeycardImport(source, p) ==
    /\ p \notin PdfPaths /\ IsFile(source)
    /\ \E image \in {disk[source], Photo(disk[source])} :
          DecodeImage(image) # Error /\ Prepares(p, Raw(DecodeImage(image)))
    /\ UNCHANGED drawn

\* The temporary file is moved over whatever is there by now.
CommandMoves ==
    /\ command # NoCommand
    /\ Puts(command.path, command.file)
    /\ command' = NoCommand
    /\ UNCHANGED <<bindings, drawn, settings, up, app, task, outside>>

\* It fails or is ended before it moves the file.
CommandEnds ==
    /\ command # NoCommand
    /\ command' = NoCommand
    /\ UNCHANGED <<files, settings, up, app, task, outside, crossed>>

Edit(p) ==
    /\ Outside /\ IsFile(p)
    /\ \E file \in Edited(disk[p]) : Puts(p, file)
    /\ UNCHANGED <<bindings, drawn, command>>

Others ==
    \/ CommandMoves \/ CommandEnds
    \/ \E p \in OutsidePaths :
          \/ Keygen(p) \/ Edit(p)
          \/ \E s \in Paths : KeycardExport(s, p) \/ KeycardRecovery(s, p) \/ KeycardImport(s, p)

-----------------------------------------------------------------------------

Window ==
    \/ Lock \/ Forget \/ OpenUnlock \/ CloseUnlock \/ StartUnlock \/ StartFile
    \/ \E p \in Paths :
          SelectKey(p) \/ StartCreate(p) \/ StartRecovery(p) \/ StartCopy(p) \/ StartPdf(p)

Application == Window \/ Poll \/ Work \/ End \/ Start

Next == (Application /\ UNCHANGED others) \/ Others

Spec == Init /\ [][Next]_vars

\* A worker thread runs, and the window draws a frame every 100 ms while a task
\* is there.
FairSpec == Spec /\ WF_vars(Work /\ UNCHANGED others) /\ WF_vars(Poll /\ UNCHANGED others)

-----------------------------------------------------------------------------
(* Properties *)

\* The key in memory is that of the selected card, whatever was dropped,
\* locked or made while a task ran: files are encrypted under the card the
\* window names by its fingerprint, if no other program replaced it between the
\* worker's two reads, and by its path.  (The command line may put another card
\* at the path.)
UnlockedIsSelected ==
    unlockedKey # None =>
        /\ keySource # NoPath
        /\ \A p \in Paths :
              /\ Holds(p)
              /\ \/ Source(p).id = keyFingerprint /\ keySource \notin crossed
                 \/ p = keySource /\ outside = 0
              => Source(p).master = unlockedKey

\* A PIN card that the window calls ready has the device secret it was made
\* with: no later card takes its binding away, and no interrupted one leaves
\* it another's.  (A card that another program moves over one in the making
\* would be bound in its place.)
ReadyCardsOpen ==
    crossed = {} => \A p \in Paths : Ready(p) => bindings[Source(p).id] = Source(p).secret

\* Marking any file that is there as a PIN card would keep its capsule.
MarkingKeepsCapsule ==
    \A p \in Paths : IsFile(p) => MarkingKeeps(disk[p].chunks)

\* Whatever path the user picks and wherever it is interrupted, a worker changes
\* no file that is there: but the card it made itself, a file that another program
\* put at its path since it looked, and in the clean-up of a failed creation.
BackupsKeepCards ==
    [][Work /\ UNCHANGED others =>
          \A p \in Paths : IsFile(p) /\ disk'[p] # disk[p] =>
              /\ p = task.path
              /\ \/ task.step = "mark" /\ Holds(p) /\ Source(p).secret = task.more.secret
                 \/ p \in crossed
                 \/ task.step = "remove"]_vars

\* A backup gives the capsule of its card as it was read, from the file or from
\* its print, and is a PIN card exactly if that was one.
Backup == task.kind = "copy" /\ task.step = "persist" /\ task'.step \in {"inform", "done"}
Recovered(file) ==
    IF SourceBytes(file) # Error THEN SourceBytes(file) ELSE DecodeImage(Photo(file))
BackupsAreFaithful ==
    [][Backup => /\ Recovered(disk'[task.path]) = SourceBytes(task.more.of)
                 /\ Marked(disk'[task.path]) = Marked(task.more.of)]_vars

\* A task ends, whatever fails in it, and the window is usable again.
TaskEnds == task # NoTask ~> task = NoTask

\* Making a card never costs one that was there before: an existing output is
\* refused.
NoCardIsLost ==
    task.kind = "create" /\ task.found # NoCard => disk[task.path] = task.found

=============================================================================
