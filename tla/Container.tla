------------------------------- MODULE Container -------------------------------
(***************************************************************************)
(* Encrypted files (crates/orisyvra/src/container.rs): encrypt_file writes *)
(* a header, one record per chunk of the plaintext and a manifest;         *)
(* decrypt_file reads them back from a medium that may have lost,          *)
(* repeated, exchanged or damaged parts, or mixed two files, and lets the  *)
(* output appear only when the manifest agrees with all it has read.       *)
(*                                                                         *)
(* A file is the sequence of its parts.  Cryptography is symbolic: what is *)
(* sealed opens only under the same header and the same frame, in both     *)
(* modes; a digest is the sequence it was taken of.                        *)
(***************************************************************************)
EXTENDS Naturals, Sequences, SequencesExt

CONSTANTS
    Texts,       \* plaintexts, sequences
    ChunkSize,
    MaxRecords,  \* MAX_RECORDS
    MaxEdits     \* bound on what happens to the medium

ASSUME ContainerAssumption ==
    /\ ChunkSize \in Nat \ {0} /\ MaxRecords \in Nat /\ MaxEdits \in Nat
    /\ \A t \in Texts : t \in Seq(Nat)

VARIABLES
    phase,   \* encrypting, the medium, decrypting file 1
    file,    \* the file being encrypted
    text,    \* the two plaintexts
    rest,    \* what encrypt_file has not read yet
    temp,    \* the temporary output file, parts or plaintext
    index,   \* record_index, expected_index
    total,   \* total_length
    tape,    \* the two encrypted files, <<>> when encrypt_file failed
    written, \* history: the files as they were written
    edits,   \* what happened to file 1 since
    pos,     \* next part decrypt_file reads
    output   \* what decrypt_file returned

vars == <<phase, file, text, rest, temp, index, total, tape, written, edits, pos, output>>

Files == {1, 2}
Running == [result |-> "running"]
Failed == [result |-> "error"]

\* Header::new draws salt and file ID: the number of the file stands for them.
Header(f) == [kind |-> "header", id |-> f]
Record(h, i, t) ==
    [kind |-> "data", index |-> i, length |-> Len(t),
     body |-> [by |-> h, index |-> i, text |-> t]]
\* The transcript is all parts before the manifest.
Manifest(h, n, count, transcript) ==
    [kind |-> "manifest",
     body |-> [by |-> h, total |-> n, count |-> count, digest |-> transcript]]

\* Parts that no encrypt_file wrote: an incomplete one at the end of the file,
\* and a byte that is no record type.
Cut == [kind |-> "cut"]
Unknown == [kind |-> "unknown"]
Junk == [by |-> Header(0)]

Init ==
    /\ phase = "encrypt" /\ file = 1
    /\ text \in [Files -> Texts]
    /\ rest = text[1]
    /\ temp = <<Header(1)>>
    /\ index = 0 /\ total = 0
    /\ tape = [f \in Files |-> <<>>] /\ written = tape
    /\ edits = 0 /\ pos = 1
    /\ output = Running

-----------------------------------------------------------------------------
(* encrypt_file *)

Chunk == SubSeq(rest, 1, IF Len(rest) < ChunkSize THEN Len(rest) ELSE ChunkSize)

\* The next file is encrypted, or the medium takes over.
NextFile ==
    /\ file' = 2 /\ index' = 0 /\ total' = 0
    /\ IF file = 1
       THEN phase' = phase /\ rest' = text[2] /\ temp' = <<Header(2)>>
       ELSE phase' = "medium" /\ rest' = <<>> /\ temp' = <<>>

EncryptRecord ==
    /\ phase = "encrypt" /\ rest # <<>> /\ index < MaxRecords
    /\ temp' = Append(temp, Record(Header(file), index, Chunk))
    /\ rest' = SubSeq(rest, Len(Chunk) + 1, Len(rest))
    /\ index' = index + 1 /\ total' = total + Len(Chunk)
    /\ UNCHANGED <<phase, file, text, tape, written, edits, pos, output>>

\* Too many records: the temporary file is dropped.
EncryptFails ==
    /\ phase = "encrypt" /\ rest # <<>> /\ index >= MaxRecords
    /\ NextFile
    /\ UNCHANGED <<text, tape, written, edits, pos, output>>

EncryptManifest ==
    /\ phase = "encrypt" /\ rest = <<>>
    /\ tape' = [tape EXCEPT ![file] =
                   Append(temp, Manifest(Header(file), total, index, temp))]
    /\ written' = tape'
    /\ NextFile
    /\ UNCHANGED <<text, edits, pos, output>>

-----------------------------------------------------------------------------
(* The medium *)

Edited(s) ==
    /\ tape' = [tape EXCEPT ![1] = s]
    /\ edits' = edits + 1
    /\ UNCHANGED <<phase, file, text, rest, temp, index, total, written, pos, output>>

Editing == phase = "medium" /\ edits < MaxEdits

LosePart == Editing /\ \E i \in DOMAIN tape[1] : Edited(RemoveAt(tape[1], i))
RepeatPart == Editing /\ \E i \in DOMAIN tape[1] : Edited(InsertAt(tape[1], i, tape[1][i]))
ExchangeParts ==
    Editing /\ \E i, j \in DOMAIN tape[1] :
        i < j /\ Edited([tape[1] EXCEPT ![i] = tape[1][j], ![j] = tape[1][i]])
Truncate == Editing /\ \E n \in DOMAIN tape[1] : Edited(SubSeq(tape[1], 1, n - 1))
CutShort == Editing /\ \E n \in DOMAIN tape[1] : Edited(Append(SubSeq(tape[1], 1, n - 1), Cut))
AppendPart ==
    Editing /\ \E p \in ToSet(tape[1]) \cup ToSet(tape[2]) \cup {Unknown} :
        Edited(Append(tape[1], p))
MixFiles ==
    Editing /\ \E i \in DOMAIN tape[1], j \in DOMAIN tape[2] :
        Edited([tape[1] EXCEPT ![i] = tape[2][j]])
DamageBody ==
    Editing /\ \E i \in DOMAIN tape[1] :
        "body" \in DOMAIN tape[1][i] /\ Edited([tape[1] EXCEPT ![i].body = Junk])
DamageFrame ==
    Editing /\ \E i \in DOMAIN tape[1], n \in 0 .. MaxRecords :
        tape[1][i].kind = "data" /\
        (Edited([tape[1] EXCEPT ![i].index = n]) \/ Edited([tape[1] EXCEPT ![i].length = n]))

Medium ==
    \/ LosePart \/ RepeatPart \/ ExchangeParts \/ Truncate \/ CutShort
    \/ AppendPart \/ MixFiles \/ DamageBody \/ DamageFrame

-----------------------------------------------------------------------------
(* decrypt_file *)

Fail ==
    /\ phase' = "done"
    /\ output' = Failed
    /\ UNCHANGED <<file, text, rest, temp, index, total, tape, written, edits, pos>>

StartDecrypt ==
    /\ phase = "medium"
    /\ IF tape[1] # <<>> /\ tape[1][1].kind = "header"
       THEN /\ phase' = "decrypt" /\ pos' = 2
            /\ UNCHANGED <<file, text, rest, temp, index, total, tape, written, edits, output>>
       ELSE Fail

Part == tape[1][pos]
MyHeader == tape[1][1]

\* Mutant: the last record that encrypt_file may write is refused.
RecordOpensBelow(p) ==
    /\ p.index = index /\ index + 1 < MaxRecords
    /\ p.length <= ChunkSize
    /\ p.body.by = MyHeader /\ p.body.index = p.index /\ Len(p.body.text) = p.length

\* Mutant: a record is not held to its place.
RecordOpensAnywhere(p) ==
    /\ index < MaxRecords
    /\ p.length <= ChunkSize
    /\ p.body.by = MyHeader /\ p.body.index = p.index /\ Len(p.body.text) = p.length

\* The frame is the expected one and fits the body; the seals bind both to the
\* header.
RecordOpens(p) ==
    /\ p.index = index /\ index < MaxRecords
    /\ p.length <= ChunkSize
    /\ p.body.by = MyHeader /\ p.body.index = p.index /\ Len(p.body.text) = p.length

DecryptRecord ==
    /\ phase = "decrypt" /\ pos <= Len(tape[1]) /\ Part.kind = "data"
    /\ IF RecordOpens(Part)
       THEN /\ temp' = temp \o Part.body.text
            /\ index' = index + 1 /\ total' = total + Part.length
            /\ pos' = pos + 1
            /\ UNCHANGED <<phase, file, text, rest, tape, written, edits, output>>
       ELSE Fail

\* Mutant: the manifest need only be one of this file.
ManifestOpensAny(p) == p.body.by = MyHeader

\* verify_manifest_inner
ManifestOpens(p) ==
    /\ p.body.by = MyHeader
    /\ p.body.total = total /\ p.body.count = index
    /\ p.body.digest = SubSeq(tape[1], 1, pos - 1)

DecryptManifest ==
    /\ phase = "decrypt" /\ pos <= Len(tape[1]) /\ Part.kind = "manifest"
    /\ IF ManifestOpens(Part) /\ pos = Len(tape[1])
       THEN /\ phase' = "done"
            /\ output' = [result |-> "ok", text |-> temp]
            /\ UNCHANGED <<file, text, rest, temp, index, total, tape, written, edits, pos>>
       ELSE Fail

\* The end of the file before a manifest, an incomplete part, or a byte that is
\* no record type.
DecryptFails ==
    /\ phase = "decrypt"
    /\ ~ (pos <= Len(tape[1]) /\ Part.kind \in {"data", "manifest"})
    /\ Fail

Decrypt == StartDecrypt \/ DecryptRecord \/ DecryptManifest \/ DecryptFails

Stop == phase = "done" /\ UNCHANGED vars

Next == EncryptRecord \/ EncryptFails \/ EncryptManifest \/ Medium \/ Decrypt \/ Stop

Spec == Init /\ [][Next]_vars

-----------------------------------------------------------------------------
(* Properties *)

\* What encrypt_file wrote, up to the largest file it writes, decrypt_file
\* turns back into the plaintext.
RoundTrip ==
    phase = "done" /\ tape[1] = written[1] /\ written[1] # <<>>
        => output = [result |-> "ok", text |-> text[1]]

\* Decrypted output exists only for a file that is, part for part, one that
\* encrypt_file wrote, and it is that file's whole plaintext.
DetectsDamage ==
    output.result = "ok" =>
        \E f \in Files : tape[1] = written[f] /\ output.text = text[f]

\* decrypt_file never holds plaintext of another file or out of place: what it
\* has in the temporary file is a beginning of the plaintext of its header's
\* file.
TempIsPrefix ==
    phase = "decrypt" =>
        /\ IsPrefix(temp, text[MyHeader.id])
        /\ total = Len(temp)

=============================================================================
