------------------------------- MODULE CardImage -------------------------------
(***************************************************************************)
(* The files that hold a protected key capsule: crates/orisyvra/src/       *)
(* keycard.rs and keyfile.rs, and the PIN marker of crates/orisyvra-pin/   *)
(* src/lib.rs.  A visual key is a PNG, a sequence of chunks up to IEND; the *)
(* capsule is in a private chunk, the marker in another.  An optical card  *)
(* is a PDF with a printed code, and a capsule may also be a file of its   *)
(* own.                                                                    *)
(*                                                                         *)
(* A digest or checksum stands for what it was computed of.                *)
(***************************************************************************)
EXTENDS Naturals, Sequences

CONSTANTS
    Capsules,     \* the byte strings that validate_keyfile_bytes accepts
    NoCode, Error \* no capsule there, or one that cannot be read

ASSUME CapsulesAssumption ==
    NoCode \notin Capsules /\ Error \notin Capsules /\ NoCode # Error

\* Chunks by type; "cut" is one whose length leads beyond the end of the file,
\* "other" is any chunk that is neither ours nor the last.
PinData == "OYVPIN1"
Chunk ==
    [type : {"other", "IEND", "cut"}]
        \cup [type : {"orKY"}, keyfile : Capsules, digest : Capsules \cup {Error}]
        \cup [type : {"orPn"}, data : {PinData, "changed"}, crc : {PinData}]
Pixels == [type |-> "other"]
IEnd == [type |-> "IEND"]
Cut == [type |-> "cut"]
PinChunk == [type |-> "orPn", data |-> PinData, crc |-> PinData]
\* build_key_chunk
KeyChunk(capsule) == [type |-> "orKY", keyfile |-> capsule, digest |-> capsule]

-----------------------------------------------------------------------------
(* Walking the chunks *)

\* Where a walk that looks for a type ends: at the first chunk of that type, at
\* IEND or at a cut one; 0 when the file ends before.
Ends(type) == {type, "IEND", "cut"}
Found(chunks, type) ==
    LET at == {i \in DOMAIN chunks : chunks[i].type \in Ends(type)}
    IN  IF at = {} THEN 0 ELSE CHOOSE i \in at : \A j \in at : i <= j

TypeFound(chunks, type) ==
    IF Found(chunks, type) = 0 THEN "nothing" ELSE chunks[Found(chunks, type)].type

\* Both writers put their chunk before IEND and drop what follows IEND.
InsertBeforeEnd(chunks, chunk) ==
    LET i == Found(chunks, "IEND")
    IN  IF TypeFound(chunks, "IEND") # "IEND" THEN Error
        ELSE SubSeq(chunks, 1, i - 1) \o <<chunk, chunks[i]>>

\* inject_key_chunk
InjectKeyChunk(chunks, capsule) ==
    IF capsule \in Capsules THEN InsertBeforeEnd(chunks, KeyChunk(capsule)) ELSE Error

\* extract_key_chunk: the first key chunk, its digest and the capsule checked;
\* its checksum is not looked at.
ExtractKeyChunk(chunks) ==
    LET chunk == chunks[Found(chunks, "orKY")]
    IN  CASE TypeFound(chunks, "orKY") = "orKY" ->
               IF chunk.digest = chunk.keyfile /\ chunk.keyfile \in Capsules
               THEN chunk.keyfile ELSE Error
          [] TypeFound(chunks, "orKY") = "cut" -> Error
          [] OTHER -> NoCode

\* marker_present: the first marker, its data and checksum checked.
MarkerPresent(chunks) ==
    /\ TypeFound(chunks, "orPn") = "orPn"
    /\ chunks[Found(chunks, "orPn")] = PinChunk

\* Mutant: the marker takes the place of the chunk before IEND.
AddPinMarkerOver(chunks) ==
    LET i == Found(chunks, "IEND")
    IN  IF TypeFound(chunks, "IEND") # "IEND" THEN Error
        ELSE SubSeq(chunks, 1, i - 2) \o <<PinChunk, chunks[i]>>

\* add_pin_marker
AddPinMarker(chunks) ==
    IF MarkerPresent(chunks) THEN chunks ELSE InsertBeforeEnd(chunks, PinChunk)

\* Marking a card changes nothing of its capsule, and the marker is found
\* unless a damaged one comes before it.
MarkerIsSound(chunks) == TypeFound(chunks, "orPn") = "orPn" => MarkerPresent(chunks)
MarkingKeeps(chunks) ==
    AddPinMarker(chunks) # Error =>
        /\ ExtractKeyChunk(AddPinMarker(chunks)) = ExtractKeyChunk(chunks)
        /\ MarkerIsSound(chunks) => MarkerPresent(AddPinMarker(chunks))

-----------------------------------------------------------------------------
(* Files *)

Png(chunks) == [format |-> "png", chunks |-> chunks, code |-> NoCode]
Pdf(capsule) == [format |-> "pdf", chunks |-> <<>>, code |-> capsule]
Raw(capsule) == [format |-> "raw", chunks |-> <<>>, code |-> capsule]

\* What a camera makes of a file: the code printed on it, no chunk of ours.
Photo(file) == [format |-> "jpeg", chunks |-> <<>>, code |-> file.code]

\* decode_keycard_image: the key chunk of a PNG, or else the printed code.
DecodeImage(file) ==
    LET embedded == IF file.format = "png" THEN ExtractKeyChunk(file.chunks) ELSE NoCode
        printed == IF file.format \in {"png", "jpeg"} THEN file.code ELSE NoCode
    IN  IF embedded # NoCode THEN embedded
        ELSE IF printed \in Capsules THEN printed ELSE Error

\* source_bytes: a PNG, or a file that is a capsule.
SourceBytes(file) ==
    IF file.format = "png" THEN DecodeImage(file)
    ELSE IF file.format = "raw" /\ file.code \in Capsules THEN file.code ELSE Error

\* export_bytes, by the extension of the output; the face is drawn anew.
ExportBytes(capsule, pdf) ==
    IF pdf THEN Pdf(capsule) ELSE Png(InjectKeyChunk(<<Pixels, IEnd>>, capsule))

Marked(file) == file.format = "png" /\ MarkerPresent(file.chunks)

-----------------------------------------------------------------------------
(* What a program that knows nothing of the chunks makes of a card *)

\* An image editor keeps the picture and writes the file anew; a bad copy
\* changes a chunk or cuts the file off within one.
Changed(chunk) ==
    CASE chunk.type = "orKY" -> [chunk EXCEPT !.digest = Error]
      [] chunk.type = "orPn" -> [chunk EXCEPT !.data = "changed"]
      [] OTHER -> chunk
Edited(file) ==
    IF file.format # "png" THEN {}
    ELSE {Png(<<Pixels, IEnd>>)}
         \cup {Png([file.chunks EXCEPT ![i] = Changed(@)]) : i \in DOMAIN file.chunks}
         \cup {Png(SubSeq(file.chunks, 1, i - 1) \o <<Cut>>) : i \in DOMAIN file.chunks}

=============================================================================
