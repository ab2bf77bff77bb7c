----------------------------- MODULE KeyCardsProofs -----------------------------
(***************************************************************************)
(* Theorems about CardImage and KeyCards, for any files, any number of     *)
(* capsules and any acts of other programs: what marking, copying and      *)
(* editing make of a card, and that the key in memory, the bindings and    *)
(* the backups fit the cards.                                              *)
(***************************************************************************)
EXTENDS KeyCards, SequenceTheorems, WellFoundedInduction, TLAPS

-----------------------------------------------------------------------------
(* Walking the chunks *)

KeyChunks == [type : {"orKY"}, keyfile : Capsules, digest : Capsules \cup {Error}]
MarkerChunks == [type : {"orPn"}, data : {PinData, "changed"}, crc : {PinData}]

\* The type of a chunk tells what else it has.
LEMMA ChunkKinds ==
    ASSUME NEW c \in Chunk
    PROVE  /\ c.type = "orKY" => c \in KeyChunks
           /\ c.type = "orPn" => c \in MarkerChunks
BY DEF Chunk, KeyChunks, MarkerChunks

\* The chunks the application itself writes, and the cut of a shortened file, are chunks with these types.
LEMMA OurChunks ==
    /\ {Pixels, IEnd, Cut, PinChunk} \subseteq Chunk
    /\ \A capsule \in Capsules : KeyChunk(capsule) \in Chunk
    /\ Pixels.type = "other" /\ IEnd.type = "IEND" /\ Cut.type = "cut" /\ PinChunk.type = "orPn"
BY DEF Chunk, Pixels, IEnd, Cut, PinChunk, KeyChunk, PinData

\* A walk ends at the first chunk that can end it, or finds none.
LEMMA FoundIsFirst ==
    ASSUME NEW chunks \in Seq(Chunk), NEW type
    PROVE  LET f == Found(chunks, type)
           IN  \/ f = 0 /\ \A i \in DOMAIN chunks : chunks[i].type \notin Ends(type)
               \/ /\ f \in DOMAIN chunks /\ chunks[f].type \in Ends(type)
                  /\ \A i \in DOMAIN chunks : chunks[i].type \in Ends(type) => f <= i
<1> DEFINE ends == {i \in DOMAIN chunks : chunks[i].type \in Ends(type)}
<1>1. ends \subseteq Nat
  OBVIOUS
<1>2. CASE ends = {}
  BY <1>2 DEF Found
<1>3. CASE ends # {}
  <2>1. PICK x \in ends : \A y \in ends : ~(<<y, x>> \in OpToRel(<, Nat))
    BY <1>1, <1>3, NatLessThanWellFounded, WFMin
  <2> HIDE DEF ends
  <2>0. \A y \in ends : ~(y < x)
    BY <1>1, <2>1 DEF OpToRel
  <2>2. \A y \in ends : x <= y
    BY <1>1, <2>0
  <2>3. Found(chunks, type) = CHOOSE i \in ends : \A j \in ends : i <= j
    BY <1>3 DEF Found, ends
  <2>4. Found(chunks, type) \in ends /\ \A j \in ends : Found(chunks, type) <= j
    BY <2>2, <2>3
  <2>5. QED
    BY <2>4 DEF ends
<1>4. QED
  BY <1>2, <1>3

\* The search for a chunk stops at the first chunk of the type, or at the end or a cut before it.
LEMMA FirstIsFound ==
    ASSUME NEW chunks \in Seq(Chunk), NEW type, NEW i \in DOMAIN chunks,
           chunks[i].type \in Ends(type),
           \A j \in DOMAIN chunks : j < i => chunks[j].type \notin Ends(type)
    PROVE  Found(chunks, type) = i
<1>1. DOMAIN chunks \subseteq Nat /\ 0 \notin DOMAIN chunks
  OBVIOUS
<1>2. QED
  BY <1>1, FoundIsFirst

-----------------------------------------------------------------------------
(* What a file holds *)

Files == [format : {"png", "pdf", "raw", "jpeg"}, chunks : Seq(Chunk),
          code : Capsules \cup {NoCode}]

\* A capsule is in a file when it is printed on it or in one of its key chunks.
Holding(file, c) ==
    /\ c \in Capsules
    /\ \/ file.code = c
       \/ \E i \in DOMAIN file.chunks :
             file.chunks[i].type = "orKY" /\ file.chunks[i].keyfile = c

\* A capsule extracted from the chunks is held, whole and with its digest, by one of them.
LEMMA ExtractHeld ==
    ASSUME NEW chunks \in Seq(Chunk)
    PROVE  \/ ExtractKeyChunk(chunks) \in {NoCode, Error}
           \/ /\ TypeFound(chunks, "orKY") = "orKY"
              /\ Found(chunks, "orKY") \in DOMAIN chunks
              /\ chunks[Found(chunks, "orKY")].type = "orKY"
              /\ chunks[Found(chunks, "orKY")].digest = chunks[Found(chunks, "orKY")].keyfile
              /\ ExtractKeyChunk(chunks) = chunks[Found(chunks, "orKY")].keyfile
              /\ ExtractKeyChunk(chunks) \in Capsules
<1>1. CASE TypeFound(chunks, "orKY") = "orKY"
  <2>1. Found(chunks, "orKY") # 0 /\ chunks[Found(chunks, "orKY")].type = "orKY"
    BY <1>1 DEF TypeFound
  <2>2. Found(chunks, "orKY") \in DOMAIN chunks
    BY <2>1, FoundIsFirst
  <2>3. QED
    BY <1>1, <2>1, <2>2 DEF ExtractKeyChunk
<1>2. CASE TypeFound(chunks, "orKY") # "orKY"
  BY <1>2 DEF ExtractKeyChunk
<1>3. QED
  BY <1>1, <1>2

\* A reader that finds a capsule has found one that is there.
LEMMA DecodeHeld ==
    ASSUME NEW file \in Files
    PROVE  DecodeImage(file) = Error \/ Holding(file, DecodeImage(file))
<1>1. file.chunks \in Seq(Chunk)
  BY DEF Files
<1>2. ExtractKeyChunk(file.chunks) \in {NoCode, Error} \/ Holding(file, ExtractKeyChunk(file.chunks))
  BY <1>1, ExtractHeld DEF Holding
<1>3. CASE file.format = "png" /\ ExtractKeyChunk(file.chunks) # NoCode
  BY <1>2, <1>3, CapsulesAssumption DEF DecodeImage
<1>4. CASE ~(file.format = "png" /\ ExtractKeyChunk(file.chunks) # NoCode)
  <2>1. DecodeImage(file) \in {Error, file.code} /\ (DecodeImage(file) = Error \/ file.code \in Capsules)
    BY <1>4, CapsulesAssumption DEF DecodeImage
  <2>2. QED
    BY <2>1 DEF Holding
<1>5. QED
  BY <1>3, <1>4

\* The bytes a file is opened with are an error or a capsule the file holds.
LEMMA SourceHeld ==
    ASSUME NEW file \in Files
    PROVE  SourceBytes(file) = Error \/ Holding(file, SourceBytes(file))
BY DecodeHeld DEF SourceBytes, Holding

\* The picture behind a new card is a file, and it holds no capsule that the source did not hold.
LEMMA PhotoHeld ==
    ASSUME NEW file \in Files
    PROVE  /\ Photo(file) \in Files
           /\ \A c : Holding(Photo(file), c) => Holding(file, c)
<1>1. Photo(file) = [format |-> "jpeg", chunks |-> <<>>, code |-> file.code]
  BY DEF Photo
<1>2. <<>> \in Seq(Chunk) /\ DOMAIN <<>> = {}
  OBVIOUS
<1>3. QED
  BY <1>1, <1>2 DEF Holding, Files

-----------------------------------------------------------------------------
(* Insertion before the end *)

\* A chunk put in before IEND follows all that preceded IEND, and IEND ends the file.
LEMMA InsertShape ==
    ASSUME NEW chunks \in Seq(Chunk), NEW chunk \in Chunk, TypeFound(chunks, "IEND") = "IEND"
    PROVE  LET i   == Found(chunks, "IEND")
               new == InsertBeforeEnd(chunks, chunk)
           IN  /\ i \in DOMAIN chunks /\ chunks[i].type = "IEND"
               /\ \A j \in DOMAIN chunks : j < i => chunks[j].type \notin {"IEND", "cut"}
               /\ new \in Seq(Chunk) /\ Len(new) = i + 1
               /\ \A j \in DOMAIN chunks : j < i => new[j] = chunks[j]
               /\ new[i] = chunk /\ new[i + 1] = chunks[i]
<1> DEFINE i == Found(chunks, "IEND")
           front == SubSeq(chunks, 1, i - 1)
           back == <<chunk, chunks[i]>>
           new == front \o back
<1>1. i # 0 /\ chunks[i].type = "IEND"
  BY DEF TypeFound
<1>2. i \in DOMAIN chunks /\ \A j \in DOMAIN chunks : j < i => chunks[j].type \notin Ends("IEND")
  BY <1>1, FoundIsFirst
<1>3. i \in 1 .. Len(chunks) /\ Len(chunks) \in Nat
  BY <1>2
<1> HIDE DEF i
<1>4. \A j \in 1 .. i - 1 : chunks[j] \in Chunk
  BY <1>3
<1>5. front \in Seq(Chunk) /\ Len(front) = i - 1 /\ \A j \in 1 .. i - 1 : front[j] = chunks[j]
  BY <1>3, <1>4, SubSeqProperties
<1>6. back \in Seq(Chunk) /\ Len(back) = 2 /\ back[1] = chunk /\ back[2] = chunks[i]
  BY <1>3
<1> HIDE DEF front, back
<1>7. /\ new \in Seq(Chunk) /\ Len(new) = i + 1
      /\ \A j \in 1 .. i + 1 : new[j] = IF j <= i - 1 THEN front[j] ELSE back[j - (i - 1)]
  <2>1. /\ new \in Seq(Chunk) /\ Len(new) = Len(front) + Len(back)
        /\ \A j \in 1 .. Len(front) + Len(back) :
              new[j] = IF j <= Len(front) THEN front[j] ELSE back[j - Len(front)]
    BY <1>5, <1>6, ConcatProperties
  <2>2. Len(front) + Len(back) = i + 1
    BY <1>3, <1>5, <1>6
  <2>3. QED
    BY <1>5, <2>1, <2>2
<1>8. (\A j \in 1 .. i - 1 : new[j] = chunks[j]) /\ new[i] = chunk /\ new[i + 1] = chunks[i]
  BY <1>3, <1>5, <1>6, <1>7
<1>9. InsertBeforeEnd(chunks, chunk) = new
  BY DEF InsertBeforeEnd, new, front, back, i
<1>10. \A j \in DOMAIN chunks : j < i => j \in 1 .. i - 1
  BY <1>3
<1>11. QED
  BY <1>1, <1>2, <1>7, <1>8, <1>9, <1>10 DEF Ends, i

\* What is inserted is found by whoever looks for it, unless one of its type
\* comes before; and who looks for another type finds the same.
LEMMA InsertFound ==
    ASSUME NEW chunks \in Seq(Chunk), NEW chunk \in Chunk, TypeFound(chunks, "IEND") = "IEND",
           NEW type \in {"orKY", "orPn"}
    PROVE  LET i   == Found(chunks, "IEND")
               f   == Found(chunks, type)
               new == InsertBeforeEnd(chunks, chunk)
           IN  /\ f \in DOMAIN chunks /\ f <= i
               /\ chunks[f].type = type => f < i /\ Found(new, type) = f /\ new[f] = chunks[f]
               /\ chunks[f].type # type => f = i
               /\ f = i => /\ chunk.type = type => Found(new, type) = i
                           /\ chunk.type \notin Ends(type) => Found(new, type) = i + 1
<1> DEFINE i == Found(chunks, "IEND")
           f == Found(chunks, type)
           new == InsertBeforeEnd(chunks, chunk)
<1>1. /\ i \in DOMAIN chunks /\ chunks[i].type = "IEND"
      /\ \A j \in DOMAIN chunks : j < i => chunks[j].type \notin {"IEND", "cut"}
      /\ new \in Seq(Chunk) /\ Len(new) = i + 1
      /\ \A j \in DOMAIN chunks : j < i => new[j] = chunks[j]
      /\ new[i] = chunk /\ new[i + 1] = chunks[i]
  BY InsertShape
<1>2. Len(chunks) \in Nat /\ DOMAIN chunks = 1 .. Len(chunks) /\ i \in 1 .. Len(chunks)
  BY <1>1
<1>3. /\ f \in DOMAIN chunks /\ chunks[f].type \in Ends(type) /\ f <= i
      /\ \A j \in DOMAIN chunks : chunks[j].type \in Ends(type) => f <= j
  BY <1>1, <1>2, FoundIsFirst DEF Ends
<1> HIDE DEF i, f, new
<1>4. f \in 1 .. i
  BY <1>2, <1>3
<1>5. DOMAIN new = 1 .. i + 1
  BY <1>1, <1>2
<1>6. \A j \in 1 .. i + 1 : j < f => new[j] = chunks[j] /\ chunks[j].type \notin Ends(type)
  BY <1>1, <1>2, <1>3, <1>4
<1>7. ASSUME chunks[f].type = type
      PROVE  f < i /\ Found(new, type) = f /\ new[f] = chunks[f]
  <2>1. f # i
    BY <1>1, <1>7
  <2>2. f < i
    BY <1>2, <1>4, <2>1
  <2>3. new[f] = chunks[f]
    BY <1>1, <1>3, <2>2
  <2>4. new[f].type \in Ends(type)
    BY <1>3, <2>3
  <2>5. \A j \in DOMAIN new : j < f => new[j].type \notin Ends(type)
    BY <1>5, <1>6
  <2>6. f \in DOMAIN new
    BY <1>2, <1>4, <1>5
  <2>7. Found(new, type) = f
    BY <1>1, <2>4, <2>5, <2>6, FirstIsFound
  <2>8. QED
    BY <2>2, <2>3, <2>7
<1>8. ASSUME chunks[f].type # type
      PROVE  f = i
  <2>1. ~(f < i)
    BY <1>1, <1>3, <1>8 DEF Ends
  <2>2. QED
    BY <1>2, <1>4, <2>1
<1>9. ASSUME f = i
      PROVE  /\ chunk.type = type => Found(new, type) = i
             /\ chunk.type \notin Ends(type) => Found(new, type) = i + 1
  <2>1. \A j \in DOMAIN new : j < i => new[j].type \notin Ends(type)
    BY <1>5, <1>6, <1>9
  <2>2. ASSUME chunk.type = type PROVE Found(new, type) = i
    <3>1. i \in DOMAIN new /\ new[i].type \in Ends(type)
      BY <1>1, <1>2, <1>5, <2>2 DEF Ends
    <3>2. QED
      BY <1>1, <2>1, <3>1, FirstIsFound
  <2>3. ASSUME chunk.type \notin Ends(type) PROVE Found(new, type) = i + 1
    <3>1. i + 1 \in DOMAIN new /\ new[i + 1].type \in Ends(type)
      BY <1>1, <1>2, <1>5 DEF Ends
    <3>2. \A j \in DOMAIN new : j < i + 1 => j < i \/ j = i
      BY <1>2, <1>5
    <3>3. \A j \in DOMAIN new : j < i + 1 => new[j].type \notin Ends(type)
      BY <1>1, <2>1, <2>3, <3>2
    <3>4. QED
      BY <1>1, <3>1, <3>3, FirstIsFound
  <2>4. QED
    BY <2>2, <2>3
<1>10. QED
  BY <1>3, <1>7, <1>8, <1>9 DEF i, f, new

\* add_pin_marker fails, or leaves the capsule as it is and its marker to be found
\* where no damaged one comes first.
LEMMA MarkerKeepsAll ==
    ASSUME NEW chunks \in Seq(Chunk)
    PROVE  MarkingKeeps(chunks)
<1> DEFINE new == AddPinMarker(chunks)
           i == Found(chunks, "IEND")
<1> SUFFICES ASSUME new # Error
             PROVE  /\ ExtractKeyChunk(new) = ExtractKeyChunk(chunks)
                    /\ MarkerIsSound(chunks) => MarkerPresent(new)
  BY DEF MarkingKeeps
<1>1. CASE MarkerPresent(chunks)
  BY <1>1 DEF AddPinMarker
<1>2. CASE ~ MarkerPresent(chunks)
  <2>1. new = InsertBeforeEnd(chunks, PinChunk) /\ TypeFound(chunks, "IEND") = "IEND"
    BY <1>2 DEF AddPinMarker, InsertBeforeEnd
  <2>2. PinChunk \in Chunk /\ PinChunk.type = "orPn"
    BY OurChunks
  <2>3. /\ i \in DOMAIN chunks /\ chunks[i].type = "IEND" /\ i \in 1 .. Len(chunks)
        /\ new[i] = PinChunk /\ new[i + 1] = chunks[i]
    BY <2>1, <2>2, InsertShape
  <2> HIDE DEF new, i
  <2>4. i # 0 /\ i + 1 # 0
    BY <2>3
  <2>5. ExtractKeyChunk(new) = ExtractKeyChunk(chunks)
    <3> DEFINE k == Found(chunks, "orKY")
    <3>1. /\ k \in DOMAIN chunks /\ k # 0
          /\ chunks[k].type = "orKY" => Found(new, "orKY") = k /\ new[k] = chunks[k]
          /\ chunks[k].type # "orKY" => k = i
          /\ k = i => Found(new, "orKY") = i + 1
      BY <2>1, <2>2, InsertFound DEF new, i, Ends
    <3> HIDE DEF k
    <3>2. CASE chunks[k].type = "orKY"
      BY <3>1, <3>2 DEF ExtractKeyChunk, TypeFound, k
    <3>3. CASE chunks[k].type # "orKY"
      <4>1. TypeFound(chunks, "orKY") = "IEND"
        BY <2>3, <3>1, <3>3 DEF TypeFound, k
      <4>2. TypeFound(new, "orKY") = "IEND"
        BY <2>3, <2>4, <3>1, <3>3 DEF TypeFound, k
      <4>3. QED
        BY <4>1, <4>2 DEF ExtractKeyChunk
    <3>4. QED
      BY <3>2, <3>3
  <2>6. ASSUME MarkerIsSound(chunks) PROVE MarkerPresent(new)
    <3> DEFINE k == Found(chunks, "orPn")
    <3>1. /\ k \in DOMAIN chunks /\ k # 0
          /\ chunks[k].type # "orPn" => k = i
          /\ k = i => Found(new, "orPn") = i
      BY <2>1, <2>2, InsertFound DEF new, i
    <3> HIDE DEF k
    <3>2. TypeFound(chunks, "orPn") # "orPn"
      BY <1>2, <2>6 DEF MarkerIsSound
    <3>3. chunks[k].type # "orPn"
      BY <3>1, <3>2 DEF TypeFound, k
    <3>4. QED
      BY <2>2, <2>3, <2>4, <3>1, <3>3 DEF MarkerPresent, TypeFound
  <2>7. QED
    BY <2>5, <2>6 DEF new
<1>3. QED
  BY <1>1, <1>2

-----------------------------------------------------------------------------
(* What becomes of a file *)

\* A file that is drawn anew holds its capsule, no other, and is no PIN card.
LEMMA ExportHolds ==
    ASSUME NEW c \in Capsules, NEW pdf \in BOOLEAN
    PROVE  LET file == ExportBytes(c, pdf)
           IN  /\ file \in Files /\ ~ Marked(file)
               /\ \A d : Holding(file, d) => d = c
               /\ Recovered(file) = c
               /\ ~ pdf => SourceBytes(file) = c
<1> DEFINE file == ExportBytes(c, pdf)
<1>1. CASE pdf
  <2>1. file = [format |-> "pdf", chunks |-> <<>>, code |-> c]
    BY <1>1 DEF ExportBytes, Pdf
  <2>2. <<>> \in Seq(Chunk) /\ DOMAIN <<>> = {}
    OBVIOUS
  <2>3. file \in Files /\ ~ Marked(file) /\ \A d : Holding(file, d) => d = c
    BY <2>1, <2>2 DEF Files, Marked, Holding
  <2>4. SourceBytes(file) = Error
    BY <2>1 DEF SourceBytes
  <2>5. DecodeImage(Photo(file)) = c
    BY <2>1 DEF DecodeImage, Photo
  <2>6. QED
    BY <1>1, <2>3, <2>4, <2>5 DEF Recovered
<1>2. CASE ~ pdf
  <2> DEFINE empty == <<Pixels, IEnd>>
             new == InsertBeforeEnd(empty, KeyChunk(c))
  <2>1. /\ empty \in Seq(Chunk) /\ DOMAIN empty = 1 .. 2
        /\ empty[1].type = "other" /\ empty[2].type = "IEND"
    BY OurChunks
  <2> HIDE DEF empty
  <2>2. Found(empty, "IEND") = 2
    <3>1. 2 \in DOMAIN empty /\ \A j \in DOMAIN empty : j < 2 => j = 1
      BY <2>1
    <3>2. empty[2].type \in Ends("IEND") /\ empty[1].type \notin Ends("IEND")
      BY <2>1 DEF Ends
    <3>3. QED
      BY <2>1, <3>1, <3>2, FirstIsFound
  <2>3. TypeFound(empty, "IEND") = "IEND"
    BY <2>1, <2>2 DEF TypeFound
  <2>4. KeyChunk(c) \in Chunk /\ KeyChunk(c).type = "orKY"
        /\ KeyChunk(c).keyfile = c /\ KeyChunk(c).digest = c
    BY OurChunks DEF KeyChunk
  <2>5. /\ new \in Seq(Chunk) /\ Len(new) = 3
        /\ new[1].type = "other" /\ new[2] = KeyChunk(c) /\ new[3].type = "IEND"
    <3>1. /\ new \in Seq(Chunk) /\ Len(new) = 2 + 1
          /\ \A j \in DOMAIN empty : j < 2 => new[j] = empty[j]
          /\ new[2] = KeyChunk(c) /\ new[2 + 1] = empty[2]
      <4> DEFINE i == Found(empty, "IEND")
                 key == KeyChunk(c)
      <4>1. key \in Chunk /\ empty \in Seq(Chunk)
        BY <2>1, <2>4
      <4>2. i = 2
        BY <2>2
      <4> HIDE DEF key
      <4>3. /\ InsertBeforeEnd(empty, key) \in Seq(Chunk)
            /\ Len(InsertBeforeEnd(empty, key)) = i + 1
            /\ \A j \in DOMAIN empty : j < i => InsertBeforeEnd(empty, key)[j] = empty[j]
            /\ InsertBeforeEnd(empty, key)[i] = key
            /\ InsertBeforeEnd(empty, key)[i + 1] = empty[i]
        BY <2>3, <4>1, InsertShape
      <4> HIDE DEF i
      <4>4. QED
        BY <4>2, <4>3 DEF key
    <3>2. 1 \in DOMAIN empty
      BY <2>1
    <3>3. QED
      BY <2>1, <3>1, <3>2
  <2>6. file = [format |-> "png", chunks |-> new, code |-> NoCode]
    BY <1>2 DEF ExportBytes, Png, InjectKeyChunk, empty, new
  <2> HIDE DEF new
  <2>7. DOMAIN new = 1 .. 3
    BY <2>5
  <2>8. file \in Files
    BY <2>5, <2>6 DEF Files
  <2>9. Found(new, "orKY") = 2
    BY <2>4, <2>5, <2>7, FirstIsFound DEF Ends
  <2>10. Found(new, "orPn") = 3
    BY <2>4, <2>5, <2>7, FirstIsFound DEF Ends
  <2>11. ~ Marked(file)
    BY <2>5, <2>6, <2>10 DEF Marked, MarkerPresent, TypeFound
  <2>12. ExtractKeyChunk(new) = c
    BY <2>4, <2>5, <2>9 DEF ExtractKeyChunk, TypeFound
  <2>13. SourceBytes(file) = c /\ c # Error
    BY <2>6, <2>12, CapsulesAssumption DEF SourceBytes, DecodeImage
  <2>14. \A d : Holding(file, d) => d = c
    BY <2>4, <2>5, <2>6, <2>7, CapsulesAssumption DEF Holding
  <2>15. QED
    BY <2>8, <2>11, <2>13, <2>14 DEF Recovered
<1>3. QED
  BY <1>1, <1>2

\* A raw capsule file holds that capsule only, and carries no marker.
LEMMA RawHolds ==
    ASSUME NEW c \in Capsules
    PROVE  Raw(c) \in Files /\ ~ Marked(Raw(c)) /\ \A d : Holding(Raw(c), d) => d = c
<1>1. <<>> \in Seq(Chunk) /\ DOMAIN <<>> = {}
  OBVIOUS
<1>2. QED
  BY <1>1 DEF Raw, Files, Marked, Holding

\* Marking adds no capsule.
LEMMA MarkedHolds ==
    ASSUME NEW file \in Files, AddPinMarker(file.chunks) # Error
    PROVE  LET new == Png(AddPinMarker(file.chunks))
           IN  new \in Files /\ \A c : Holding(new, c) => Holding(file, c)
<1> DEFINE chunks == file.chunks
           after == AddPinMarker(chunks)
           new == Png(after)
<1>1. chunks \in Seq(Chunk)
  BY DEF Files
<1>2. after \in Seq(Chunk) /\ \A i \in DOMAIN after :
         after[i].type = "orKY" => \E j \in DOMAIN chunks : after[i] = chunks[j]
  <2>1. CASE MarkerPresent(chunks)
    BY <1>1, <2>1 DEF AddPinMarker
  <2>2. CASE ~ MarkerPresent(chunks)
    <3>1. after = InsertBeforeEnd(chunks, PinChunk) /\ TypeFound(chunks, "IEND") = "IEND"
      BY <2>2 DEF AddPinMarker, InsertBeforeEnd
    <3> DEFINE e == Found(chunks, "IEND")
    <3>2. PinChunk \in Chunk /\ PinChunk.type = "orPn"
      BY OurChunks
    <3>3. /\ e \in DOMAIN chunks
          /\ after \in Seq(Chunk) /\ Len(after) = e + 1
          /\ \A j \in DOMAIN chunks : j < e => after[j] = chunks[j]
          /\ after[e] = PinChunk /\ after[e + 1] = chunks[e]
      BY <1>1, <3>1, <3>2, InsertShape
    <3> HIDE DEF chunks, after, e
    <3>4. e \in 1 .. Len(chunks) /\ Len(chunks) \in Nat /\ DOMAIN chunks = 1 .. Len(chunks)
      BY <1>1, <3>3
    <3>5. DOMAIN after = 1 .. e + 1
      BY <3>3, <3>4
    <3>6. ASSUME NEW i \in DOMAIN after, after[i].type = "orKY"
          PROVE  \E j \in DOMAIN chunks : after[i] = chunks[j]
      <4>1. i # e
        BY <3>2, <3>3, <3>6
      <4>2. CASE i = e + 1
        BY <3>3, <4>2
      <4>3. CASE i < e
        <5>1. i \in DOMAIN chunks
          BY <3>4, <3>5, <4>3
        <5>2. QED
          BY <3>3, <4>3, <5>1
      <4>4. QED
        BY <3>4, <3>5, <4>1, <4>2, <4>3
    <3>7. QED
      BY <3>3, <3>6
  <2>3. QED
    BY <2>1, <2>2
<1> HIDE DEF after
<1>3. new = [format |-> "png", chunks |-> after, code |-> NoCode]
  BY DEF Png
<1>4. new \in Files
  BY <1>2, <1>3 DEF Files
<1>5. ASSUME NEW c, Holding(new, c) PROVE Holding(file, c)
  BY <1>2, <1>3, <1>5, CapsulesAssumption DEF Holding, chunks
<1>6. QED
  BY <1>4, <1>5 DEF after

\* What Edited makes of a card's chunks: an initial part of them, some changed
\* in place, and perhaps a cut one.
Damaged(chunks, new) ==
    /\ \A j \in DOMAIN new :
          new[j] = Cut \/ (j \in DOMAIN chunks /\ new[j] \in {chunks[j], Changed(chunks[j])})
    /\ \A j, k \in DOMAIN new : j < k => j \in DOMAIN chunks /\ new[j].type = chunks[j].type

\* A chunk with a changed payload keeps its type, and a changed key chunk fails its digest.
LEMMA ChangedHolds ==
    ASSUME NEW c \in Chunk
    PROVE  /\ Changed(c) \in Chunk /\ Changed(c).type = c.type
           /\ c.type = "orKY" => Changed(c).keyfile = c.keyfile /\ Changed(c).digest = Error
           /\ Changed(c) # PinChunk
<1>1. CASE c.type = "orKY"
  <2>1. c \in KeyChunks
    BY <1>1, ChunkKinds
  <2>2. Changed(c) = [c EXCEPT !.digest = Error]
    BY <1>1 DEF Changed
  <2>3. Changed(c) \in KeyChunks /\ Changed(c).keyfile = c.keyfile /\ Changed(c).digest = Error
    BY <2>1, <2>2 DEF KeyChunks
  <2>4. QED
    BY <1>1, <2>3, OurChunks DEF KeyChunks, Chunk
<1>2. CASE c.type = "orPn"
  <2>1. c \in MarkerChunks
    BY <1>2, ChunkKinds
  <2>2. Changed(c) = [c EXCEPT !.data = "changed"]
    BY <1>2 DEF Changed
  <2>3. Changed(c) \in MarkerChunks /\ Changed(c).data = "changed"
    BY <2>1, <2>2 DEF MarkerChunks
  <2>4. QED
    BY <1>2, <2>3 DEF MarkerChunks, Chunk, PinChunk, PinData
<1>3. CASE c.type \notin {"orKY", "orPn"}
  BY <1>3, OurChunks DEF Changed
<1>4. QED
  BY <1>1, <1>2, <1>3

\* The first chunk of ours that is found in the rest was the first before.
LEMMA DamagedFound ==
    ASSUME NEW chunks \in Seq(Chunk), NEW new \in Seq(Chunk), Damaged(chunks, new),
           NEW type \in {"orKY", "orPn"}, TypeFound(new, type) = type
    PROVE  LET f == Found(new, type)
           IN  /\ f \in DOMAIN new /\ f \in DOMAIN chunks /\ Found(chunks, type) = f
               /\ chunks[f].type = type /\ TypeFound(chunks, type) = type
               /\ new[f] \in {chunks[f], Changed(chunks[f])}
<1> DEFINE f == Found(new, type)
<1>1. f # 0 /\ new[f].type = type
  BY DEF TypeFound
<1>2. f \in DOMAIN new /\ \A i \in DOMAIN new : new[i].type \in Ends(type) => f <= i
  BY <1>1, FoundIsFirst
<1> HIDE DEF f
<1>3. f \in DOMAIN chunks /\ new[f] \in {chunks[f], Changed(chunks[f])}
  BY <1>1, <1>2, OurChunks DEF Damaged
<1>4. chunks[f].type = type
  BY <1>1, <1>3, ChangedHolds
<1>5. ASSUME NEW j \in DOMAIN chunks, j < f PROVE chunks[j].type \notin Ends(type)
  <2>1. j \in DOMAIN new
    BY <1>2, <1>5
  <2>2. new[j].type \notin Ends(type)
    BY <1>2, <1>5, <2>1
  <2>3. QED
    BY <1>2, <1>5, <2>1, <2>2 DEF Damaged
<1>6. Found(chunks, type) = f
  BY <1>3, <1>4, <1>5, FirstIsFound DEF Ends
<1>7. QED
  BY <1>1, <1>2, <1>3, <1>4, <1>6 DEF f, TypeFound

\* Damage to a picture brings no marker and no capsule that was not there.
LEMMA DamagedKeeps ==
    ASSUME NEW chunks \in Seq(Chunk), NEW new \in Seq(Chunk), Damaged(chunks, new)
    PROVE  /\ MarkerPresent(new) => MarkerPresent(chunks)
           /\ ExtractKeyChunk(new) \in Capsules => ExtractKeyChunk(chunks) \in Capsules
           /\ \A i \in DOMAIN new : new[i].type = "orKY" =>
                 \E j \in DOMAIN chunks :
                    chunks[j].type = "orKY" /\ chunks[j].keyfile = new[i].keyfile
<1>1. ASSUME MarkerPresent(new) PROVE MarkerPresent(chunks)
  <2>1. TypeFound(new, "orPn") = "orPn" /\ new[Found(new, "orPn")] = PinChunk
    BY <1>1 DEF MarkerPresent
  <2> DEFINE f == Found(new, "orPn")
  <2>2. /\ f \in DOMAIN chunks /\ Found(chunks, "orPn") = f /\ TypeFound(chunks, "orPn") = "orPn"
        /\ new[f] \in {chunks[f], Changed(chunks[f])}
    BY <2>1, DamagedFound
  <2> HIDE DEF f
  <2>3. chunks[f] \in Chunk
    BY <2>2
  <2>4. chunks[f] = PinChunk
    BY <2>1, <2>2, <2>3, ChangedHolds DEF f
  <2>5. QED
    BY <2>2, <2>4 DEF MarkerPresent
<1>2. ASSUME ExtractKeyChunk(new) \in Capsules PROVE ExtractKeyChunk(chunks) \in Capsules
  <2> DEFINE f == Found(new, "orKY")
  <2>1. /\ TypeFound(new, "orKY") = "orKY" /\ f \in DOMAIN new
        /\ new[f].digest = new[f].keyfile /\ new[f].keyfile \in Capsules
    BY <1>2, ExtractHeld, CapsulesAssumption
  <2>2. /\ f \in DOMAIN chunks /\ Found(chunks, "orKY") = f /\ TypeFound(chunks, "orKY") = "orKY"
        /\ new[f] \in {chunks[f], Changed(chunks[f])} /\ chunks[f].type = "orKY"
    BY <2>1, DamagedFound
  <2> HIDE DEF f
  <2>3. chunks[f] \in Chunk
    BY <2>2
  <2>4. new[f] = chunks[f]
    BY <2>1, <2>2, <2>3, ChangedHolds, CapsulesAssumption
  <2>5. QED
    BY <2>1, <2>2, <2>4 DEF ExtractKeyChunk
<1>3. ASSUME NEW i \in DOMAIN new, new[i].type = "orKY"
      PROVE  \E j \in DOMAIN chunks : chunks[j].type = "orKY" /\ chunks[j].keyfile = new[i].keyfile
  <2>1. i \in DOMAIN chunks /\ new[i] \in {chunks[i], Changed(chunks[i])}
    BY <1>3, OurChunks DEF Damaged
  <2>2. chunks[i] \in Chunk
    BY <2>1
  <2>3. QED
    BY <1>3, <2>1, <2>2, ChangedHolds
<1>4. QED
  BY <1>1, <1>2, <1>3

\* An editor or a bad copy adds no capsule, and makes no PIN card of another.
LEMMA EditedHolds ==
    ASSUME NEW file \in Files, NEW new \in Edited(file)
    PROVE  /\ new \in Files
           /\ \A c : Holding(new, c) => Holding(file, c)
           /\ SourceBytes(new) # Error /\ Marked(new) => SourceBytes(file) # Error /\ Marked(file)
<1> DEFINE chunks == file.chunks
<1>1. chunks \in Seq(Chunk) /\ file.format = "png"
  BY DEF Files, Edited
<1>2. CASE new = Png(<<Pixels, IEnd>>)
  <2> DEFINE empty == <<Pixels, IEnd>>
  <2>1. empty \in Seq(Chunk) /\ \A i \in DOMAIN empty : empty[i].type \notin {"orKY", "orPn"}
    BY OurChunks
  <2> HIDE DEF empty
  <2>2. new = [format |-> "png", chunks |-> empty, code |-> NoCode]
    BY <1>2 DEF Png, empty
  <2>3. new \in Files /\ \A c : ~ Holding(new, c)
    BY <2>1, <2>2, CapsulesAssumption DEF Files, Holding
  <2>4. Found(empty, "orPn") = 0 \/ Found(empty, "orPn") \in DOMAIN empty
    BY <2>1, FoundIsFirst
  <2>5. ~ Marked(new)
    BY <2>1, <2>2, <2>4 DEF Marked, MarkerPresent, TypeFound
  <2>6. QED
    BY <2>3, <2>5
<1>3. ASSUME NEW rest \in Seq(Chunk), new = Png(rest), Damaged(chunks, rest)
      PROVE  /\ new \in Files
             /\ \A c : Holding(new, c) => Holding(file, c)
             /\ SourceBytes(new) # Error /\ Marked(new) => SourceBytes(file) # Error /\ Marked(file)
  <2>1. new = [format |-> "png", chunks |-> rest, code |-> NoCode]
    BY <1>3 DEF Png
  <2>2. /\ MarkerPresent(rest) => MarkerPresent(chunks)
        /\ ExtractKeyChunk(rest) \in Capsules => ExtractKeyChunk(chunks) \in Capsules
        /\ \A i \in DOMAIN rest : rest[i].type = "orKY" =>
              \E j \in DOMAIN chunks :
                 chunks[j].type = "orKY" /\ chunks[j].keyfile = rest[i].keyfile
    BY <1>1, <1>3, DamagedKeeps
  <2>3. new \in Files
    BY <1>3, <2>1 DEF Files
  <2>4. ASSUME NEW c, Holding(new, c) PROVE Holding(file, c)
    BY <2>1, <2>2, <2>4, CapsulesAssumption DEF Holding
  <2>5. Marked(new) => Marked(file)
    BY <1>1, <2>1, <2>2 DEF Marked
  <2>6. ASSUME SourceBytes(new) # Error PROVE SourceBytes(file) # Error
    <3>1. ExtractKeyChunk(rest) \in Capsules
      BY <1>3, <2>1, <2>6, ExtractHeld, CapsulesAssumption DEF SourceBytes, DecodeImage
    <3>2. ExtractKeyChunk(chunks) \in Capsules
      BY <2>2, <3>1
    <3>3. QED
      BY <1>1, <3>2, CapsulesAssumption DEF SourceBytes, DecodeImage
  <2>7. QED
    BY <2>3, <2>4, <2>5, <2>6
<1>4. ASSUME NEW i \in DOMAIN chunks, new = Png([chunks EXCEPT ![i] = Changed(@)])
      PROVE  \E rest \in Seq(Chunk) : new = Png(rest) /\ Damaged(chunks, rest)
  <2> DEFINE rest == [chunks EXCEPT ![i] = Changed(chunks[i])]
  <2>1. Changed(chunks[i]) \in Chunk /\ Changed(chunks[i]).type = chunks[i].type
    BY <1>1, ChangedHolds
  <2>2. rest \in Seq(Chunk) /\ DOMAIN rest = DOMAIN chunks
    BY <1>1, <2>1
  <2>3. \A j \in DOMAIN chunks : rest[j] = IF j = i THEN Changed(chunks[i]) ELSE chunks[j]
    BY <1>1
  <2>4. new = Png(rest)
    BY <1>4
  <2> HIDE DEF rest
  <2>5. Damaged(chunks, rest)
    BY <2>1, <2>2, <2>3 DEF Damaged
  <2>6. QED
    BY <2>2, <2>4, <2>5
<1>5. ASSUME NEW i \in DOMAIN chunks, new = Png(SubSeq(chunks, 1, i - 1) \o <<Cut>>)
      PROVE  \E rest \in Seq(Chunk) : new = Png(rest) /\ Damaged(chunks, rest)
  <2> DEFINE front == SubSeq(chunks, 1, i - 1)
             back == <<Cut>>
             rest == front \o back
  <2>1. i \in 1 .. Len(chunks) /\ Len(chunks) \in Nat /\ DOMAIN chunks = 1 .. Len(chunks)
    BY <1>1
  <2>2. front \in Seq(Chunk) /\ Len(front) = i - 1 /\ \A j \in 1 .. i - 1 : front[j] = chunks[j]
    <3>1. \A j \in 1 .. i - 1 : chunks[j] \in Chunk
      BY <1>1, <2>1
    <3>2. QED
      BY <2>1, <3>1, SubSeqProperties
  <2>3. back \in Seq(Chunk) /\ Len(back) = 1 /\ back[1] = Cut
    BY OurChunks
  <2> HIDE DEF front, back
  <2>4. /\ rest \in Seq(Chunk) /\ Len(rest) = i
        /\ \A j \in 1 .. i : rest[j] = IF j <= i - 1 THEN front[j] ELSE back[j - (i - 1)]
    <3>1. /\ rest \in Seq(Chunk) /\ Len(rest) = Len(front) + Len(back)
          /\ \A j \in 1 .. Len(front) + Len(back) :
                rest[j] = IF j <= Len(front) THEN front[j] ELSE back[j - Len(front)]
      BY <2>2, <2>3, ConcatProperties
    <3>2. Len(front) + Len(back) = i
      BY <2>1, <2>2, <2>3
    <3>3. QED
      BY <2>2, <3>1, <3>2
  <2>5. (\A j \in 1 .. i - 1 : rest[j] = chunks[j]) /\ rest[i] = Cut
    <3>1. \A j \in 1 .. i - 1 : j \in 1 .. i /\ j <= i - 1
      BY <2>1
    <3>2. i \in 1 .. i /\ ~(i <= i - 1) /\ i - (i - 1) = 1
      BY <2>1
    <3>3. QED
      BY <2>2, <2>3, <2>4, <3>1, <3>2
  <2>6. new = Png(rest)
    BY <1>5 DEF front, back
  <2> HIDE DEF rest
  <2>7. DOMAIN rest = 1 .. i
    BY <2>1, <2>4
  <2>8. Damaged(chunks, rest)
    BY <2>1, <2>5, <2>7 DEF Damaged
  <2>9. QED
    BY <2>4, <2>6, <2>8
<1>6. \/ new = Png(<<Pixels, IEnd>>)
      \/ \E i \in DOMAIN chunks : new = Png([chunks EXCEPT ![i] = Changed(@)])
      \/ \E i \in DOMAIN chunks : new = Png(SubSeq(chunks, 1, i - 1) \o <<Cut>>)
  BY DEF Edited
<1>7. QED
  BY <1>2, <1>3, <1>4, <1>5, <1>6

-----------------------------------------------------------------------------
(* The invariant *)

\* A file holds one capsule at most.
Single(file) == \A c, d \in Capsules : Holding(file, c) /\ Holding(file, d) => c = d

\* The worker is about to move a file to the path of its task.
Carries == task.step \in {"persist", "rename"}

\* The capsules there are: in a file, or in one that the worker or the command
\* line is about to move.
Held(c) ==
    \/ \E p \in Paths : IsFile(p) /\ Holding(disk[p], c)
    \/ Carries /\ Holding(task.more.file, c)
    \/ command # NoCommand /\ Holding(command.file, c)

Steps == {"open", "inform", "opened", "write", "persist", "mark", "rename", "bind", "remove",
          "work", "done", "error"}
New(t) == t.step = "write" /\ t.kind \in {"create", "recovery"}
Copy(t) == t.step = "write" /\ t.kind = "copy"
Made(t) == t.step \in {"persist", "mark", "rename", "bind"} /\ t.kind = "create"

StoreType ==
    /\ disk \in [Paths -> Files \cup {NoCard}]
    /\ bindings \in [Numbers -> {None} \cup Numbers]
    /\ drawn \in 0 .. MaxCards

AppType ==
    /\ settings \in Paths \cup {NoPath} /\ keySource \in Paths \cup {NoPath}
    /\ keyFingerprint \in 0 .. drawn /\ unlockedKey \in 0 .. drawn
    /\ up \in BOOLEAN /\ unlockOpen \in BOOLEAN

\* The command line never makes a PIN card, and nothing is crossed without it
\* or an editor.
OthersType ==
    /\ outside \in 0 .. MaxOutside /\ crossed \subseteq Paths
    /\ outside = 0 => command = NoCommand /\ crossed = {}
    /\ command # NoCommand =>
          command.path \in Paths /\ command.file \in Files /\ ~ Marked(command.file)

IsTask(t) ==
    /\ t = [kind |-> t.kind, path |-> t.path, step |-> t.step, more |-> t.more, found |-> t.found]
    /\ t.kind \in Kinds /\ t.path \in Paths /\ t.step \in Steps
TaskType ==
    /\ task = NoTask \/ IsTask(task)
    /\ task.step \in {"write", "persist"} => task.kind \in {"create", "recovery", "copy"}
    /\ New(task) => task.more.given \in 0 .. drawn
    /\ Copy(task) => task.more.source \in Paths
    /\ Carries => task.more.file \in Files
    /\ Made(task) => task.more.secret \in {None} \cup Numbers
    /\ task.step \in {"mark", "rename", "bind", "remove"} => task.kind = "create"
    /\ task.step = "open" => task.kind \in {"unlock", "create"}
    /\ task.step = "inform" => task.kind \in {"unlock", "copy"}

\* Capsules are numbered as they are made, and one number is one capsule.
Numbered ==
    \A c \in Capsules : Held(c) => c.id \in 1 .. drawn /\ c.master \in 1 .. drawn
Distinct ==
    \A c, d \in Capsules : Held(c) /\ Held(d) /\ c.id = d.id => c = d
\* A binding is for a capsule that was made, and holds its device secret.
Bound ==
    /\ \A n \in Numbers : bindings[n] # None => n <= drawn
    /\ crossed = {} =>
          \A c \in Capsules : Held(c) /\ bindings[c.id] # None => bindings[c.id] = c.secret
OneEach ==
    /\ \A p \in Paths : IsFile(p) => Single(disk[p])
    /\ Carries => Single(task.more.file)
    /\ command # NoCommand => Single(command.file)

\* The card that is being made has the device secret that will be bound, and
\* nothing is at its path before it is moved there; unless another program wrote
\* the file meanwhile.
Making ==
    /\ task.step = "persist" /\ task.kind = "create" =>
          /\ SourceBytes(task.more.file) # Error
          /\ \A c \in Capsules : Holding(task.more.file, c) => c.secret = task.more.secret
    /\ task.path \notin crossed =>
          /\ Carries => disk[task.path] = NoCard
          /\ task.step = "mark" => Holds(task.path)
          /\ task.step \in {"mark", "bind"} /\ IsFile(task.path) =>
                \A c \in Capsules : Holding(disk[task.path], c) => c.secret = task.more.secret
          /\ task.step = "rename" =>
                \A c \in Capsules : Holding(task.more.file, c) => c.secret = task.more.secret

\* The key in memory, and the card at path p whose fingerprint is id.
KeyOf(key, p, id) ==
    /\ p \in Paths /\ id \in 1 .. drawn /\ key \in 1 .. drawn
    /\ p \notin crossed => \A c \in Capsules : Held(c) /\ c.id = id => c.master = key
    /\ outside = 0 /\ IsFile(p) => \A c \in Capsules : Holding(disk[p], c) => c.master = key
Unlocked ==
    /\ ~ up => unlockedKey = None
    /\ unlockedKey # None =>
          /\ KeyOf(unlockedKey, keySource, keyFingerprint)
          /\ New(task) => task.more.given = unlockedKey
          /\ Copy(task) => task.more.source = keySource
          /\ Carries /\ task.path = keySource /\ outside = 0 =>
                \A c \in Capsules : Holding(task.more.file, c) => c.master = unlockedKey

\* What is known of the file of a task between the reads of it: a card that was
\* bound is to be unlocked under its fingerprint, the key of an unlocked one is
\* to be shown with its fingerprint.
BoundNow == task.step = "open" /\ task.kind = "create"
Informing == task.step = "inform" /\ task.kind = "unlock"
Opened ==
    /\ task.step = "opened" => KeyOf(task.more.key, task.path, task.more.id)
    /\ BoundNow =>
          /\ task.more.id \in 1 .. drawn
          /\ task.path \notin crossed /\ IsFile(task.path) =>
                \A c \in Capsules : Holding(disk[task.path], c) => c.id = task.more.id
    /\ Informing =>
          /\ task.more.key \in 1 .. drawn
          /\ task.path \notin crossed /\ IsFile(task.path) =>
                \A c \in Capsules : Holding(disk[task.path], c) => c.master = task.more.key

\* A card that is drawn anew is no PIN card, whatever became of it meanwhile, and
\* the copy about to be moved is that of the card that was read.
Copying ==
    /\ Copy(task) /\ ~ task.more.pin /\ Holds(task.more.source) =>
          ~ Marked(disk[task.more.source])
    /\ task.step = "persist" /\ task.kind = "copy" =>
          /\ Recovered(task.more.file) = SourceBytes(task.more.of)
          /\ Marked(task.more.file) = Marked(task.more.of)

Inv ==
    /\ StoreType /\ AppType /\ OthersType /\ TaskType
    /\ Numbered /\ Distinct /\ Bound /\ OneEach
    /\ Making /\ Unlocked /\ Opened /\ Copying

-----------------------------------------------------------------------------
(* What the invariant says of a step *)

\* A file on disk is never mistaken for an absent one.
LEMMA FilesAreCards ==
    ASSUME NEW file \in Files
    PROVE  file # NoCard
<1>1. "format" \in DOMAIN file
  BY DEF Files
<1>2. "format" \notin DOMAIN NoCard
  BY DEF NoCard
<1>3. QED
  BY <1>1, <1>2

\* A path that holds a card is a file, and the capsule read from it is one some file holds.
LEMMA ReadCard ==
    ASSUME StoreType, NEW p \in Paths
    PROVE  /\ IsFile(p) <=> disk[p] # NoCard
           /\ IsFile(p) => disk[p] \in Files
           /\ Holds(p) => /\ Source(p) \in Capsules /\ Holding(disk[p], Source(p))
                          /\ Held(Source(p))
<1>1. p # NoPath
  BY KeyCardsAssumption
<1>2. IsFile(p) => disk[p] \in Files
  BY DEF StoreType, IsFile
<1>3. ASSUME Holds(p) PROVE Source(p) \in Capsules /\ Holding(disk[p], Source(p))
  <2>1. Holding(disk[p], Source(p))
    BY <1>2, <1>3, SourceHeld DEF Holds, Source
  <2>2. QED
    BY <2>1 DEF Holding
<1>4. QED
  BY <1>1, <1>2, <1>3 DEF IsFile, Holds, Held

\* A step that makes at most one capsule, which takes the next number.
Grown(card) ==
    /\ drawn' \in {drawn, drawn + 1} /\ drawn' <= MaxCards
    /\ bindings' = bindings /\ crossed \subseteq crossed'
    /\ \A c \in Capsules : Held(c)' =>
          \/ Held(c)
          \/ c = card /\ drawn' = drawn + 1 /\ c.id = drawn' /\ c.master \in 1 .. drawn'

\* Adding one fresh card keeps the numbering, the distinct secrets, the bindings and the key behind every earlier card.
LEMMA CardsGrow ==
    ASSUME Inv, NEW card, Grown(card)
    PROVE  /\ Numbered' /\ Distinct' /\ Bound'
           /\ drawn' \in 0 .. MaxCards /\ drawn \in 0 .. drawn'
           /\ \A key : \A id \in 1 .. drawn :
                 (\A c \in Capsules : Held(c) /\ c.id = id => c.master = key) =>
                    \A c \in Capsules : Held(c)' /\ c.id = id => c.master = key
<1>1. /\ drawn \in Nat /\ MaxCards \in Nat /\ drawn' \in Nat /\ drawn <= drawn'
      /\ bindings' = bindings /\ (crossed' = {} => crossed = {})
  BY KeyCardsAssumption DEF Inv, StoreType, Grown
<1>2. \A c \in Capsules : Held(c) => c.id \in 1 .. drawn /\ c.master \in 1 .. drawn
  BY DEF Inv, Numbered
<1>3. \A c, d \in Capsules : Held(c) /\ Held(d) /\ c.id = d.id => c = d
  BY DEF Inv, Distinct
<1>4. \A c \in Capsules : c.id \in Numbers
  BY KeyCardsAssumption
<1>5. /\ \A n \in Numbers : bindings[n] # None => n <= drawn
      /\ crossed = {} =>
            \A c \in Capsules : Held(c) /\ bindings[c.id] # None => bindings[c.id] = c.secret
  BY DEF Inv, Bound
<1>6. \A c \in Capsules : Held(c)' =>
         Held(c) \/ (c = card /\ drawn' = drawn + 1 /\ c.id = drawn' /\ c.master \in 1 .. drawn')
  BY DEF Grown
<1>7. \A c \in Capsules : Held(c)' => c.id \in 1 .. drawn' /\ c.master \in 1 .. drawn'
  BY <1>1, <1>2, <1>6
<1>8. \A c, d \in Capsules : Held(c)' /\ Held(d)' /\ c.id = d.id => c = d
  BY <1>1, <1>2, <1>3, <1>6
<1>9. \A n \in Numbers : bindings[n] # None => n <= drawn'
  BY <1>1, <1>5 DEF Numbers
<1>10. ASSUME NEW c \in Capsules, Held(c)', bindings[c.id] # None, crossed' = {}
       PROVE  bindings[c.id] = c.secret
  <2>1. c.id <= drawn
    BY <1>4, <1>5, <1>10
  <2>2. Held(c)
    BY <1>1, <1>6, <1>10, <2>1
  <2>3. QED
    BY <1>1, <1>5, <1>10, <2>2
<1>11. ASSUME NEW id \in 1 .. drawn, NEW key,
              \A c \in Capsules : Held(c) /\ c.id = id => c.master = key
       PROVE  \A c \in Capsules : Held(c)' /\ c.id = id => c.master = key
  BY <1>1, <1>6, <1>11
<1>12. drawn' \in 0 .. MaxCards
  BY <1>1 DEF Grown
<1>13. QED
  BY <1>1, <1>7, <1>8, <1>9, <1>10, <1>11, <1>12 DEF Numbered, Distinct, Bound

\* Where no file is touched, the cards are as they were.
LEMMA FilesStay ==
    ASSUME Inv, UNCHANGED files, UNCHANGED others,
           task' = task \/ task'.step \notin {"persist", "rename"}
    PROVE  /\ StoreType' /\ OthersType' /\ Numbered' /\ Distinct' /\ Bound' /\ OneEach'
           /\ \A c \in Capsules : Held(c)' => Held(c)
           /\ \A p : IsFile(p)' = IsFile(p)
<1>1. /\ disk' = disk /\ bindings' = bindings /\ drawn' = drawn
      /\ command' = command /\ outside' = outside /\ crossed' = crossed
  BY DEF files, others
<1>2. \A p : IsFile(p)' = IsFile(p)
  BY <1>1 DEF IsFile
<1>3. \A c \in Capsules : Held(c)' => Held(c)
  BY <1>1, <1>2 DEF Held, Carries
<1>4. drawn \in 0 .. MaxCards /\ MaxCards \in Nat
  BY KeyCardsAssumption DEF Inv, StoreType
<1>5. Grown(NoCard)
  BY <1>1, <1>3, <1>4 DEF Grown
<1>6. Numbered' /\ Distinct' /\ Bound'
  BY <1>5, CardsGrow
<1>7. OneEach'
  BY <1>1, <1>2 DEF Inv, OneEach, Carries
<1>8. StoreType' /\ OthersType'
  BY <1>1 DEF Inv, StoreType, OthersType
<1>9. QED
  BY <1>2, <1>3, <1>6, <1>7, <1>8

\* The application starts with the invariant true: no card, no binding, no key in memory.
LEMMA InvInit == Init => Inv
<1> SUFFICES ASSUME Init PROVE Inv
  OBVIOUS
<1>1. /\ bindings = [n \in Numbers |-> None] /\ task = NoTask /\ task.step = "none"
      /\ unlockedKey = None /\ outside = 0 /\ settings = NoPath /\ keySource = NoPath
      /\ keyFingerprint = None /\ up = TRUE /\ unlockOpen = FALSE
      /\ command = NoCommand /\ crossed = {}
  BY DEF Init, NoTask
<1>2. MaxCards \in Nat \ {0} /\ MaxOutside \in Nat
  BY KeyCardsAssumption
<1>9. AppType
  <2>1. drawn \in Nat
    <3>1. drawn = 0 \/ drawn = 1
      BY Zenon DEF Init
    <3>2. QED
      BY <3>1
  <2>2. 0 \in 0 .. drawn
    BY <2>1
  <2>3. up \in BOOLEAN /\ unlockOpen \in BOOLEAN
    BY <1>1, Zenon
  <2>4. settings \in Paths \cup {NoPath} /\ keySource \in Paths \cup {NoPath}
    BY <1>1
  <2>5. keyFingerprint \in 0 .. drawn /\ unlockedKey \in 0 .. drawn
    BY <1>1, <2>2 DEF None
  <2>6. QED
    BY <2>3, <2>4, <2>5 DEF AppType
<1>10. TaskType
  BY <1>1 DEF TaskType, New, Copy, Made, Carries
<1>12. OthersType
  BY <1>1, <1>2 DEF OthersType
<1>11. 1 \in Numbers
  BY <1>2 DEF Numbers
<1>3. CASE drawn = 0 /\ disk = [p \in Paths |-> NoCard]
  <2>1. \A p \in Paths : ~ IsFile(p)
    BY <1>3 DEF IsFile
  <2>2. \A c : ~ Held(c)
    BY <1>1, <2>1 DEF Held, Carries
  <2>3. StoreType
    BY <1>1, <1>2, <1>3 DEF StoreType, None, Numbers
  <2>4. Numbered /\ Distinct /\ Bound /\ OneEach
    BY <1>1, <2>1, <2>2 DEF Numbered, Distinct, Bound, OneEach, None, Carries
  <2>6. Making /\ Unlocked /\ Opened /\ Copying
    BY <1>1 DEF Making, Unlocked, Opened, Copying, Copy, Carries, BoundNow, Informing
  <2>7. QED
    BY <1>9, <1>10, <1>12, <2>3, <2>4, <2>6 DEF Inv
<1>4. CASE /\ drawn = 1
           /\ \E made \in FirstPaths :
                 disk = [p \in Paths |-> IF p = made THEN ExportBytes(Card(1, None, FALSE), FALSE)
                                                      ELSE NoCard]
  <2> DEFINE card == Card(1, None, FALSE)
             file == ExportBytes(card, FALSE)
  <2>1. PICK made \in Paths : disk = [p \in Paths |-> IF p = made THEN file ELSE NoCard]
    BY <1>4, KeyCardsAssumption
  <2>2. card = [id |-> 1, master |-> 1, secret |-> 0]
    BY DEF Card, CardId, None
  <2>3. card \in Capsules
    <3>1. [id |-> 1, master |-> 1, secret |-> 0]
             \in [id : Numbers, master : Numbers, secret : {0} \cup Numbers]
      BY <1>11
    <3>2. Capsules = [id : Numbers, master : Numbers, secret : {0} \cup Numbers]
      BY KeyCardsAssumption
    <3>3. QED
      BY <2>2, <3>1, <3>2, Zenon
  <2>4. file \in Files /\ \A d : Holding(file, d) => d = card
    BY <2>3, ExportHolds
  <2> HIDE DEF card, file
  <2>5. \A p \in Paths : IsFile(p) => disk[p] = file
    BY <2>1 DEF IsFile
  <2>6. \A c : Held(c) => c = card
    BY <1>1, <2>4, <2>5 DEF Held, Carries
  <2>7. StoreType
    <3>1. disk \in [Paths -> Files \cup {NoCard}]
      BY <2>1, <2>4
    <3>2. bindings \in [Numbers -> {None} \cup Numbers]
      BY <1>1
    <3>3. drawn \in 0 .. MaxCards
      BY <1>2, <1>4
    <3>4. QED
      BY <3>1, <3>2, <3>3, Zenon DEF StoreType
  <2>8. Numbered /\ Distinct /\ Bound
    <3>1. \A n \in Numbers : bindings[n] = None
      BY <1>1
    <3>2. \A c \in Capsules : c.id \in Numbers
      BY KeyCardsAssumption
    <3>3. QED
      BY <1>4, <2>2, <2>6, <3>1, <3>2 DEF Numbered, Distinct, Bound
  <2>9. OneEach
    BY <1>1, <2>4, <2>5 DEF OneEach, Single, Carries
  <2>11. Making /\ Unlocked /\ Opened /\ Copying
    BY <1>1 DEF Making, Unlocked, Opened, Copying, Copy, Carries, BoundNow, Informing
  <2>12. QED
    BY <1>9, <1>10, <1>12, <2>7, <2>8, <2>9, <2>11 DEF Inv
<1>5. QED
  BY <1>3, <1>4 DEF Init

\* A card made with a drawn number is a capsule with that identity and the master key asked for.
LEMMA MadeCard ==
    ASSUME NEW n \in Numbers, NEW given \in {None} \cup Numbers, NEW pin \in BOOLEAN
    PROVE  /\ Card(n, given, pin) \in Capsules /\ Card(n, given, pin).id = n
           /\ Card(n, given, pin).master = (IF given = None THEN n ELSE given)
           /\ Card(n, given, pin).secret = (IF pin THEN n ELSE None)
<1> DEFINE master == IF given = None THEN n ELSE given
           secret == IF pin THEN n ELSE None
<1>1. Card(n, given, pin) = [id |-> n, master |-> master, secret |-> secret]
  BY DEF Card, CardId
<1>2. master \in Numbers /\ secret \in {0} \cup Numbers
  BY DEF None
<1> HIDE DEF master, secret
<1>3. [id |-> n, master |-> master, secret |-> secret]
         \in [id : Numbers, master : Numbers, secret : {0} \cup Numbers]
  BY <1>2
<1>4. Capsules = [id : Numbers, master : Numbers, secret : {0} \cup Numbers]
  BY KeyCardsAssumption
<1>5. Card(n, given, pin) \in Capsules
  BY <1>1, <1>3, <1>4, Zenon
<1>6. QED
  BY <1>1, <1>5 DEF master, secret

-----------------------------------------------------------------------------
(* The window's steps *)

\* All of the invariant that is not about the application's own state.
CardsFit ==
    /\ StoreType /\ OthersType /\ TaskType
    /\ Numbered /\ Distinct /\ Bound /\ OneEach
    /\ Making /\ Opened /\ Copying

\* A step that leaves files and the task alone leaves the held capsules alone.
LEMMA TaskStays ==
    ASSUME Inv, UNCHANGED <<files, task, others>>
    PROVE  CardsFit' /\ \A c \in Capsules : Held(c)' => Held(c)
<1>1. /\ disk' = disk /\ bindings' = bindings /\ drawn' = drawn /\ task' = task
      /\ outside' = outside /\ crossed' = crossed
  BY DEF files, others
<1>2. /\ StoreType' /\ OthersType' /\ Numbered' /\ Distinct' /\ Bound' /\ OneEach'
      /\ \A c \in Capsules : Held(c)' => Held(c)
      /\ \A p : IsFile(p)' = IsFile(p)
  BY <1>1, FilesStay
<1>3. TaskType'
  BY <1>1 DEF Inv, TaskType, New, Copy, Made, Carries
<1>4. Making'
  BY <1>1, <1>2 DEF Inv, Making, Carries, Holds, Source
<1>5. Opened'
  BY <1>1, <1>2 DEF Inv, Opened, KeyOf, BoundNow, Informing
<1>6. Copying'
  BY <1>1, <1>2 DEF Inv, Copying, Copy, Holds, Source
<1>7. QED
  BY <1>2, <1>3, <1>4, <1>5, <1>6 DEF CardsFit

\* When the task ends without touching a file, the held capsules do not grow.
LEMMA TaskGone ==
    ASSUME Inv, UNCHANGED files, UNCHANGED others, task' = NoTask
    PROVE  /\ CardsFit' /\ \A c \in Capsules : Held(c)' => Held(c)
           /\ task'.step = "none"
<1>1. task'.step = "none"
  BY DEF NoTask
<1>2. /\ StoreType' /\ OthersType' /\ Numbered' /\ Distinct' /\ Bound' /\ OneEach'
      /\ \A c \in Capsules : Held(c)' => Held(c)
  BY <1>1, FilesStay
<1>3. TaskType'
  BY <1>1 DEF TaskType, New, Copy, Made, Carries
<1>4. Making' /\ Opened' /\ Copying'
  BY <1>1 DEF Making, Opened, Copying, Copy, Carries, BoundNow, Informing
<1>5. QED
  BY <1>1, <1>2, <1>3, <1>4 DEF CardsFit

\* Starting a background task from the window keeps what the task will need true.
LEMMA TaskStarts ==
    ASSUME Inv, NEW kind \in Kinds, NEW path \in Paths, NEW step \in {"open", "write", "work"},
           NEW more, StartTask(kind, path, step, more), UNCHANGED others,
           step = "open" => kind = "unlock",
           step = "write" => kind \in {"create", "recovery", "copy"},
           step = "write" /\ kind \in {"create", "recovery"} => more.given = unlockedKey,
           step = "write" /\ kind = "copy" =>
              /\ more.source = keySource /\ keySource \in Paths
              /\ ~ more.pin /\ Holds(keySource) => ~ Marked(disk[keySource])
    PROVE  /\ CardsFit' /\ Unlocked'
<1>1. /\ disk' = disk /\ bindings' = bindings /\ drawn' = drawn
      /\ outside' = outside /\ crossed' = crossed
      /\ up' = up /\ keySource' = keySource /\ keyFingerprint' = keyFingerprint
      /\ unlockedKey' = unlockedKey
  BY DEF StartTask, files, others
<1>2. /\ task' = [kind |-> kind, path |-> path, step |-> step, more |-> more,
                  found |-> disk[path]]
  BY DEF StartTask
<1>3. /\ task'.kind = kind /\ task'.path = path /\ task'.step = step /\ task'.more = more
      /\ task' = [kind |-> task'.kind, path |-> task'.path, step |-> task'.step,
                  more |-> task'.more, found |-> task'.found]
  BY <1>2
<1>4. task'.step \notin {"persist", "rename"}
  BY <1>3
<1>5. /\ StoreType' /\ OthersType' /\ Numbered' /\ Distinct' /\ Bound' /\ OneEach'
      /\ \A c \in Capsules : Held(c)' => Held(c)
      /\ \A p : IsFile(p)' = IsFile(p)
  BY <1>4, FilesStay DEF StartTask
<1>6. unlockedKey \in 0 .. drawn
  BY DEF Inv, AppType
<1>7. TaskType'
  <2>1. IsTask(task')
    BY <1>3 DEF IsTask, Steps
  <2>2. /\ task'.step = "write" => task'.kind \in {"create", "recovery", "copy"}
        /\ task'.step = "open" => task'.kind = "unlock"
    BY <1>3
  <2>3. New(task') => task'.more.given \in 0 .. drawn'
    BY <1>1, <1>3, <1>6 DEF New
  <2>4. Copy(task') => task'.more.source \in Paths
    BY <1>3 DEF Copy
  <2>5. task'.step \notin {"persist", "mark", "rename", "bind", "remove", "inform"}
    BY <1>3
  <2>6. QED
    BY <2>1, <2>2, <2>3, <2>4, <2>5 DEF TaskType, Carries, Made
<1>8. Making' /\ Opened'
  BY <1>3 DEF Making, Opened, Carries, BoundNow, Informing
<1>9. Copying'
  BY <1>1, <1>3, <1>5 DEF Copying, Copy, Holds, Source
<1>10. Unlocked'
  <2>1. ~ up' => unlockedKey' = None
    BY <1>1 DEF Inv, Unlocked
  <2>2. unlockedKey' # None => KeyOf(unlockedKey, keySource, keyFingerprint)'
    BY <1>1, <1>5 DEF Inv, Unlocked, KeyOf
  <2>3. New(task') => task'.more.given = unlockedKey'
    BY <1>1, <1>3 DEF New
  <2>4. Copy(task') => task'.more.source = keySource'
    BY <1>1, <1>3 DEF Copy
  <2>5. QED
    BY <1>4, <2>1, <2>2, <2>3, <2>4 DEF Unlocked, Carries
<1>11. QED
  BY <1>5, <1>7, <1>8, <1>9, <1>10 DEF CardsFit

\* What the user does in the window (choosing, locking, starting a task) keeps the invariant.
LEMMA WindowKeeps ==
    ASSUME Inv, Window, UNCHANGED others
    PROVE  Inv'
<1> USE DEF app
<1>1. /\ settings \in Paths \cup {NoPath} /\ keySource \in Paths \cup {NoPath}
      /\ keyFingerprint \in 0 .. drawn /\ unlockedKey \in 0 .. drawn
      /\ up \in BOOLEAN /\ unlockOpen \in BOOLEAN
      /\ 0 \in 0 .. drawn
  <2>1. drawn \in Nat
    BY KeyCardsAssumption DEF Inv, StoreType
  <2>2. 0 \in 0 .. drawn
    BY <2>1
  <2>3. QED
    BY <2>2 DEF Inv, AppType
<1>2. NoPath \notin Paths
  BY KeyCardsAssumption
<1>3. ASSUME UNCHANGED <<files, task>>, AppType',
             \/ unlockedKey' = None
             \/ UNCHANGED <<unlockedKey, keySource, keyFingerprint, up>>
      PROVE  Inv'
  <2>1. CardsFit' /\ \A c \in Capsules : Held(c)' => Held(c)
    BY <1>3, TaskStays
  <2>2. CASE unlockedKey' = None
    BY <1>3, <2>1, <2>2 DEF Inv, CardsFit, Unlocked
  <2>3. CASE UNCHANGED <<unlockedKey, keySource, keyFingerprint, up>>
    <3>1. /\ disk' = disk /\ drawn' = drawn /\ task' = task
          /\ outside' = outside /\ crossed' = crossed
          /\ \A p : IsFile(p)' = IsFile(p)
      BY <1>3 DEF files, IsFile, others
    <3>2. unlockedKey' # None => KeyOf(unlockedKey, keySource, keyFingerprint)'
      BY <2>1, <2>3, <3>1 DEF Inv, Unlocked, KeyOf
    <3>3. Unlocked'
      BY <2>3, <3>1, <3>2 DEF Inv, Unlocked, New, Copy, Carries
    <3>4. QED
      BY <1>3, <2>1, <3>3 DEF Inv, CardsFit
  <2>4. QED
    BY <1>3, <2>2, <2>3
<1>4. ASSUME UNCHANGED <<settings, up, keySource, keyFingerprint, unlockedKey>>,
             UNCHANGED drawn, unlockOpen' \in BOOLEAN
      PROVE  AppType'
  BY <1>1, <1>4 DEF AppType
<1>5. IsFile(keySource) => keySource \in Paths
  BY <1>1 DEF IsFile
<1>6. ASSUME Lock PROVE Inv'
  <2>1. AppType'
    BY <1>1, <1>6 DEF Lock, AppType, files, None
  <2>2. QED
    BY <1>3, <1>6, <2>1 DEF Lock
<1>7. ASSUME Forget PROVE Inv'
  <2>1. AppType'
    BY <1>1, <1>7 DEF Forget, AppType, files, None
  <2>2. QED
    BY <1>3, <1>7, <2>1 DEF Forget
<1>8. ASSUME OpenUnlock \/ CloseUnlock PROVE Inv'
  <2>1. /\ UNCHANGED <<files, settings, up, keySource, keyFingerprint, unlockedKey, task>>
        /\ unlockOpen' = TRUE \/ unlockOpen' = FALSE
    BY <1>8 DEF OpenUnlock, CloseUnlock
  <2>2. unlockOpen' \in BOOLEAN
    BY <2>1, Zenon
  <2>3. AppType'
    BY <1>4, <2>1, <2>2 DEF files
  <2>4. QED
    BY <1>3, <2>1, <2>3
<1>9. ASSUME NEW p \in Paths, SelectKey(p) PROVE Inv'
  <2>1. Source(p) \in Capsules /\ Held(Source(p))
    BY <1>9, ReadCard DEF Inv, SelectKey
  <2>2. Source(p).id \in 0 .. drawn
    BY <2>1 DEF Inv, Numbered
  <2>3. /\ UNCHANGED <<files, up, task, others>> /\ unlockedKey' = None /\ unlockOpen' = TRUE
        /\ keySource' = p /\ settings' = p /\ keyFingerprint' = Source(p).id
    BY <1>9 DEF SelectKey
  <2>4. unlockOpen' \in BOOLEAN
    BY <2>3, Zenon
  <2>5. AppType'
    BY <1>1, <2>2, <2>3, <2>4 DEF AppType, files, None
  <2>6. QED
    BY <1>3, <2>3, <2>5
<1>10. ASSUME NEW kind, NEW path, NEW step, NEW more, StartTask(kind, path, step, more),
              CardsFit' /\ Unlocked', unlockOpen' \in BOOLEAN
       PROVE  Inv'
  <2>1. AppType'
    BY <1>4, <1>10 DEF StartTask, files
  <2>2. QED
    BY <1>10, <2>1 DEF Inv, CardsFit
<1>11. ASSUME StartUnlock PROVE Inv'
  <2> DEFINE more == [pin |-> Ready(keySource)]
  <2>1. StartTask("unlock", keySource, "open", more) /\ keySource \in Paths /\ unlockOpen' = FALSE
    BY <1>5, <1>11 DEF StartUnlock
  <2>2. "unlock" \in Kinds
    BY DEF Kinds
  <2> HIDE DEF more
  <2>3. CardsFit' /\ Unlocked'
    BY <2>1, <2>2, TaskStarts
  <2>4. unlockOpen' \in BOOLEAN
    BY <2>1, Zenon
  <2>5. QED
    BY <1>10, <2>1, <2>3, <2>4
<1>12. ASSUME StartFile PROVE Inv'
  <2> DEFINE more == [key |-> unlockedKey]
  <2>1. StartTask("file", keySource, "work", more) /\ keySource \in Paths /\ unlockOpen' = unlockOpen
    BY <1>5, <1>12 DEF StartFile
  <2>2. "file" \in Kinds
    BY DEF Kinds
  <2> HIDE DEF more
  <2>3. CardsFit' /\ Unlocked'
    BY <2>1, <2>2, TaskStarts
  <2>4. QED
    BY <1>1, <1>10, <2>1, <2>3
<1>13. ASSUME NEW p \in Paths, StartCreate(p) \/ StartRecovery(p) PROVE Inv'
  <2> DEFINE more == [given |-> unlockedKey]
  <2>1. PICK kind \in {"create", "recovery"} :
           StartTask(kind, p, "write", more) /\ unlockOpen' = unlockOpen
    BY <1>13 DEF StartCreate, StartRecovery
  <2>2. kind \in Kinds /\ more.given = unlockedKey
    BY DEF Kinds
  <2> HIDE DEF more
  <2>3. CardsFit' /\ Unlocked'
    BY <2>1, <2>2, TaskStarts
  <2>4. QED
    BY <1>1, <1>10, <2>1, <2>3
<1>14. ASSUME NEW p \in Paths, StartCopy(p) \/ StartPdf(p) PROVE Inv'
  <2>1. PICK pin \in BOOLEAN :
           /\ StartTask("copy", p, "write", [source |-> keySource, pin |-> pin])
           /\ unlockOpen' = unlockOpen /\ IsFile(keySource)
           /\ pin = ~ NotPinCard(keySource)
    <3>1. CASE StartCopy(p)
      <4>1. (~ NotPinCard(keySource)) \in BOOLEAN
        OBVIOUS
      <4>2. QED
        BY <3>1, <4>1, Zenon DEF StartCopy
    <3>2. CASE StartPdf(p)
      <4>1. FALSE = ~ NotPinCard(keySource)
        BY <3>2 DEF StartPdf
      <4>2. FALSE \in BOOLEAN
        OBVIOUS
      <4>3. QED
        BY <3>2, <4>1, <4>2, Zenon DEF StartPdf
    <3>3. QED
      BY <1>14, <3>1, <3>2
  <2> DEFINE more == [source |-> keySource, pin |-> pin]
  <2>2. "copy" \in Kinds
    BY DEF Kinds
  <2>3. more.source = keySource /\ keySource \in Paths
    BY <1>5, <2>1
  <2>4. ~ more.pin /\ Holds(keySource) => ~ Marked(disk[keySource])
    BY <2>1 DEF NotPinCard
  <2>5. StartTask("copy", p, "write", more)
    BY <2>1
  <2> HIDE DEF more
  <2>6. CardsFit' /\ Unlocked'
    BY <2>2, <2>3, <2>4, <2>5, TaskStarts
  <2>7. QED
    BY <1>1, <1>10, <2>1, <2>5, <2>6
<1>15. QED
  BY <1>6, <1>7, <1>8, <1>9, <1>11, <1>12, <1>13, <1>14 DEF Window

\* A finished task, the end of the application and its start.
LEMMA PollKeeps ==
    ASSUME Inv, Poll, UNCHANGED others
    PROVE  Inv'
<1>1. /\ UNCHANGED <<files, up, unlockOpen>> /\ task' = NoTask
      /\ outside' = outside /\ crossed' = crossed
  BY DEF Poll, PollError, PollDone, PollKey, app, others
<1>2. /\ CardsFit' /\ \A c \in Capsules : Held(c)' => Held(c)
      /\ task'.step = "none"
  BY <1>1, TaskGone
<1>3. disk' = disk /\ drawn' = drawn /\ \A p : IsFile(p)' = IsFile(p)
  BY <1>1 DEF files, IsFile
<1>4. CASE UNCHANGED <<settings, app>>
  <2>1. AppType'
    BY <1>1, <1>3, <1>4 DEF Inv, AppType, app
  <2>2. unlockedKey' # None => KeyOf(unlockedKey, keySource, keyFingerprint)'
    BY <1>1, <1>2, <1>3, <1>4 DEF Inv, Unlocked, KeyOf, app
  <2>3. Unlocked'
    BY <1>1, <1>2, <1>4, <2>2 DEF Inv, Unlocked, New, Copy, Carries, app
  <2>4. QED
    BY <1>2, <2>1, <2>3 DEF Inv, CardsFit
<1>5. CASE PollKey
  <2>1. KeyOf(task.more.key, task.path, task.more.id)
    BY <1>5 DEF Inv, Opened, PollKey
  <2>2. /\ keySource' = task.path /\ settings' = task.path
        /\ unlockedKey' = task.more.key /\ keyFingerprint' = task.more.id /\ up
    BY <1>5 DEF PollKey, Poll
  <2>3. /\ task.path \in Paths /\ task.more.key \in 1 .. drawn /\ task.more.id \in 1 .. drawn
    BY <2>1 DEF KeyOf
  <2>4. AppType'
    BY <1>1, <1>3, <2>2, <2>3 DEF Inv, AppType
  <2>5. KeyOf(unlockedKey, keySource, keyFingerprint)'
    BY <1>1, <1>2, <1>3, <2>1, <2>2 DEF KeyOf
  <2>6. Unlocked'
    BY <1>1, <1>2, <2>2, <2>5 DEF Unlocked, New, Copy, Carries
  <2>7. QED
    BY <1>2, <2>4, <2>6 DEF Inv, CardsFit
<1>6. QED
  BY <1>4, <1>5 DEF Poll, PollError, PollDone

\* The application ending at any moment, and starting again, keep the invariant.
LEMMA EndStartKeep ==
    ASSUME Inv, End \/ Start, UNCHANGED others
    PROVE  Inv'
<1>1. CASE End
  <2>1. /\ UNCHANGED <<files, settings, others>> /\ task' = NoTask /\ up' = FALSE
        /\ keySource' = NoPath /\ keyFingerprint' = None /\ unlockedKey' = None
        /\ unlockOpen' = FALSE
    BY <1>1 DEF End
  <2>2. CardsFit'
    BY <2>1, TaskGone
  <2>3. up' \in BOOLEAN /\ unlockOpen' \in BOOLEAN
    BY <2>1, Zenon
  <2>4. AppType'
    <3>1. drawn \in Nat /\ drawn' = drawn
      BY <2>1, KeyCardsAssumption DEF Inv, StoreType, files
    <3>2. 0 \in 0 .. drawn'
      BY <3>1
    <3>3. QED
      BY <2>1, <2>3, <3>2 DEF Inv, AppType, None
  <2>5. QED
    BY <2>1, <2>2, <2>4 DEF Inv, CardsFit, Unlocked
<1>2. CASE Start
  <2>1. UNCHANGED <<files, settings, unlockedKey, task, others>> /\ up' = TRUE /\ unlockedKey = None
    BY <1>2 DEF Start, Inv, Unlocked
  <2>2. CardsFit'
    BY <2>1, TaskStays
  <2>3. up' \in BOOLEAN /\ unlockOpen' \in BOOLEAN
    <3>1. unlockOpen' = TRUE \/ unlockOpen' = unlockOpen
      BY <1>2 DEF Start
    <3>2. unlockOpen \in BOOLEAN
      BY DEF Inv, AppType
    <3>3. QED
      BY <2>1, <3>1, <3>2, Zenon
  <2>4. settings \in Paths \cup {NoPath}
    BY DEF Inv, AppType
  <2>5. Holds(settings) => settings \in Paths
    BY <2>4 DEF Holds, IsFile
  <2>6. Holds(settings) => Source(settings).id \in 0 .. drawn
    <3>1. ASSUME Holds(settings) PROVE Source(settings).id \in 0 .. drawn
      <4>1. Source(settings) \in Capsules /\ Held(Source(settings))
        BY <2>5, <3>1, ReadCard DEF Inv
      <4>2. QED
        BY <4>1 DEF Inv, Numbered
    <3>2. QED
      BY <3>1
  <2>7. keySource' \in Paths \cup {NoPath} /\ keyFingerprint' \in 0 .. drawn
    BY <1>2, <2>4, <2>6 DEF Start, Inv, AppType
  <2>8. AppType'
    BY <2>1, <2>3, <2>7 DEF Inv, AppType, files
  <2>9. QED
    BY <2>1, <2>2, <2>8 DEF Inv, CardsFit, Unlocked
<1>3. QED
  BY <1>1, <1>2

-----------------------------------------------------------------------------
(* Steps that write a file *)

\* The capsules of a file are there already, or one of them is new.
Adds(file, card) ==
    \A c \in Capsules : Holding(file, c) =>
       \/ Held(c)
       \/ c = card /\ drawn' = drawn + 1 /\ c.id = drawn' /\ c.master \in 1 .. drawn'

\* A path takes a file, or loses its own, the files about to be moved may be
\* others, and at most one capsule is made.
LEMMA Put ==
    ASSUME Inv, NEW p \in Paths, NEW new \in Files \cup {NoCard}, NEW card,
           disk' = [disk EXCEPT ![p] = new], bindings' = bindings, crossed \subseteq crossed',
           drawn' \in {drawn, drawn + 1}, drawn' <= MaxCards,
           new # NoCard => Single(new) /\ Adds(new, card),
           Carries' => Single(task'.more.file) /\ Adds(task'.more.file, card),
           command' # NoCommand => Single(command'.file) /\ Adds(command'.file, card)
    PROVE  /\ StoreType' /\ Numbered' /\ Distinct' /\ Bound' /\ OneEach'
           /\ drawn' \in 0 .. MaxCards /\ drawn \in 0 .. drawn'
           /\ \A key, q, id : KeyOf(key, q, id) =>
                 /\ q \in Paths /\ id \in 1 .. drawn' /\ key \in 1 .. drawn'
                 /\ q \notin crossed' =>
                       \A c \in Capsules : Held(c)' /\ c.id = id => c.master = key
           /\ \A q \in Paths : /\ disk'[q] = IF q = p THEN new ELSE disk[q]
                               /\ IsFile(q)' <=> disk'[q] # NoCard
                               /\ IsFile(q) <=> disk[q] # NoCard
<1>1. disk \in [Paths -> Files \cup {NoCard}]
  BY DEF Inv, StoreType
<1>2. /\ disk' \in [Paths -> Files \cup {NoCard}]
      /\ \A q \in Paths : disk'[q] = IF q = p THEN new ELSE disk[q]
  BY <1>1
<1>3. \A q \in Paths : (IsFile(q)' <=> disk'[q] # NoCard) /\ (IsFile(q) <=> disk[q] # NoCard)
  BY KeyCardsAssumption DEF IsFile
<1>4. ASSUME NEW c \in Capsules, Held(c)'
      PROVE  \/ Held(c)
             \/ c = card /\ drawn' = drawn + 1 /\ c.id = drawn' /\ c.master \in 1 .. drawn'
  <2>1. CASE \E q \in Paths : IsFile(q)' /\ Holding(disk'[q], c)
    <3>1. PICK q \in Paths : IsFile(q)' /\ Holding(disk'[q], c)
      BY <2>1
    <3>2. CASE q = p
      BY <1>2, <1>3, <3>1, <3>2 DEF Adds
    <3>3. CASE q # p
      BY <1>2, <1>3, <3>1, <3>3 DEF Held
    <3>4. QED
      BY <3>2, <3>3
  <2>2. CASE \/ Carries' /\ Holding(task'.more.file, c)
             \/ command' # NoCommand /\ Holding(command'.file, c)
    BY <2>2 DEF Adds
  <2>3. QED
    BY <1>4, <2>1, <2>2 DEF Held
<1>5. Grown(card)
  BY <1>4 DEF Grown
<1>6. /\ Numbered' /\ Distinct' /\ Bound'
      /\ drawn' \in 0 .. MaxCards /\ drawn \in 0 .. drawn'
      /\ \A key : \A id \in 1 .. drawn :
            (\A c \in Capsules : Held(c) /\ c.id = id => c.master = key) =>
               \A c \in Capsules : Held(c)' /\ c.id = id => c.master = key
  BY <1>5, CardsGrow
<1>10. ASSUME NEW key, NEW q, NEW id, KeyOf(key, q, id)
       PROVE  /\ q \in Paths /\ id \in 1 .. drawn' /\ key \in 1 .. drawn'
              /\ q \notin crossed' =>
                    \A c \in Capsules : Held(c)' /\ c.id = id => c.master = key
  <2>1. /\ q \in Paths /\ id \in 1 .. drawn /\ key \in 1 .. drawn
        /\ q \notin crossed => \A c \in Capsules : Held(c) /\ c.id = id => c.master = key
    BY <1>10 DEF KeyOf
  <2>2. drawn \in Nat /\ drawn' \in Nat /\ drawn <= drawn'
    BY <1>6, KeyCardsAssumption
  <2>3. q \notin crossed' => \A c \in Capsules : Held(c)' /\ c.id = id => c.master = key
    BY <1>6, <2>1
  <2>4. id \in 1 .. drawn' /\ key \in 1 .. drawn'
    BY <2>1, <2>2
  <2>5. QED
    BY <2>1, <2>3, <2>4
<1>7. StoreType'
  BY <1>2, <1>6 DEF Inv, StoreType
<1>8. OneEach'
  <2>1. ASSUME NEW q \in Paths, IsFile(q)' PROVE Single(disk'[q])
    BY <1>2, <1>3, <2>1 DEF Inv, OneEach
  <2>2. QED
    BY <2>1 DEF OneEach
<1>9. QED
  BY <1>2, <1>3, <1>6, <1>7, <1>8, <1>10

\* A file written by another program, and one that it is about to move, keep the
\* invariant, if they bring at most one fresh card and no new marker.
LEMMA OutsideKeeps ==
    ASSUME Inv, NEW p \in Paths, NEW new \in Files \cup {NoCard}, NEW card,
           disk' = [disk EXCEPT ![p] = new], bindings' = bindings,
           drawn' \in {drawn, drawn + 1}, drawn' <= MaxCards,
           new # NoCard => Single(new) /\ Adds(new, card),
           new # NoCard /\ SourceBytes(new) # Error /\ Marked(new) =>
              disk[p] # NoCard /\ SourceBytes(disk[p]) # Error /\ Marked(disk[p]),
           crossed \subseteq crossed', crossed' \subseteq Paths,
           disk' = disk \/ (Halfway /\ p = task.path => p \in crossed'),
           outside' \in 0 .. MaxOutside, outside' # 0,
           UNCHANGED <<settings, up, app, task>>,
           command' # NoCommand =>
              /\ command'.path \in Paths /\ command'.file \in Files /\ ~ Marked(command'.file)
              /\ Single(command'.file) /\ Adds(command'.file, card)
    PROVE  Inv'
<1>1. /\ settings' = settings /\ up' = up /\ keySource' = keySource /\ task' = task
      /\ keyFingerprint' = keyFingerprint /\ unlockedKey' = unlockedKey
      /\ unlockOpen' = unlockOpen
  BY DEF app
<1>2. Carries' => Single(task'.more.file) /\ Adds(task'.more.file, card)
  <2>1. Carries' => Carries /\ task'.more.file = task.more.file
    BY <1>1 DEF Carries
  <2>2. QED
    BY <2>1 DEF Inv, OneEach, Adds, Held
<1>3. /\ StoreType' /\ Numbered' /\ Distinct' /\ Bound' /\ OneEach'
      /\ drawn' \in 0 .. MaxCards /\ drawn \in 0 .. drawn'
      /\ \A key, q, id : KeyOf(key, q, id) =>
            /\ q \in Paths /\ id \in 1 .. drawn' /\ key \in 1 .. drawn'
            /\ q \notin crossed' =>
                  \A c \in Capsules : Held(c)' /\ c.id = id => c.master = key
      /\ \A q \in Paths : /\ disk'[q] = IF q = p THEN new ELSE disk[q]
                          /\ IsFile(q)' <=> disk'[q] # NoCard
                          /\ IsFile(q) <=> disk[q] # NoCard
  BY <1>2, Put
<1>4. drawn \in Nat /\ drawn' \in Nat /\ drawn <= drawn'
  BY <1>3, KeyCardsAssumption
<1>5. AppType'
  BY <1>1, <1>4 DEF Inv, AppType
<1>6. OthersType'
  BY DEF OthersType
<1>7. TaskType'
  <2>1. task' = NoTask \/ IsTask(task')
    BY <1>1 DEF Inv, TaskType
  <2>2. New(task') => task'.more.given \in 0 .. drawn'
    BY <1>1, <1>4 DEF Inv, TaskType, New
  <2>3. QED
    BY <1>1, <2>1, <2>2 DEF Inv, TaskType, New, Copy, Made, Carries
<1>8. task = NoTask \/ task.path \in Paths
  BY DEF Inv, TaskType, IsTask
<1>9. ASSUME Halfway, task.path \notin crossed'
      PROVE  /\ disk'[task.path] = disk[task.path] /\ task.path \notin crossed
             /\ task.path \in Paths
             /\ Holds(task.path)' = Holds(task.path) /\ IsFile(task.path)' = IsFile(task.path)
  <2>1. task.path \in Paths
    BY <1>8, <1>9 DEF Halfway, NoTask
  <2>2. disk'[task.path] = disk[task.path] /\ task.path \notin crossed
    BY <1>3, <1>9, <2>1
  <2>3. Holds(task.path)' = Holds(task.path) /\ IsFile(task.path)' = IsFile(task.path)
    BY <1>1, <2>2 DEF Holds, IsFile, Source
  <2>4. QED
    BY <2>1, <2>2, <2>3
<1>10. Making'
  <2>1. task.step \in {"persist", "rename", "mark", "bind"} => Halfway
    BY DEF Halfway
  <2>2. CASE task.step \in {"persist", "rename", "mark", "bind"} /\ task.path \notin crossed'
    BY <1>1, <1>9, <2>1, <2>2 DEF Inv, Making, Carries
  <2>3. CASE task.step \notin {"persist", "rename", "mark", "bind"} \/ task.path \in crossed'
    BY <1>1, <2>3 DEF Inv, Making, Carries
  <2>4. QED
    BY <2>2, <2>3
<1>11. Opened'
  <2>1. ASSUME task.step = "opened"
        PROVE  KeyOf(task.more.key, task.path, task.more.id)'
    <3>1. KeyOf(task.more.key, task.path, task.more.id)
      BY <2>1 DEF Inv, Opened
    <3>2. QED
      BY <1>1, <1>3, <3>1 DEF KeyOf
  <2>2. BoundNow \/ Informing => Halfway
    BY DEF Halfway, BoundNow, Informing
  <2>3. CASE (BoundNow \/ Informing) /\ task.path \notin crossed'
    BY <1>1, <1>4, <1>9, <2>2, <2>3 DEF Inv, Opened, BoundNow, Informing
  <2>4. CASE (BoundNow \/ Informing) /\ task.path \in crossed'
    BY <1>1, <1>4, <2>4 DEF Inv, Opened, BoundNow, Informing
  <2>5. QED
    BY <1>1, <2>1, <2>3, <2>4 DEF Opened, BoundNow, Informing
<1>12. Unlocked'
  <2>1. unlockedKey' # None => KeyOf(unlockedKey, keySource, keyFingerprint)'
    <3>1. unlockedKey # None => KeyOf(unlockedKey, keySource, keyFingerprint)
      BY DEF Inv, Unlocked
    <3>2. QED
      BY <1>1, <1>3, <3>1 DEF KeyOf
  <2>2. QED
    BY <1>1, <2>1 DEF Inv, Unlocked, New, Copy
<1>13. Copying'
  <2>1. ASSUME Copy(task), ~ task.more.pin, Holds(task.more.source)'
        PROVE  ~ Marked(disk'[task.more.source])
    <3> DEFINE q == task.more.source
    <3>1. q \in Paths
      BY <2>1 DEF Inv, TaskType
    <3>2. Holds(q) => ~ Marked(disk[q])
      BY <2>1 DEF Inv, Copying
    <3>3. disk'[q] # NoCard /\ SourceBytes(disk'[q]) # Error
      BY <1>1, <2>1 DEF Holds, IsFile, Source
    <3> HIDE DEF q
    <3>4. CASE q # p
      <4>1. disk'[q] = disk[q]
        BY <1>3, <3>1, <3>4
      <4>2. Holds(q)
        BY <1>3, <3>1, <3>3, <4>1 DEF Holds, Source
      <4>3. QED
        BY <3>2, <4>1, <4>2 DEF q
    <3>5. CASE q = p
      <4>1. disk'[q] = new
        BY <1>3, <3>5
      <4>2. SUFFICES ASSUME Marked(new) PROVE FALSE
        BY <4>1 DEF q
      <4>3. disk[p] # NoCard /\ SourceBytes(disk[p]) # Error /\ Marked(disk[p])
        BY <3>3, <4>1, <4>2
      <4>4. Holds(q)
        BY <1>3, <3>5, <4>3 DEF Holds, Source
      <4>5. QED
        BY <3>2, <3>5, <4>3, <4>4
    <3>6. QED
      BY <3>4, <3>5
  <2>2. QED
    BY <1>1, <2>1 DEF Inv, Copying, Copy, Holds, IsFile, Source
<1>14. QED
  BY <1>3, <1>5, <1>6, <1>7, <1>10, <1>11, <1>12, <1>13 DEF Inv

\* What puts a file marks it crossed if the worker is halfway with its path.
LEMMA PutsCrosses ==
    ASSUME Inv, NEW p \in Paths, NEW file, Puts(p, file)
    PROVE  /\ disk' = [disk EXCEPT ![p] = file]
           /\ crossed \subseteq crossed' /\ crossed' \subseteq Paths
           /\ disk' = disk \/ (Halfway /\ p = task.path => p \in crossed')
BY DEF Puts, Inv, OthersType

\* The acts of other programs are counted.
LEMMA OutsideCounts ==
    ASSUME Inv, Outside
    PROVE  /\ outside' \in 0 .. MaxOutside /\ outside' # 0
           /\ UNCHANGED <<settings, up, app, task>>
<1>1. outside \in 0 .. MaxOutside /\ MaxOutside \in Nat
  BY KeyCardsAssumption DEF Inv, OthersType
<1>2. outside' = outside + 1 /\ outside < MaxOutside
  BY DEF Outside
<1>3. QED
  BY <1>1, <1>2 DEF Outside

\* The command line's move of its file, or its end before that, keeps the
\* invariant.
LEMMA CommandKeeps ==
    ASSUME Inv, CommandMoves \/ CommandEnds
    PROVE  Inv'
<1>1. /\ command # NoCommand /\ command' = NoCommand
      /\ bindings' = bindings /\ drawn' = drawn /\ outside' = outside
      /\ UNCHANGED <<settings, up, app, task>>
  BY DEF CommandMoves, CommandEnds, files
<1>2. outside' \in 0 .. MaxOutside /\ outside' # 0
  BY <1>1 DEF Inv, OthersType
<1>3. drawn' \in {drawn, drawn + 1} /\ drawn' <= MaxCards
  BY <1>1, KeyCardsAssumption DEF Inv, StoreType
<1> DEFINE p == command.path
<1>4. p \in Paths /\ command.file \in Files /\ ~ Marked(command.file) /\ Single(command.file)
  BY <1>1 DEF Inv, OthersType, OneEach
<1>5. Adds(command.file, NoCard)
  BY <1>1 DEF Adds, Held
<1>6. disk \in [Paths -> Files \cup {NoCard}]
  BY DEF Inv, StoreType
<1>7. CASE CommandMoves
  <2>1. Puts(p, command.file)
    BY <1>7 DEF CommandMoves
  <2>2. /\ disk' = [disk EXCEPT ![p] = command.file]
        /\ crossed \subseteq crossed' /\ crossed' \subseteq Paths
        /\ disk' = disk \/ (Halfway /\ p = task.path => p \in crossed')
    BY <1>4, <2>1, PutsCrosses
  <2> HIDE DEF p
  <2>3. command.file \in Files \cup {NoCard}
    BY <1>4
  <2>4. QED
    BY <1>1, <1>2, <1>3, <1>4, <1>5, <2>2, <2>3, OutsideKeeps
<1>8. CASE CommandEnds
  <2>1. disk' = disk /\ crossed' = crossed
    BY <1>8 DEF CommandEnds, files
  <2> HIDE DEF p
  <2>2. disk[p] \in Files \cup {NoCard} /\ disk' = [disk EXCEPT ![p] = disk[p]]
    BY <1>4, <1>6, <2>1
  <2>3. disk[p] # NoCard => Single(disk[p]) /\ Adds(disk[p], NoCard)
    BY <1>4, ReadCard DEF Inv, OneEach, Adds, Held
  <2>4. crossed' \subseteq Paths
    BY <2>1 DEF Inv, OthersType
  <2> DEFINE new == disk[p]
  <2>5. /\ new \in Files \cup {NoCard} /\ disk' = [disk EXCEPT ![p] = new]
        /\ new # NoCard => Single(new) /\ Adds(new, NoCard)
        /\ new # NoCard /\ SourceBytes(new) # Error /\ Marked(new) =>
              disk[p] # NoCard /\ SourceBytes(disk[p]) # Error /\ Marked(disk[p])
    BY <2>2, <2>3
  <2> HIDE DEF new
  <2>6. QED
    BY <1>1, <1>2, <1>3, <1>4, <2>1, <2>4, <2>5, OutsideKeeps
<1>9. QED
  BY <1>7, <1>8

\* Everything other programs do to the card files keeps the invariant.
LEMMA OthersKeep ==
    ASSUME Inv, Others
    PROVE  Inv'
<1>1. drawn \in Nat /\ MaxCards \in Nat /\ drawn <= MaxCards /\ None \in {None} \cup Numbers
  BY KeyCardsAssumption DEF Inv, StoreType
<1>2. StoreType
  BY DEF Inv
<1>3. \A p \in Paths : IsFile(p) => disk[p] \in Files /\ Single(disk[p])
  BY <1>2, ReadCard DEF Inv, OneEach
<1>4. ASSUME NEW p \in Paths, NEW file \in Files, NEW card \in Capsules,
             Prepares(p, file), ~ Marked(file),
             \A d : Holding(file, d) => d = card,
             \/ drawn' = drawn /\ Held(card)
             \/ /\ drawn' = drawn + 1 /\ drawn < MaxCards
                /\ card.id = drawn' /\ card.master \in 1 .. drawn'
      PROVE  Inv'
  <2>1. /\ Outside /\ bindings' = bindings /\ command' = [path |-> p, file |-> file]
        /\ (disk[p] = NoCard /\ disk' = disk /\ crossed' = crossed) \/ Puts(p, NoCard)
    BY <1>4 DEF Prepares
  <2>2. /\ disk' = [disk EXCEPT ![p] = NoCard]
        /\ crossed \subseteq crossed' /\ crossed' \subseteq Paths
        /\ disk' = disk \/ (Halfway /\ p = task.path => p \in crossed')
    <3>1. CASE disk[p] = NoCard /\ disk' = disk /\ crossed' = crossed
      BY <3>1 DEF Inv, StoreType, OthersType
    <3>2. CASE Puts(p, NoCard)
      BY <3>2, PutsCrosses
    <3>3. QED
      BY <2>1, <3>1, <3>2
  <2>3. Single(file)
    BY <1>4 DEF Single
  <2>4. drawn' \in {drawn, drawn + 1} /\ drawn' <= MaxCards
    BY <1>1, <1>4
  <2>5. Adds(file, card)
    BY <1>4 DEF Adds
  <2>6. command'.path = p /\ command'.file = file
    BY <2>1
  <2>7. /\ outside' \in 0 .. MaxOutside /\ outside' # 0
        /\ UNCHANGED <<settings, up, app, task>>
    BY <2>1, OutsideCounts
  <2> DEFINE new == NoCard
  <2>8. new \in Files \cup {NoCard} /\ new = NoCard /\ disk' = [disk EXCEPT ![p] = new]
    BY <2>2
  <2> HIDE DEF new
  <2>9. QED
    BY <1>4, <2>1, <2>2, <2>3, <2>4, <2>5, <2>6, <2>7, <2>8, OutsideKeeps
<1>5. ASSUME NEW p \in Paths, Keygen(p) PROVE Inv'
  <2> DEFINE card == Card(drawn', None, FALSE)
  <2>1. /\ drawn' = drawn + 1 /\ drawn < MaxCards
        /\ Prepares(p, ExportBytes(card, FALSE)) \/ Prepares(p, Raw(card))
    BY <1>5 DEF Keygen
  <2>2. drawn' \in Numbers
    BY <1>1, <2>1 DEF Numbers
  <2>3. card \in Capsules /\ card.id = drawn' /\ card.master = drawn'
    BY <1>1, <2>2, MadeCard
  <2> HIDE DEF card
  <2>4. card.master \in 1 .. drawn'
    BY <2>2, <2>3 DEF Numbers
  <2>5. CASE Prepares(p, ExportBytes(card, FALSE))
    <3>1. /\ ExportBytes(card, FALSE) \in Files /\ ~ Marked(ExportBytes(card, FALSE))
          /\ \A d : Holding(ExportBytes(card, FALSE), d) => d = card
      BY <2>3, ExportHolds
    <3>2. QED
      BY <1>4, <2>1, <2>3, <2>4, <2>5, <3>1
  <2>6. CASE Prepares(p, Raw(card))
    <3>1. Raw(card) \in Files /\ ~ Marked(Raw(card)) /\ \A d : Holding(Raw(card), d) => d = card
      BY <2>3, RawHolds
    <3>2. QED
      BY <1>4, <2>1, <2>3, <2>4, <2>6, <3>1
  <2>7. QED
    BY <2>1, <2>5, <2>6
<1>6. ASSUME NEW p \in Paths, NEW s \in Paths, KeycardExport(s, p) PROVE Inv'
  <2> DEFINE card == Source(s)
             file == ExportBytes(card, p \in PdfPaths)
  <2>1. /\ Holds(s) /\ Prepares(p, file) /\ drawn' = drawn
    BY <1>6 DEF KeycardExport
  <2>2. card \in Capsules /\ Held(card)
    BY <1>2, <2>1, ReadCard
  <2>3. (p \in PdfPaths) \in BOOLEAN
    OBVIOUS
  <2>4. file \in Files /\ ~ Marked(file) /\ \A d : Holding(file, d) => d = card
    BY <2>2, <2>3, ExportHolds
  <2> HIDE DEF card, file
  <2>5. QED
    BY <1>4, <2>1, <2>2, <2>4
<1>7. ASSUME NEW p \in Paths, NEW s \in Paths, KeycardRecovery(s, p) PROVE Inv'
  <2> DEFINE master == Source(s).master
             card == Card(drawn', master, FALSE)
             file == ExportBytes(card, p \in PdfPaths)
  <2>1. /\ Holds(s) /\ Prepares(p, file)
        /\ drawn < MaxCards /\ drawn' = drawn + 1
    BY <1>7 DEF KeycardRecovery, Opens
  <2>2. Source(s) \in Capsules /\ Held(Source(s))
    BY <1>2, <2>1, ReadCard
  <2>3. master \in 1 .. drawn
    BY <2>2 DEF Inv, Numbered
  <2> HIDE DEF master
  <2>4. drawn' \in Numbers /\ master \in Numbers /\ master # None /\ master \in 1 .. drawn'
    BY <1>1, <2>1, <2>3 DEF Numbers, None
  <2>5. card \in Capsules /\ card.id = drawn' /\ card.master = master
    <3>1. FALSE \in BOOLEAN /\ master \in {None} \cup Numbers
      BY <2>4
    <3>2. /\ card \in Capsules /\ card.id = drawn'
          /\ card.master = IF master = None THEN drawn' ELSE master
      BY <2>4, <3>1, MadeCard, ZenonT(40)
    <3>3. QED
      BY <2>4, <3>2
  <2>6. card.master \in 1 .. drawn'
    BY <2>4, <2>5
  <2>7. (p \in PdfPaths) \in BOOLEAN
    OBVIOUS
  <2>8. file \in Files /\ ~ Marked(file) /\ \A d : Holding(file, d) => d = card
    BY <2>5, <2>7, ExportHolds
  <2> HIDE DEF card, file
  <2>9. QED
    BY <1>4, <2>1, <2>5, <2>6, <2>8
<1>8. ASSUME NEW p \in Paths, NEW s \in Paths, KeycardImport(s, p) PROVE Inv'
  <2>1. IsFile(s) /\ drawn' = drawn
    BY <1>8 DEF KeycardImport
  <2>2. PICK image \in {disk[s], Photo(disk[s])} :
           DecodeImage(image) # Error /\ Prepares(p, Raw(DecodeImage(image)))
    BY <1>8 DEF KeycardImport
  <2> DEFINE card == DecodeImage(image)
  <2>3. disk[s] \in Files
    BY <1>3, <2>1
  <2>4. image \in Files /\ \A c : Holding(image, c) => Holding(disk[s], c)
    BY <2>2, <2>3, PhotoHeld
  <2>5. Holding(disk[s], card)
    BY <2>2, <2>4, DecodeHeld
  <2>6. card \in Capsules
    BY <2>5 DEF Holding
  <2>7. Held(card)
    BY <2>1, <2>5 DEF Held
  <2>8. Raw(card) \in Files /\ ~ Marked(Raw(card)) /\ \A d : Holding(Raw(card), d) => d = card
    BY <2>6, RawHolds
  <2>9. Prepares(p, Raw(card))
    BY <2>2
  <2> HIDE DEF card
  <2>10. QED
    BY <1>4, <2>1, <2>6, <2>7, <2>8, <2>9
<1>9. ASSUME NEW p \in Paths, Edit(p) PROVE Inv'
  <2>1. /\ Outside /\ IsFile(p) /\ bindings' = bindings /\ drawn' = drawn
        /\ command' = command
    BY <1>9 DEF Edit
  <2>2. PICK file \in Edited(disk[p]) : Puts(p, file)
    BY <1>9 DEF Edit
  <2>3. disk[p] \in Files /\ Single(disk[p])
    BY <1>3, <2>1
  <2>4. /\ file \in Files
        /\ \A c : Holding(file, c) => Holding(disk[p], c)
        /\ SourceBytes(file) # Error /\ Marked(file) =>
              SourceBytes(disk[p]) # Error /\ Marked(disk[p])
    BY <2>2, <2>3, EditedHolds
  <2>5. Single(file)
    BY <2>3, <2>4 DEF Single
  <2>6. Adds(file, NoCard)
    BY <2>1, <2>4 DEF Adds, Held
  <2>7. drawn' \in {drawn, drawn + 1} /\ drawn' <= MaxCards
    BY <1>1, <2>1
  <2>8. disk[p] # NoCard /\ file \in Files \cup {NoCard}
    BY <2>1, <2>4 DEF IsFile
  <2>9. /\ outside' \in 0 .. MaxOutside /\ outside' # 0
        /\ UNCHANGED <<settings, up, app, task>>
    BY <2>1, OutsideCounts
  <2>10. /\ disk' = [disk EXCEPT ![p] = file]
         /\ crossed \subseteq crossed' /\ crossed' \subseteq Paths
         /\ disk' = disk \/ (Halfway /\ p = task.path => p \in crossed')
    BY <2>2, PutsCrosses
  <2>11. command' # NoCommand =>
            /\ command'.path \in Paths /\ command'.file \in Files /\ ~ Marked(command'.file)
            /\ Single(command'.file) /\ Adds(command'.file, NoCard)
    BY <2>1 DEF Inv, OthersType, OneEach, Adds, Held
  <2>12. QED
    BY <2>1, <2>4, <2>5, <2>6, <2>7, <2>8, <2>9, <2>10, <2>11, OutsideKeeps
<1>10. QED
  BY <1>5, <1>6, <1>7, <1>8, <1>9, CommandKeeps, KeyCardsAssumption DEF Others

-----------------------------------------------------------------------------
(* The worker's steps *)

\* A task moved to its next step is a task, of the same kind and for the same path.
LEMMA Moves ==
    ASSUME TaskType, task.step \in Steps, NEW s \in Steps, Step(s)
    PROVE  /\ IsTask(task') /\ task'.kind = task.kind /\ task'.path = task.path
           /\ task'.step = s /\ task'.more = task.more
           /\ task.path \in Paths /\ task.kind \in Kinds
<1>1. IsTask(task)
  BY DEF TaskType, NoTask, Steps
<1>2. /\ task = [kind |-> task.kind, path |-> task.path, step |-> task.step, more |-> task.more,
                 found |-> task.found]
      /\ task.kind \in Kinds /\ task.path \in Paths
  BY <1>1 DEF IsTask
<1>3. task' = [kind |-> task.kind, path |-> task.path, step |-> s, more |-> task.more,
               found |-> task.found]
  BY <1>2 DEF Step
<1>4. QED
  BY <1>2, <1>3 DEF IsTask

\* The same for a step that also replaces what the task carries.
LEMMA MovesWith ==
    ASSUME TaskType, task.step \in Steps, NEW s \in Steps, NEW m,
           task' = [task EXCEPT !.step = s, !.more = m]
    PROVE  /\ IsTask(task') /\ task'.kind = task.kind /\ task'.path = task.path
           /\ task'.step = s /\ task'.more = m
           /\ task.path \in Paths /\ task.kind \in Kinds
<1>1. IsTask(task)
  BY DEF TaskType, NoTask, Steps
<1>2. /\ task = [kind |-> task.kind, path |-> task.path, step |-> task.step, more |-> task.more,
                 found |-> task.found]
      /\ task.kind \in Kinds /\ task.path \in Paths
  BY <1>1 DEF IsTask
<1>3. task' = [kind |-> task.kind, path |-> task.path, step |-> s, more |-> m,
               found |-> task.found]
  BY <1>2
<1>4. QED
  BY <1>2, <1>3 DEF IsTask

\* And for the last step of the worker.
LEMMA MovesLast ==
    ASSUME TaskType, task.step \in Steps, NEW s \in Steps, Finish(s)
    PROVE  /\ IsTask(task') /\ task'.kind = task.kind /\ task'.path = task.path
           /\ task'.step = s /\ task.path \in Paths /\ task.kind \in Kinds
<1> DEFINE m == None
<1>1. task' = [task EXCEPT !.step = s, !.more = m]
  BY DEF Finish
<1> HIDE DEF m
<1>2. QED
  BY <1>1, MovesWith

\* The window's state and the key fit while the worker goes on without a file.
LEMMA WorkerStays ==
    ASSUME Inv, UNCHANGED files, WindowStays, UNCHANGED others,
           task'.step \notin {"persist", "rename", "write"}
    PROVE  /\ AppType' /\ Unlocked' /\ \A c \in Capsules : Held(c)' => Held(c)
           /\ StoreType' /\ OthersType' /\ Numbered' /\ Distinct' /\ Bound' /\ OneEach'
           /\ \A p : IsFile(p)' = IsFile(p)
           /\ disk' = disk /\ drawn' = drawn /\ outside' = outside /\ crossed' = crossed
<1>1. /\ disk' = disk /\ drawn' = drawn /\ outside' = outside /\ crossed' = crossed
      /\ settings' = settings /\ up' = up /\ keySource' = keySource
      /\ keyFingerprint' = keyFingerprint /\ unlockedKey' = unlockedKey
      /\ unlockOpen' = unlockOpen
  BY DEF files, others, WindowStays, app
<1>2. /\ \A c \in Capsules : Held(c)' => Held(c)
      /\ StoreType' /\ OthersType' /\ Numbered' /\ Distinct' /\ Bound' /\ OneEach'
      /\ \A p : IsFile(p)' = IsFile(p)
  BY FilesStay
<1>3. AppType'
  BY <1>1 DEF Inv, AppType
<1>4. unlockedKey' # None => KeyOf(unlockedKey, keySource, keyFingerprint)'
  BY <1>1, <1>2 DEF Inv, Unlocked, KeyOf
<1>5. QED
  BY <1>1, <1>2, <1>3, <1>4 DEF Inv, Unlocked, New, Copy, Carries

\* A step of the task that changes no file and gives it up or ends it keeps the
\* invariant.
LEMMA MoveOn ==
    ASSUME Inv, task.step \in Steps, NEW s \in {"remove", "error", "done"},
           s = "remove" => task.kind = "create",
           Finish(s), UNCHANGED files, WindowStays, UNCHANGED others
    PROVE  Inv'
<1>1. IsTask(task') /\ task'.kind = task.kind /\ task'.step = s
  BY MovesLast DEF Inv, Steps
<1>2. task'.step \notin {"persist", "rename", "write", "opened", "mark", "bind", "open", "inform"}
  BY <1>1
<1>3. StoreType' /\ OthersType' /\ Numbered' /\ Distinct' /\ Bound' /\ OneEach' /\ AppType' /\ Unlocked'
  BY <1>2, WorkerStays
<1>4. TaskType'
  BY <1>1, <1>2 DEF TaskType, New, Copy, Made, Carries
<1>5. Making' /\ Opened' /\ Copying'
  BY <1>2 DEF Making, Opened, Copying, Copy, Carries, BoundNow, Informing
<1>6. QED
  BY <1>3, <1>4, <1>5 DEF Inv

\* Opening the card in the worker keeps the invariant: the key is that of the
\* capsule in the file, and for a new card that of its binding.
LEMMA OpenKeeps ==
    ASSUME Inv, Open, UNCHANGED others
    PROVE  Inv'
<1> DEFINE card == Source(task.path)
           created == [key |-> card.master, id |-> task.more.id]
           unlocked == [key |-> card.master]
<1>1. /\ task.step = "open" /\ Holds(task.path) /\ UNCHANGED files /\ WindowStays
      /\ IF task.kind = "create" THEN task' = [task EXCEPT !.step = "opened", !.more = created]
                                 ELSE task' = [task EXCEPT !.step = "inform", !.more = unlocked]
  BY DEF Open, At, Opens
<1>2. created.key = card.master /\ created.id = task.more.id /\ unlocked.key = card.master
  OBVIOUS
<1> HIDE DEF created, unlocked
<1>3. /\ IsTask(task') /\ task'.kind = task.kind /\ task'.path = task.path /\ task.path \in Paths
      /\ \/ task.kind = "create" /\ task'.step = "opened" /\ task'.more = created
         \/ task.kind = "unlock" /\ task'.step = "inform" /\ task'.more = unlocked
  <2>1. task.kind = "create" \/ task.kind = "unlock"
    BY <1>1 DEF Inv, TaskType
  <2>2. TaskType /\ task.step \in Steps /\ "opened" \in Steps /\ "inform" \in Steps
    BY <1>1 DEF Inv, Steps
  <2>3. QED
    BY <1>1, <2>1, <2>2, MovesWith
<1>4. card \in Capsules /\ Holding(disk[task.path], card) /\ Held(card) /\ IsFile(task.path)
  BY <1>1, <1>3, ReadCard DEF Inv, Holds
<1>5. card.id \in 1 .. drawn /\ card.master \in 1 .. drawn
  BY <1>4 DEF Inv, Numbered
<1>6. \A c \in Capsules : Held(c) /\ c.id = card.id => c.master = card.master
  BY <1>4 DEF Inv, Distinct
<1>7. Single(disk[task.path])
  BY <1>3, <1>4 DEF Inv, OneEach
<1>8. \A c \in Capsules : Holding(disk[task.path], c) => c.master = card.master
  BY <1>4, <1>7 DEF Single
<1>9. task.kind = "create" => /\ task.more.id \in 1 .. drawn
                              /\ task.path \notin crossed => card.id = task.more.id
  BY <1>1, <1>4 DEF Inv, Opened, BoundNow
<1> HIDE DEF card
<1>10. task'.step \notin {"persist", "rename", "write", "mark", "bind", "open"}
  BY <1>3
<1>11. /\ StoreType' /\ OthersType' /\ Numbered' /\ Distinct' /\ Bound' /\ OneEach'
       /\ AppType' /\ Unlocked'
       /\ \A c \in Capsules : Held(c)' => Held(c)
       /\ \A p : IsFile(p)' = IsFile(p)
       /\ disk' = disk /\ drawn' = drawn /\ outside' = outside /\ crossed' = crossed
  BY <1>1, <1>10, WorkerStays
<1>12. Opened'
  <2>1. CASE task.kind = "create"
    <3>1. /\ task'.more.key = card.master /\ task'.more.id = task.more.id
          /\ task'.path = task.path /\ task'.step = "opened"
      BY <1>2, <1>3, <2>1
    <3>2. KeyOf(task.more.key, task.path, task.more.id)'
      BY <1>3, <1>5, <1>6, <1>8, <1>9, <1>11, <2>1, <3>1 DEF KeyOf
    <3>3. QED
      BY <3>1, <3>2 DEF Opened, BoundNow, Informing
  <2>2. CASE task.kind = "unlock"
    <3>1. /\ task'.more.key = card.master /\ task'.path = task.path /\ task'.step = "inform"
      BY <1>2, <1>3, <2>2
    <3>2. QED
      BY <1>5, <1>8, <1>11, <3>1 DEF Opened, BoundNow, Informing
  <2>3. QED
    BY <1>3, <2>1, <2>2
<1>13. TaskType'
  BY <1>3, <1>10 DEF TaskType, New, Copy, Made, Carries
<1>14. Making' /\ Copying'
  BY <1>10 DEF Making, Copying, Copy, Carries
<1>15. QED
  BY <1>11, <1>12, <1>13, <1>14 DEF Inv

\* Reading the fingerprint behind the key keeps the invariant: it is that of the
\* key's card, unless another program replaced the file between the two reads.
LEMMA InformKeeps ==
    ASSUME Inv, Inform, UNCHANGED others
    PROVE  Inv'
<1>1. /\ task.step = "inform" /\ Holds(task.path) /\ UNCHANGED files /\ WindowStays
      /\ TaskType /\ task.step \in Steps
  BY DEF Inform, At, Inv, Steps
<1>2. CASE task.kind = "copy"
  <2>1. Finish("done")
    BY <1>2 DEF Inform
  <2>2. QED
    BY <1>1, <2>1, MoveOn
<1>3. CASE task.kind = "unlock"
  <2> DEFINE card == Source(task.path)
             m == [key |-> task.more.key, id |-> card.id]
  <2>1. task' = [task EXCEPT !.step = "opened", !.more = m]
    BY <1>3 DEF Inform
  <2>2. m.key = task.more.key /\ m.id = card.id
    OBVIOUS
  <2> HIDE DEF m
  <2>3. /\ IsTask(task') /\ task'.kind = task.kind /\ task'.path = task.path
        /\ task'.step = "opened" /\ task'.more = m /\ task.path \in Paths
    BY <1>1, <2>1, MovesWith DEF Steps
  <2>4. card \in Capsules /\ Holding(disk[task.path], card) /\ Held(card) /\ IsFile(task.path)
    BY <1>1, <2>3, ReadCard DEF Inv, Holds
  <2>5. card.id \in 1 .. drawn
    BY <2>4 DEF Inv, Numbered
  <2>6. /\ task.more.key \in 1 .. drawn
        /\ task.path \notin crossed =>
              \A c \in Capsules : Holding(disk[task.path], c) => c.master = task.more.key
    BY <1>1, <1>3, <2>4 DEF Inv, Opened, Informing
  <2>7. task.path \notin crossed => \A c \in Capsules : Held(c) /\ c.id = card.id => c.master = task.more.key
    BY <2>4, <2>6 DEF Inv, Distinct
  <2>8. outside = 0 => task.path \notin crossed
    BY DEF Inv, OthersType
  <2> HIDE DEF card
  <2>9. task'.step \notin {"persist", "rename", "write", "mark", "bind", "open", "inform"}
    BY <2>3
  <2>10. /\ StoreType' /\ OthersType' /\ Numbered' /\ Distinct' /\ Bound' /\ OneEach'
         /\ AppType' /\ Unlocked'
         /\ \A c \in Capsules : Held(c)' => Held(c)
         /\ \A p : IsFile(p)' = IsFile(p)
         /\ disk' = disk /\ drawn' = drawn /\ outside' = outside /\ crossed' = crossed
    BY <1>1, <2>9, WorkerStays
  <2>11. task'.more.key = task.more.key /\ task'.more.id = card.id
    BY <2>2, <2>3
  <2>12. KeyOf(task.more.key, task.path, task.more.id)'
    BY <2>3, <2>5, <2>6, <2>7, <2>8, <2>10, <2>11 DEF KeyOf
  <2>13. Opened'
    BY <2>9, <2>12 DEF Opened, BoundNow, Informing
  <2>14. TaskType'
    BY <2>3, <2>9 DEF TaskType, New, Copy, Made, Carries
  <2>15. Making' /\ Copying'
    BY <2>9 DEF Making, Copying, Copy, Carries
  <2>16. QED
    BY <2>10, <2>13, <2>14, <2>15 DEF Inv
<1>4. QED
  BY <1>1, <1>2, <1>3 DEF TaskType

\* The cards, the window's state and the key fit while the worker writes at its
\* path, or makes the file it is to move there.
LEMMA WorkerPuts ==
    ASSUME Inv, NEW new \in Files \cup {NoCard}, NEW card,
           NEW s \in {"persist", "mark", "rename", "bind", "inform", "done", "error"},
           task.step \in Steps, s = "inform" => task.kind = "copy",
           disk' = [disk EXCEPT ![task.path] = new], bindings' = bindings,
           drawn' \in {drawn, drawn + 1}, drawn' <= MaxCards,
           new # NoCard => Single(new) /\ Adds(new, card),
           s \in {"persist", "rename"} =>
              /\ Single(task'.more.file) /\ Adds(task'.more.file, card)
              /\ outside = 0 /\ unlockedKey # None /\ task.path = keySource =>
                    \A c \in Capsules : Holding(task'.more.file, c) => c.master = unlockedKey,
           outside = 0 /\ unlockedKey # None /\ task.path = keySource /\ new # NoCard =>
              \A c \in Capsules : Holding(new, c) => c.master = unlockedKey,
           task'.kind = task.kind, task'.path = task.path, task'.step = s,
           WindowStays, UNCHANGED others
    PROVE  /\ StoreType' /\ AppType' /\ OthersType' /\ Numbered' /\ Distinct' /\ Bound' /\ OneEach'
           /\ Unlocked' /\ Opened' /\ crossed' = crossed
           /\ drawn' \in 0 .. MaxCards /\ task.path \in Paths /\ disk'[task.path] = new
<1>1. task.path \in Paths
  BY DEF Inv, TaskType, IsTask, NoTask, Steps
<1>2. /\ settings' = settings /\ up' = up /\ keySource' = keySource
      /\ keyFingerprint' = keyFingerprint /\ unlockedKey' = unlockedKey
      /\ unlockOpen' = unlockOpen
      /\ command' = command /\ outside' = outside /\ crossed' = crossed
  BY DEF WindowStays, app, others
<1>3. /\ Carries' => Single(task'.more.file) /\ Adds(task'.more.file, card)
      /\ command' # NoCommand => Single(command'.file) /\ Adds(command'.file, card)
  BY <1>2 DEF Carries, Inv, OneEach, Adds, Held
<1>4. /\ StoreType' /\ Numbered' /\ Distinct' /\ Bound' /\ OneEach'
      /\ drawn' \in 0 .. MaxCards /\ drawn \in 0 .. drawn'
      /\ \A key, q, id : KeyOf(key, q, id) =>
            /\ q \in Paths /\ id \in 1 .. drawn' /\ key \in 1 .. drawn'
            /\ q \notin crossed' =>
                  \A c \in Capsules : Held(c)' /\ c.id = id => c.master = key
      /\ \A q \in Paths : /\ disk'[q] = IF q = task.path THEN new ELSE disk[q]
                          /\ IsFile(q)' <=> disk'[q] # NoCard
                          /\ IsFile(q) <=> disk[q] # NoCard
  BY <1>1, <1>2, <1>3, Put
<1>5. drawn \in Nat /\ drawn' \in Nat /\ drawn <= drawn'
  BY <1>4, KeyCardsAssumption
<1>6. AppType' /\ OthersType'
  BY <1>2, <1>5 DEF Inv, AppType, OthersType
<1>7. unlockedKey # None => KeyOf(unlockedKey, keySource, keyFingerprint)'
  <2>1. SUFFICES ASSUME unlockedKey # None PROVE KeyOf(unlockedKey, keySource, keyFingerprint)'
    OBVIOUS
  <2>2. KeyOf(unlockedKey, keySource, keyFingerprint)
    BY <2>1 DEF Inv, Unlocked
  <2>3. /\ keySource \in Paths
        /\ outside = 0 /\ disk[keySource] # NoCard =>
              \A c \in Capsules : Holding(disk[keySource], c) => c.master = unlockedKey
    BY <1>4, <2>2 DEF KeyOf
  <2>4. outside = 0 /\ disk'[keySource] # NoCard =>
           \A c \in Capsules : Holding(disk'[keySource], c) => c.master = unlockedKey
    BY <1>4, <2>1, <2>3
  <2>5. /\ keySource \in Paths /\ keyFingerprint \in 1 .. drawn' /\ unlockedKey \in 1 .. drawn'
        /\ keySource \notin crossed' =>
              \A c \in Capsules : Held(c)' /\ c.id = keyFingerprint => c.master = unlockedKey
    BY <1>4, <2>2
  <2>6. QED
    BY <1>2, <2>4, <2>5 DEF KeyOf, IsFile
<1>8. Unlocked'
  BY <1>2, <1>7 DEF Inv, Unlocked, New, Copy, Carries
<1>9. Opened'
  BY DEF Opened, BoundNow, Informing
<1>10. QED
  BY <1>1, <1>2, <1>4, <1>6, <1>8, <1>9

\* Making a new or a recovery card keeps the invariant.
LEMMA WriteCardKeeps ==
    ASSUME Inv, WriteCard, UNCHANGED others
    PROVE  Inv'
<1> DEFINE given == task.more.given
           pin == task.kind = "create"
           card == Card(drawn', given, pin)
           file == ExportBytes(card, FALSE)
           m == [file |-> file, secret |-> card.secret]
<1>1. /\ task.step = "write" /\ task.kind \in {"create", "recovery"} /\ disk[task.path] = NoCard
      /\ drawn < MaxCards /\ drawn' = drawn + 1 /\ bindings' = bindings /\ disk' = disk
      /\ task' = [task EXCEPT !.step = "persist", !.more = m] /\ WindowStays
  BY DEF WriteCard, Written, At
<1>2. given \in 0 .. drawn
  BY <1>1 DEF Inv, TaskType, New
<1>3. drawn \in Nat /\ MaxCards \in Nat
  BY KeyCardsAssumption DEF Inv, StoreType
<1> HIDE DEF given
<1>4. drawn' \in Numbers /\ given \in {None} \cup Numbers
  BY <1>1, <1>2, <1>3 DEF Numbers, None
<1>5. pin \in BOOLEAN
  OBVIOUS
<1> HIDE DEF pin
<1>6. /\ card \in Capsules /\ card.id = drawn'
      /\ card.master = (IF given = None THEN drawn' ELSE given)
      /\ card.secret = (IF pin THEN drawn' ELSE None)
  BY <1>4, <1>5, MadeCard
<1> HIDE DEF card
<1>7. card.master \in 1 .. drawn' /\ card.secret \in {None} \cup Numbers
  BY <1>1, <1>2, <1>3, <1>4, <1>6 DEF None
<1>8. /\ file \in Files /\ \A d : Holding(file, d) => d = card
      /\ SourceBytes(file) # Error
  BY <1>6, ExportHolds, CapsulesAssumption
<1>9. Single(file)
  BY <1>8 DEF Single
<1>10. Adds(file, card)
  BY <1>1, <1>6, <1>7, <1>8 DEF Adds
<1>11. unlockedKey # None => card.master = unlockedKey
  <2>1. unlockedKey # None => given = unlockedKey
    BY <1>1 DEF Inv, Unlocked, New, given
  <2>2. QED
    BY <1>6, <2>1
<1> HIDE DEF file
<1>12. m.file = file /\ m.secret = card.secret
  OBVIOUS
<1> HIDE DEF m
<1>13. /\ IsTask(task') /\ task'.kind = task.kind /\ task'.path = task.path
       /\ task'.step = "persist" /\ task'.more = m /\ task.path \in Paths
  BY <1>1, MovesWith DEF Inv, Steps
<1>14. task'.more.file = file /\ task'.more.secret = card.secret
  BY <1>12, <1>13
<1>15. /\ StoreType' /\ AppType' /\ OthersType' /\ Numbered' /\ Distinct' /\ Bound' /\ OneEach'
       /\ Unlocked' /\ Opened' /\ disk'[task.path] = NoCard
  <2> DEFINE new == NoCard
  <2>1. task.step \in Steps
    BY <1>1 DEF Steps
  <2>2. drawn' \in {drawn, drawn + 1} /\ drawn' <= MaxCards
    BY <1>1, <1>3
  <2>3. disk' = [disk EXCEPT ![task.path] = new]
    BY <1>1, <1>13 DEF Inv, StoreType
  <2>4. unlockedKey # None => \A c \in Capsules : Holding(file, c) => c.master = unlockedKey
    BY <1>8, <1>11
  <2>5. new \in Files \cup {NoCard} /\ new = NoCard
    OBVIOUS
  <2> HIDE DEF new
  <2>6. QED
    BY <1>1, <1>9, <1>10, <1>13, <1>14, <2>1, <2>2, <2>3, <2>4, <2>5, WorkerPuts
<1>16. TaskType'
  BY <1>1, <1>7, <1>8, <1>13, <1>14 DEF TaskType, New, Copy, Made, Carries
<1>17. Making'
  BY <1>8, <1>13, <1>14, <1>15 DEF Making, Carries
<1>18. Copying'
  BY <1>1, <1>13 DEF Copying, Copy
<1>19. QED
  BY <1>15, <1>16, <1>17, <1>18 DEF Inv

\* Making a backup copy of the selected card keeps the invariant, and the copy is
\* that of the card as it is read.
LEMMA CopyCardKeeps ==
    ASSUME Inv, CopyCard, UNCHANGED others
    PROVE  Inv'
<1> DEFINE source == task.more.source
           pin == task.more.pin
           drawing == ExportBytes(Source(source), task.path \in PdfPaths)
           file == IF pin THEN disk[source] ELSE drawing
           m == [file |-> file, pin |-> pin, of |-> disk[source]]
<1>1. /\ task.step = "write" /\ task.kind = "copy" /\ disk[task.path] = NoCard
      /\ Holds(source) /\ bindings' = bindings /\ drawn' = drawn /\ disk' = disk
      /\ task' = [task EXCEPT !.step = "persist", !.more = m] /\ WindowStays
  BY DEF CopyCard, Written, Copied, At
<1>2. source \in Paths
  BY <1>1 DEF Inv, TaskType, Copy
<1>3. source = keySource \/ unlockedKey = None
  BY <1>1 DEF Inv, Unlocked, Copy
<1>4. ~ pin => ~ Marked(disk[source])
  BY <1>1 DEF Inv, Copying, Copy
<1> HIDE DEF source, pin
<1>5. /\ disk[source] \in Files /\ disk[source] # NoCard
      /\ Source(source) \in Capsules /\ Holding(disk[source], Source(source))
      /\ IsFile(source) /\ Source(source) = SourceBytes(disk[source]) /\ Source(source) # Error
  BY <1>1, <1>2, ReadCard DEF Inv, Holds, Source
<1>6. /\ drawing \in Files /\ \A d : Holding(drawing, d) => d = Source(source)
      /\ ~ Marked(drawing) /\ Recovered(drawing) = Source(source)
  <2>1. (task.path \in PdfPaths) \in BOOLEAN
    OBVIOUS
  <2>2. QED
    BY <1>5, <2>1, ExportHolds
<1> HIDE DEF drawing
<1>7. /\ file \in Files /\ Single(file) /\ \A c : Holding(file, c) => Holding(disk[source], c)
      /\ Recovered(file) = SourceBytes(disk[source]) /\ Marked(file) = Marked(disk[source])
  <2>1. CASE pin
    BY <1>2, <1>5, <2>1 DEF Inv, OneEach, Recovered
  <2>2. CASE ~ pin
    BY <1>4, <1>5, <1>6, <2>2 DEF Single, Marked
  <2>3. QED
    BY <2>1, <2>2
<1>8. Adds(file, NoCard)
  BY <1>2, <1>5, <1>7 DEF Adds, Held
<1>9. task.path # source
  BY <1>1, <1>5
<1> HIDE DEF file
<1>10. m.file = file /\ m.pin = pin /\ m.of = disk[source]
  OBVIOUS
<1> HIDE DEF m
<1>11. /\ IsTask(task') /\ task'.kind = task.kind /\ task'.path = task.path
       /\ task'.step = "persist" /\ task'.more = m /\ task.path \in Paths
  BY <1>1, MovesWith DEF Inv, Steps
<1>12. task'.more.file = file /\ task'.more.of = disk[source]
  BY <1>10, <1>11
<1>13. /\ StoreType' /\ AppType' /\ OthersType' /\ Numbered' /\ Distinct' /\ Bound' /\ OneEach'
       /\ Unlocked' /\ Opened' /\ disk'[task.path] = NoCard
  <2> DEFINE new == NoCard
             card == NoCard
  <2>1. task.step \in Steps
    BY <1>1 DEF Steps
  <2>2. drawn' \in {drawn, drawn + 1} /\ drawn' <= MaxCards
    BY <1>1, KeyCardsAssumption DEF Inv, StoreType
  <2>3. disk' = [disk EXCEPT ![task.path] = new]
    BY <1>1, <1>11 DEF Inv, StoreType
  <2>4. Adds(file, card)
    BY <1>8
  <2>5. new \in Files \cup {NoCard} /\ new = NoCard
    OBVIOUS
  <2> HIDE DEF new, card
  <2>6. QED
    BY <1>1, <1>3, <1>7, <1>9, <1>11, <1>12, <2>1, <2>2, <2>3, <2>4, <2>5, WorkerPuts
<1>14. TaskType'
  BY <1>1, <1>7, <1>11, <1>12 DEF TaskType, New, Copy, Made, Carries
<1>15. Making'
  BY <1>1, <1>11, <1>13 DEF Making, Carries
<1>16. Copying'
  BY <1>1, <1>7, <1>11, <1>12 DEF Copying, Copy
<1>17. QED
  BY <1>13, <1>14, <1>15, <1>16 DEF Inv

\* Moving the file that was made to its path keeps the invariant.
LEMMA PersistKeeps ==
    ASSUME Inv, Persist, UNCHANGED others
    PROVE  Inv'
<1> DEFINE file == task.more.file
<1>1. /\ task.step = "persist" /\ disk' = [disk EXCEPT ![task.path] = file]
      /\ bindings' = bindings /\ drawn' = drawn /\ WindowStays
      /\ TaskType /\ task.step \in Steps
  BY DEF Persist, At, Inv, Steps
<1>2. /\ IsTask(task') /\ task'.kind = task.kind /\ task'.path = task.path /\ task.path \in Paths
      /\ \/ task.kind = "create" /\ task'.step = "mark" /\ task'.more = task.more
         \/ task.kind = "copy" /\ task'.step = "inform"
         \/ task.kind # "create" /\ task'.step = "done"
  <2>1. CASE task.kind = "create"
    <3>1. Step("mark") /\ "mark" \in Steps
      BY <2>1 DEF Persist, Steps
    <3>2. QED
      BY <1>1, <2>1, <3>1, Moves
  <2>2. CASE task.kind = "copy" /\ task.more.pin
    <3>1. Step("inform") /\ "inform" \in Steps
      BY <2>2 DEF Persist, Steps
    <3>2. QED
      BY <1>1, <2>2, <3>1, Moves
  <2>3. CASE task.kind # "create" /\ ~ (task.kind = "copy" /\ task.more.pin)
    <3>1. Finish("done") /\ "done" \in Steps
      BY <2>3 DEF Persist, Steps
    <3>2. QED
      BY <1>1, <2>3, <3>1, MovesLast
  <2>4. QED
    BY <2>1, <2>2, <2>3
<1>3. file \in Files /\ Single(file) /\ file # NoCard
  BY <1>1, FilesAreCards DEF Inv, TaskType, OneEach, Carries
<1>4. Adds(file, NoCard)
  BY <1>1 DEF Adds, Held, Carries
<1>5. outside = 0 /\ unlockedKey # None /\ task.path = keySource =>
         \A c \in Capsules : Holding(file, c) => c.master = unlockedKey
  BY <1>1 DEF Inv, Unlocked, Carries
<1>6. task.kind = "create" =>
         /\ SourceBytes(file) # Error /\ task.more.secret \in {None} \cup Numbers
         /\ \A c \in Capsules : Holding(file, c) => c.secret = task.more.secret
  BY <1>1 DEF Inv, Making, TaskType, Made
<1> HIDE DEF file
<1>7. /\ StoreType' /\ AppType' /\ OthersType' /\ Numbered' /\ Distinct' /\ Bound' /\ OneEach'
      /\ Unlocked' /\ Opened' /\ disk'[task.path] = file
  <2> DEFINE s == task'.step
  <2>1. s \in {"persist", "mark", "rename", "bind", "inform", "done", "error"}
        /\ (s = "inform" => task.kind = "copy") /\ s \notin {"persist", "rename"}
    BY <1>2
  <2>2. drawn' \in {drawn, drawn + 1} /\ drawn' <= MaxCards
    BY <1>1, KeyCardsAssumption DEF Inv, StoreType
  <2>3. file \in Files \cup {NoCard}
    BY <1>3
  <2>4. task'.step = s
    OBVIOUS
  <2> HIDE DEF s
  <2>5. QED
    BY <1>1, <1>2, <1>3, <1>4, <1>5, <2>1, <2>2, <2>3, <2>4, WorkerPuts
<1>8. TaskType'
  BY <1>2, <1>6 DEF TaskType, New, Copy, Made, Carries
<1>9. Making'
  <2>1. task.kind = "create" => Holds(task.path)'
    BY <1>2, <1>3, <1>6, <1>7, KeyCardsAssumption DEF Holds, IsFile, Source
  <2>2. QED
    BY <1>2, <1>6, <1>7, <2>1 DEF Making, Carries
<1>10. Copying'
  BY <1>2 DEF Copying, Copy
<1>11. QED
  BY <1>7, <1>8, <1>9, <1>10 DEF Inv

\* Removing the output of a failed creation keeps the invariant.
LEMMA RemoveKeeps ==
    ASSUME Inv, RemoveOutput, UNCHANGED others
    PROVE  Inv'
<1>1. /\ task.step = "remove" /\ disk' = [disk EXCEPT ![task.path] = NoCard]
      /\ bindings' = bindings /\ drawn' = drawn /\ Finish("error") /\ WindowStays
  BY DEF RemoveOutput, At
<1>2. IsTask(task') /\ task'.kind = task.kind /\ task'.path = task.path /\ task'.step = "error"
  BY <1>1, MovesLast DEF Inv, Steps
<1>3. task.step \in Steps
  BY <1>1 DEF Steps
<1>4. drawn' \in {drawn, drawn + 1} /\ drawn' <= MaxCards
  BY <1>1, KeyCardsAssumption DEF Inv, StoreType
<1>5. /\ StoreType' /\ AppType' /\ OthersType' /\ Numbered' /\ Distinct' /\ Bound' /\ OneEach'
      /\ Unlocked' /\ Opened'
  <2> DEFINE new == NoCard
  <2>1. new \in Files \cup {NoCard} /\ new = NoCard /\ disk' = [disk EXCEPT ![task.path] = new]
    BY <1>1
  <2> HIDE DEF new
  <2>2. QED
    BY <1>1, <1>2, <1>3, <1>4, <2>1, WorkerPuts
<1>6. TaskType' /\ Making' /\ Copying'
  BY <1>2 DEF TaskType, Making, Copying, New, Copy, Made, Carries
<1>7. QED
  BY <1>5, <1>6 DEF Inv

\* The first half of marking the new card, which removes it, keeps the invariant.
LEMMA MarkRemoveKeeps ==
    ASSUME Inv, MarkRemove, UNCHANGED others
    PROVE  Inv'
<1> DEFINE marked == Png(AddPinMarker(disk[task.path].chunks))
           m == [secret |-> task.more.secret, file |-> marked]
<1>1. /\ task.step = "mark" /\ IsFile(task.path)
      /\ AddPinMarker(disk[task.path].chunks) # Error
      /\ task' = [task EXCEPT !.step = "rename", !.more = m]
      /\ disk' = [disk EXCEPT ![task.path] = NoCard]
      /\ bindings' = bindings /\ drawn' = drawn /\ WindowStays
  BY DEF MarkRemove, At
<1>2. m.secret = task.more.secret /\ m.file = marked
  OBVIOUS
<1> HIDE DEF m
<1>3. /\ IsTask(task') /\ task'.kind = task.kind /\ task'.path = task.path
      /\ task'.step = "rename" /\ task'.more = m /\ task.path \in Paths
  BY <1>1, MovesWith DEF Inv, Steps
<1>4. disk[task.path] \in Files /\ Single(disk[task.path])
  BY <1>1, <1>3, ReadCard DEF Inv, OneEach
<1>5. marked \in Files /\ \A c : Holding(marked, c) => Holding(disk[task.path], c)
  BY <1>1, <1>4, MarkedHolds
<1> HIDE DEF marked
<1>6. task'.more.file = marked /\ task'.more.secret = task.more.secret
  BY <1>2, <1>3
<1>7. Single(marked) /\ Adds(marked, NoCard)
  BY <1>1, <1>3, <1>4, <1>5 DEF Single, Held, Adds
<1>8. outside = 0 /\ unlockedKey # None /\ task.path = keySource =>
         \A c \in Capsules : Holding(marked, c) => c.master = unlockedKey
  BY <1>1, <1>5 DEF Inv, Unlocked, KeyOf
<1>9. task.kind = "create" /\ task.more.secret \in {None} \cup Numbers
  BY <1>1 DEF Inv, TaskType, Made
<1>10. /\ StoreType' /\ AppType' /\ OthersType' /\ Numbered' /\ Distinct' /\ Bound' /\ OneEach'
       /\ Unlocked' /\ Opened' /\ disk'[task.path] = NoCard /\ crossed' = crossed
  <2> DEFINE new == NoCard
             card == NoCard
  <2>1. new \in Files \cup {NoCard} /\ new = NoCard /\ disk' = [disk EXCEPT ![task.path] = new]
        /\ Adds(marked, card) /\ task.step \in Steps
    BY <1>1, <1>7 DEF Steps
  <2>2. drawn' \in {drawn, drawn + 1} /\ drawn' <= MaxCards
    BY <1>1, KeyCardsAssumption DEF Inv, StoreType
  <2> HIDE DEF new, card
  <2>3. QED
    BY <1>1, <1>3, <1>6, <1>7, <1>8, <2>1, <2>2, WorkerPuts
<1>11. TaskType'
  BY <1>3, <1>5, <1>6, <1>9 DEF TaskType, New, Copy, Made, Carries
<1>12. Making'
  <2>1. task.path \notin crossed =>
           \A c \in Capsules : Holding(marked, c) => c.secret = task.more.secret
    BY <1>1, <1>5 DEF Inv, Making
  <2>2. QED
    BY <1>3, <1>6, <1>10, <2>1 DEF Making, Carries
<1>13. Copying'
  BY <1>3 DEF Copying, Copy
<1>14. QED
  BY <1>10, <1>11, <1>12, <1>13 DEF Inv

\* The second half, which moves the marked card there, keeps it.
LEMMA MarkRenameKeeps ==
    ASSUME Inv, MarkRename, UNCHANGED others
    PROVE  Inv'
<1> DEFINE marked == task.more.file
<1>1. /\ task.step = "rename" /\ disk' = [disk EXCEPT ![task.path] = marked]
      /\ bindings' = bindings /\ drawn' = drawn /\ Step("bind") /\ WindowStays
  BY DEF MarkRename, At
<1>2. /\ IsTask(task') /\ task'.kind = task.kind /\ task'.path = task.path
      /\ task'.step = "bind" /\ task'.more = task.more
  BY <1>1, Moves DEF Inv, Steps
<1>3. /\ marked \in Files /\ Single(marked) /\ task.kind = "create"
      /\ task.more.secret \in {None} \cup Numbers
  BY <1>1 DEF Inv, TaskType, OneEach, Carries, Made
<1>4. Adds(marked, NoCard)
  BY <1>1 DEF Adds, Held, Carries
<1>5. outside = 0 /\ unlockedKey # None /\ task.path = keySource =>
         \A c \in Capsules : Holding(marked, c) => c.master = unlockedKey
  BY <1>1 DEF Inv, Unlocked, Carries
<1>6. task.path \notin crossed =>
         \A c \in Capsules : Holding(marked, c) => c.secret = task.more.secret
  BY <1>1 DEF Inv, Making
<1> HIDE DEF marked
<1>7. /\ StoreType' /\ AppType' /\ OthersType' /\ Numbered' /\ Distinct' /\ Bound' /\ OneEach'
      /\ Unlocked' /\ Opened' /\ disk'[task.path] = marked /\ crossed' = crossed
  <2>1. task.step \in Steps /\ marked \in Files \cup {NoCard}
    BY <1>1, <1>3 DEF Steps
  <2>2. drawn' \in {drawn, drawn + 1} /\ drawn' <= MaxCards
    BY <1>1, KeyCardsAssumption DEF Inv, StoreType
  <2>3. QED
    BY <1>1, <1>2, <1>3, <1>4, <1>5, <2>1, <2>2, WorkerPuts
<1>8. TaskType'
  BY <1>2, <1>3 DEF TaskType, New, Copy, Made, Carries
<1>9. Making' /\ Copying'
  BY <1>2, <1>6, <1>7 DEF Making, Carries, Copying, Copy
<1>10. QED
  BY <1>7, <1>8, <1>9 DEF Inv

\* Saving the Windows binding of a card keeps the invariant.
LEMMA BindKeeps ==
    ASSUME Inv, Bind, UNCHANGED others
    PROVE  Inv'
<1> DEFINE card == Source(task.path)
           secret == task.more.secret
           m == [pin |-> TRUE, id |-> card.id]
<1>1. /\ task.step = "bind" /\ Holds(task.path) /\ disk' = disk /\ drawn' = drawn
      /\ bindings' = [bindings EXCEPT ![card.id] = secret]
      /\ task' = [task EXCEPT !.step = "open", !.more = m] /\ WindowStays
  BY DEF Bind, At
<1>2. m.id = card.id
  OBVIOUS
<1> HIDE DEF m
<1>3. /\ IsTask(task') /\ task'.kind = task.kind /\ task'.path = task.path
      /\ task'.step = "open" /\ task'.more = m /\ task.path \in Paths
  BY <1>1, MovesWith DEF Inv, Steps
<1>4. card \in Capsules /\ Holding(disk[task.path], card) /\ Held(card) /\ IsFile(task.path)
  BY <1>1, <1>3, ReadCard DEF Inv, Holds
<1>5. task.path \notin crossed => card.secret = secret
  BY <1>1, <1>4 DEF Inv, Making
<1>6. task.kind = "create" /\ secret \in {None} \cup Numbers
  BY <1>1 DEF Inv, TaskType, Made
<1>7. card.id \in Numbers /\ card.id \in 1 .. drawn
  BY <1>4, KeyCardsAssumption DEF Inv, Numbered
<1>8. \A c \in Capsules : Holding(disk[task.path], c) => c.id = card.id
  BY <1>3, <1>4 DEF Inv, OneEach, Single
<1> HIDE DEF card, secret
<1>9. bindings \in [Numbers -> {None} \cup Numbers]
  BY DEF Inv, StoreType
<1>10. bindings' \in [Numbers -> {None} \cup Numbers]
  BY <1>1, <1>6, <1>7, <1>9
<1>11. \A n \in Numbers : bindings'[n] = IF n = card.id THEN secret ELSE bindings[n]
  BY <1>1, <1>7, <1>9
<1>12. StoreType'
  BY <1>1, <1>10 DEF Inv, StoreType
<1>13. \A p : IsFile(p)' = IsFile(p)
  BY <1>1 DEF IsFile
<1>14. /\ settings' = settings /\ up' = up /\ keySource' = keySource
       /\ keyFingerprint' = keyFingerprint /\ unlockedKey' = unlockedKey
       /\ unlockOpen' = unlockOpen
       /\ command' = command /\ outside' = outside /\ crossed' = crossed
  BY <1>1 DEF WindowStays, app, others
<1>15. \A c \in Capsules : Held(c)' => Held(c)
  BY <1>1, <1>3, <1>13, <1>14 DEF Held, Carries
<1>16. Numbered' /\ Distinct'
  BY <1>1, <1>15 DEF Inv, Numbered, Distinct
<1>17. Bound'
  <2>1. \A n \in Numbers : bindings'[n] # None => n <= drawn
    BY <1>7, <1>11 DEF Inv, Bound
  <2>2. ASSUME NEW c \in Capsules, Held(c)', bindings'[c.id] # None, crossed = {}
        PROVE  bindings'[c.id] = c.secret
    <3>1. c.id \in Numbers
      BY KeyCardsAssumption
    <3>2. Held(c)
      BY <1>15, <2>2
    <3>3. CASE c.id = card.id
      <4>1. c = card
        BY <1>4, <3>2, <3>3 DEF Inv, Distinct
      <4>2. QED
        BY <1>5, <1>11, <2>2, <3>1, <4>1
    <3>4. CASE c.id # card.id
      BY <1>11, <2>2, <3>1, <3>2, <3>4 DEF Inv, Bound
    <3>5. QED
      BY <3>3, <3>4
  <2>3. QED
    BY <1>1, <1>14, <2>1, <2>2 DEF Bound
<1>18. OneEach' /\ OthersType'
  BY <1>1, <1>3, <1>13, <1>14 DEF Inv, OneEach, OthersType, Carries
<1>19. AppType'
  BY <1>1, <1>14 DEF Inv, AppType
<1>20. Unlocked'
  <2>1. unlockedKey' # None => KeyOf(unlockedKey, keySource, keyFingerprint)'
    BY <1>1, <1>13, <1>14, <1>15 DEF Inv, Unlocked, KeyOf
  <2>2. QED
    BY <1>3, <1>14, <2>1 DEF Inv, Unlocked, New, Copy, Carries
<1>21. Opened'
  BY <1>1, <1>2, <1>3, <1>7, <1>8 DEF Opened, BoundNow, Informing
<1>22. TaskType' /\ Making' /\ Copying'
  BY <1>3, <1>6 DEF TaskType, Making, Copying, New, Copy, Made, Carries
<1>23. QED
  BY <1>12, <1>16, <1>17, <1>18, <1>19, <1>20, <1>21, <1>22 DEF Inv

\* Every step of a background task keeps the invariant.
LEMMA WorkKeeps ==
    ASSUME Inv, Work, UNCHANGED others
    PROVE  Inv'
<1>1. CASE WorkFails \/ WriteRefused
  <2>1. PICK s \in {"remove", "error"} :
           /\ Finish(s) /\ (s = "remove" => task.kind = "create")
           /\ task.step \in Steps /\ UNCHANGED files /\ WindowStays
    BY <1>1 DEF WorkFails, WriteRefused, At, Steps
  <2>2. QED
    BY <2>1, MoveOn
<1>2. CASE WorkDone
  <2>1. Finish("done") /\ task.step \in Steps /\ UNCHANGED files /\ WindowStays
    BY <1>2 DEF WorkDone, At, Steps
  <2>2. QED
    BY <2>1, MoveOn
<1>3. QED
  BY <1>1, <1>2, WriteCardKeeps, CopyCardKeeps, PersistKeeps, RemoveKeeps, MarkRemoveKeeps,
     MarkRenameKeeps, BindKeeps, OpenKeeps, InformKeeps
     DEF Work

\* No step leaves the invariant.
LEMMA InvNext ==
    ASSUME Inv, [Next]_vars
    PROVE  Inv'
<1>1. CASE UNCHANGED vars
  <2>1. /\ UNCHANGED <<files, task, others>> /\ UNCHANGED <<settings, up, app>>
        /\ disk' = disk /\ drawn' = drawn /\ task' = task /\ outside' = outside
        /\ crossed' = crossed
    BY <1>1 DEF vars, files, others
  <2>2. CardsFit' /\ \A c \in Capsules : Held(c)' => Held(c)
    BY <2>1, TaskStays
  <2>3. AppType'
    BY <2>1 DEF Inv, AppType, app
  <2>4. unlockedKey' # None => KeyOf(unlockedKey, keySource, keyFingerprint)'
    BY <2>1, <2>2 DEF Inv, Unlocked, KeyOf, IsFile, app
  <2>5. Unlocked'
    BY <2>1, <2>4 DEF Inv, Unlocked, New, Copy, Carries, app
  <2>6. QED
    BY <2>2, <2>3, <2>5 DEF Inv, CardsFit
<1>2. CASE Application /\ UNCHANGED others
  BY <1>2, WindowKeeps, PollKeeps, WorkKeeps, EndStartKeep DEF Application
<1>3. QED
  BY <1>1, <1>2, OthersKeep DEF Next

\* The inductive invariant holds in every reachable state.
LEMMA InvAlways == Spec => []Inv
<1>1. Init => Inv
  BY InvInit
<1>2. Inv /\ [Next]_vars => Inv'
  BY InvNext
<1>3. QED
  BY <1>1, <1>2, PTL DEF Spec

-----------------------------------------------------------------------------
(* Theorems *)

\* The state has its type: a file that holds a readable capsule holds one that
\* was made, and the key in memory is the key of one that was.
THEOREM TypeCorrect == Spec => []TypeOK
<1>1. ASSUME Inv PROVE TypeOK
  <2>1. \A p \in Paths : /\ IsFile(p) => disk[p] \in Files
                         /\ Holds(p) => Source(p) \in Capsules /\ Held(Source(p))
    BY <1>1, ReadCard DEF Inv
  <2>2. \A p \in Paths : Holds(p) =>
           Source(p) \in Capsules /\ Source(p).id \in 1 .. drawn /\ Source(p).master \in 1 .. drawn
    BY <1>1, <2>1 DEF Inv, Numbered
  <2>3. \A p \in Paths : IsFile(p) => disk[p].chunks \in Seq(Chunk)
    BY <2>1 DEF Files
  <2>4. task.kind \in Kinds \cup {"none"}
    BY <1>1 DEF Inv, TaskType, IsTask, NoTask
  <2>5. DOMAIN disk = Paths
    BY <1>1 DEF Inv, StoreType
  <2>6. command.path \in Paths \cup {NoPath}
    BY <1>1 DEF Inv, OthersType, NoCommand
  <2>7. QED
    BY <1>1, <2>2, <2>3, <2>4, <2>5, <2>6 DEF Inv, StoreType, AppType, OthersType, TypeOK
<1>2. QED
  BY <1>1, InvAlways, PTL

\* poll_task never leaves a key that is not the selected card's, whatever was
\* selected, locked or made while the task ran; by the fingerprint that the window
\* shows, unless another program replaced the card between the worker's two reads.
THEOREM UnlockedAlwaysSelected == Spec => []UnlockedIsSelected
<1>1. ASSUME Inv PROVE UnlockedIsSelected
  <2>1. SUFFICES ASSUME unlockedKey # None
                 PROVE  /\ keySource # NoPath
                        /\ \A p \in Paths :
                              /\ Holds(p)
                              /\ \/ Source(p).id = keyFingerprint /\ keySource \notin crossed
                                 \/ p = keySource /\ outside = 0
                              => Source(p).master = unlockedKey
    BY DEF UnlockedIsSelected
  <2>2. KeyOf(unlockedKey, keySource, keyFingerprint)
    BY <1>1, <2>1 DEF Inv, Unlocked
  <2>3. keySource # NoPath
    BY <2>2, KeyCardsAssumption DEF KeyOf
  <2>4. ASSUME NEW p \in Paths, Holds(p),
               \/ Source(p).id = keyFingerprint /\ keySource \notin crossed
               \/ p = keySource /\ outside = 0
        PROVE  Source(p).master = unlockedKey
    <3>1. /\ Source(p) \in Capsules /\ Held(Source(p)) /\ Holding(disk[p], Source(p))
          /\ IsFile(p)
      BY <1>1, <2>4, ReadCard DEF Inv, Holds
    <3>2. QED
      BY <2>2, <2>4, <3>1 DEF KeyOf
  <2>5. QED
    BY <2>3, <2>4
<1>2. QED
  BY <1>1, InvAlways, PTL

\* create_pin_card never leaves a binding that does not open the card it is
\* found for, as long as no other program writes a card while the worker makes it.
THEOREM ReadyCardsAlwaysOpen == Spec => []ReadyCardsOpen
<1>1. ASSUME Inv PROVE ReadyCardsOpen
  <2>1. SUFFICES ASSUME crossed = {}, NEW p \in Paths, Ready(p)
                 PROVE  bindings[Source(p).id] = Source(p).secret
    BY DEF ReadyCardsOpen
  <2>2. Holds(p) /\ bindings[Source(p).id] # None
    BY <2>1 DEF Ready, NotPinCard
  <2>3. Source(p) \in Capsules /\ Held(Source(p))
    BY <1>1, <2>2, ReadCard DEF Inv
  <2>4. QED
    BY <1>1, <2>1, <2>2, <2>3 DEF Inv, Bound
<1>2. QED
  BY <1>1, InvAlways, PTL

\* add_pin_marker keeps the capsule of whatever file is there, edited ones
\* included.
THEOREM MarkingAlwaysKeeps == Spec => []MarkingKeepsCapsule
<1>1. ASSUME Inv PROVE MarkingKeepsCapsule
  <2>1. ASSUME NEW p \in Paths, IsFile(p) PROVE MarkingKeeps(disk[p].chunks)
    <3>1. disk[p] \in Files
      BY <1>1, <2>1, ReadCard DEF Inv
    <3>2. disk[p].chunks \in Seq(Chunk)
      BY <3>1 DEF Files
    <3>3. QED
      BY <3>2, MarkerKeepsAll
  <2>2. QED
    BY <2>1 DEF MarkingKeepsCapsule
<1>2. QED
  BY <1>1, InvAlways, PTL

\* A task of the application changes no file but at its own path, and there only
\* the card it made, a file that another program put there after the worker had
\* looked, and whatever is there when a failed creation is cleaned up.
THEOREM BackupsAlwaysKeep == Spec => BackupsKeepCards
<1> DEFINE Kept == \A p \in Paths : IsFile(p) /\ disk'[p] # disk[p] =>
              /\ p = task.path
              /\ \/ task.step = "mark" /\ Holds(p) /\ Source(p).secret = task.more.secret
                 \/ p \in crossed
                 \/ task.step = "remove"
<1>1. ASSUME Inv, Work PROVE Kept
  <2>1. SUFFICES ASSUME NEW p \in Paths, IsFile(p), disk'[p] # disk[p]
                 PROVE  /\ p = task.path
                        /\ \/ task.step = "mark" /\ Holds(p) /\ Source(p).secret = task.more.secret
                           \/ p \in crossed
                           \/ task.step = "remove"
    OBVIOUS
  <2>2. disk \in [Paths -> Files \cup {NoCard}] /\ disk[p] # NoCard
    BY <1>1, <2>1 DEF Inv, StoreType, IsFile
  <2>3. ASSUME NEW q, NEW new, disk' = [disk EXCEPT ![q] = new]
        PROVE  q = p
    BY <2>1, <2>2, <2>3
  <2>4. disk' # disk
    BY <2>1
  <2>5. Persist \/ MarkRemove \/ MarkRename \/ RemoveOutput
    BY <1>1, <2>4 DEF Work, WorkFails, WriteRefused, WriteCard, CopyCard, Written, Bind, Open,
       Inform, WorkDone, files
  <2>6. p = task.path
    <3>1. \E new : disk' = [disk EXCEPT ![task.path] = new]
      BY <2>5, Zenon DEF Persist, MarkRemove, MarkRename, RemoveOutput
    <3>2. QED
      BY <2>3, <3>1
  <2>7. CASE Persist \/ MarkRename
    <3>1. Carries
      BY <2>7 DEF Persist, MarkRename, At, Carries
    <3>2. QED
      BY <1>1, <2>2, <2>6, <3>1 DEF Inv, Making
  <2>8. CASE MarkRemove
    <3>1. task.step = "mark"
      BY <2>8 DEF MarkRemove, At
    <3>2. Holds(p) => Source(p) \in Capsules /\ Holding(disk[p], Source(p))
      BY <1>1, ReadCard DEF Inv
    <3>3. QED
      BY <1>1, <2>1, <2>6, <3>1, <3>2 DEF Inv, Making
  <2>9. CASE RemoveOutput
    BY <2>6, <2>9 DEF RemoveOutput, At
  <2>10. QED
    BY <2>5, <2>7, <2>8, <2>9
<1>2. Inv => (Work /\ UNCHANGED others => Kept)
  BY <1>1
<1> HIDE DEF Kept
<1>3. Spec => [][Work /\ UNCHANGED others => Kept]_vars
  BY <1>2, InvAlways, PTL DEF Spec
<1>4. QED
  BY <1>3 DEF BackupsKeepCards, Kept

\* export_png_copy and export_legacy_pdf put in place only a file that gives the
\* capsule of the card as it was read, and is a PIN card exactly if that was one.
THEOREM BackupsAlwaysFaithful == Spec => BackupsAreFaithful
<1> DEFINE Faithful == Backup =>
              /\ Recovered(disk'[task.path]) = SourceBytes(task.more.of)
              /\ Marked(disk'[task.path]) = Marked(task.more.of)
<1>1. ASSUME Inv, [Next]_vars PROVE [Faithful]_vars
  <2>1. SUFFICES ASSUME task.kind = "copy", task.step = "persist", task'.step \in {"inform", "done"}
                 PROVE  /\ Recovered(disk'[task.path]) = SourceBytes(task.more.of)
                        /\ Marked(disk'[task.path]) = Marked(task.more.of)
    BY DEF Backup
  <2>2. TaskType /\ task.step \in Steps /\ "error" \in Steps /\ "remove" \in Steps
    BY <1>1, <2>1 DEF Steps, Inv
  <2>3. task' # task /\ task # NoTask /\ task' # NoTask
    BY <2>1 DEF NoTask
  <2>4. Persist
    <3>1. Application
      BY <1>1, <2>3 DEF Next, vars, Others, Outside, Prepares, Keygen, KeycardExport,
         KeycardRecovery, KeycardImport, Edit, CommandMoves, CommandEnds
    <3>2. Work
      BY <2>1, <2>3, <3>1 DEF Application, Window, Poll, PollError, PollDone, PollKey, End, Start,
         Lock, Forget, OpenUnlock, CloseUnlock, StartUnlock, StartFile, SelectKey, StartCreate,
         StartRecovery, StartCopy, StartPdf, StartTask
    <3>3. ASSUME WorkFails \/ WriteRefused PROVE FALSE
      <4>1. Finish("remove") \/ Finish("error")
        BY <3>3 DEF WorkFails, WriteRefused
      <4>2. task'.step \in {"remove", "error"}
        BY <2>2, <4>1, MovesLast
      <4>3. QED
        BY <2>1, <4>2
    <3>4. QED
      BY <2>1, <3>2, <3>3 DEF Work, WriteCard, CopyCard, MarkRemove, MarkRename, Bind,
         RemoveOutput, Open, Inform, WorkDone, At
  <2>5. task.path \in Paths
    BY <2>2 DEF TaskType, IsTask, NoTask, Steps
  <2>6. disk'[task.path] = task.more.file
    BY <1>1, <2>4, <2>5 DEF Inv, StoreType, Persist
  <2>7. QED
    BY <1>1, <2>1, <2>6 DEF Inv, Copying
<1> HIDE DEF Faithful
<1>2. Spec => [][Faithful]_vars
  BY <1>1, InvAlways, PTL DEF Spec
<1>3. QED
  BY <1>2 DEF BackupsAreFaithful, Faithful

-----------------------------------------------------------------------------
(* What the making of a card may cost *)

\* The making of a card at a path where there is one gets no further than its
\* first step: the card is there until the clean-up has removed it.
FoundStays ==
    outside = 0 /\ task.kind = "create" /\ task.found # NoCard =>
        /\ task.step \in {"write", "remove", "error"}
        /\ disk[task.path] = IF task.step = "error" THEN NoCard ELSE task.found

\* A step of the worker leaves the task what it is.
LEMMA WorkKeepsTask ==
    ASSUME Inv, Work
    PROVE  /\ IsTask(task)
           /\ task'.kind = task.kind /\ task'.path = task.path /\ task'.found = task.found
<1>1. IsTask(task)
  BY DEF Work, WorkFails, WriteRefused, WriteCard, CopyCard, Persist, MarkRemove, MarkRename,
     Bind, RemoveOutput, Open, Inform, WorkDone, At, Steps, Inv, TaskType, NoTask
<1>2. ASSUME NEW s, Step(s) \/ Finish(s)
      PROVE  task'.kind = task.kind /\ task'.path = task.path /\ task'.found = task.found
  BY <1>1, <1>2 DEF Step, Finish, IsTask
<1>3. ASSUME NEW s, NEW m, task' = [task EXCEPT !.step = s, !.more = m]
      PROVE  task'.kind = task.kind /\ task'.path = task.path /\ task'.found = task.found
  BY <1>1, <1>3 DEF IsTask
<1>4. CASE WorkFails \/ WriteRefused \/ Persist \/ MarkRename \/ RemoveOutput \/ WorkDone
  <2>1. \E s : Step(s) \/ Finish(s)
    BY <1>4, Zenon DEF WorkFails, WriteRefused, Persist, MarkRename, RemoveOutput, WorkDone
  <2>2. PICK s : Step(s) \/ Finish(s)
    BY <2>1
  <2>3. QED
    BY <1>1, <1>2, <2>2
<1>5. CASE MarkRemove \/ Bind \/ Open
  <2>1. \E s, m : task' = [task EXCEPT !.step = s, !.more = m]
    BY <1>5, Zenon DEF MarkRemove, Bind, Open
  <2>2. PICK s, m : task' = [task EXCEPT !.step = s, !.more = m]
    BY <2>1, Zenon
  <2>3. QED
    BY <1>1, <1>3, <2>2
<1>6. CASE WriteCard \/ CopyCard
  <2>1. \E m : Written(m)
    BY <1>6, Zenon DEF WriteCard, CopyCard
  <2>2. PICK m : Written(m)
    BY <2>1, Zenon
  <2>3. QED
    BY <1>1, <1>3, <2>2 DEF Written
<1>7. CASE Inform
  <2>1. Finish("done") \/ \E m : task' = [task EXCEPT !.step = "opened", !.more = m]
    BY <1>7, Zenon DEF Inform
  <2>2. CASE Finish("done")
    BY <1>1, <1>2, <2>2
  <2>3. CASE \E m : task' = [task EXCEPT !.step = "opened", !.more = m]
    <3>1. PICK m : task' = [task EXCEPT !.step = "opened", !.more = m]
      BY <2>3, Zenon
    <3>2. QED
      BY <1>1, <1>3, <3>1
  <2>4. QED
    BY <2>1, <2>2, <2>3
<1>8. QED
  BY <1>1, <1>4, <1>5, <1>6, <1>7 DEF Work

\* A step keeps this, and only the clean-up loses what was found.
LEMMA FoundStep ==
    ASSUME Inv, FoundStays, [Next]_vars
    PROVE  /\ FoundStays'
           /\ NoCardIsLost /\ ~ NoCardIsLost' /\ outside' = 0 => RemoveOutput
<1>1. CASE outside' # 0
  BY <1>1 DEF FoundStays
<1>2. CASE outside' = 0
  <2>1. outside = 0
    <3>1. Others => outside' = outside + 1 \/ outside' = outside
      BY DEF Others, Keygen, KeycardExport, KeycardRecovery, KeycardImport, Edit, Prepares, Outside,
         CommandMoves, CommandEnds
    <3>2. outside \in Nat
      BY KeyCardsAssumption DEF Inv, OthersType
    <3> QED
      BY <1>2, <3>1, <3>2 DEF Next, vars, others
  <2>2. CASE task' = task /\ disk' = disk
    BY <1>2, <2>1, <2>2 DEF FoundStays, NoCardIsLost
  <2>3. CASE task' = NoTask
    BY <2>3 DEF FoundStays, NoCardIsLost, NoTask
  <2>4. ASSUME NEW kind \in Kinds, NEW path \in Paths, NEW step, NEW more,
               StartTask(kind, path, step, more), kind = "create" => step = "write"
        PROVE  FoundStays' /\ NoCardIsLost'
    <3>1. /\ task' = [kind |-> kind, path |-> path, step |-> step, more |-> more,
                      found |-> disk[path]]
          /\ disk' = disk
      BY <2>4 DEF StartTask, files
    <3>2. /\ task'.kind = kind /\ task'.path = path /\ task'.step = step
          /\ task'.found = disk[path]
      BY <3>1
    <3> QED
      BY <2>4, <3>1, <3>2 DEF FoundStays, NoCardIsLost
  <2>5. CASE Work
    <3>2. IsTask(task) /\ disk \in [Paths -> Files \cup {NoCard}]
      BY <2>5, WorkKeepsTask DEF Inv, StoreType
    <3>3. task'.kind = task.kind /\ task'.path = task.path /\ task'.found = task.found
      BY <2>5, WorkKeepsTask
    <3>4. CASE ~ (task.kind = "create" /\ task.found # NoCard)
      BY <3>3, <3>4 DEF FoundStays, NoCardIsLost
    <3>5. CASE task.kind = "create" /\ task.found # NoCard
      <4>1. /\ task.step \in {"write", "remove", "error"}
            /\ disk[task.path] = IF task.step = "error" THEN NoCard ELSE task.found
        BY <2>1, <3>5 DEF FoundStays
      <4>2. CASE RemoveOutput
        <5>1. task'.step = "error" /\ disk' = [disk EXCEPT ![task.path] = NoCard]
          BY <3>2, <4>2 DEF RemoveOutput, Finish, IsTask
        <5>2. disk'[task.path] = NoCard
          BY <3>2, <5>1 DEF IsTask
        <5> QED
          BY <3>3, <4>2, <5>1, <5>2 DEF FoundStays
      <4>3. CASE WorkFails \/ WriteRefused
        <5>1. Finish("remove") /\ disk' = disk /\ task.step = "write"
          BY <3>5, <4>1, <4>3 DEF WorkFails, WriteRefused, At, files
        <5>2. task'.step = "remove"
          BY <3>2, <5>1 DEF Finish, IsTask
        <5> QED
          BY <3>3, <4>1, <5>1, <5>2 DEF FoundStays, NoCardIsLost
      <4> QED
        BY <2>5, <3>5, <4>1, <4>2, <4>3
           DEF Work, WriteCard, CopyCard, Persist, MarkRemove, MarkRename, Bind, Open, Inform,
               WorkDone, At
    <3> QED
      BY <3>4, <3>5
  <2>6. CASE Poll \/ End
    BY <2>3, <2>6 DEF Poll, PollError, PollDone, PollKey, End
  <2>7. CASE Start
    BY <2>2, <2>7 DEF Start, files
  <2>8. CASE Window
    <3>1. CASE Lock \/ Forget \/ OpenUnlock \/ CloseUnlock \/ \E p \in Paths : SelectKey(p)
      BY <2>2, <3>1 DEF Lock, Forget, OpenUnlock, CloseUnlock, SelectKey, files
    <3>2. CASE StartUnlock \/ StartFile
      <4>1. keySource \in Paths
        BY <3>2 DEF StartUnlock, StartFile, IsFile, Inv, AppType
      <4>2. /\ StartUnlock => StartTask("unlock", keySource, "open", [pin |-> Ready(keySource)])
            /\ StartFile => StartTask("file", keySource, "work", [key |-> unlockedKey])
        BY DEF StartUnlock, StartFile
      <4>3. "unlock" \in Kinds /\ "file" \in Kinds
        BY DEF Kinds
      <4> QED
        BY <2>4, <3>2, <4>1, <4>2, <4>3
    <3>3. ASSUME NEW p \in Paths,
                 StartCreate(p) \/ StartRecovery(p) \/ StartCopy(p) \/ StartPdf(p)
          PROVE  FoundStays' /\ NoCardIsLost'
      <4>1. \E kind \in Kinds : \E step, more :
                StartTask(kind, p, step, more) /\ step = "write"
        BY <3>3, Zenon DEF StartCreate, StartRecovery, StartCopy, StartPdf, Kinds
      <4> QED
        BY <2>4, <4>1
    <3> QED
      BY <2>8, <3>1, <3>2, <3>3 DEF Window
  <2>9. CASE UNCHANGED vars
    BY <2>2, <2>9 DEF vars, files
  <2>10. ~ Others
    <3>1. command = NoCommand /\ outside \in Nat
      BY <2>1, KeyCardsAssumption DEF Inv, OthersType
    <3> QED
      BY <1>2, <2>1, <3>1 DEF Others, Keygen, KeycardExport, KeycardRecovery, KeycardImport, Edit,
         Prepares, Outside, CommandMoves, CommandEnds
  <2> QED
    BY <2>5, <2>6, <2>7, <2>8, <2>9, <2>10 DEF Next, Application
<1>3. QED
  BY <1>1, <1>2

\* A card at the path of a new one is lost by one step alone, the clean-up of
\* create_pin_card; as long as nobody else is at the files.
THEOREM OnlyTheCleanUpLosesCards ==
    Spec => [][NoCardIsLost /\ ~ NoCardIsLost' /\ outside' = 0 => RemoveOutput]_vars
<1>1. Init => FoundStays
  BY DEF Init, FoundStays, NoTask
<1>2. Inv /\ FoundStays /\ [Next]_vars => FoundStays'
  BY FoundStep
<1>3. Inv /\ FoundStays /\ [Next]_vars =>
          [NoCardIsLost /\ ~ NoCardIsLost' /\ outside' = 0 => RemoveOutput]_vars
  BY FoundStep
<1>4. QED
  BY <1>1, <1>2, <1>3, InvAlways, PTL DEF Spec

-----------------------------------------------------------------------------
(* The way of a task to its end *)

\* How many steps a task may take from the one it is at, the window's included.
Ahead(t) ==
    CASE t.step = "write" -> 8
      [] t.step = "persist" -> 7
      [] t.step = "mark" -> 6
      [] t.step = "rename" -> 5
      [] t.step = "bind" -> 4
      [] t.step \in {"open", "work"} -> 3
      [] t.step \in {"inform", "remove"} -> 2
      [] t.step \in {"opened", "done", "error"} -> 1
      [] OTHER -> 0

\* Whatever the worker does, fails at or gives up, and the window's look at the
\* outcome, bring a task nearer to its end, and nothing else but the end of the
\* application touches it.
TaskAdvances ==
    task # NoTask =>
        /\ Work \/ Poll => Ahead(task') < Ahead(task)
        /\ ~ (Work \/ Poll \/ End) => task' = task

\* A step of the worker.
LEMMA WorkerGoes ==
    ASSUME Inv, Work
    PROVE  Ahead(task') < Ahead(task)
<1>1. IsTask(task)
  BY WorkKeepsTask
<1>2. ASSUME NEW s, Step(s) \/ Finish(s) PROVE task'.step = s
  BY <1>1, <1>2 DEF Step, Finish, IsTask
<1>3. ASSUME NEW s, NEW m, task' = [task EXCEPT !.step = s, !.more = m] PROVE task'.step = s
  BY <1>1, <1>3 DEF IsTask
<1>4. CASE WorkFails
  <2>1. /\ task.step \in {"open", "inform", "work", "write", "persist", "mark", "rename", "bind"}
        /\ task'.step = "error" \/ (task'.step = "remove" /\ task.step # "open" /\ task.kind = "create")
    BY <1>2, <1>4 DEF WorkFails, At
  <2>2. task.step = "inform" => task.kind # "create"
    BY DEF Inv, TaskType
  <2> QED
    BY <2>1, <2>2 DEF Ahead
<1>5. CASE WriteRefused
  <2>1. task.step = "write" /\ task'.step \in {"remove", "error"}
    BY <1>2, <1>5 DEF WriteRefused, At
  <2> QED
    BY <2>1 DEF Ahead
<1>6. CASE WriteCard \/ CopyCard
  <2>1. /\ task.step = "write"
        /\ \E m : task' = [task EXCEPT !.step = "persist", !.more = m]
    BY <1>6, Zenon DEF WriteCard, CopyCard, Written, At
  <2>2. task.step = "write" /\ task'.step = "persist"
    BY <2>1, <1>3
  <2> QED
    BY <2>2 DEF Ahead
<1>7. CASE Persist
  <2>1. task.step = "persist" /\ task'.step \in {"mark", "inform", "done"}
    BY <1>2, <1>7 DEF Persist, At
  <2> QED
    BY <2>1 DEF Ahead
<1>8. CASE MarkRemove \/ MarkRename \/ Bind
  <2>1. \/ task.step = "mark" /\ task'.step = "rename"
        \/ task.step = "rename" /\ task'.step = "bind"
        \/ task.step = "bind" /\ task'.step = "open"
    BY <1>2, <1>3, <1>8 DEF MarkRemove, MarkRename, Bind, At
  <2> QED
    BY <2>1 DEF Ahead
<1>9. CASE RemoveOutput \/ WorkDone
  <2>1. \/ task.step = "remove" /\ task'.step = "error"
        \/ task.step = "work" /\ task'.step = "done"
    BY <1>2, <1>9 DEF RemoveOutput, WorkDone, At
  <2> QED
    BY <2>1 DEF Ahead
<1>10. CASE Open \/ Inform
  <2>1. \/ task.step = "open" /\ task'.step \in {"opened", "inform"}
        \/ task.step = "inform" /\ task'.step \in {"opened", "done"}
    BY <1>2, <1>3, <1>10 DEF Open, Inform, At
  <2> QED
    BY <2>1 DEF Ahead
<1>11. QED
  BY <1>4, <1>5, <1>6, <1>7, <1>8, <1>9, <1>10 DEF Work

\* No task runs longer than eight steps of the worker and the window (TaskEnds needs
\* this, and that both run).
THEOREM TasksAreShort == Spec => [][TaskAdvances]_vars
<1>1. ASSUME Inv, [Next]_vars, task # NoTask PROVE TaskAdvances
  <2>1. ASSUME Poll PROVE Ahead(task') < Ahead(task)
    <3>1. task.step \in {"error", "done", "opened"} /\ task' = NoTask
      BY <2>1 DEF Poll, PollError, PollDone, PollKey
    <3>2. Ahead(task) = 1 /\ Ahead(task') = 0
      BY <3>1 DEF Ahead, NoTask
    <3> QED
      BY <3>2
  <2>2. Work \/ Poll => Ahead(task') < Ahead(task)
    BY <1>1, <2>1, WorkerGoes
  <2>3. ASSUME ~ (Work \/ Poll \/ End) PROVE task' = task
    <3>1. ASSUME NEW kind, NEW path, NEW step, NEW more, StartTask(kind, path, step, more)
          PROVE  FALSE
      BY <1>1, <3>1 DEF StartTask
    <3>2. ASSUME StartUnlock \/ StartFile PROVE FALSE
      BY <3>1, <3>2, Zenon DEF StartUnlock, StartFile
    <3>3. ASSUME NEW p, StartCreate(p) \/ StartRecovery(p) \/ StartCopy(p) \/ StartPdf(p)
          PROVE  FALSE
      BY <3>1, <3>3, Zenon DEF StartCreate, StartRecovery, StartCopy, StartPdf
    <3>4. ASSUME Window PROVE task' = task
      BY <3>2, <3>3, <3>4, Zenon DEF Window, Lock, Forget, OpenUnlock, CloseUnlock, SelectKey
    <3>5. ASSUME Others PROVE task' = task
      BY <3>5, Zenon DEF Others, Keygen, KeycardExport, KeycardRecovery, KeycardImport, Edit,
         Prepares, Outside, CommandMoves, CommandEnds
    <3>6. ASSUME Start PROVE task' = task
      BY <3>6 DEF Start
    <3>7. (UNCHANGED vars) => task' = task
      BY DEF vars
    <3> QED
      BY <1>1, <2>3, <3>4, <3>5, <3>6, <3>7, Zenon DEF Next, Application
  <2> QED
    BY <2>2, <2>3 DEF TaskAdvances
<1>2. Inv /\ [Next]_vars => [TaskAdvances]_vars
  BY <1>1 DEF TaskAdvances
<1>3. QED
  BY <1>2, InvAlways, PTL DEF Spec

=============================================================================
