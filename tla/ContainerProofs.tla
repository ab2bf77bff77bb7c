---------------------------- MODULE ContainerProofs ----------------------------
(***************************************************************************)
(* Proofs about Container, for any texts, chunk size and record limit and  *)
(* any damage the medium does to a file, however often.                    *)
(***************************************************************************)
EXTENDS Container, SequenceTheorems, TLAPS

\* Where record k of a text ends, and with it record k + 1 begins.
End(t, k) == IF k * ChunkSize < Len(t) THEN k * ChunkSize ELSE Len(t)
Piece(t, k) == SubSeq(t, End(t, k) + 1, End(t, k + 1))

\* The first n + 1 parts of file f, and the whole file.
PartOf(f, i) == IF i = 1 THEN Header(f)
                ELSE Record(Header(f), i - 2, Piece(text[f], i - 2))
HeadOf(f, n) == [i \in 1 .. n + 1 |-> PartOf(f, i)]
LastOf(f, n) == Manifest(Header(f), Len(text[f]), n, HeadOf(f, n))
FileOf(f, n) == Append(HeadOf(f, n), LastOf(f, n))

\* File f is complete, with n records.
Complete(f, n) == written[f] = FileOf(f, n) /\ Len(text[f]) = End(text[f], n)

\* All that a medium may hold: the parts of complete files, damaged ones, and
\* parts nobody wrote.  No damage makes a body that opens.
Headers == {Header(f) : f \in Files}
Bodies == {Record(Header(f), k, Piece(text[f], k)).body : f \in Files, k \in Nat}
Seals == {LastOf(f, n).body : f \in Files, n \in Nat}
Sealed(b) == \A f \in Files, n \in Nat : b = LastOf(f, n).body => Complete(f, n)
DataParts == [kind : {"data"}, index : Nat, length : Nat, body : Bodies \cup {Junk}]
LastParts == [kind : {"manifest"}, body : {b \in Seals : Sealed(b)} \cup {Junk}]
Parts == Headers \cup DataParts \cup LastParts \cup {Cut, Unknown}

Texted == text \in [Files -> Texts] /\ file \in Files

\* encrypt_file has written a beginning of the file, and has the rest to read.
Encrypting ==
    phase = "encrypt" =>
        /\ index \in 0 .. MaxRecords
        /\ total = End(text[file], index)
        /\ rest = SubSeq(text[file], total + 1, Len(text[file]))
        /\ temp = HeadOf(file, index)
        /\ tape = written /\ written[2] = <<>>
        /\ file = 1 => written[1] = <<>>

FilesComplete ==
    \A f \in Files : written[f] = <<>> \/ \E n \in 0 .. MaxRecords : Complete(f, n)

\* A file that exists is complete, and the medium holds nothing else but parts.
Written ==
    /\ DOMAIN written = Files /\ DOMAIN tape = Files
    /\ FilesComplete
    /\ phase # "encrypt" => tape[1] \in Seq(Parts) /\ tape[2] = written[2]

\* decrypt_file holds the text of the records it has read.
Decrypting ==
    /\ phase = "medium" => temp = <<>> /\ index = 0 /\ total = 0
    /\ phase = "decrypt" =>
          /\ tape[1] # <<>> /\ MyHeader \in Headers
          /\ index \in 0 .. MaxRecords /\ pos = index + 2
          /\ total = End(text[MyHeader.id], index)
          /\ temp = SubSeq(text[MyHeader.id], 1, total)
          /\ \A n \in Nat : tape[1] = written[1] /\ Complete(1, n) => index =< n
    /\ phase # "done" => output = Running

IInv == Texted /\ Encrypting /\ Written /\ Decrypting /\ RoundTrip /\ DetectsDamage

-----------------------------------------------------------------------------
(* Texts and their pieces *)

\* Where a record ends in the text: each at most one chunk further, none past the end.
LEMMA EndProperties ==
    ASSUME NEW t \in Seq(Nat), NEW k \in Nat
    PROVE  /\ End(t, 0) = 0
           /\ End(t, k) \in 0 .. Len(t)
           /\ End(t, k + 1) \in End(t, k) .. Len(t)
           /\ End(t, k + 1) - End(t, k) =< ChunkSize
           /\ End(t, k + 1) = IF Len(t) - End(t, k) < ChunkSize THEN Len(t)
                              ELSE End(t, k) + ChunkSize
<1> DEFINE at == k * ChunkSize
<1>1. ChunkSize \in Nat \ {0} /\ Len(t) \in Nat
  BY ContainerAssumption
<1>2. at \in Nat /\ (k + 1) * ChunkSize = at + ChunkSize /\ 0 * ChunkSize = 0
  BY <1>1
<1> HIDE DEF at
<1>3. End(t, k) = (IF at < Len(t) THEN at ELSE Len(t))
  BY DEF End, at
<1>4. End(t, k + 1) = (IF at + ChunkSize < Len(t) THEN at + ChunkSize ELSE Len(t))
  BY <1>2 DEF End
<1>5. End(t, 0) = 0
  BY <1>1, <1>2 DEF End
<1> DEFINE e == End(t, k)  f == End(t, k + 1)  n == Len(t)
<1>6. /\ n \in Nat /\ ChunkSize \in Nat \ {0} /\ at \in Nat
      /\ e = (IF at < n THEN at ELSE n)
      /\ f = (IF at + ChunkSize < n THEN at + ChunkSize ELSE n)
  BY <1>1, <1>2, <1>3, <1>4
<1> HIDE DEF e, f, n
<1>7. /\ e \in 0 .. n /\ f \in e .. n /\ f - e =< ChunkSize
      /\ f = IF n - e < ChunkSize THEN n ELSE e + ChunkSize
  BY <1>6
<1>8. QED
  BY <1>5, <1>7 DEF e, f, n

\* Piece k lies between two ends.
LEMMA PieceProperties ==
    ASSUME NEW t \in Seq(Nat), NEW k \in Nat
    PROVE  /\ Piece(t, k) \in Seq(Nat)
           /\ Len(Piece(t, k)) = End(t, k + 1) - End(t, k)
           /\ Len(Piece(t, k)) \in 0 .. ChunkSize
           /\ SubSeq(t, 1, End(t, k)) \o Piece(t, k) = SubSeq(t, 1, End(t, k + 1))
           /\ Len(SubSeq(t, 1, End(t, k))) = End(t, k)
<1> DEFINE a == End(t, k)  b == End(t, k + 1)
<1>1. a \in 0 .. Len(t) /\ b \in a .. Len(t) /\ b - a =< ChunkSize /\ Len(t) \in Nat
  BY EndProperties, LenProperties
<1>2. Piece(t, k) = SubSeq(t, a + 1, b)
  BY DEF Piece
<1> HIDE DEF a, b
<1>3. \A i \in a + 1 .. b : t[i] \in Nat
  BY <1>1, ElementOfSeq
<1>4. /\ SubSeq(t, a + 1, b) \in Seq(Nat)
      /\ Len(SubSeq(t, a + 1, b)) = IF a + 1 =< b THEN b - (a + 1) + 1 ELSE 0
  BY <1>1, <1>3, SubSeqProperties
<1>5. \A i \in 1 .. a : t[i] \in Nat
  BY <1>1, ElementOfSeq
<1>6. Len(SubSeq(t, 1, a)) = IF 1 =< a THEN a - 1 + 1 ELSE 0
  BY <1>1, <1>5, SubSeqProperties
<1>7. SubSeq(t, 1, a) \o SubSeq(t, a + 1, b) = SubSeq(t, 1, b)
  BY <1>1, ConcatAdjacentSubSeq
<1>8. ChunkSize \in Nat
  BY ContainerAssumption
<1>9. /\ SubSeq(t, a + 1, b) \in Seq(Nat)
      /\ Len(SubSeq(t, a + 1, b)) = b - a
      /\ b - a \in 0 .. ChunkSize
      /\ Len(SubSeq(t, 1, a)) = a
  BY <1>1, <1>4, <1>6, <1>8
<1>10. QED
  BY <1>2, <1>7, <1>9 DEF a, b

\* encrypt_file takes the next piece off what it has not read yet.
LEMMA ChunkIsPiece ==
    ASSUME NEW t \in Seq(Nat), NEW k \in Nat,
           rest = SubSeq(t, End(t, k) + 1, Len(t)), rest # <<>>
    PROVE  /\ Chunk = Piece(t, k)
           /\ SubSeq(rest, Len(Chunk) + 1, Len(rest)) = SubSeq(t, End(t, k + 1) + 1, Len(t))
<1> DEFINE a == End(t, k)  b == End(t, k + 1)  n == Len(t)
<1>1. /\ a \in 0 .. n /\ b \in a .. n /\ n \in Nat /\ ChunkSize \in Nat \ {0}
      /\ b = IF n - a < ChunkSize THEN n ELSE a + ChunkSize
  BY EndProperties, LenProperties, ContainerAssumption
<1>2. rest = SubSeq(t, a + 1, n) /\ Piece(t, k) = SubSeq(t, a + 1, b)
  BY DEF Piece
<1>3. \A i \in a + 1 .. n : t[i] \in Nat
  BY <1>1, ElementOfSeq
<1>4. ASSUME NEW i \in 1 .. n, NEW j \in 1 .. n, NEW x \in 1 .. j - i + 1, NEW y \in 1 .. j - i + 1
      PROVE  SubSeq(SubSeq(t, i, j), x, y) = SubSeq(t, i + x - 1, i + y - 1)
  BY SubSeqOfSubSeq
<1> HIDE DEF a, b, n
<1>0. /\ a \in Nat /\ b \in Nat /\ n \in Nat /\ ChunkSize \in Nat /\ ChunkSize > 0
      /\ a =< b /\ b =< n
      /\ n - a < ChunkSize => b = n
      /\ n - a >= ChunkSize => b = a + ChunkSize
  BY <1>1
<1>5. /\ rest \in Seq(Nat)
      /\ Len(rest) = IF a + 1 =< n THEN n - (a + 1) + 1 ELSE 0
  <2>1. /\ SubSeq(t, a + 1, n) \in Seq(Nat)
        /\ Len(SubSeq(t, a + 1, n)) = IF a + 1 =< n THEN n - (a + 1) + 1 ELSE 0
    BY <1>0, <1>3, SubSeqProperties
  <2>2. QED
    BY <2>1, <1>2
<1>6. a < n
  <2>1. CASE a = n
    BY <2>1, <1>1, <1>2, SubSeqEmpty
  <2>2. QED
    BY <1>1, <2>1
<1> DEFINE m == Len(rest)
<1> HIDE DEF m
<1>7. /\ m = n - a /\ b - a \in 1 .. n - a /\ (b = n \/ b < n)
      /\ (IF m < ChunkSize THEN m ELSE ChunkSize) = b - a
  <2>1. m = IF a + 1 =< n THEN n - (a + 1) + 1 ELSE 0
    BY <1>5 DEF m
  <2>2. QED
    BY <1>0, <1>6, <2>1
<1>8. Chunk = SubSeq(rest, 1, b - a)
  BY <1>7 DEF Chunk, m
<1>9. SubSeq(SubSeq(t, a + 1, n), 1, b - a) = SubSeq(t, a + 1, b)
  <2>1. /\ a + 1 \in 1 .. n /\ n \in 1 .. n
        /\ 1 \in 1 .. n - (a + 1) + 1 /\ b - a \in 1 .. n - (a + 1) + 1
        /\ a + 1 + 1 - 1 = a + 1 /\ a + 1 + (b - a) - 1 = b
    BY <1>1, <1>6, <1>7
  <2>2. SubSeq(SubSeq(t, a + 1, n), 1, b - a) = SubSeq(t, a + 1 + 1 - 1, a + 1 + (b - a) - 1)
    BY <2>1, <1>4
  <2>3. QED
    BY <2>1, <2>2
<1>10. Chunk = Piece(t, k)
  BY <1>2, <1>8, <1>9
<1>11. Len(Chunk) = b - a
  BY <1>10, PieceProperties DEF a, b
<1>12. SubSeq(rest, b - a + 1, n - a) = SubSeq(t, b + 1, n)
  <2>1. CASE b = n
    <3>1. SubSeq(rest, b - a + 1, n - a) = <<>>
      BY <2>1, <1>1, SubSeqEmpty
    <3>2. SubSeq(t, b + 1, n) = <<>>
      BY <2>1, <1>1, SubSeqEmpty
    <3>3. QED
      BY <3>1, <3>2
  <2>2. CASE b < n
    <3>1. /\ a + 1 \in 1 .. n /\ n \in 1 .. n
          /\ b - a + 1 \in 1 .. n - (a + 1) + 1 /\ n - a \in 1 .. n - (a + 1) + 1
          /\ a + 1 + (b - a + 1) - 1 = b + 1 /\ a + 1 + (n - a) - 1 = n
      BY <2>2, <1>1, <1>6, <1>7
    <3>2. SubSeq(SubSeq(t, a + 1, n), b - a + 1, n - a)
          = SubSeq(t, a + 1 + (b - a + 1) - 1, a + 1 + (n - a) - 1)
      BY <3>1, <1>4
    <3>3. QED
      BY <1>2, <3>1, <3>2
  <2>3. QED
    BY <1>7, <2>1, <2>2, Zenon
<1>13. SubSeq(rest, Len(Chunk) + 1, m) = SubSeq(t, b + 1, n)
  BY <1>7, <1>11, <1>12, Zenon
<1>14. QED
  BY <1>10, <1>13, Zenon DEF b, n, m

-----------------------------------------------------------------------------
(* Files and their parts *)

\* The text of a file is a sequence of bytes.
LEMMA TextType ==
    ASSUME Texted, NEW f \in Files
    PROVE  text[f] \in Seq(Nat)
BY ContainerAssumption DEF Texted

\* The kind of a part tells header, data and manifest apart.
LEMMA KindsDiffer ==
    ASSUME NEW p \in Parts
    PROVE  /\ p.kind = "header" => p \in Headers
           /\ p.kind = "data" => p \in DataParts
           /\ p.kind = "manifest" => p \in LastParts
           /\ "body" \in DOMAIN p => p \in DataParts \cup LastParts
<1>1. CASE p \in Headers
  BY <1>1 DEF Headers, Header
<1>2. CASE p \in DataParts
  BY <1>2 DEF DataParts
<1>3. CASE p \in LastParts
  BY <1>3 DEF LastParts
<1>4. CASE p \in {Cut, Unknown}
  BY <1>4 DEF Cut, Unknown
<1>5. QED
  BY <1>1, <1>2, <1>3, <1>4 DEF Parts

\* Two files have different headers, and neither has that of a file never made.
LEMMA HeadersDiffer ==
    ASSUME NEW f \in Files
    PROVE  /\ Header(f) \in Headers /\ Header(f) \in Parts
           /\ Header(f).kind = "header" /\ Header(f).id = f
           /\ Header(f) # Header(0)
           /\ \A g \in Files : Header(f) = Header(g) => f = g
BY DEF Headers, Parts, Header, Files

\* The parts of a file, at their places.
LEMMA HeadProperties ==
    ASSUME Texted, NEW f \in Files, NEW n \in Nat
    PROVE  /\ HeadOf(f, n) \in Seq(Parts)
           /\ Len(HeadOf(f, n)) = n + 1
           /\ HeadOf(f, n)[1] = Header(f)
           /\ \A k \in 0 .. n - 1 :
                 HeadOf(f, n)[k + 2] = Record(Header(f), k, Piece(text[f], k))
<1>1. ASSUME NEW i \in 1 .. n + 1 PROVE PartOf(f, i) \in Parts
  <2>1. CASE i = 1
    BY <2>1, HeadersDiffer DEF PartOf
  <2>2. CASE i # 1
    <3> DEFINE k == i - 2  r == Record(Header(f), k, Piece(text[f], k))
    <3>1. k \in Nat /\ PartOf(f, i) = r
      BY <2>2 DEF PartOf
    <3>2. Len(Piece(text[f], k)) \in Nat
      BY <3>1, TextType, PieceProperties, ContainerAssumption
    <3>3. r.body \in Bodies
      BY <3>1 DEF Bodies
    <3>4. r = [kind |-> "data", index |-> k, length |-> Len(Piece(text[f], k)), body |-> r.body]
      BY DEF Record
    <3> HIDE DEF k, r
    <3>5. r \in DataParts
      BY <3>1, <3>2, <3>3, <3>4 DEF DataParts
    <3>6. QED
      BY <3>1, <3>5 DEF Parts
  <2>3. QED
    BY <2>1, <2>2
<1>2. HeadOf(f, n) \in [1 .. n + 1 -> Parts]
  BY <1>1 DEF HeadOf
<1>3. n + 1 \in Nat
  OBVIOUS
<1>4. HeadOf(f, n) \in Seq(Parts)
  BY <1>2, <1>3, SeqDef
<1>5. Len(HeadOf(f, n)) = n + 1
  BY <1>2, <1>3, <1>4, LenProperties
<1>6. HeadOf(f, n)[1] = Header(f)
  BY DEF HeadOf, PartOf
<1>7. ASSUME NEW k \in 0 .. n - 1
      PROVE  HeadOf(f, n)[k + 2] = Record(Header(f), k, Piece(text[f], k))
  <2>1. k + 2 \in 1 .. n + 1 /\ k + 2 # 1 /\ (k + 2) - 2 = k
    OBVIOUS
  <2>2. HeadOf(f, n)[k + 2] = PartOf(f, k + 2)
    BY <2>1 DEF HeadOf
  <2>3. PartOf(f, k + 2) = Record(Header(f), k, Piece(text[f], k))
    BY <2>1 DEF PartOf
  <2>4. QED
    BY <2>2, <2>3
<1>8. QED
  BY <1>4, <1>5, <1>6, <1>7

\* A record makes the next beginning of the file.
LEMMA HeadGrows ==
    ASSUME Texted, NEW f \in Files, NEW n \in Nat
    PROVE  Append(HeadOf(f, n), Record(Header(f), n, Piece(text[f], n))) = HeadOf(f, n + 1)
<1> DEFINE r == Record(Header(f), n, Piece(text[f], n))  s == HeadOf(f, n)  u == HeadOf(f, n + 1)
<1>1. s \in Seq(Parts) /\ Len(s) = n + 1 /\ u \in Seq(Parts) /\ Len(u) = n + 2
  BY HeadProperties
<1>2. u[n + 2] = r
  BY HeadProperties
<1>3. r \in Parts
  BY <1>1, <1>2, ElementOfSeq
<1>4. ASSUME NEW i \in 1 .. n + 1 PROVE s[i] = u[i]
  BY DEF HeadOf
<1> HIDE DEF r, s, u
<1>5. /\ Append(s, r) \in Seq(Parts) /\ Len(Append(s, r)) = n + 2
      /\ \A i \in 1 .. n + 1 : Append(s, r)[i] = s[i]
      /\ Append(s, r)[n + 2] = r
  BY <1>1, <1>3, AppendProperties
<1>6. \A i \in 1 .. n + 2 : Append(s, r)[i] = u[i]
  BY <1>2, <1>4, <1>5
<1>7. Append(s, r) = u
  BY <1>1, <1>5, <1>6, SeqEqual
<1>8. QED
  BY <1>7 DEF r, s, u

\* A whole file.
LEMMA FileProperties ==
    ASSUME Texted, NEW f \in Files, NEW n \in Nat, Complete(f, n)
    PROVE  /\ written[f] \in Seq(Parts) /\ Len(written[f]) = n + 2
           /\ written[f][1] = Header(f)
           /\ \A k \in 0 .. n - 1 :
                 written[f][k + 2] = Record(Header(f), k, Piece(text[f], k))
           /\ written[f][n + 2] = LastOf(f, n)
           /\ SubSeq(written[f], 1, n + 1) = HeadOf(f, n)
<1> DEFINE s == HeadOf(f, n)  e == LastOf(f, n)
<1>1. /\ s \in Seq(Parts) /\ Len(s) = n + 1 /\ s[1] = Header(f)
      /\ \A k \in 0 .. n - 1 : s[k + 2] = Record(Header(f), k, Piece(text[f], k))
  BY HeadProperties
<1>2. e.body.by = Header(f) /\ e.body.count = n /\ e = [kind |-> "manifest", body |-> e.body]
  BY DEF LastOf, Manifest
<1>3. Sealed(e.body)
  <2> SUFFICES ASSUME NEW g \in Files, NEW m \in Nat, e.body = LastOf(g, m).body
               PROVE  Complete(g, m)
    BY DEF Sealed
  <2>1. LastOf(g, m).body.by = Header(g) /\ LastOf(g, m).body.count = m
    BY DEF LastOf, Manifest
  <2>2. g = f /\ m = n
    BY <1>2, <2>1, HeadersDiffer
  <2>3. QED
    BY <2>2
<1>4. e.body \in Seals
  BY DEF Seals
<1>5. e \in Parts
  <2> HIDE DEF e
  <2>1. e \in LastParts
    BY <1>2, <1>3, <1>4 DEF LastParts
  <2>2. QED
    BY <2>1 DEF Parts
<1>6. written[f] = Append(s, e)
  BY DEF Complete, FileOf
<1> HIDE DEF s, e
<1>7. /\ Append(s, e) \in Seq(Parts) /\ Len(Append(s, e)) = n + 2
      /\ \A i \in 1 .. n + 1 : Append(s, e)[i] = s[i]
      /\ Append(s, e)[n + 2] = e
  BY <1>1, <1>5, AppendProperties
<1>8. SubSeq(Append(s, e), 1, n + 1) = s
  <2>1. /\ SubSeq(Append(s, e), 1, n + 1) \in Seq(Parts)
        /\ Len(SubSeq(Append(s, e), 1, n + 1)) = n + 1
        /\ \A i \in 1 .. n + 1 : SubSeq(Append(s, e), 1, n + 1)[i] = Append(s, e)[i]
    <3> DEFINE a == Append(s, e)  v == SubSeq(a, 1, n + 1)
    <3>1. \A i \in 1 .. n + 1 : a[i] \in Parts
      BY <1>1, <1>7, ElementOfSeq
    <3> HIDE DEF a
    <3>2. /\ v \in Seq(Parts)
          /\ Len(v) = IF 1 =< n + 1 THEN (n + 1) - 1 + 1 ELSE 0
          /\ \A i \in 1 .. (n + 1) - 1 + 1 : v[i] = a[1 + i - 1]
      BY <3>1, SubSeqProperties
    <3> HIDE DEF v
    <3>3. Len(v) = n + 1 /\ \A i \in 1 .. n + 1 : v[i] = a[i]
      BY <3>2
    <3>4. QED
      BY <3>2, <3>3 DEF a, v
  <2>2. QED
    BY <1>1, <1>7, <2>1, SeqEqual
<1>9. \A k \in 0 .. n - 1 : Append(s, e)[k + 2] = Record(Header(f), k, Piece(text[f], k))
  <2> TAKE k \in 0 .. n - 1
  <2>1. k + 2 \in 1 .. n + 1
    OBVIOUS
  <2>2. QED
    BY <1>1, <1>7, <2>1
<1>10. QED
  BY <1>1, <1>6, <1>7, <1>8, <1>9 DEF s, e


-----------------------------------------------------------------------------
(* Steps that write no file *)

\* What stays as long as the texts and the files written do.
LEMMA PartsStay ==
    ASSUME text' = text, written' = written
    PROVE  /\ Parts' = Parts
           /\ \A f \in Files, n \in Nat : Complete(f, n)' <=> Complete(f, n)
<1>1. \A f \in Files, k \in Nat : Piece(text[f], k)' = Piece(text[f], k)
  BY DEF Piece, End
<1>2. \A f \in Files, n \in Nat : HeadOf(f, n)' = HeadOf(f, n)
  BY DEF HeadOf, PartOf, Piece, End
<1>3. \A f \in Files, n \in Nat : LastOf(f, n)' = LastOf(f, n) /\ FileOf(f, n)' = FileOf(f, n)
  BY <1>2 DEF LastOf, FileOf
<1>4. \A f \in Files, n \in Nat : Complete(f, n)' <=> Complete(f, n)
  BY <1>3 DEF Complete, End
<1>5. Bodies' = Bodies
  BY <1>1 DEF Bodies
<1>6. Seals' = Seals
  BY <1>3 DEF Seals
<1>7. \A b : Sealed(b)' <=> Sealed(b)
  BY <1>3, <1>4 DEF Sealed
<1>8. QED
  BY <1>4, <1>5, <1>6, <1>7 DEF Parts, DataParts, LastParts

\* The medium: whatever parts it holds next.
LEMMA EditStep ==
    ASSUME IInv, phase = "medium", NEW s \in Seq(Parts), Edited(s)
    PROVE  IInv'
<1>1. UNCHANGED <<phase, file, text, rest, temp, index, total, written, pos, output>>
  BY DEF Edited
<1>2. Parts' = Parts /\ \A f \in Files, n \in Nat : Complete(f, n)' <=> Complete(f, n)
  BY <1>1, PartsStay
<1>3. DOMAIN tape' = Files /\ tape'[1] = s /\ tape'[2] = tape[2]
  BY DEF Edited, IInv, Written, Files
<1>4. Texted' /\ Encrypting'
  BY <1>1 DEF IInv, Texted, Encrypting
<1>5. Written'
  BY <1>1, <1>2, <1>3 DEF IInv, Written, FilesComplete
<1>6. Decrypting'
  BY <1>1 DEF IInv, Decrypting
<1>7. RoundTrip' /\ DetectsDamage'
  BY <1>1 DEF IInv, Decrypting, Running, RoundTrip, DetectsDamage
<1>8. QED
  BY <1>4, <1>5, <1>6, <1>7 DEF IInv

\* Both tapes hold parts once the files are written.
LEMMA TapesHoldParts ==
    ASSUME IInv, phase # "encrypt", NEW f \in Files
    PROVE  tape[f] \in Seq(Parts)
<1>1. CASE f = 1
  BY <1>1 DEF IInv, Written, FilesComplete
<1>2. CASE f = 2
  <2>1. tape[2] = written[2]
    BY DEF IInv, Written, FilesComplete
  <2>2. CASE written[2] = <<>>
    BY <1>2, <2>1, <2>2, EmptySeq
  <2>3. CASE \E n \in 0 .. MaxRecords : Complete(2, n)
    <3>1. PICK n \in 0 .. MaxRecords : Complete(2, n)
      BY <2>3
    <3>2. n \in Nat /\ Texted
      BY <3>1, ContainerAssumption DEF IInv
    <3>3. QED
      BY <1>2, <2>1, <3>1, <3>2, FileProperties DEF Files
  <2>4. QED
    BY <2>2, <2>3 DEF IInv, Written, FilesComplete, Files
<1>3. QED
  BY <1>1, <1>2 DEF Files

\* Every damage leaves parts.
LEMMA MediumStep == IInv /\ Medium => IInv'
<1> SUFFICES ASSUME IInv, Medium PROVE IInv'
  OBVIOUS
<1> DEFINE s == tape[1]
<1>1. phase = "medium"
  BY DEF Medium, Editing, LosePart, RepeatPart, ExchangeParts, Truncate, CutShort,
         AppendPart, MixFiles, DamageBody, DamageFrame
<1>2. s \in Seq(Parts) /\ tape[2] \in Seq(Parts)
  BY <1>1, TapesHoldParts DEF Files
<1>3. Len(s) \in Nat /\ DOMAIN s = 1 .. Len(s) /\ \A i \in 1 .. Len(s) : s[i] \in Parts
  BY <1>2, LenProperties, ElementOfSeq
<1>4. \A i \in DOMAIN tape[2] : tape[2][i] \in Parts
  BY <1>2, LenProperties, ElementOfSeq
<1>5. Cut \in Parts /\ Unknown \in Parts
  BY DEF Parts
<1>6. \E t \in Seq(Parts) : Edited(t)
  <2>1. ASSUME NEW m \in Int, NEW n \in Int, 1 =< m, n =< Len(s)
        PROVE  SubSeq(s, m, n) \in Seq(Parts)
    <3>1. \A i \in m .. n : s[i] \in Parts
      BY <1>3, <2>1
    <3> HIDE DEF s
    <3>2. QED
      BY <3>1, SubSeqProperties
  <2>2. ASSUME NEW i \in DOMAIN s, NEW p \in Parts PROVE [s EXCEPT ![i] = p] \in Seq(Parts)
    BY <1>2, <1>3, ExceptSeq
  <2>3. ASSUME NEW t \in Seq(Parts), NEW p \in Parts PROVE Append(t, p) \in Seq(Parts)
    BY AppendProperties
  <2>4. ASSUME NEW t \in Seq(Parts), NEW u \in Seq(Parts) PROVE t \o u \in Seq(Parts)
    BY ConcatProperties
  <2>5. CASE LosePart
    <3>1. PICK i \in DOMAIN s : Edited(RemoveAt(s, i))
      BY <2>5 DEF LosePart
    <3>2. i \in 1 .. Len(s) /\ i - 1 =< Len(s) /\ 1 =< i + 1
      BY <1>3
    <3>3. SubSeq(s, 1, i - 1) \in Seq(Parts) /\ SubSeq(s, i + 1, Len(s)) \in Seq(Parts)
      BY <1>3, <2>1, <3>2
    <3>4. RemoveAt(s, i) \in Seq(Parts)
      BY <3>3, <2>4 DEF RemoveAt
    <3>5. QED
      BY <3>1, <3>4
  <2>6. CASE RepeatPart
    <3>1. PICK i \in DOMAIN s : Edited(InsertAt(s, i, s[i]))
      BY <2>6 DEF RepeatPart
    <3>2. i \in 1 .. Len(s) /\ i - 1 =< Len(s) /\ s[i] \in Parts
      BY <1>3
    <3>3. SubSeq(s, 1, i - 1) \in Seq(Parts) /\ SubSeq(s, i, Len(s)) \in Seq(Parts)
      BY <1>3, <2>1, <3>2
    <3>4. <<s[i]>> \in Seq(Parts)
      BY <3>2
    <3>5. InsertAt(s, i, s[i]) \in Seq(Parts)
      BY <3>3, <3>4, <2>4 DEF InsertAt
    <3>6. QED
      BY <3>1, <3>5
  <2>7. CASE ExchangeParts
    <3>1. PICK i \in DOMAIN s, j \in DOMAIN s : Edited([s EXCEPT ![i] = s[j], ![j] = s[i]])
      BY <2>7 DEF ExchangeParts
    <3>2. s[i] \in Parts /\ s[j] \in Parts
      BY <1>3
    <3> DEFINE u == [s EXCEPT ![i] = s[j]]
    <3>3. u \in Seq(Parts) /\ Len(u) = Len(s)
      BY <1>2, <1>3, <3>2, ExceptSeq
    <3>4. [u EXCEPT ![j] = s[i]] \in Seq(Parts)
      BY <1>3, <3>2, <3>3, ExceptSeq
    <3>5. QED
      BY <3>1, <3>4
  <2>8. CASE Truncate
    <3>1. PICK n \in DOMAIN s : Edited(SubSeq(s, 1, n - 1))
      BY <2>8 DEF Truncate
    <3>2. SubSeq(s, 1, n - 1) \in Seq(Parts)
      BY <1>3, <2>1
    <3>3. QED
      BY <3>1, <3>2
  <2>9. CASE CutShort
    <3>1. PICK n \in DOMAIN s : Edited(Append(SubSeq(s, 1, n - 1), Cut))
      BY <2>9 DEF CutShort
    <3>2. SubSeq(s, 1, n - 1) \in Seq(Parts)
      BY <1>3, <2>1
    <3>3. Append(SubSeq(s, 1, n - 1), Cut) \in Seq(Parts)
      BY <3>2, <2>3, <1>5
    <3>4. QED
      BY <3>1, <3>3
  <2>10. CASE AppendPart
    <3>1. PICK p \in ToSet(s) \cup ToSet(tape[2]) \cup {Unknown} : Edited(Append(s, p))
      BY <2>10 DEF AppendPart
    <3>2. p \in Parts
      BY <3>1, <1>3, <1>4, <1>5 DEF ToSet
    <3>3. Append(s, p) \in Seq(Parts)
      BY <3>2, <2>3, <1>2
    <3>4. QED
      BY <3>1, <3>3
  <2>11. CASE MixFiles
    <3>1. PICK i \in DOMAIN s, j \in DOMAIN tape[2] : Edited([s EXCEPT ![i] = tape[2][j]])
      BY <2>11 DEF MixFiles
    <3>2. [s EXCEPT ![i] = tape[2][j]] \in Seq(Parts)
      BY <2>2, <1>4
    <3>3. QED
      BY <3>1, <3>2
  <2>12. CASE DamageBody
    <3>1. PICK i \in DOMAIN s : "body" \in DOMAIN s[i] /\ Edited([s EXCEPT ![i].body = Junk])
      BY <2>12 DEF DamageBody
    <3> DEFINE p == s[i]
    <3>2. p \in DataParts \cup LastParts
      BY <1>3, <3>1, KindsDiffer
    <3> HIDE DEF p
    <3>3. [p EXCEPT !.body = Junk] \in Parts
      <4>1. CASE p \in DataParts
        BY <4>1 DEF DataParts, Parts
      <4>2. CASE p \in LastParts
        BY <4>2 DEF LastParts, Parts
      <4>3. QED
        BY <3>2, <4>1, <4>2
    <3>4. [s EXCEPT ![i] = [p EXCEPT !.body = Junk]] \in Seq(Parts)
      BY <2>2, <3>3
    <3>5. QED
      BY <3>1, <3>4 DEF p
  <2>13. CASE DamageFrame
    <3>1. PICK i \in DOMAIN s, n \in 0 .. MaxRecords :
             /\ s[i].kind = "data"
             /\ Edited([s EXCEPT ![i].index = n]) \/ Edited([s EXCEPT ![i].length = n])
      BY <2>13 DEF DamageFrame
    <3> DEFINE p == s[i]
    <3>2. p \in DataParts /\ n \in Nat
      BY <1>3, <3>1, KindsDiffer, ContainerAssumption
    <3> HIDE DEF p
    <3>3. [p EXCEPT !.index = n] \in Parts /\ [p EXCEPT !.length = n] \in Parts
      BY <3>2 DEF DataParts, Parts
    <3>4. /\ [s EXCEPT ![i] = [p EXCEPT !.index = n]] \in Seq(Parts)
          /\ [s EXCEPT ![i] = [p EXCEPT !.length = n]] \in Seq(Parts)
      BY <2>2, <3>3
    <3>5. QED
      BY <3>1, <3>4 DEF p
  <2>14. QED
    BY <2>5, <2>6, <2>7, <2>8, <2>9, <2>10, <2>11, <2>12, <2>13 DEF Medium
<1>7. PICK t \in Seq(Parts) : Edited(t)
  BY <1>6
<1>8. QED
  BY <1>1, <1>7, EditStep

-----------------------------------------------------------------------------
(* encrypt_file *)

\* Encrypting one data record keeps the invariant.
LEMMA RecordStep == IInv /\ EncryptRecord => IInv'
<1> SUFFICES ASSUME IInv, EncryptRecord PROVE IInv'
  OBVIOUS
<1> DEFINE t == text[file]
<1>1. UNCHANGED <<phase, file, text, tape, written, edits, pos, output>> /\ phase = "encrypt"
  BY DEF EncryptRecord
<1>2. Parts' = Parts /\ \A f \in Files, n \in Nat : Complete(f, n)' <=> Complete(f, n)
  BY <1>1, PartsStay
<1>3. t \in Seq(Nat) /\ Texted /\ file \in Files
  BY TextType DEF IInv, Texted
<1>4. /\ index \in 0 .. MaxRecords /\ index < MaxRecords /\ index \in Nat /\ MaxRecords \in Nat
      /\ total = End(t, index) /\ rest = SubSeq(t, End(t, index) + 1, Len(t)) /\ rest # <<>>
      /\ temp = HeadOf(file, index)
  BY <1>1, ContainerAssumption DEF IInv, Encrypting, EncryptRecord
<1>5. /\ Chunk = Piece(t, index)
      /\ SubSeq(rest, Len(Chunk) + 1, Len(rest)) = SubSeq(t, End(t, index + 1) + 1, Len(t))
  BY <1>3, <1>4, ChunkIsPiece
<1>6. total + Len(Chunk) = End(t, index + 1)
  <2>1. Len(Chunk) = End(t, index + 1) - End(t, index)
    BY <1>3, <1>4, <1>5, PieceProperties
  <2>2. End(t, index) \in Nat /\ End(t, index + 1) \in Nat
    BY <1>3, <1>4, EndProperties, LenProperties
  <2>3. QED
    BY <1>4, <2>1, <2>2
<1>7. temp' = HeadOf(file, index + 1)
  BY <1>3, <1>4, <1>5, HeadGrows DEF EncryptRecord
<1>8. index' = index + 1 /\ total' = End(t, index + 1) /\ rest' = SubSeq(t, End(t, index + 1) + 1, Len(t))
  BY <1>5, <1>6 DEF EncryptRecord
<1>9. index' \in 0 .. MaxRecords
  BY <1>4, <1>8
<1>10. HeadOf(file, index)' = HeadOf(file, index + 1) /\ End(text[file], index)' = End(t, index + 1)
  BY <1>1, <1>8 DEF HeadOf, PartOf, Piece, End
<1>11. Encrypting'
  BY <1>1, <1>7, <1>8, <1>9, <1>10 DEF IInv, Encrypting
<1>12. Texted' /\ Written' /\ Decrypting' /\ RoundTrip' /\ DetectsDamage'
  BY <1>1, <1>2 DEF IInv, Texted, Written, FilesComplete, Decrypting, RoundTrip, DetectsDamage, Running
<1>13. QED
  BY <1>11, <1>12 DEF IInv

\* A complete file is a sequence of parts.
LEMMA FilesHoldParts ==
    Texted /\ FilesComplete => \A f \in Files : written[f] \in Seq(Parts)
<1> SUFFICES ASSUME Texted, FilesComplete, NEW f \in Files PROVE written[f] \in Seq(Parts)
  OBVIOUS
<1>1. CASE written[f] = <<>>
  BY <1>1, EmptySeq
<1>2. CASE \E n \in 0 .. MaxRecords : Complete(f, n)
  <2>1. PICK n \in 0 .. MaxRecords : Complete(f, n)
    BY <1>2
  <2>2. n \in Nat
    BY ContainerAssumption
  <2>3. QED
    BY <2>1, <2>2, FileProperties
<1>3. QED
  BY <1>1, <1>2 DEF FilesComplete

\* After a step, too, every file written is a sequence of parts.
LEMMA NextFilesHoldParts ==
    (Texted /\ FilesComplete => \A f \in Files : written[f] \in Seq(Parts))'
BY FilesHoldParts, PTL

\* The next file, or the medium.
LEMMA NextFileStep ==
    ASSUME IInv, phase = "encrypt", NextFile, UNCHANGED <<text, edits, pos, output>>,
           tape' = written', DOMAIN written' = Files, written'[2] = <<>> \/ file = 2,
           FilesComplete'
    PROVE  IInv'
<1>1. Texted' /\ Texted
  BY DEF IInv, Texted, NextFile, Files
<1>2. \A f \in Files : (written[f] \in Seq(Parts))'
  BY <1>1, NextFilesHoldParts
<1>3. Written'
  BY <1>2 DEF Written, Files
<1>4. CASE file = 1
  <2>1. /\ phase' = "encrypt" /\ file' = 2 /\ index' = 0 /\ total' = 0
        /\ rest' = text[2] /\ temp' = <<Header(2)>> /\ text' = text
    BY <1>4 DEF NextFile
  <2>2. text[2] \in Seq(Nat)
    BY <1>1, TextType DEF Files
  <2>3. End(text[2], 0) = 0 /\ SubSeq(text[2], 1, Len(text[2])) = text[2]
    BY <2>2, EndProperties, SubSeqFull
  <2>4. HeadOf(2, 0) = <<Header(2)>>
    <3>1. HeadOf(2, 0) = [i \in 1 .. 1 |-> Header(2)]
      BY DEF HeadOf, PartOf
    <3>2. QED
      BY <3>1
  <2>5. HeadOf(file, index)' = HeadOf(2, 0) /\ End(text[file], index)' = End(text[2], 0)
    BY <2>1 DEF HeadOf, PartOf, Piece, End
  <2>6. 0 \in 0 .. MaxRecords
    BY ContainerAssumption
  <2>7. Encrypting'
    BY <1>4, <2>1, <2>3, <2>4, <2>5, <2>6 DEF Encrypting
  <2>8. Decrypting' /\ RoundTrip' /\ DetectsDamage'
    BY <2>1 DEF IInv, Decrypting, RoundTrip, DetectsDamage, Running
  <2>9. QED
    BY <1>1, <1>3, <2>7, <2>8 DEF IInv
<1>5. CASE file = 2
  <2>1. phase' = "medium" /\ index' = 0 /\ total' = 0 /\ temp' = <<>>
    BY <1>5 DEF NextFile
  <2>2. Encrypting' /\ Decrypting' /\ RoundTrip' /\ DetectsDamage'
    BY <2>1 DEF IInv, Encrypting, Decrypting, RoundTrip, DetectsDamage, Running
  <2>3. QED
    BY <1>1, <1>3, <2>2 DEF IInv
<1>6. QED
  BY <1>1, <1>4, <1>5 DEF Texted, Files

\* An encryption that fails keeps the invariant.
LEMMA EncryptFailsStep == IInv /\ EncryptFails => IInv'
<1> SUFFICES ASSUME IInv, EncryptFails PROVE IInv'
  OBVIOUS
<1>1. phase = "encrypt" /\ NextFile /\ UNCHANGED <<text, tape, written, edits, pos, output>>
  BY DEF EncryptFails
<1>2. tape = written /\ written[2] = <<>> /\ DOMAIN written = Files
  BY <1>1 DEF IInv, Encrypting, Written
<1>3. FilesComplete'
  BY <1>1, PartsStay DEF IInv, Written, FilesComplete
<1>4. QED
  BY <1>1, <1>2, <1>3, NextFileStep

\* Writing the manifest keeps the invariant.
LEMMA EncryptManifestStep == IInv /\ EncryptManifest => IInv'
<1> SUFFICES ASSUME IInv, EncryptManifest PROVE IInv'
  OBVIOUS
<1> DEFINE t == text[file]
<1>1. /\ phase = "encrypt" /\ rest = <<>> /\ NextFile /\ UNCHANGED <<text, edits, pos, output>>
      /\ written' = [tape EXCEPT ![file] = Append(temp, Manifest(Header(file), total, index, temp))]
      /\ tape' = written'
  BY DEF EncryptManifest
<1>2. /\ index \in 0 .. MaxRecords /\ index \in Nat
      /\ total = End(t, index) /\ rest = SubSeq(t, total + 1, Len(t)) /\ temp = HeadOf(file, index)
      /\ tape = written /\ written[2] = <<>>
  BY <1>1, ContainerAssumption DEF IInv, Encrypting
<1>3. file \in Files /\ t \in Seq(Nat) /\ DOMAIN written = Files
  BY TextType DEF IInv, Texted, Written
<1>4. total = Len(t)
  <2>1. total \in 0 .. Len(t) /\ Len(t) \in Nat
    BY <1>2, <1>3, EndProperties, LenProperties
  <2>2. \A i \in total + 1 .. Len(t) : t[i] \in Nat
    BY <2>1, <1>3, ElementOfSeq
  <2>3. Len(rest) = IF total + 1 =< Len(t) THEN Len(t) - (total + 1) + 1 ELSE 0
    BY <1>2, <2>1, <2>2, SubSeqProperties
  <2>4. Len(rest) = 0
    BY <1>1
  <2>5. QED
    BY <2>1, <2>3, <2>4
<1>5. written'[file] = FileOf(file, index)
  BY <1>1, <1>2, <1>3, <1>4 DEF FileOf, LastOf
<1>6. ASSUME NEW f \in Files PROVE written'[f] = <<>> \/ \E n \in 0 .. MaxRecords : Complete(f, n)'
  <2>1. CASE f = file
    <3> DEFINE n == index
    <3>1. Len(text[f]) = End(text[f], n)
      BY <1>2, <1>4, <2>1
    <3>2. n \in 0 .. MaxRecords /\ written'[f] = FileOf(f, n)
      BY <1>2, <1>5, <2>1
    <3> HIDE DEF n
    <3>3. ASSUME NEW k \in 0 .. MaxRecords, k = n PROVE Complete(f, k)'
      BY <1>1, <3>1, <3>2, <3>3 DEF Complete, End, FileOf, HeadOf, LastOf, PartOf, Piece
    <3>4. QED
      BY <3>2, <3>3
  <2>2. CASE f # file
    <3>1. written'[f] = written[f]
      BY <1>1, <1>2, <1>3, <2>2
    <3>2. ASSUME NEW n \in 0 .. MaxRecords, Complete(f, n) PROVE Complete(f, n)'
      BY <1>1, <3>1, <3>2 DEF Complete, End, FileOf, HeadOf, LastOf, PartOf, Piece
    <3>3. QED
      BY <3>1, <3>2 DEF IInv, Written, FilesComplete
  <2>3. QED
    BY <2>1, <2>2
<1>7. FilesComplete'
  BY <1>6 DEF FilesComplete
<1>8. DOMAIN written' = Files /\ (written'[2] = <<>> \/ file = 2)
  BY <1>1, <1>2, <1>3
<1>9. QED
  BY <1>1, <1>7, <1>8, NextFileStep

-----------------------------------------------------------------------------
(* decrypt_file *)

\* An undamaged file is read part by part.
LEMMA Undamaged ==
    ASSUME IInv, tape[1] = written[1], written[1] # <<>>
    PROVE  \E n \in 0 .. MaxRecords :
              /\ Complete(1, n) /\ Len(tape[1]) = n + 2 /\ tape[1][1] = Header(1)
              /\ \A k \in 0 .. n - 1 :
                    tape[1][k + 2] = Record(Header(1), k, Piece(text[1], k))
              /\ tape[1][n + 2] = LastOf(1, n)
              /\ SubSeq(tape[1], 1, n + 1) = HeadOf(1, n)
<1>1. 1 \in Files /\ Texted
  BY DEF Files, IInv
<1>2. PICK n \in 0 .. MaxRecords : Complete(1, n)
  BY <1>1 DEF IInv, Written, FilesComplete
<1>3. n \in Nat
  BY ContainerAssumption
<1>4. QED
  BY <1>1, <1>2, <1>3, FileProperties

\* A failure that leaves the first file, or an empty one, keeps the invariant.
LEMMA FailStep ==
    ASSUME IInv, phase \in {"medium", "decrypt"}, Fail,
           tape[1] = written[1] => written[1] = <<>>
    PROVE  IInv'
<1>1. /\ phase' = "done" /\ output' = [result |-> "error"]
      /\ UNCHANGED <<file, text, rest, temp, index, total, tape, written, edits, pos>>
  BY DEF Fail, Failed
<1>2. Parts' = Parts /\ \A f \in Files, n \in Nat : Complete(f, n)' <=> Complete(f, n)
  BY <1>1, PartsStay
<1>3. \A n \in 0 .. MaxRecords : n \in Nat
  BY ContainerAssumption
<1>4. Texted' /\ Encrypting' /\ Decrypting'
  BY <1>1 DEF IInv, Texted, Encrypting, Decrypting
<1>5. Written'
  BY <1>1, <1>2, <1>3 DEF IInv, Written, FilesComplete
<1>6. output'.result # "ok"
  BY <1>1
<1>7. RoundTrip' /\ DetectsDamage'
  BY <1>1, <1>6 DEF RoundTrip, DetectsDamage
<1>8. QED
  BY <1>4, <1>5, <1>7 DEF IInv

\* Opening a file for decryption keeps the invariant.
LEMMA StartStep == IInv /\ StartDecrypt => IInv'
<1> SUFFICES ASSUME IInv, StartDecrypt PROVE IInv'
  OBVIOUS
<1>1. phase = "medium" /\ tape[1] \in Seq(Parts)
  BY TapesHoldParts DEF StartDecrypt, Files
<1>2. CASE tape[1] # <<>> /\ tape[1][1].kind = "header"
  <2>1. /\ phase' = "decrypt" /\ pos' = 2
        /\ UNCHANGED <<file, text, rest, temp, index, total, tape, written, edits, output>>
    BY <1>2 DEF StartDecrypt
  <2>2. Parts' = Parts /\ \A f \in Files, n \in Nat : Complete(f, n)' <=> Complete(f, n)
    BY <2>1, PartsStay
  <2>3. temp = <<>> /\ index = 0 /\ total = 0 /\ output = Running
    BY <1>1 DEF IInv, Decrypting
  <2>4. tape[1][1] \in Parts
    BY <1>1, <1>2, EmptySeq, ElementOfSeq
  <2>5. PICK f \in Files : tape[1][1] = Header(f)
    BY <1>2, <2>4, KindsDiffer DEF Headers
  <2>6. Header(f).id = f /\ Header(f) \in Headers
    BY HeadersDiffer
  <2>7. text[f] \in Seq(Nat)
    BY TextType DEF IInv
  <2>8. End(text[f], 0) = 0 /\ SubSeq(text[f], 1, 0) = <<>>
    BY <2>7, EndProperties, SubSeqEmpty
  <2>9. End(text[f], index)' = 0 /\ MyHeader' = Header(f)
    BY <2>1, <2>3, <2>5, <2>8 DEF End, MyHeader
  <2>10. Decrypting'
    BY <1>2, <2>1, <2>3, <2>5, <2>6, <2>8, <2>9, ContainerAssumption
       DEF Decrypting, End, MyHeader, Headers
  <2>11. \A n \in 0 .. MaxRecords : n \in Nat
    BY ContainerAssumption
  <2>12. Texted' /\ Encrypting' /\ Written'
    BY <1>1, <2>1, <2>2, <2>11 DEF IInv, Texted, Encrypting, Written, FilesComplete
  <2>13. RoundTrip' /\ DetectsDamage'
    BY <2>1, <2>3 DEF RoundTrip, DetectsDamage, Running
  <2>14. QED
    BY <2>10, <2>12, <2>13 DEF IInv
<1>3. CASE ~(tape[1] # <<>> /\ tape[1][1].kind = "header")
  <2>1. Fail
    BY <1>3 DEF StartDecrypt
  <2>2. ASSUME tape[1] = written[1], written[1] # <<>> PROVE FALSE
    <3>1. tape[1][1] = Header(1)
      BY <2>2, Undamaged
    <3>2. QED
      BY <1>3, <2>2, <3>1 DEF Header
  <2>3. QED
    BY <1>1, <2>1, <2>2, FailStep
<1>4. QED
  BY <1>2, <1>3

\* The next part, and the file it should be of.
LEMMA Reading ==
    ASSUME IInv, phase = "decrypt"
    PROVE  /\ tape[1] \in Seq(Parts) /\ Len(tape[1]) \in Nat /\ tape[1] # <<>>
           /\ index \in 0 .. MaxRecords /\ index \in Nat /\ MaxRecords \in Nat /\ pos = index + 2
           /\ pos =< Len(tape[1]) => Part \in Parts
           /\ MyHeader.id \in Files /\ MyHeader = Header(MyHeader.id)
           /\ text[MyHeader.id] \in Seq(Nat)
<1>1. tape[1] \in Seq(Parts)
  BY TapesHoldParts DEF Files
<1>2. Len(tape[1]) \in Nat
  BY <1>1, LenProperties
<1>3. /\ index \in 0 .. MaxRecords /\ pos = index + 2 /\ MyHeader \in Headers /\ tape[1] # <<>>
      /\ MaxRecords \in Nat
  BY ContainerAssumption DEF IInv, Decrypting
<1>4. index \in Nat
  BY <1>3
<1>5. ASSUME pos =< Len(tape[1]) PROVE Part \in Parts
  <2>1. pos \in 1 .. Len(tape[1])
    BY <1>2, <1>3, <1>4, <1>5
  <2>2. QED
    BY <1>1, <2>1, ElementOfSeq DEF Part
<1>6. PICK f \in Files : MyHeader = Header(f)
  BY <1>3 DEF Headers
<1>7. MyHeader.id = f
  BY <1>6, HeadersDiffer
<1>8. text[f] \in Seq(Nat)
  BY TextType DEF IInv
<1>9. QED
  BY <1>1, <1>2, <1>3, <1>4, <1>5, <1>6, <1>7, <1>8

\* Where an undamaged file is read.
LEMMA ReadingUndamaged ==
    ASSUME IInv, phase = "decrypt", tape[1] = written[1], written[1] # <<>>
    PROVE  /\ pos =< Len(tape[1]) /\ MyHeader = Header(1)
           /\ \/ index < MaxRecords /\ Part = Record(Header(1), index, Piece(text[1], index))
              \/ /\ Part = LastOf(1, index) /\ pos = Len(tape[1])
                 /\ Len(text[1]) = End(text[1], index)
                 /\ SubSeq(tape[1], 1, pos - 1) = HeadOf(1, index)
<1>1. PICK n \in 0 .. MaxRecords :
         /\ Complete(1, n) /\ Len(tape[1]) = n + 2 /\ tape[1][1] = Header(1)
         /\ \A k \in 0 .. n - 1 :
               tape[1][k + 2] = Record(Header(1), k, Piece(text[1], k))
         /\ tape[1][n + 2] = LastOf(1, n)
         /\ SubSeq(tape[1], 1, n + 1) = HeadOf(1, n)
  BY Undamaged
<1>2. index \in Nat /\ n \in Nat /\ pos = index + 2 /\ MaxRecords \in Nat
  BY Reading
<1>3. index =< n
  BY <1>1, <1>2 DEF IInv, Decrypting
<1>4. CASE index < n
  <2>1. Part = Record(Header(1), index, Piece(text[1], index))
    BY <1>1, <1>2, <1>4 DEF Part
  <2>2. index < MaxRecords /\ pos =< Len(tape[1])
    BY <1>1, <1>2, <1>4
  <2>3. QED
    BY <1>1, <2>1, <2>2 DEF MyHeader
<1>5. CASE index = n
  <2>1. Part = LastOf(1, index) /\ pos = Len(tape[1]) /\ pos =< Len(tape[1]) /\ pos - 1 = n + 1
    BY <1>1, <1>2, <1>5 DEF Part
  <2>2. QED
    BY <1>1, <1>5, <2>1 DEF MyHeader, Complete
<1>6. QED
  BY <1>2, <1>3, <1>4, <1>5

\* Decrypting one data record keeps the invariant.
LEMMA DecryptRecordStep == IInv /\ DecryptRecord => IInv'
<1> SUFFICES ASSUME IInv, DecryptRecord PROVE IInv'
  OBVIOUS
<1> DEFINE f == MyHeader.id  t == text[f]
<1>1. phase = "decrypt" /\ pos =< Len(tape[1]) /\ Part.kind = "data"
  BY DEF DecryptRecord
<1>2. /\ index \in Nat /\ MaxRecords \in Nat /\ pos = index + 2 /\ Part \in DataParts
      /\ f \in Files /\ MyHeader = Header(f) /\ t \in Seq(Nat)
  BY <1>1, Reading, KindsDiffer
<1>3. CASE RecordOpens(Part)
  <2>1. /\ temp' = temp \o Part.body.text
        /\ index' = index + 1 /\ total' = total + Part.length /\ pos' = pos + 1
        /\ UNCHANGED <<phase, file, text, rest, tape, written, edits, output>>
    BY <1>3 DEF DecryptRecord
  <2>2. /\ Part.index = index /\ index < MaxRecords
        /\ Part.body.by = Header(f) /\ Part.body.index = index
        /\ Len(Part.body.text) = Part.length
    BY <1>2, <1>3 DEF RecordOpens
  <2>3. Part.body \in Bodies \cup {Junk}
    BY <1>2 DEF DataParts
  <2>4. Part.body # Junk
    BY <1>2, <2>2, HeadersDiffer DEF Junk
  <2>5. PICK g \in Files, k \in Nat : Part.body = Record(Header(g), k, Piece(text[g], k)).body
    BY <2>3, <2>4 DEF Bodies
  <2>6. Part.body.by = Header(g) /\ Part.body.index = k /\ Part.body.text = Piece(text[g], k)
    BY <2>5 DEF Record
  <2>7. g = f /\ k = index
    BY <1>2, <2>2, <2>6, HeadersDiffer
  <2>8. Part.body.text = Piece(t, index)
    BY <2>6, <2>7
  <2>9. total = End(t, index) /\ temp = SubSeq(t, 1, total)
    BY <1>1 DEF IInv, Decrypting
  <2>10. /\ SubSeq(t, 1, End(t, index)) \o Piece(t, index) = SubSeq(t, 1, End(t, index + 1))
         /\ Len(Piece(t, index)) = End(t, index + 1) - End(t, index)
         /\ End(t, index) \in Nat /\ End(t, index + 1) \in Nat
    <3> HIDE DEF t
    <3>1. Len(t) \in Nat
      BY <1>2, LenProperties
    <3>2. End(t, index) \in 0 .. Len(t) /\ End(t, index + 1) \in End(t, index) .. Len(t)
      BY <1>2, EndProperties
    <3>3. End(t, index) \in Nat /\ End(t, index + 1) \in Nat
      BY <3>1, <3>2
    <3>4. QED
      BY <1>2, <3>3, PieceProperties
  <2>11. total' = End(t, index + 1)
    BY <2>1, <2>2, <2>8, <2>9, <2>10
  <2>12. temp' = SubSeq(t, 1, total')
    BY <2>1, <2>8, <2>9, <2>10, <2>11
  <2>13. MyHeader' = MyHeader /\ End(text[MyHeader.id], index)' = End(t, index + 1)
    BY <2>1 DEF MyHeader, End
  <2>14. index' \in 0 .. MaxRecords /\ pos' = index' + 2
    BY <1>2, <2>1, <2>2
  <2>15. Parts' = Parts /\ \A h \in Files, n \in Nat : Complete(h, n)' <=> Complete(h, n)
    BY <2>1, PartsStay
  <2>16. ASSUME NEW n \in Nat, tape[1] = written[1], Complete(1, n) PROVE index + 1 =< n
    <3>1. 1 \in Files /\ Texted
      BY DEF Files, IInv
    <3>2. written[1][n + 2] = LastOf(1, n)
      BY <2>16, <3>1, FileProperties
    <3>3. LastOf(1, n).kind = "manifest"
      BY DEF LastOf, Manifest
    <3>4. index # n
      BY <1>1, <1>2, <2>16, <3>2, <3>3 DEF Part
    <3>5. index =< n
      BY <1>1, <2>16 DEF IInv, Decrypting
    <3>6. QED
      BY <1>2, <3>4, <3>5
  <2>17. \A n \in Nat : (tape[1] = written[1] /\ Complete(1, n))' => index' =< n
    BY <2>1, <2>15, <2>16 DEF Files
  <2>18. tape[1] # <<>> /\ MyHeader \in Headers /\ output = Running
    BY <1>1 DEF IInv, Decrypting
  <2>19. Decrypting'
    BY <1>1, <2>1, <2>11, <2>12, <2>13, <2>14, <2>17, <2>18 DEF Decrypting, Headers
  <2>20. \A n \in 0 .. MaxRecords : n \in Nat
    BY <1>2
  <2>21. Texted' /\ Encrypting' /\ Written'
    BY <1>1, <2>1, <2>15, <2>20 DEF IInv, Texted, Encrypting, Written, FilesComplete
  <2>22. RoundTrip' /\ DetectsDamage'
    BY <1>1, <2>1, <2>18 DEF RoundTrip, DetectsDamage, Running
  <2>23. QED
    BY <2>19, <2>21, <2>22 DEF IInv
<1>4. CASE ~RecordOpens(Part)
  <2>1. Fail
    BY <1>4 DEF DecryptRecord
  <2>2. ASSUME tape[1] = written[1], written[1] # <<>> PROVE FALSE
    <3> DEFINE r == Record(Header(1), index, Piece(text[1], index))
    <3>1. MyHeader = Header(1)
      BY <1>1, <2>2, ReadingUndamaged
    <3>2. LastOf(1, index).kind = "manifest"
      BY DEF LastOf, Manifest
    <3>3. index < MaxRecords /\ Part = r
      BY <1>1, <2>2, <3>2, ReadingUndamaged
    <3>4. text[1] \in Seq(Nat)
      BY <1>2, <3>1, HeadersDiffer DEF Files
    <3>5. Len(Piece(text[1], index)) =< ChunkSize
      BY <1>2, <3>4, PieceProperties, ContainerAssumption
    <3>6. /\ r.index = index /\ r.length = Len(Piece(text[1], index))
          /\ r.body.by = Header(1) /\ r.body.index = index /\ r.body.text = Piece(text[1], index)
      BY DEF Record
    <3> HIDE DEF r
    <3>7. RecordOpens(r)
      BY <3>1, <3>3, <3>5, <3>6 DEF RecordOpens
    <3>8. QED
      BY <1>4, <3>3, <3>7
  <2>3. QED
    BY <1>1, <2>1, <2>2, FailStep
<1>5. QED
  BY <1>3, <1>4

\* Checking the manifest keeps the invariant.
LEMMA DecryptManifestStep == IInv /\ DecryptManifest => IInv'
<1> SUFFICES ASSUME IInv, DecryptManifest PROVE IInv'
  OBVIOUS
<1> DEFINE f == MyHeader.id  t == text[f]
<1>1. phase = "decrypt" /\ pos =< Len(tape[1]) /\ Part.kind = "manifest"
  BY DEF DecryptManifest
<1>2. /\ index \in Nat /\ MaxRecords \in Nat /\ pos = index + 2 /\ Part \in LastParts
      /\ f \in Files /\ MyHeader = Header(f) /\ t \in Seq(Nat)
      /\ tape[1] \in Seq(Parts) /\ tape[1] # <<>>
  BY <1>1, Reading, KindsDiffer
<1>3. CASE ManifestOpens(Part) /\ pos = Len(tape[1])
  <2>1. /\ phase' = "done" /\ output' = [result |-> "ok", text |-> temp]
        /\ UNCHANGED <<file, text, rest, temp, index, total, tape, written, edits, pos>>
    BY <1>3 DEF DecryptManifest
  <2>2. /\ Part.body.by = Header(f)
        /\ Part.body.total = total /\ Part.body.count = index
        /\ Part.body.digest = SubSeq(tape[1], 1, pos - 1)
    BY <1>2, <1>3 DEF ManifestOpens
  <2>3. Part.body \in Seals \cup {Junk} /\ (Part.body # Junk => Sealed(Part.body))
    BY <1>2 DEF LastParts
  <2>4. Part = [kind |-> "manifest", body |-> Part.body]
    BY <1>2 DEF LastParts
  <2>5. Part.body # Junk
    BY <1>2, <2>2, HeadersDiffer DEF Junk
  <2>6. PICK g \in Files, m \in Nat : Part.body = LastOf(g, m).body
    BY <2>3, <2>5 DEF Seals
  <2>7. /\ Part.body.by = Header(g) /\ Part.body.total = Len(text[g])
        /\ Part.body.count = m /\ Part.body.digest = HeadOf(g, m)
        /\ LastOf(g, m) = [kind |-> "manifest", body |-> LastOf(g, m).body]
    BY <2>6 DEF LastOf, Manifest
  <2>8. g = f /\ m = index
    BY <1>2, <2>2, <2>7, HeadersDiffer
  <2>9. Part = LastOf(f, index)
    BY <2>4, <2>6, <2>7, <2>8
  <2>10. Complete(f, index)
    BY <1>2, <2>3, <2>5, <2>6, <2>8 DEF Sealed
  <2>11. tape[1] = written[f]
    <3> DEFINE a == tape[1]  b == written[f]
    <3>1. Texted
      BY DEF IInv
    <3>2. /\ b \in Seq(Parts) /\ Len(b) = index + 2 /\ b[index + 2] = LastOf(f, index)
          /\ SubSeq(b, 1, index + 1) = HeadOf(f, index)
      BY <1>2, <2>10, <3>1, FileProperties
    <3>3. a \in Seq(Parts) /\ Len(a) = index + 2 /\ a[index + 2] = LastOf(f, index)
      BY <1>2, <1>3, <2>9 DEF Part
    <3>4. pos - 1 = index + 1
      BY <1>2
    <3>5. SubSeq(a, 1, index + 1) = SubSeq(b, 1, index + 1)
      BY <2>2, <2>7, <2>8, <3>2, <3>4
    <3> HIDE DEF a, b
    <3>6. /\ \A i \in 1 .. index + 1 : a[i] \in Parts
          /\ \A i \in 1 .. index + 1 : b[i] \in Parts
      BY <1>2, <3>2, <3>3, ElementOfSeq
    <3>7. \A i \in 1 .. (index + 1) - 1 + 1 : SubSeq(a, 1, index + 1)[i] = a[1 + i - 1]
      BY <1>2, <3>6, SubSeqProperties
    <3>8. \A i \in 1 .. (index + 1) - 1 + 1 : SubSeq(b, 1, index + 1)[i] = b[1 + i - 1]
      BY <1>2, <3>6, SubSeqProperties
    <3>9. \A i \in 1 .. index + 1 : a[i] = b[i]
      BY <1>2, <3>5, <3>7, <3>8
    <3>10. \A i \in 1 .. index + 2 : a[i] = b[i]
      BY <1>2, <3>2, <3>3, <3>9
    <3>11. a = b
      BY <3>2, <3>3, <3>10, SeqEqual
    <3>12. QED
      BY <3>11 DEF a, b
  <2>12. temp = t
    <3>1. total = Len(t)
      BY <2>2, <2>7, <2>8
    <3>2. temp = SubSeq(t, 1, total)
      BY <1>1 DEF IInv, Decrypting
    <3>3. QED
      BY <1>2, <3>1, <3>2, SubSeqFull
  <2>13. DetectsDamage'
    BY <1>2, <2>1, <2>11, <2>12 DEF DetectsDamage
  <2>14. RoundTrip'
    <3> SUFFICES ASSUME tape[1] = written[1], written[1] # <<>>
                 PROVE  output' = [result |-> "ok", text |-> text[1]]
      BY <2>1 DEF RoundTrip
    <3>1. MyHeader = Header(1)
      BY <1>1, ReadingUndamaged
    <3>2. f = 1
      BY <3>1, HeadersDiffer DEF Files
    <3>3. QED
      BY <2>1, <2>12, <3>2
  <2>15. Parts' = Parts /\ \A h \in Files, n \in Nat : Complete(h, n)' <=> Complete(h, n)
    BY <2>1, PartsStay
  <2>16. \A n \in 0 .. MaxRecords : n \in Nat
    BY <1>2
  <2>17. Texted' /\ Encrypting' /\ Written' /\ Decrypting'
    BY <1>1, <2>1, <2>15, <2>16
       DEF IInv, Texted, Encrypting, Written, FilesComplete, Decrypting
  <2>18. QED
    BY <2>13, <2>14, <2>17 DEF IInv
<1>4. CASE ~(ManifestOpens(Part) /\ pos = Len(tape[1]))
  <2>1. Fail
    BY <1>4 DEF DecryptManifest
  <2>2. ASSUME tape[1] = written[1], written[1] # <<>> PROVE FALSE
    <3> DEFINE e == LastOf(1, index)
    <3>1. Record(Header(1), index, Piece(text[1], index)).kind = "data"
      BY DEF Record
    <3>2. /\ MyHeader = Header(1) /\ Part = e /\ pos = Len(tape[1])
          /\ Len(text[1]) = End(text[1], index)
          /\ SubSeq(tape[1], 1, pos - 1) = HeadOf(1, index)
      BY <1>1, <2>2, <3>1, ReadingUndamaged
    <3>3. total = End(text[1], index)
      <4>1. f = 1
        BY <3>2, HeadersDiffer DEF Files
      <4>2. total = End(t, index)
        BY <1>1 DEF IInv, Decrypting
      <4>3. QED
        BY <4>1, <4>2
    <3>4. /\ e.body.by = Header(1) /\ e.body.total = Len(text[1])
          /\ e.body.count = index /\ e.body.digest = HeadOf(1, index)
      BY DEF LastOf, Manifest
    <3> HIDE DEF e
    <3>5. ManifestOpens(e)
      BY <3>2, <3>3, <3>4 DEF ManifestOpens
    <3>6. QED
      BY <1>4, <3>2, <3>5
  <2>3. QED
    BY <1>1, <2>1, <2>2, FailStep
<1>5. QED
  BY <1>3, <1>4

\* A decryption that fails keeps the invariant.
LEMMA DecryptFailsStep == IInv /\ DecryptFails => IInv'
<1> SUFFICES ASSUME IInv, DecryptFails PROVE IInv'
  OBVIOUS
<1>1. /\ phase = "decrypt" /\ Fail
      /\ ~(pos =< Len(tape[1]) /\ Part.kind \in {"data", "manifest"})
  BY DEF DecryptFails
<1>2. Record(Header(1), index, Piece(text[1], index)).kind = "data"
  BY DEF Record
<1>3. LastOf(1, index).kind = "manifest"
  BY DEF LastOf, Manifest
<1>4. ASSUME tape[1] = written[1], written[1] # <<>> PROVE FALSE
  BY <1>1, <1>2, <1>3, <1>4, ReadingUndamaged
<1>5. QED
  BY <1>1, <1>4, FailStep

-----------------------------------------------------------------------------
(* The theorems *)

\* The invariant holds at the start.
LEMMA IInvInit == Init => IInv
<1> SUFFICES ASSUME Init PROVE IInv
  OBVIOUS
<1>1. /\ text \in [Files -> Texts] /\ file = 1 /\ phase = "encrypt" /\ rest = text[1]
      /\ temp = <<Header(1)>> /\ index = 0 /\ total = 0 /\ output = Running
      /\ written = [g \in Files |-> <<>>] /\ tape = written
  BY DEF Init
<1>2. Texted
  BY <1>1 DEF Texted, Files
<1>3. text[1] \in Seq(Nat)
  BY <1>2, TextType DEF Files
<1>4. End(text[1], 0) = 0 /\ SubSeq(text[1], 1, Len(text[1])) = text[1]
  BY <1>3, EndProperties, SubSeqFull
<1>5. HeadOf(1, 0) = <<Header(1)>>
  <2>1. HeadOf(1, 0) = [i \in 1 .. 1 |-> Header(1)]
    BY DEF HeadOf, PartOf
  <2>2. QED
    BY <2>1
<1>6. Encrypting
  BY <1>1, <1>4, <1>5, ContainerAssumption DEF Encrypting, Files
<1>7. Written
  BY <1>1 DEF Written, FilesComplete
<1>8. Decrypting /\ RoundTrip /\ DetectsDamage
  BY <1>1 DEF Decrypting, RoundTrip, DetectsDamage, Running
<1>9. QED
  BY <1>2, <1>6, <1>7, <1>8 DEF IInv

\* A step that changes nothing keeps the invariant.
LEMMA StutterStep == IInv /\ UNCHANGED vars => IInv'
<1> SUFFICES ASSUME IInv, UNCHANGED vars PROVE IInv'
  OBVIOUS
<1>1. UNCHANGED <<phase, file, text, rest, temp, index, total, tape, written, pos, output>>
  BY DEF vars
<1>2. Parts' = Parts /\ \A f \in Files, n \in Nat : Complete(f, n)' <=> Complete(f, n)
  BY <1>1, PartsStay
<1>3. \A n \in 0 .. MaxRecords : n \in Nat
  BY ContainerAssumption
<1>4. Written'
  BY <1>1, <1>2, <1>3 DEF IInv, Written, FilesComplete
<1>5. Encrypting'
  BY <1>1 DEF IInv, Encrypting, HeadOf, PartOf, Piece, End
<1>6. Decrypting'
  BY <1>1, <1>2 DEF IInv, Decrypting, MyHeader, End, Headers, Files
<1>7. Texted' /\ RoundTrip' /\ DetectsDamage'
  BY <1>1 DEF IInv, Texted, RoundTrip, DetectsDamage
<1>8. QED
  BY <1>4, <1>5, <1>6, <1>7 DEF IInv

\* Every step keeps the invariant.
LEMMA IInvStep == IInv /\ [Next]_vars => IInv'
<1> SUFFICES ASSUME IInv, [Next]_vars PROVE IInv'
  OBVIOUS
<1>1. CASE EncryptRecord
  BY <1>1, RecordStep
<1>2. CASE EncryptFails
  BY <1>2, EncryptFailsStep
<1>3. CASE EncryptManifest
  BY <1>3, EncryptManifestStep
<1>4. CASE Medium
  BY <1>4, MediumStep
<1>5. CASE StartDecrypt
  BY <1>5, StartStep
<1>6. CASE DecryptRecord
  BY <1>6, DecryptRecordStep
<1>7. CASE DecryptManifest
  BY <1>7, DecryptManifestStep
<1>8. CASE DecryptFails
  BY <1>8, DecryptFailsStep
<1>9. CASE Stop \/ UNCHANGED vars
  BY <1>9, StutterStep DEF Stop
<1>10. QED
  BY <1>1, <1>2, <1>3, <1>4, <1>5, <1>6, <1>7, <1>8, <1>9 DEF Next, Decrypt

\* The inductive invariant holds in every reachable state.
LEMMA Invariance == Spec => []IInv
BY IInvInit, IInvStep, PTL DEF Spec

\* decrypt_file gives back the plaintext of every file that encrypt_file wrote
\* and that reaches it undamaged.
THEOREM FilesAreReadBack == Spec => []RoundTrip
<1>1. IInv => RoundTrip
  BY DEF IInv
<1>2. QED
  BY <1>1, Invariance, PTL

\* Decrypted output exists only for a file that is, part for part, one that
\* encrypt_file wrote, and is the whole of its plaintext, however much was
\* lost, repeated, exchanged, mixed or altered.
THEOREM DamageIsDetected == Spec => []DetectsDamage
<1>1. IInv => DetectsDamage
  BY DEF IInv
<1>2. QED
  BY <1>1, Invariance, PTL

\* The temporary file holds a beginning of the right plaintext at all times.
THEOREM OutputGrowsInOrder == Spec => []TempIsPrefix
<1>1. IInv => TempIsPrefix
  <2> SUFFICES ASSUME IInv, phase = "decrypt"
               PROVE  IsPrefix(temp, text[MyHeader.id]) /\ total = Len(temp)
    BY DEF TempIsPrefix
  <2> DEFINE t == text[MyHeader.id]
  <2>1. t \in Seq(Nat) /\ index \in Nat
    BY Reading
  <2>2. total = End(t, index) /\ temp = SubSeq(t, 1, total)
    BY DEF IInv, Decrypting
  <2>3. Len(temp) = total /\ total \in 0 .. Len(t) /\ Len(t) \in Nat
    BY <2>1, <2>2, PieceProperties, EndProperties, LenProperties
  <2>4. temp \in Seq(Nat)
    <3>1. \A i \in 1 .. total : t[i] \in Nat
      BY <2>1, <2>3, ElementOfSeq
    <3> HIDE DEF t
    <3>2. QED
      BY <2>2, <2>3, <3>1, SubSeqProperties
  <2>5. SubSeq(temp, 1, Len(temp)) = SubSeq(t, 1, Len(temp))
    BY <2>2, <2>3, <2>4, SubSeqFull
  <2>6. QED
    BY <2>3, <2>5 DEF IsPrefix
<1>2. QED
  BY <1>1, Invariance, PTL

=============================================================================
