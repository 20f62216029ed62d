------------------------ MODULE FileValidationProofs ------------------------
(***************************************************************************)
(* The verdict on an upload is about the whole file, whatever its length,  *)
(* the sizes of chunks and samples, the categories and the test string.    *)
(*                                                                         *)
(* The properties speak of the end of the checks.  The invariant is what   *)
(* the loop of read_and_validate_stream maintains (Reading): the position  *)
(* is the number of bytes counted, the head is the start of the file, a    *)
(* chunk starts at a multiple of the chunk size, and the test string is    *)
(* not within any chunk read; and what is left of it behind the loop.      *)
(***************************************************************************)
EXTENDS FileValidation, SequenceTheorems, WellFoundedInduction, TLAPS

Verdict ==
  {"reading", "too_large", "infected", "empty", "mismatch", "sample", "not_utf8",
   "no_rows", "error", "no_columns", "accepted"}

TypeOK ==
  /\ file \in Seq(Byte) /\ category \in Categories
  /\ pos \in Nat /\ total \in Nat /\ head \in Seq(Byte)
  /\ verdict \in Verdict

\* The test string is in the file, from offset i on, and across two chunks.
AcrossChunks(i) == i \div ChunkSize # (i + Len(Virus) - 1) \div ChunkSize

\* A chunk starts here.
AtChunk == \E q \in 0..pos : pos = q * ChunkSize

\* The head is the start of the file, as far as it has been read.
HeadIsStart ==
  /\ Len(head) = Lesser(HeadSize, pos)
  /\ \A k \in 1..Len(head) : head[k] = file[k]

\* What has been read holds the test string across chunks only.
ScannedSoFar ==
  \A i \in 0..Len(file) :
    IsAt(file, i, Virus) /\ pos > 0 /\ i + Len(Virus) <= pos => AcrossChunks(i)

\* In the loop of read_and_validate_stream.
Reading ==
  verdict = "reading" =>
    /\ pos = total /\ pos <= Len(file) /\ total <= category.max_size_bytes
    /\ AtChunk \/ pos = Len(file)
    /\ HeadIsStart /\ ScannedSoFar

\* After it.
Rewound ==
  verdict = "sample" =>
    /\ pos = 0 /\ total = Len(file)
    /\ Len(file) \in 1..category.max_size_bytes
    /\ signature_check(category, file)

Inv ==
  /\ TypeOK /\ Reading /\ Rewound
  /\ AcceptedIsSound /\ RefusedForCause /\ MissedOnlyAcrossChunks

-----------------------------------------------------------------------------
(* Sequences *)

\* A non-empty set of natural numbers has a least element.
LEMMA LeastNumber == ASSUME NEW S \in SUBSET Nat, S # {}
                     PROVE  \E x \in S : \A y \in S : x <= y
<1> DEFINE R == OpToRel(<, Nat)
<1>1. IsWellFoundedOn(R, Nat)
  BY NatLessThanWellFounded
<1>2. R = {s \in Nat \X Nat : s[1] < s[2]}
  BY DEF OpToRel
<1> HIDE DEF R
<1>3. PICK x \in S : \A y \in S : ~ (<<y, x>> \in R)
  BY <1>1, WFMin
<1>4. ASSUME NEW y \in S PROVE x <= y
  <2>1. y < x => <<y, x>> \in R
    BY <1>2
  <2>2. QED
    BY <2>1, <1>3
<1>5. QED
  BY <1>4

\* A piece of a sequence, element by element.
LEMMA Piece ==
  ASSUME NEW s \in Seq(Byte), NEW i \in Nat, NEW n \in Nat, i <= n, n <= Len(s)
  PROVE  /\ SubSeq(s, i + 1, n) \in Seq(Byte)
         /\ Len(SubSeq(s, i + 1, n)) = n - i
         /\ \A k \in 1..n - i : SubSeq(s, i + 1, n)[k] = s[i + k]
<1>1. Len(s) \in Nat /\ \A k \in 1..Len(s) : s[k] \in Byte
  BY LenProperties, ElementOfSeq
<1>2. i + 1 \in Int /\ n \in Int /\ \A k \in i + 1..n : s[k] \in Byte
  BY <1>1
<1> DEFINE t == SubSeq(s, i + 1, n)
<1>3. /\ t \in Seq(Byte) /\ Len(t) = (IF i + 1 <= n THEN n - (i + 1) + 1 ELSE 0)
      /\ \A k \in 1..n - (i + 1) + 1 : t[k] = s[i + 1 + k - 1]
  BY <1>2, SubSeqProperties
<1> HIDE DEF t
<1>4. Len(t) = n - i /\ n - (i + 1) + 1 = n - i
  BY <1>3
<1>5. \A k \in 1..n - i : t[k] = s[i + k]
  BY <1>3, <1>4
<1>6. QED
  BY <1>3, <1>4, <1>5 DEF t

\* One string is found in another where their bytes agree.
LEMMA FoundAt ==
  ASSUME NEW s \in Seq(Byte), NEW t \in Seq(Byte), NEW i \in Nat
  PROVE  IsAt(s, i, t) <=> i + Len(t) <= Len(s) /\ \A k \in 1..Len(t) : s[i + k] = t[k]
<1>1. Len(s) \in Nat /\ Len(t) \in Nat
  BY LenProperties
<1>2. SUFFICES ASSUME i + Len(t) <= Len(s)
               PROVE  SubSeq(s, i + 1, i + Len(t)) = t <=> \A k \in 1..Len(t) : s[i + k] = t[k]
  BY DEF IsAt
<1> DEFINE u == SubSeq(s, i + 1, i + Len(t))
<1>3. i + Len(t) \in Nat /\ i <= i + Len(t) /\ i + Len(t) - i = Len(t)
  BY <1>1
<1>4. u \in Seq(Byte) /\ Len(u) = Len(t) /\ \A k \in 1..Len(t) : u[k] = s[i + k]
  BY <1>2, <1>3, Piece
<1> HIDE DEF u
<1>5. (\A k \in 1..Len(t) : u[k] = t[k]) => u = t
  <2>1. DOMAIN u = 1..Len(t) /\ DOMAIN t = 1..Len(t) /\ u \in [1..Len(t) -> Byte] /\ t \in [1..Len(t) -> Byte]
    BY <1>4, LenProperties
  <2>2. QED
    BY <2>1
<1>6. QED
  BY <1>4, <1>5 DEF u

\* What upload.read(n) returns: the bytes from the position on.
LEMMA ChunkRead ==
  ASSUME TypeOK, pos <= Len(file), NEW n \in Nat, NEW chunk, chunk = ReadBytes(n)
  PROVE  /\ chunk \in Seq(Byte) /\ Len(chunk) \in Nat
         /\ pos + Len(chunk) = Lesser(pos + n, Len(file))
         /\ \A k \in 1..Len(chunk) : chunk[k] = file[pos + k]
         /\ chunk = <<>> <=> Len(chunk) = 0
<1>1. Len(file) \in Nat /\ pos \in Nat /\ file \in Seq(Byte)
  BY LenProperties DEF TypeOK
<1> DEFINE last == Lesser(pos + n, Len(file))
<1>2. last \in Nat /\ pos <= last /\ last <= Len(file)
  BY <1>1 DEF Lesser
<1> HIDE DEF last
<1>3. chunk = SubSeq(file, pos + 1, last)
  BY DEF ReadBytes, last
<1>4. chunk \in Seq(Byte) /\ Len(chunk) = last - pos /\ \A k \in 1..last - pos : chunk[k] = file[pos + k]
  BY <1>1, <1>2, <1>3, Piece
<1>5. chunk = <<>> <=> Len(chunk) = 0
  BY <1>4, EmptySeq
<1>6. QED
  BY <1>1, <1>2, <1>4, <1>5 DEF last

\* The chunk holds a string where the file does.
LEMMA FoundInChunk ==
  ASSUME TypeOK, NEW chunk \in Seq(Byte), NEW t \in Seq(Byte), NEW i \in Nat,
         pos + Len(chunk) <= Len(file),
         \A k \in 1..Len(chunk) : chunk[k] = file[pos + k]
  PROVE  IsAt(chunk, i, t) <=> IsAt(file, pos + i, t) /\ i + Len(t) <= Len(chunk)
<1>1. Len(file) \in Nat /\ pos \in Nat /\ file \in Seq(Byte) /\ Len(chunk) \in Nat /\ Len(t) \in Nat
      /\ pos + i \in Nat
  BY LenProperties DEF TypeOK
<1>2. IsAt(chunk, i, t) <=> i + Len(t) <= Len(chunk) /\ \A k \in 1..Len(t) : chunk[i + k] = t[k]
  BY FoundAt
<1>3. IsAt(file, pos + i, t) <=>
        pos + i + Len(t) <= Len(file) /\ \A k \in 1..Len(t) : file[pos + i + k] = t[k]
  BY <1>1, FoundAt
<1>4. ASSUME i + Len(t) <= Len(chunk), NEW k \in 1..Len(t) PROVE chunk[i + k] = file[pos + i + k]
  <2>1. i + k \in 1..Len(chunk) /\ pos + (i + k) = pos + i + k
    BY <1>1, <1>4
  <2>2. QED
    BY <2>1
<1>5. i + Len(t) <= Len(chunk) => pos + i + Len(t) <= Len(file)
  BY <1>1
<1>6. QED
  BY <1>2, <1>3, <1>4, <1>5

\* The magic bytes lie within the head: to look at the head is to look at the
\* file, once the head is filled or the file read to its end.
LEMMA HeadDecides ==
  ASSUME TypeOK, HeadIsStart, pos = Len(file)
  PROVE  signature_check(category, head) <=> signature_check(category, file)
<1>1. /\ Len(file) \in Nat /\ Len(head) \in Nat /\ file \in Seq(Byte) /\ head \in Seq(Byte)
      /\ HeadSize \in Nat /\ Len(head) <= Len(file) /\ Len(head) = Lesser(HeadSize, Len(file))
  BY LenProperties, CategoriesAssumption DEF TypeOK, HeadIsStart, Lesser
<1>2. ASSUME NEW alt \in category.signature, NEW p \in alt
      PROVE  IsAt(head, p.at, p.bytes) <=> IsAt(file, p.at, p.bytes)
  <2>1. p.at \in Nat /\ p.bytes \in Seq(Byte) /\ p.at + Len(p.bytes) <= HeadSize
    <3>1. category \in Category /\ category \in Categories
      BY CategoriesAssumption DEF TypeOK
    <3>2. p \in [at : Nat, bytes : Seq(Byte)]
      BY <1>2, <3>1 DEF Category
    <3>3. QED
      BY <3>1, <3>2, <1>2, CategoriesAssumption
  <2>2. Len(p.bytes) \in Nat
    BY <2>1, LenProperties
  <2>3. IsAt(head, p.at, p.bytes) <=>
          p.at + Len(p.bytes) <= Len(head) /\ \A k \in 1..Len(p.bytes) : head[p.at + k] = p.bytes[k]
    BY <1>1, <2>1, FoundAt
  <2>4. IsAt(file, p.at, p.bytes) <=>
          p.at + Len(p.bytes) <= Len(file) /\ \A k \in 1..Len(p.bytes) : file[p.at + k] = p.bytes[k]
    BY <1>1, <2>1, FoundAt
  <2>5. p.at + Len(p.bytes) <= Len(head) <=> p.at + Len(p.bytes) <= Len(file)
    BY <1>1, <2>1, <2>2 DEF Lesser
  <2>6. ASSUME p.at + Len(p.bytes) <= Len(head), NEW k \in 1..Len(p.bytes)
        PROVE  head[p.at + k] = file[p.at + k]
    <3>1. p.at + k \in 1..Len(head)
      BY <1>1, <2>1, <2>2, <2>6
    <3>2. QED
      BY <3>1 DEF HeadIsStart
  <2>7. QED
    BY <2>3, <2>4, <2>5, <2>6
<1>3. QED
  BY <1>2 DEF signature_check

-----------------------------------------------------------------------------
(* The sample of a CSV file *)

\* What csv.reader makes of a sample that is not empty.
LEMMA FirstRowOf ==
  ASSUME NEW s \in Seq(Byte), s # <<>>
  PROVE  /\ FirstRow(s) \in {"csv.Error", "empty", "row"}
         /\ FirstRow(s) = "empty" => s[1] \in {"r", "n"}
         /\ FirstRow(s) = "csv.Error" =>
              \E i \in 1..Len(s) - 1 : s[i] = "r" /\ s[i + 1] # "n"
<1> DEFINE lf == {i \in 1..Len(s) : s[i] = "n"}
           first == CHOOSE i \in lf : \A k \in lf : i <= k
           line == IF lf = {} THEN s ELSE Prefix(s, first)
           ends(i) == line[i] \in {"r", "n"}
           broken == \E i \in 1..Len(line) - 1 : ends(i) /\ ~ends(i + 1)
<1>1. Len(s) \in Nat /\ Len(s) >= 1
  BY LenProperties, EmptySeq
<1>2. lf # {} => first \in lf /\ \A k \in lf : first <= k
  <2>1. lf \in SUBSET Nat
    BY <1>1
  <2> HIDE DEF lf
  <2>2. lf # {} => \E i \in lf : \A k \in lf : i <= k
    BY <2>1, LeastNumber
  <2>3. QED
    BY <2>2
\* The line is the start of the sample, up to the first LF.
<1>3. /\ Len(line) \in 1..Len(s)
      /\ \A i \in 1..Len(line) : line[i] = s[i]
      /\ \A i \in 1..Len(line) - 1 : s[i] # "n"
  <2>1. CASE lf = {}
    BY <1>1, <2>1
  <2>2. CASE lf # {}
    <3>1. first \in 1..Len(s) /\ \A k \in 1..Len(s) : s[k] = "n" => first <= k
      BY <1>2, <2>2
    <3> HIDE DEF first
    <3>2. Lesser(first, Len(s)) = first /\ first \in Nat /\ 0 \in Nat /\ 0 <= first /\ first <= Len(s)
      BY <1>1, <3>1 DEF Lesser
    <3>3. Prefix(s, first) = SubSeq(s, 0 + 1, first)
      BY <3>2 DEF Prefix
    <3>4. Len(Prefix(s, first)) = first - 0 /\ \A k \in 1..first - 0 : Prefix(s, first)[k] = s[0 + k]
      BY <3>2, <3>3, Piece
    <3>5. line = Prefix(s, first)
      BY <2>2
    <3> HIDE DEF line
    <3>6. QED
      BY <1>1, <3>1, <3>2, <3>4, <3>5
  <2>3. QED
    BY <2>1, <2>2
<1>4. FirstRow(s) = IF broken THEN "csv.Error"
                    ELSE IF \A i \in 1..Len(line) : ends(i) THEN "empty" ELSE "row"
  BY DEF FirstRow
<1> HIDE DEF line
<1>5. 1 \in 1..Len(line)
  BY <1>3
<1>6. FirstRow(s) = "empty" => s[1] \in {"r", "n"}
  BY <1>3, <1>4, <1>5
<1>7. ASSUME FirstRow(s) = "csv.Error"
      PROVE  \E i \in 1..Len(s) - 1 : s[i] = "r" /\ s[i + 1] # "n"
  <2>1. broken
    BY <1>4, <1>7
  <2>2. PICK i \in 1..Len(line) - 1 : line[i] \in {"r", "n"} /\ line[i + 1] \notin {"r", "n"}
    BY <2>1
  <2>3. i \in 1..Len(s) - 1 /\ i \in 1..Len(line) /\ i + 1 \in 1..Len(line)
    BY <1>1, <1>3
  <2>4. QED
    BY <1>3, <2>2, <2>3
<1>8. QED
  BY <1>4, <1>6, <1>7

\* The sample is the start of the file.
LEMMA SampleRead ==
  ASSUME TypeOK, pos = 0, file # <<>>, NEW sample, sample = ReadBytes(SampleSize)
  PROVE  /\ sample \in Seq(Byte) /\ sample # <<>> /\ Len(sample) = Lesser(SampleSize, Len(file))
         /\ \A k \in 1..Len(sample) : sample[k] = file[k]
<1>1. Len(file) \in Nat /\ Len(file) >= 1 /\ pos <= Len(file) /\ SampleSize \in Nat /\ SampleSize >= 1
  BY LenProperties, EmptySeq, CategoriesAssumption DEF TypeOK
<1>2. /\ sample \in Seq(Byte) /\ Len(sample) \in Nat
      /\ pos + Len(sample) = Lesser(pos + SampleSize, Len(file))
      /\ \A k \in 1..Len(sample) : sample[k] = file[pos + k]
      /\ sample = <<>> <=> Len(sample) = 0
  BY <1>1, ChunkRead
<1>3. Len(sample) = Lesser(SampleSize, Len(file)) /\ \A k \in 1..Len(sample) : sample[k] = file[k]
  BY <1>1, <1>2
<1>4. QED
  BY <1>1, <1>2, <1>3 DEF Lesser

\* A sample that does not decode is from a file that does not, or ends within a
\* character.
LEMMA SampleDecodes ==
  ASSUME TypeOK, NEW sample \in Seq(Byte), Len(sample) = Lesser(SampleSize, Len(file)),
         \A k \in 1..Len(sample) : sample[k] = file[k],
         Decodes(file), ~Decodes(sample)
  PROVE  Len(file) > SampleSize /\ file[SampleSize] = "h"
<1>1. Len(file) \in Nat /\ Len(sample) \in Nat /\ SampleSize \in Nat
      /\ Len(sample) <= Len(file) /\ (Len(sample) < Len(file) => Len(sample) = SampleSize)
  BY LenProperties, CategoriesAssumption DEF TypeOK, Lesser
<1>2. ASSUME NEW i \in 1..Len(sample), sample[i] = "t" PROVE i > 1 /\ sample[i - 1] = "h"
  <2>1. file[i] = "t" /\ i \in 1..Len(file)
    BY <1>1, <1>2
  <2>2. i > 1 /\ file[i - 1] = "h"
    BY <2>1 DEF Decodes
  <2>3. i - 1 \in 1..Len(sample)
    BY <1>1, <2>2
  <2>4. QED
    BY <2>2, <2>3
<1>3. PICK i \in 1..Len(sample) : sample[i] = "h" /\ ~ (i < Len(sample) /\ sample[i + 1] = "t")
  BY <1>2 DEF Decodes
<1>4. file[i] = "h" /\ i \in 1..Len(file)
  BY <1>1, <1>3
<1>5. i < Len(file) /\ file[i + 1] = "t"
  BY <1>4 DEF Decodes
<1>6. i = Len(sample)
  <2>1. i < Len(sample) => i + 1 \in 1..Len(sample)
    BY <1>1
  <2>2. QED
    BY <1>1, <1>3, <1>5, <2>1
<1>7. QED
  BY <1>1, <1>4, <1>5, <1>6

-----------------------------------------------------------------------------
(* The steps *)

\* At the start nothing is read.
LEMMA InvInit == ChecksInit => Inv
<1> SUFFICES ASSUME ChecksInit PROVE Inv
    OBVIOUS
<1>1. file \in Seq(Byte)
  <2>1. PICK n \in 0..MaxFile : file \in [1..n -> Byte]
    BY DEF ChecksInit
  <2>2. n \in Nat
    BY CategoriesAssumption
  <2>3. QED
    BY <2>1, <2>2, SeqDef
<1>2. Len(file) \in Nat /\ Len(head) = 0 /\ 1..Len(head) = {} /\ head \in Seq(Byte)
  BY <1>1, LenProperties, EmptySeq DEF ChecksInit
<1>3. TypeOK
  BY <1>1, <1>2 DEF ChecksInit, TypeOK, Verdict
<1>4. HeadIsStart /\ ScannedSoFar /\ AtChunk
  <2>1. Lesser(HeadSize, 0) = 0 /\ 0 = 0 * ChunkSize /\ 0 \in 0..0
    BY CategoriesAssumption DEF Lesser
  <2>2. QED
    BY <1>2, <2>1 DEF ChecksInit, HeadIsStart, ScannedSoFar, AtChunk
<1>5. category.max_size_bytes \in Nat
  BY CategoriesAssumption DEF ChecksInit, Category
<1>6. Reading
  BY <1>2, <1>4, <1>5 DEF ChecksInit, Reading
<1>7. QED
  BY <1>3, <1>6 DEF ChecksInit, Inv, Rewound, AcceptedIsSound, RefusedForCause, MissedOnlyAcrossChunks

\* Numbers on both sides of a multiple of the chunk size are in two chunks.
LEMMA TwoChunks ==
  ASSUME NEW q \in Nat, NEW i \in Nat, NEW j \in Nat, i < q * ChunkSize, q * ChunkSize <= j
  PROVE  i \div ChunkSize # j \div ChunkSize
<1> DEFINE c == ChunkSize
<1>1. c \in Nat /\ c > 0
  BY CategoriesAssumption
<1> HIDE DEF c
<1> SUFFICES ASSUME i < q * c, q * c <= j PROVE i \div c # j \div c
  BY DEF c
<1>2. i \div c \in Int /\ i = c * (i \div c) + (i % c) /\ i % c \in 0..c - 1
  BY <1>1
<1>3. j \div c \in Int /\ j = c * (j \div c) + (j % c) /\ j % c \in 0..c - 1
  BY <1>1
<1>4. ASSUME NEW x \in Int, NEW y \in Int, x <= y PROVE c * x <= c * y
  <2>1. (y - x) \in Nat /\ c * (y - x) >= 0
    BY <1>1, <1>4
  <2>2. c * y = c * x + c * (y - x)
    BY <1>1
  <2>3. QED
    BY <1>1, <2>1, <2>2
<1>5. SUFFICES ASSUME NEW a \in Int, a = i \div c, a = j \div c PROVE FALSE
  BY <1>2
<1>6. c * a <= i /\ j < c * a + c
  BY <1>1, <1>2, <1>3, <1>5
<1>7. q * c = c * q /\ c * (a + 1) = c * a + c
  BY <1>1
<1>8. CASE q <= a
  BY <1>1, <1>4, <1>6, <1>7, <1>8
<1>9. CASE a + 1 <= q
  BY <1>1, <1>4, <1>6, <1>7, <1>9
<1>10. QED
  BY <1>8, <1>9

\* The head takes from a chunk as much as it has room for.
LEMMA RoomInHead ==
  ASSUME NEW p \in Nat, NEW c \in Nat, NEW l \in Nat, HeadSize \in Nat, l = Lesser(HeadSize, p),
         NEW room, room = Lesser(HeadSize - l, c)
  PROVE  /\ room \in Nat /\ room <= c
         /\ l + room = Lesser(HeadSize, p + c)
         /\ room > 0 => l = p
  BY DEF Lesser

\* The head after one more chunk.
LEMMA HeadExtended ==
  ASSUME TypeOK, HeadIsStart, NEW chunk \in Seq(Byte), pos + Len(chunk) <= Len(file),
         \A k \in 1..Len(chunk) : chunk[k] = file[pos + k],
         NEW h, h = extend_head(chunk)
  PROVE  /\ h \in Seq(Byte) /\ Len(h) = Lesser(HeadSize, pos + Len(chunk))
         /\ \A k \in 1..Len(h) : h[k] = file[k]
<1>1. /\ Len(file) \in Nat /\ Len(head) \in Nat /\ Len(chunk) \in Nat /\ pos \in Nat /\ HeadSize \in Nat
      /\ Len(head) = Lesser(HeadSize, pos) /\ head \in Seq(Byte)
  BY LenProperties, CategoriesAssumption DEF TypeOK, HeadIsStart
<1> DEFINE room == Lesser(HeadSize - Len(head), Len(chunk))
           part == SubSeq(chunk, 0 + 1, room)
<1>2. /\ room \in Nat /\ 0 <= room /\ room <= Len(chunk)
      /\ Len(head) + room = Lesser(HeadSize, pos + Len(chunk))
      /\ room > 0 => Len(head) = pos
  <2> HIDE DEF room
  <2>1. PICK r : r = room
    OBVIOUS
  <2>2. r = Lesser(HeadSize - Len(head), Len(chunk))
    BY <2>1 DEF room
  <2>3. PICK p \in Nat, c \in Nat, l \in Nat : p = pos /\ c = Len(chunk) /\ l = Len(head)
    BY <1>1
  <2>4. l = Lesser(HeadSize, p) /\ r = Lesser(HeadSize - l, c) /\ HeadSize \in Nat
    BY <1>1, <2>2, <2>3
  <2>5. r \in Nat /\ r <= c /\ l + r = Lesser(HeadSize, p + c) /\ (r > 0 => l = p)
    BY <2>4, RoomInHead
  <2>6. 0 <= r
    BY <2>5
  <2>7. QED
    BY <2>1, <2>3, <2>5, <2>6
<1>3. h = head \o part
  BY DEF extend_head, Prefix
<1> HIDE DEF room
<1>4. part \in Seq(Byte) /\ Len(part) = room - 0 /\ \A k \in 1..room - 0 : part[k] = chunk[0 + k]
  BY <1>2, Piece
<1> HIDE DEF part
<1>5. Len(part) = room /\ \A k \in 1..room : part[k] = file[pos + k]
  <2>1. room - 0 = room
    BY <1>2
  <2>2. \A k \in 1..room : 0 + k = k /\ k \in 1..Len(chunk)
    BY <1>1, <1>2
  <2>3. QED
    BY <1>4, <2>1, <2>2
<1>6. /\ h \in Seq(Byte) /\ Len(h) = Len(head) + room
      /\ \A k \in 1..Len(head) + room : h[k] = IF k <= Len(head) THEN head[k] ELSE part[k - Len(head)]
  <2>1. /\ head \o part \in Seq(Byte) /\ Len(head \o part) = Len(head) + Len(part)
        /\ \A k \in 1..Len(head) + Len(part) :
             (head \o part)[k] = IF k <= Len(head) THEN head[k] ELSE part[k - Len(head)]
    <3>1. head \in Seq(Byte) /\ part \in Seq(Byte)
      BY <1>1, <1>4
    <3>2. QED
      BY <3>1, ConcatProperties
  <2>2. QED
    BY <1>3, <1>5, <2>1
<1>7. ASSUME NEW k \in 1..Len(head) + room PROVE h[k] = file[k]
  <2>1. CASE k <= Len(head)
    BY <1>1, <1>6, <2>1 DEF HeadIsStart
  <2>2. CASE ~ (k <= Len(head))
    <3>1. k - Len(head) \in 1..room /\ Len(head) = pos
      BY <1>1, <1>2, <2>2
    <3>2. pos + (k - Len(head)) = k
      BY <1>1, <3>1
    <3>3. QED
      BY <1>5, <1>6, <2>2, <3>1, <3>2
  <2>3. QED
    BY <2>1, <2>2
<1>8. QED
  BY <1>2, <1>6, <1>7

\* One turn of the loop.
LEMMA TurnOfLoop == Inv /\ ReadChunk => Inv'
<1> SUFFICES ASSUME Inv, ReadChunk PROVE Inv'
    OBVIOUS
<1>c. PICK chunk : chunk = ReadBytes(ChunkSize)
    OBVIOUS
<1>0. TypeOK /\ verdict = "reading" /\ Reading /\ category.max_size_bytes \in Nat
  BY CategoriesAssumption DEF Inv, ReadChunk, TypeOK, Category
<1>1. /\ pos = total /\ pos <= Len(file) /\ total <= category.max_size_bytes
      /\ AtChunk \/ pos = Len(file)
      /\ HeadIsStart /\ ScannedSoFar
  BY <1>0 DEF Reading
<1>2. Len(file) \in Nat /\ pos \in Nat /\ ChunkSize \in Nat /\ ChunkSize > 0 /\ file \in Seq(Byte)
      /\ Virus \in Seq(Byte) /\ Len(Virus) \in Nat
  BY <1>0, LenProperties, CategoriesAssumption DEF TypeOK
<1>3. /\ chunk \in Seq(Byte) /\ Len(chunk) \in Nat
      /\ pos + Len(chunk) = Lesser(pos + ChunkSize, Len(file))
      /\ \A k \in 1..Len(chunk) : chunk[k] = file[pos + k]
      /\ chunk = <<>> <=> Len(chunk) = 0
  <2>1. TypeOK
    BY <1>0
  <2>2. pos <= Len(file) /\ ChunkSize \in Nat
    BY <1>1, <1>2
  <2>3. chunk \in Seq(Byte)
    BY <2>1, <2>2, <1>c, ChunkRead
  <2>4. Len(chunk) \in Nat
    BY <2>1, <2>2, <1>c, ChunkRead
  <2>5. pos + Len(chunk) = Lesser(pos + ChunkSize, Len(file))
    BY <2>1, <2>2, <1>c, ChunkRead
  <2>6. \A k \in 1..Len(chunk) : chunk[k] = file[pos + k]
    BY <2>1, <2>2, <1>c, ChunkRead
  <2>7. (chunk = <<>>) <=> (Len(chunk) = 0)
    BY <2>1, <2>2, <1>c, ChunkRead
  <2>8. QED
    BY <2>3, <2>4, <2>5, <2>6, <2>7
<1>4. /\ chunk # <<>> /\ pos' = pos + Len(chunk) /\ total' = total + Len(chunk)
      /\ file' = file /\ category' = category
      /\ \/ /\ total' > category.max_size_bytes /\ verdict' = "too_large" /\ head' = head
         \/ /\ ~ (total' > category.max_size_bytes) /\ head' = extend_head(chunk)
            /\ verdict' = IF scan_chunk_for_viruses(chunk) THEN "reading" ELSE "infected"
  BY <1>c DEF ReadChunk, exceeds_limit
<1>5. /\ Len(chunk) > 0 /\ pos' \in Nat /\ pos' = total' /\ pos' > 0 /\ pos' <= Len(file) /\ AtChunk
      /\ pos' = Lesser(pos + ChunkSize, Len(file)) /\ pos + Len(chunk) <= Len(file)
  BY <1>1, <1>2, <1>3, <1>4 DEF Lesser
<1>6. CASE total' > category.max_size_bytes /\ verdict' = "too_large" /\ head' = head
  <2>1. TypeOK'
    BY <1>0, <1>4, <1>5, <1>6 DEF TypeOK, Verdict
  <2>2. Len(file') > category'.max_size_bytes
    BY <1>0, <1>2, <1>4, <1>5, <1>6
  <2>3. QED
    BY <1>6, <2>1, <2>2 DEF Inv, Reading, Rewound, AcceptedIsSound, RefusedForCause, MissedOnlyAcrossChunks
<1>7. CASE ~ (total' > category.max_size_bytes) /\ head' = extend_head(chunk)
  <2>1. head' \in Seq(Byte) /\ HeadIsStart'
    BY <1>0, <1>1, <1>3, <1>4, <1>5, <1>7, HeadExtended DEF HeadIsStart
  <2>2. ASSUME NEW i \in Nat
        PROVE  IsAt(chunk, i, Virus) <=> IsAt(file, pos + i, Virus) /\ i + Len(Virus) <= Len(chunk)
    BY <1>0, <1>2, <1>3, <1>5, FoundInChunk
  <2>3. CASE scan_chunk_for_viruses(chunk)
    <3>1. verdict' = "reading"
      BY <1>4, <1>6, <1>7, <2>3
    <3>2. TypeOK'
      BY <1>0, <1>4, <1>5, <2>1, <3>1 DEF TypeOK, Verdict
    <3>3. AtChunk' \/ pos' = Len(file')
      <4>1. PICK q \in 0..pos : pos = q * ChunkSize
        BY <1>5 DEF AtChunk
      <4>2. CASE pos' = pos + ChunkSize
        <5>1. pos' = (q + 1) * ChunkSize /\ q + 1 \in 0..pos'
          BY <1>2, <4>1, <4>2
        <5>2. QED
          BY <5>1 DEF AtChunk
      <4>3. CASE pos' = Len(file)
        BY <1>4, <4>3
      <4>4. QED
        BY <1>5, <4>2, <4>3 DEF Lesser
    <3>4. ScannedSoFar'
      <4>1. SUFFICES ASSUME NEW i \in 0..Len(file), IsAt(file, i, Virus), i + Len(Virus) <= pos'
                     PROVE  AcrossChunks(i)
        BY <1>4 DEF ScannedSoFar, AcrossChunks, IsAt
      <4>2. CASE i >= pos
        <5>1. i - pos \in 0..Len(chunk) /\ pos + (i - pos) = i /\ i - pos + Len(Virus) <= Len(chunk)
          BY <1>2, <1>3, <1>4, <4>1, <4>2
        <5>2. IsAt(chunk, i - pos, Virus)
          BY <1>3, <2>2, <4>1, <5>1
        <5>3. QED
          BY <2>3, <5>1, <5>2 DEF scan_chunk_for_viruses
      <4>3. CASE i < pos /\ i + Len(Virus) <= pos
        BY <1>1, <1>2, <4>1, <4>3 DEF ScannedSoFar
      <4>4. CASE i < pos /\ i + Len(Virus) > pos
        <5>1. PICK q \in 0..pos : pos = q * ChunkSize
          BY <1>5 DEF AtChunk
        <5>2. q \in Nat /\ i \in Nat /\ i + Len(Virus) - 1 \in Nat /\ i + Len(Virus) - 1 >= pos
          BY <1>2, <4>1, <4>4
        <5>3. QED
          BY <4>4, <5>1, <5>2, TwoChunks DEF AcrossChunks
      <4>5. QED
        BY <1>2, <4>2, <4>3, <4>4
    <3>5. total' <= category'.max_size_bytes
      BY <1>0, <1>4, <1>5, <1>7
    <3>6. Reading'
      BY <1>4, <1>5, <2>1, <3>3, <3>4, <3>5 DEF Reading
    <3>7. QED
      BY <3>1, <3>2, <3>6 DEF Inv, Rewound, AcceptedIsSound, RefusedForCause, MissedOnlyAcrossChunks
  <2>4. CASE ~scan_chunk_for_viruses(chunk)
    <3>1. verdict' = "infected"
      BY <1>4, <1>6, <1>7, <2>4
    <3>2. TypeOK'
      BY <1>0, <1>4, <1>5, <2>1, <3>1 DEF TypeOK, Verdict
    <3>3. PICK i \in 0..Len(chunk) : IsAt(chunk, i, Virus)
      BY <2>4 DEF scan_chunk_for_viruses
    <3>4. i \in Nat /\ pos + i \in 0..Len(file) /\ IsAt(file, pos + i, Virus)
      BY <1>2, <1>3, <1>5, <2>2, <3>3
    <3>5. \E j \in 0..Len(file') : IsAt(file', j, Virus)
      BY <1>4, <3>4
    <3>6. RefusedForCause'
      BY <3>1, <3>5 DEF RefusedForCause, IsAt
    <3>7. QED
      BY <3>1, <3>2, <3>6 DEF Inv, Reading, Rewound, AcceptedIsSound, MissedOnlyAcrossChunks
  <2>5. QED
    BY <2>3, <2>4
<1>8. QED
  BY <1>4, <1>6, <1>7

\* The end of the file: what the loop has maintained is now true of all of it.
LEMMA EndOfLoop == Inv /\ EndOfFile => Inv'
<1> SUFFICES ASSUME Inv, EndOfFile PROVE Inv'
    OBVIOUS
<1>0. TypeOK /\ verdict = "reading" /\ Reading /\ category.max_size_bytes \in Nat
  BY CategoriesAssumption DEF Inv, EndOfFile, TypeOK, Category
<1>1. /\ pos = total /\ pos <= Len(file) /\ total <= category.max_size_bytes
      /\ HeadIsStart /\ ScannedSoFar
  BY <1>0 DEF Reading
<1>2. Len(file) \in Nat /\ pos \in Nat /\ ChunkSize \in Nat /\ ChunkSize > 0 /\ file \in Seq(Byte)
      /\ Virus \in Seq(Byte) /\ Len(Virus) \in Nat
  BY <1>0, LenProperties, CategoriesAssumption DEF TypeOK
<1>3. pos = Len(file)
  <2>1. PICK chunk : chunk = ReadBytes(ChunkSize)
    OBVIOUS
  <2>2. TypeOK
    BY <1>0
  <2>3. chunk = <<>> <=> Len(chunk) = 0
    BY <1>1, <1>2, <2>1, <2>2, ChunkRead
  <2>4. pos + Len(chunk) = Lesser(pos + ChunkSize, Len(file))
    BY <1>1, <1>2, <2>1, <2>2, ChunkRead
  <2>5. Len(chunk) = 0
    BY <2>1, <2>3 DEF EndOfFile
  <2>6. QED
    BY <1>1, <1>2, <2>4, <2>5 DEF Lesser
<1>4. signature_check(category, head) <=> signature_check(category, file)
  BY <1>0, <1>1, <1>3, HeadDecides
<1>5. UNCHANGED <<file, category, total, head>>
  BY DEF EndOfFile
<1>6. CASE total = 0 /\ verdict' = "empty" /\ UNCHANGED pos
  <2>1. TypeOK'
    BY <1>0, <1>5, <1>6 DEF TypeOK, Verdict
  <2>2. file = <<>>
    BY <1>1, <1>2, <1>3, <1>6, EmptySeq
  <2>3. QED
    BY <1>5, <1>6, <2>1, <2>2 DEF Inv, Reading, Rewound, AcceptedIsSound, RefusedForCause,
       MissedOnlyAcrossChunks
<1>7. CASE total > 0 /\ ~signature_check(category, head) /\ verdict' = "mismatch" /\ UNCHANGED pos
  <2>1. TypeOK'
    BY <1>0, <1>5, <1>7 DEF TypeOK, Verdict
  <2>2. ~signature_check(category', file')
    BY <1>4, <1>5, <1>7
  <2>3. QED
    BY <1>7, <2>1, <2>2 DEF Inv, Reading, Rewound, AcceptedIsSound, RefusedForCause,
       MissedOnlyAcrossChunks, signature_check, IsAt
<1>8. CASE /\ total > 0 /\ signature_check(category, head) /\ Rewind
           /\ verdict' = IF category.name = "csv" THEN "sample" ELSE "accepted"
  <2>1. pos' = 0 /\ verdict' \in {"sample", "accepted"}
    BY <1>8 DEF Rewind
  <2>2. TypeOK'
    BY <1>0, <1>5, <2>1 DEF TypeOK, Verdict
  <2>3. signature_check(category', file')
    BY <1>4, <1>5, <1>8
  <2>4. total' = Len(file') /\ Len(file') \in 1..category'.max_size_bytes
    <3>1. total = Len(file) /\ Len(file) > 0 /\ Len(file) <= category.max_size_bytes
      BY <1>1, <1>3, <1>8
    <3>2. Len(file) \in 1..category.max_size_bytes
      BY <1>0, <1>2, <3>1
    <3>3. QED
      BY <1>5, <3>1, <3>2
  <2>5. Rewound' /\ AcceptedIsSound'
    BY <2>1, <2>3, <2>4 DEF Rewound, AcceptedIsSound, signature_check, IsAt
  <2>6. MissedOnlyAcrossChunks'
    <3>1. SUFFICES ASSUME NEW i \in 0..Len(file), IsAt(file, i, Virus) PROVE AcrossChunks(i)
      BY <1>5 DEF MissedOnlyAcrossChunks, AcrossChunks, IsAt
    <3>2. i + Len(Virus) <= pos /\ pos > 0
      BY <1>1, <1>2, <1>3, <1>8, <3>1 DEF IsAt
    <3>3. QED
      BY <1>1, <3>1, <3>2 DEF ScannedSoFar
  <2>7. RefusedForCause' /\ Reading'
    BY <2>1 DEF RefusedForCause, Reading
  <2>8. QED
    BY <2>2, <2>5, <2>6, <2>7 DEF Inv
<1>9. QED
  BY <1>6, <1>7, <1>8 DEF EndOfFile

\* The sample: what it is refused for is true of the file.
LEMMA SampleTaken == Inv /\ ValidateCsv => Inv'
<1> SUFFICES ASSUME Inv, ValidateCsv PROVE Inv'
    OBVIOUS
<1>0. /\ TypeOK /\ pos = 0 /\ total = Len(file) /\ Len(file) \in 1..category.max_size_bytes
      /\ signature_check(category, file) /\ MissedOnlyAcrossChunks /\ verdict = "sample"
  BY DEF Inv, ValidateCsv, Rewound
<1>1. Len(file) \in Nat /\ file # <<>> /\ SampleSize \in Nat /\ SampleSize > 0 /\ file \in Seq(Byte)
  <2>1. file \in Seq(Byte)
    BY <1>0 DEF TypeOK
  <2>2. Len(file) \in Nat /\ Len(file) # 0
    BY <1>0, <2>1, LenProperties
  <2>3. QED
    BY <2>1, <2>2, EmptySeq, CategoriesAssumption
<1>2. PICK sample : sample = ReadBytes(SampleSize)
  OBVIOUS
<1>3. /\ sample \in Seq(Byte) /\ sample # <<>> /\ Len(sample) = Lesser(SampleSize, Len(file))
      /\ \A k \in 1..Len(sample) : sample[k] = file[k]
  BY <1>0, <1>1, <1>2, SampleRead
<1>4. pos' = 0 /\ file' = file /\ category' = category /\ total' = total /\ head' = head
  BY DEF ValidateCsv, Rewind
<1>5. /\ FirstRow(sample) \in {"csv.Error", "empty", "row"}
      /\ FirstRow(sample) = "empty" => sample[1] \in {"r", "n"}
      /\ FirstRow(sample) = "csv.Error" =>
           \E i \in 1..Len(sample) - 1 : sample[i] = "r" /\ sample[i + 1] # "n"
  BY <1>3, FirstRowOf
<1>6. \/ verdict' = "not_utf8" /\ ~Decodes(sample)
      \/ verdict' = "error" /\ FirstRow(sample) = "csv.Error"
      \/ verdict' = "no_columns" /\ FirstRow(sample) = "empty"
      \/ verdict' = "accepted"
  BY <1>2, <1>5 DEF ValidateCsv
<1>7. TypeOK'
  BY <1>0, <1>4, <1>6 DEF TypeOK, Verdict
<1>8. Len(sample) \in Nat /\ Len(sample) >= 1 /\ Len(sample) <= Len(file)
  BY <1>1, <1>3 DEF Lesser
<1>9. AcceptedIsSound'
  BY <1>0, <1>4 DEF AcceptedIsSound, signature_check, IsAt
<1>10. MissedOnlyAcrossChunks'
  BY <1>0, <1>4 DEF MissedOnlyAcrossChunks, IsAt
<1>11. Reading' /\ Rewound'
  BY <1>6 DEF Reading, Rewound
<1>12. RefusedForCause'
  <2>1. CASE verdict' = "not_utf8" /\ ~Decodes(sample)
    <3>1. ~Decodes(file) \/ (Len(file) > SampleSize /\ file[SampleSize] = "h")
      BY <1>0, <1>3, <2>1, SampleDecodes
    <3>2. QED
      BY <1>4, <2>1, <3>1 DEF RefusedForCause, Decodes
  <2>2. CASE verdict' = "error" /\ FirstRow(sample) = "csv.Error"
    <3>1. PICK i \in 1..Len(sample) - 1 : sample[i] = "r" /\ sample[i + 1] # "n"
      BY <1>5, <2>2
    <3>2. i \in 1..Len(sample) /\ i + 1 \in 1..Len(sample)
      BY <1>8
    <3>3. file[i] = "r" /\ file[i + 1] # "n"
      BY <1>3, <3>1, <3>2
    <3>4. \E k \in 1..Lesser(SampleSize, Len(file)) - 1 : file[k] = "r" /\ file[k + 1] # "n"
      BY <1>3, <3>1, <3>3
    <3>5. QED
      BY <1>4, <2>2, <3>4 DEF RefusedForCause
  <2>3. CASE verdict' = "no_columns" /\ FirstRow(sample) = "empty"
    <3>1. file[1] \in {"r", "n"}
      BY <1>3, <1>5, <1>8, <2>3
    <3>2. QED
      BY <1>4, <2>3, <3>1 DEF RefusedForCause
  <2>4. CASE verdict' = "accepted"
    BY <2>4 DEF RefusedForCause
  <2>5. QED
    BY <1>6, <2>1, <2>2, <2>3, <2>4
<1>13. QED
  BY <1>7, <1>9, <1>10, <1>11, <1>12 DEF Inv

\* Every step of the checks preserves the invariant.
LEMMA InvNext == Inv /\ [ChecksNext]_checkVars => Inv'
<1> SUFFICES ASSUME Inv, [ChecksNext]_checkVars PROVE Inv'
    OBVIOUS
<1>1. CASE UNCHANGED checkVars
  BY <1>1 DEF checkVars, Inv, TypeOK, Reading, Rewound, AtChunk, HeadIsStart, ScannedSoFar, AcrossChunks,
     AcceptedIsSound, RefusedForCause, MissedOnlyAcrossChunks, signature_check, IsAt, Decodes
<1>2. QED
  BY <1>1, TurnOfLoop, EndOfLoop, SampleTaken DEF ChecksNext

-----------------------------------------------------------------------------

\* The invariant of the checks holds in every state of every upload.
THEOREM Invariance == ChecksSpec => []Inv
  BY InvInit, InvNext, PTL DEF ChecksSpec

\* The variables keep their types.
THEOREM TypeCorrect == ChecksSpec => []TypeOK
  BY Invariance, PTL DEF Inv

\* An accepted upload keeps every promise as a whole: not empty, within the
\* limit, of the recorded size, with the magic bytes of its category, rewound.
THEOREM AcceptanceIsSound == ChecksSpec => []AcceptedIsSound
  BY Invariance, PTL DEF Inv

\* The scan chunk by chunk misses the test string only where a chunk ends.
THEOREM ScanMissesOnlyAcross == ChecksSpec => []MissedOnlyAcrossChunks
  BY Invariance, PTL DEF Inv

\* An upload is refused, or the parser fails, only for what is in the file.
THEOREM RefusalsAreJust == ChecksSpec => []RefusedForCause
  BY Invariance, PTL DEF Inv
=============================================================================
