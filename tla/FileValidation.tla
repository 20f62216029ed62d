--------------------------- MODULE FileValidation ---------------------------
(***************************************************************************)
(* The checks an upload passes before it is stored: size, magic bytes and  *)
(* virus scan while the file is read chunk by chunk, then a parse of a     *)
(* sample if it is a CSV file (services/file_validation.py,                *)
(* services/virus_scan.py).  One behaviour is one upload.                  *)
(*                                                                         *)
(* A byte is told from others only as far as a check does: "h" and "t" are *)
(* the first and the second byte of a two-byte UTF-8 character, "r" and    *)
(* "n" are CR and LF; any other value is an ASCII character, none of which *)
(* is a quote.                                                             *)
(***************************************************************************)
EXTENDS Naturals, Sequences

CONSTANTS
  Byte,
  Categories,      \* CATEGORIES
  ChunkSize,       \* CHUNK_SIZE
  HeadSize,        \* _SIGNATURE_HEAD_SIZE
  SampleSize,      \* 8192 in validate_csv_content
  Virus,           \* _EICAR_SIGNATURE
  MaxFile          \* bound: the longest file tried

\* UploadCategory.  signature: alternatives, each a set of byte strings to be
\* found at fixed offsets; {{}} asks for nothing (signature_check is None).
Category == [name : STRING, max_size_bytes : Nat,
             signature : SUBSET (SUBSET [at : Nat, bytes : Seq(Byte)])]

ASSUME CategoriesAssumption ==
  /\ ChunkSize \in Nat \ {0} /\ HeadSize \in Nat /\ SampleSize \in Nat \ {0}
  /\ MaxFile \in Nat /\ Virus \in Seq(Byte) /\ Categories \subseteq Category
  /\ \A c \in Categories :
       \A alt \in c.signature : \A p \in alt : p.at + Len(p.bytes) <= HeadSize

VARIABLES
  file,            \* the bytes sent by the client
  category,
  pos,             \* the position in the file
  total, head,     \* locals of read_and_validate_stream
  verdict          \* where the checks stand, or how they ended

checkVars == <<file, category, pos, total, head, verdict>>

Lesser(m, n) == IF m < n THEN m ELSE n

Prefix(s, n) == SubSeq(s, 1, Lesser(n, Len(s)))

ReadBytes(n) == SubSeq(file, pos + 1, Lesser(pos + n, Len(file)))

IsAt(s, i, t) == i + Len(t) <= Len(s) /\ SubSeq(s, i + 1, i + Len(t)) = t

\* _looks_like_jpeg and the others
signature_check(c, bytes) ==
  \E alt \in c.signature : \A p \in alt : IsAt(bytes, p.at, p.bytes)

\* Mutated form: the test string is only looked for at the start.
scan_chunk_for_viruses_AtStart(chunk) == ~IsAt(chunk, 0, Virus)

scan_chunk_for_viruses(chunk) == ~\E i \in 0..Len(chunk) : IsAt(chunk, i, Virus)

-----------------------------------------------------------------------------
(* read_and_validate_stream *)

\* Mutated form: a file of exactly the limit is refused.
exceeds_limit_Strict(size) == size >= category.max_size_bytes

exceeds_limit(size) == size > category.max_size_bytes

extend_head(chunk) == head \o Prefix(chunk, HeadSize - Len(head))

\* One turn of the loop.
ReadChunk ==
  LET chunk == ReadBytes(ChunkSize) IN
  /\ verdict = "reading" /\ chunk # <<>>
  /\ pos' = pos + Len(chunk) /\ total' = total + Len(chunk)
  /\ \/ exceeds_limit(total') /\ verdict' = "too_large" /\ UNCHANGED head
     \/ /\ ~exceeds_limit(total')
        /\ head' = extend_head(chunk)
        /\ verdict' = IF scan_chunk_for_viruses(chunk) THEN "reading" ELSE "infected"
  /\ UNCHANGED <<file, category>>

\* Mutated form: the file stays where it is.
Rewind_Not == pos' = pos

\* upload.seek(0)
Rewind == pos' = 0

\* Nothing is left to read: the last checks, and the file is rewound.
EndOfFile ==
  /\ verdict = "reading" /\ ReadBytes(ChunkSize) = <<>>
  /\ \/ total = 0 /\ verdict' = "empty" /\ UNCHANGED pos
     \/ total > 0 /\ ~signature_check(category, head) /\ verdict' = "mismatch" /\ UNCHANGED pos
     \/ /\ total > 0 /\ signature_check(category, head)
        /\ verdict' = IF category.name = "csv" THEN "sample" ELSE "accepted"
        /\ Rewind
  /\ UNCHANGED <<file, category, total, head>>

-----------------------------------------------------------------------------
(* validate_csv_content *)

\* bytes.decode("utf-8") succeeds.
Decodes(s) ==
  /\ \A i \in 1..Len(s) : s[i] = "h" => i < Len(s) /\ s[i + 1] = "t"
  /\ \A i \in 1..Len(s) : s[i] = "t" => i > 1 /\ s[i - 1] = "h"

\* What the first next() of a csv.reader over an io.StringIO gives, which
\* breaks lines at LF only.
FirstRow(s) ==
  LET lf   == {i \in 1..Len(s) : s[i] = "n"}
      line == IF lf = {} THEN s ELSE Prefix(s, CHOOSE i \in lf : \A k \in lf : i <= k)
      ends(i) == line[i] \in {"r", "n"} IN
  CASE s = <<>> -> "StopIteration"
    [] \E i \in 1..Len(line) - 1 : ends(i) /\ ~ends(i + 1) -> "csv.Error"
    [] OTHER -> IF \A i \in 1..Len(line) : ends(i) THEN "empty" ELSE "row"

\* csv.Error is not caught, and becomes a 500.
ValidateCsv ==
  LET sample == ReadBytes(SampleSize) IN
  /\ verdict = "sample"
  /\ verdict' = IF ~Decodes(sample) THEN "not_utf8"
                ELSE CASE FirstRow(sample) = "StopIteration" -> "no_rows"
                       [] FirstRow(sample) = "csv.Error" -> "error"
                       [] FirstRow(sample) = "empty" -> "no_columns"
                       [] FirstRow(sample) = "row" -> "accepted"
  /\ Rewind
  /\ UNCHANGED <<file, category, total, head>>

-----------------------------------------------------------------------------

ChecksInit ==
  /\ file \in UNION {[1..n -> Byte] : n \in 0..MaxFile}
  /\ category \in Categories
  /\ pos = 0 /\ total = 0 /\ head = <<>> /\ verdict = "reading"

ChecksNext == ReadChunk \/ EndOfFile \/ ValidateCsv

ChecksSpec == ChecksInit /\ [][ChecksNext]_checkVars

-----------------------------------------------------------------------------
(* Properties *)

\* What upload_file goes on with satisfies every promise about the file as a
\* whole, however it falls into chunks: not empty, within the limit, of the
\* size that goes into the row, with the right magic bytes, and rewound, so
\* that the whole of it is stored.
AcceptedIsSound ==
  verdict = "accepted" =>
    /\ Len(file) \in 1..category.max_size_bytes
    /\ total = Len(file)
    /\ signature_check(category, file)
    /\ pos = 0

\* A scan of one chunk at a time overlooks the test string only where it
\* starts in one chunk and ends in a later one.
MissedOnlyAcrossChunks ==
  verdict \in {"sample", "accepted"} =>
    \A i \in 0..Len(file) :
      IsAt(file, i, Virus) => i \div ChunkSize # (i + Len(Virus) - 1) \div ChunkSize

\* No upload is refused for the way it falls into chunks: each refusal names
\* something that is true of the whole file.  validate_csv_content "rejects
\* anything that isn't valid UTF-8 text with at least one parsable row": a CSV
\* file that is refused as no text is none, or has a character across the end
\* of the sample; one refused for its rows starts with an empty line; and only
\* a CR that no LF follows at once, within the sample, makes the parser fail.
RefusedForCause ==
  /\ verdict = "too_large" => Len(file) > category.max_size_bytes
  /\ verdict = "infected" => \E i \in 0..Len(file) : IsAt(file, i, Virus)
  /\ verdict = "empty" => file = <<>>
  /\ verdict = "mismatch" => ~signature_check(category, file)
  /\ verdict = "not_utf8" =>
       \/ ~Decodes(file)
       \/ Len(file) > SampleSize /\ file[SampleSize] = "h"
  /\ verdict = "no_columns" => file[1] \in {"r", "n"}
  /\ verdict # "no_rows"
  /\ verdict = "error" =>
       \E i \in 1 .. Lesser(SampleSize, Len(file)) - 1 : file[i] = "r" /\ file[i + 1] # "n"
=============================================================================
