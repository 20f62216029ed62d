----------------------------- MODULE Pagination -----------------------------
(***************************************************************************)
(* A client walks through a list page by page while the table changes      *)
(* (services/pagination.py, with list_users, list_users_feed of            *)
(* api/admin.py and list_my_files of api/files.py): by offset, where a     *)
(* page takes two statements, or by cursor, where it takes one.            *)
(*                                                                         *)
(* Every statement sees the rows committed by then (READ COMMITTED).  A    *)
(* new row gets its id before it is committed, so lower ids may show up    *)
(* after higher ones; a row may come to match a search, or cease to.       *)
(***************************************************************************)
EXTENDS Naturals, Sequences, FiniteSets

CONSTANTS
  MaxId,        \* ids are 1..MaxId
  limit,        \* parameter of the request
  SortColumns,  \* the columns to sort by: the value each row has in one
  MaxChanges    \* bound: changes of the table during a walk

Id == 1..MaxId

ASSUME ParamsAssumption ==
  /\ MaxId \in Nat /\ MaxChanges \in Nat /\ limit \in Nat \ {0}
  /\ SortColumns \subseteq [Id -> Nat]

VARIABLES
  rows,         \* the table
  walk,         \* what the client asks for and has, and the page under way
  seen,         \* the ids on the pages so far, in order
  (* history *)
  always,       \* rows in the list since the walk began
  late,         \* rows that joined the list below the last id seen
  changes       \* changes of the table since the walk began

vars == <<rows, walk, seen, always, late, changes>>

\* "pending": the id is given out, or will be, and the row not yet committed.
Row == {"pending", "match", "other", "deleted"}

\* The statement the page functions get, with apply_search and filters.
Listed(table) == {i \in Id : table[i] = "match"}
apply_search == Listed(rows)

Seen == {seen[k] : k \in 1..Len(seen)}

-----------------------------------------------------------------------------
(* paginate_cursor *)

encode_cursor(i) == <<"base64", i>>

decode_cursor(c) == c[2]

Above(c) == {i \in apply_search : c = <<>> \/ i > decode_cursor(c)}

\* the rows above the cursor in ascending order of their ids, at most n
SelectAfter(c, n) ==
  LET found == Above(c)
      upTo(i) == Cardinality({k \in found : k <= i}) IN
  [k \in 1..(IF Cardinality(found) < n THEN Cardinality(found) ELSE n) |->
     CHOOSE i \in found : upTo(i) = k]

\* Mutated form: the cursor is the row that was fetched to look ahead.
next_cursor_LookAhead(fetched) ==
  IF Len(fetched) > limit THEN encode_cursor(fetched[Len(fetched)]) ELSE <<>>

\* None, here <<>>, on the last page.
next_cursor(fetched) ==
  IF Len(fetched) > limit THEN encode_cursor(fetched[limit]) ELSE <<>>

\* One more row than asked for is fetched to see whether there are more.
paginate_cursor ==
  LET fetched == SelectAfter(walk.cursor, limit + 1) IN
  /\ walk.by = "cursor" /\ walk.pc = "next"
  /\ seen' = seen \o SubSeq(fetched, 1, IF Len(fetched) > limit THEN limit ELSE Len(fetched))
  /\ walk' = [walk EXCEPT !.cursor = next_cursor(fetched),
                          !.pc = IF Len(fetched) > limit THEN "next" ELSE "done"]
  /\ UNCHANGED <<rows, always, late, changes>>

-----------------------------------------------------------------------------
(* paginate_offset *)

\* Mutated form: the rows are left in any order.
apply_sort_Not(s) == TRUE

\* ORDER BY one column: rows that are equal in it come in any order.
apply_sort(s) ==
  \A j, k \in 1..Len(s) :
    j < k => IF walk.order = "desc" THEN walk.sort[s[j]] >= walk.sort[s[k]]
                                    ELSE walk.sort[s[j]] <= walk.sort[s[k]]

Orders ==
  LET listed == apply_search IN
  {s \in [1..Cardinality(listed) -> listed] :
     {s[k] : k \in DOMAIN s} = listed /\ apply_sort(s)}

OffsetCount ==
  /\ walk.by = "offset" /\ walk.pc = "next"
  /\ walk' = [walk EXCEPT !.pc = "items", !.total = Cardinality(apply_search)]
  /\ UNCHANGED <<rows, seen, always, late, changes>>

has_more(n) == walk.offset + n < walk.total

\* The client asks for the next page if there is one.
OffsetItems ==
  /\ walk.pc = "items"
  /\ \E s \in Orders :
       LET left  == Len(s) - walk.offset
           items == SubSeq(s, walk.offset + 1, walk.offset + (IF left < limit THEN left ELSE limit)) IN
       /\ seen' = IF walk.offset >= Len(s) THEN seen ELSE seen \o items
       /\ walk' = [walk EXCEPT !.offset = @ + limit,
                     !.pc = IF has_more(Len(seen') - Len(seen)) THEN "next" ELSE "done"]
  /\ UNCHANGED <<rows, always, late, changes>>

-----------------------------------------------------------------------------
(* The table changes *)

\* The last id the client has seen; a row that appears at or below it is late.
Passed == IF seen = <<>> THEN 0 ELSE seen[Len(seen)]

Become(i, state) ==
  /\ changes < MaxChanges /\ walk.pc # "done"
  /\ rows' = [rows EXCEPT ![i] = state]
  /\ always' = always \cap Listed(rows')
  /\ late' = IF state = "match" /\ i <= Passed THEN late \cup {i} ELSE late
  /\ changes' = changes + 1
  /\ UNCHANGED <<walk, seen>>

Commit(i) == rows[i] = "pending" /\ \E state \in {"match", "other"} : Become(i, state)
Update(i) == \/ rows[i] = "match" /\ Become(i, "other")
             \/ rows[i] = "other" /\ Become(i, "match")
Delete(i) == rows[i] \in {"match", "other"} /\ Become(i, "deleted")

NewWalk(by, sort, order) ==
  [by |-> by, sort |-> sort, order |-> order, pc |-> "next", cursor |-> <<>>,
   offset |-> 0, total |-> 0]

\* A client walks by offset, in the order it asks for, or by cursor; or nobody
\* does, and the table is read by a report (module Reports).
Init ==
  /\ rows \in [Id -> Row \ {"deleted"}]
  /\ walk \in {NewWalk("offset", sort, order) : sort \in SortColumns, order \in {"asc", "desc"}}
               \cup {NewWalk("cursor", <<>>, "none"), NewWalk("nobody", <<>>, "none")}
  /\ seen = <<>> /\ always = apply_search /\ late = {} /\ changes = 0

Environment == \E i \in Id : Commit(i) \/ Update(i) \/ Delete(i)

Page == paginate_cursor \/ OffsetCount \/ OffsetItems

-----------------------------------------------------------------------------
(* Properties *)

\* When next_cursor is null "there's nothing left" (README, Pagination): the
\* walk has listed no row twice, whatever came, went or changed between its
\* pages, and has missed only rows that joined the list behind it.  So a row
\* that was there all the time is listed exactly once.
CursorMissesOnlyLate ==
  (walk.by = "cursor" /\ walk.pc = "done") =>
    /\ Len(seen) = Cardinality(Seen)
    /\ Listed(rows) \subseteq Seen \cup late

NoTies == \A i, j \in Id : walk.sort[i] = walk.sort[j] => i = j

\* Row i is sorted before row j.
Precedes(i, j) == IF walk.order = "desc" THEN walk.sort[i] > walk.sort[j]
                                         ELSE walk.sort[i] < walk.sort[j]

\* The k-th row the client has got may stand at place k of the list: it, or a
\* row equal to it, is due there.
InPlace(k) ==
  /\ seen[k] \in apply_search
  /\ Cardinality({i \in apply_search : Precedes(i, seen[k])}) < k
  /\ k <= Cardinality({i \in apply_search : ~Precedes(seen[k], i)})

\* With no equal rows, a walk by offset misses no more of the rows that were
\* there all the time, and repeats no more, than there were changes: none if
\* the table is quiet.  With equal rows, which the database may order anew for
\* every page, a walk of a quiet table still lists as many rows as there are,
\* each in its place but for rows equal to it: so a row is skipped only where
\* an equal one is repeated.
OffsetErrorsBounded ==
  (walk.by = "offset" /\ walk.pc = "done") =>
    /\ NoTies => /\ Cardinality(always \ Seen) <= changes
                 /\ Len(seen) - Cardinality(Seen) <= changes
    /\ changes = 0 => /\ Len(seen) = Cardinality(apply_search)
                       /\ \A k \in 1..Len(seen) : InPlace(k)
=============================================================================
