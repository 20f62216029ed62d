--------------------------- MODULE ReportsProofs ---------------------------
(***************************************************************************)
(* What the numbers of a report, and the pages of a walk by cursor, are    *)
(* worth, for a table of any size that changes any number of times, pages  *)
(* of any size, and any number of restarts of the task.                    *)
(*                                                                         *)
(* ReportWithinChurn compares two numbers that both move.  The invariant   *)
(* keeps the set behind each number: what a statement has counted lies     *)
(* between the rows that were in the group throughout and those that were  *)
(* in it at some time, and remains between them as the first shrinks and   *)
(* the second grows.                                                       *)
(*                                                                         *)
(* CursorMissesOnlyLate speaks of the end of a walk.  The invariant says   *)
(* it of the rows up to the last id seen, where the cursor stands, and     *)
(* that the ids seen ascend.                                               *)
(*                                                                         *)
(* OffsetErrorsBounded counts errors at the end of a walk.  The invariant  *)
(* counts those that are certain already: rows that lie before the offset  *)
(* and were not seen (Skipped), rows seen that lie behind it again         *)
(* (Again), and what the page under way will not look for (Grown).  A      *)
(* change of the table adds at most one of each kind, and a page none.     *)
(***************************************************************************)
EXTENDS Reports, FiniteSetTheorems, SequenceTheorems, TLAPS

Task == Statement \cup {"none", "queued", "return", "done", "acked"}

ReportTypeOK ==
  /\ rows \in [Id -> Row]
  /\ task \in Task
  /\ counts \in [Statement -> Nat]
  /\ result \in {NoResult} \cup [Statement -> Nat]
  /\ throughout \in [Statement -> SUBSET Id]
  /\ sometime \in [Statement -> SUBSET Id]

\* The task has run the statement of group g.
Counted(g) ==
  task \in CASE g = "total"    -> {"active", "verified", "roles", "return", "done", "acked"}
             [] g = "active"   -> {"verified", "roles", "return", "done", "acked"}
             [] g = "verified" -> {"roles", "return", "done", "acked"}
             [] g = "roles"    -> {"return", "done", "acked"}

\* The rows of a group at this moment have been in it at some time, and those
\* in it throughout are among them.
Spanned ==
  task \notin {"none", "queued"} =>
    \A g \in Statement : throughout[g] \subseteq Members(g) /\ Members(g) \subseteq sometime[g]

Between(g, S) == throughout[g] \subseteq S /\ S \subseteq sometime[g]

\* The rows that a statement has counted, as they were when it counted them.
CountsStand ==
  \A g \in Statement : Counted(g) =>
    \E S \in SUBSET Id : Between(g, S) /\ counts[g] = Cardinality(S)

\* The rows behind each number of the result, which may be that of an earlier
\* run of the task than the one under way.
ResultStands ==
  result # NoResult =>
    \A g \in Statement : \E S \in SUBSET Id : Between(g, S) /\ result[g] = Cardinality(S)

\* A task that has not begun has left no result.
ResultInTime == task \in {"none", "queued"} => result = NoResult

Inv == ReportTypeOK /\ Spanned /\ CountsStand /\ ResultStands /\ ResultInTime

\* Counted rows are some of the finitely many ids.
LEMMA CountIsNat == ASSUME NEW S \in SUBSET Id
                    PROVE  IsFiniteSet(S) /\ Cardinality(S) \in Nat
<1>1. IsFiniteSet(Id)
  BY ParamsAssumption, FS_Interval DEF Id
<1>2. QED
  BY <1>1, FS_Subset, FS_CardinalityType

\* At the start there is no task.
LEMMA InvInit == ReportsInit => Inv
  BY DEF ReportsInit, Init, Inv, ReportTypeOK, Spanned, CountsStand, ResultStands,
     ResultInTime, Counted, Task, Statement, Row, NoResult

\* A page that a client reads changes nothing a report depends on.
LEMMA PageKeeps == ASSUME Page PROVE UNCHANGED rows
  BY DEF Page, paginate_cursor, OffsetCount, OffsetItems

\* Every change of the table leaves a table.
LEMMA TableKept == ASSUME rows \in [Id -> Row], Environment PROVE rows' \in [Id -> Row]
  BY DEF Environment, Commit, Update, Delete, Become, Row

\* The changes of the table and the steps of the task preserve the invariant.
LEMMA InvNext == Inv /\ [ReportsNext]_allVars => Inv'
<1> SUFFICES ASSUME Inv, [ReportsNext]_allVars PROVE Inv'
    OBVIOUS
<1> USE DEF Inv
<1>0. ASSUME UNCHANGED <<rows, reportVars>> PROVE Inv'
  <2>1. ReportTypeOK' /\ Spanned' /\ ResultInTime'
    BY <1>0 DEF reportVars, ReportTypeOK, Spanned, ResultInTime, Members
  <2>2. CountsStand' /\ ResultStands'
    BY <1>0 DEF reportVars, CountsStand, ResultStands, Counted, Between
  <2>3. QED
    BY <2>1, <2>2
<1>1. ASSUME TableStep PROVE Inv'
  <2>0. rows' \in [Id -> Row]
    BY <1>1, TableKept DEF TableStep, ReportTypeOK
  <2>1. \A g \in Statement : Members(g)' \in SUBSET Id
    BY DEF Members
  <2>2. ReportTypeOK'
    BY <1>1, <2>0, <2>1 DEF TableStep, ReportTypeOK
  <2>3. Spanned'
    BY <1>1, <2>1 DEF TableStep, ReportTypeOK, Spanned
  <2>4. CountsStand'
    <3>1. ASSUME NEW g \in Statement, Counted(g)'
          PROVE  \E S \in SUBSET Id : Between(g, S)' /\ counts'[g] = Cardinality(S)
      <4>1. Counted(g)
        BY <1>1, <3>1 DEF TableStep, Counted
      <4>2. PICK S \in SUBSET Id : Between(g, S) /\ counts[g] = Cardinality(S)
        BY <4>1 DEF CountsStand
      <4>3. Between(g, S)' /\ counts' = counts
        BY <1>1, <4>2, <2>1 DEF TableStep, ReportTypeOK, Between
      <4>4. QED
        BY <4>2, <4>3
    <3>2. QED
      BY <3>1 DEF CountsStand
  <2>5. ResultStands'
    <3>1. ASSUME NEW g \in Statement, result' # NoResult
          PROVE  \E S \in SUBSET Id : Between(g, S)' /\ result'[g] = Cardinality(S)
      <4>1. result' = result
        BY <1>1 DEF TableStep
      <4>2. PICK S \in SUBSET Id : Between(g, S) /\ result[g] = Cardinality(S)
        BY <3>1, <4>1 DEF ResultStands
      <4>3. Between(g, S)'
        BY <1>1, <4>2, <2>1 DEF TableStep, ReportTypeOK, Between
      <4>4. QED
        BY <4>1, <4>2, <4>3
    <3>2. QED
      BY <3>1 DEF ResultStands
  <2>6. QED
    BY <1>1, <2>2, <2>3, <2>4, <2>5 DEF TableStep, ResultInTime
<1>2. ASSUME Trigger PROVE Inv'
  BY <1>2 DEF Trigger, vars, ReportTypeOK, Task, Spanned, CountsStand, ResultStands, ResultInTime,
     Counted, Members, Statement
<1>3. ASSUME Begin PROVE Inv'
  <2>1. \A g \in Statement : Members(g) \in SUBSET Id /\ Members(g)' = Members(g)
    BY <1>3 DEF Begin, vars, Members
  <2>2. ReportTypeOK'
    BY <1>3, <2>1 DEF Begin, vars, ReportTypeOK, Task, Statement
  <2>3. CountsStand' /\ ResultInTime'
    BY <1>3 DEF Begin, CountsStand, ResultInTime, Counted, Statement
  <2>4. CASE result = NoResult
    <3>1. Spanned'
      BY <1>3, <2>1, <2>4 DEF Begin, Spanned
    <3>2. ResultStands'
      BY <1>3, <2>4 DEF Begin, ResultStands
    <3>3. QED
      BY <2>2, <2>3, <3>1, <3>2
  <2>5. CASE result # NoResult
    <3>1. UNCHANGED <<result, throughout, sometime>>
      BY <1>3, <2>5 DEF Begin
    <3>2. Spanned'
      BY <2>1, <2>5, <3>1 DEF Spanned, ResultInTime
    <3>3. ResultStands'
      BY <3>1 DEF ResultStands, Between
    <3>4. QED
      BY <2>2, <2>3, <3>2, <3>3
  <2>6. QED
    BY <2>4, <2>5
<1>4. ASSUME Count PROVE Inv'
  <2>0. \A g \in Statement : Members(g) \in SUBSET Id /\ Members(g)' = Members(g)
    BY <1>4 DEF Count, vars, Members
  <2>1. CountMembers(task) \in Nat
    BY <2>0, <1>4, CountIsNat DEF CountMembers, Count
  <2>2. ReportTypeOK'
    BY <1>4, <2>1 DEF Count, vars, ReportTypeOK, Task, Statement, After
  <2>3. Spanned'
    BY <1>4, <2>0 DEF Count, Spanned, Statement, After
  <2>4. CountsStand'
    <3>1. ASSUME NEW g \in Statement, Counted(g)'
          PROVE  \E S \in SUBSET Id : Between(g, S)' /\ counts'[g] = Cardinality(S)
      <4>1. CASE g = task
        <5>1. Between(g, Members(g))' /\ counts'[g] = Cardinality(Members(g))
          BY <1>4, <2>0, <4>1 DEF Count, Spanned, Between, CountMembers, ReportTypeOK, Statement
        <5>2. QED
          BY <2>0, <5>1 DEF Between
      <4>2. CASE g # task
        <5>1. Counted(g)
          BY <1>4, <3>1, <4>2 DEF Count, Counted, Statement, After
        <5>2. PICK S \in SUBSET Id : Between(g, S) /\ counts[g] = Cardinality(S)
          BY <5>1 DEF CountsStand
        <5>3. Between(g, S)' /\ counts'[g] = counts[g]
          BY <1>4, <4>2, <5>2 DEF Count, ReportTypeOK, Between
        <5>4. QED
          BY <5>2, <5>3
      <4>3. QED
        BY <4>1, <4>2
    <3>2. QED
      BY <3>1 DEF CountsStand
  <2>5. ResultStands' /\ ResultInTime'
    BY <1>4 DEF Count, ResultStands, ResultInTime, Between, Statement, After
  <2>6. QED
    BY <2>2, <2>3, <2>4, <2>5
<1>5. ASSUME Return PROVE Inv'
  <2>1. ReportTypeOK' /\ Spanned' /\ ResultInTime'
    BY <1>5 DEF Return, vars, ReportTypeOK, Task, Spanned, ResultInTime, Members, Statement
  <2>2. CountsStand'
    BY <1>5 DEF Return, CountsStand, Counted, Between, Statement
  <2>3. ASSUME NEW g \in Statement
        PROVE  \E S \in SUBSET Id : Between(g, S)' /\ result'[g] = Cardinality(S)
    <3>1. Counted(g)
      BY <1>5 DEF Return, Counted, Statement
    <3>2. PICK S \in SUBSET Id : Between(g, S) /\ counts[g] = Cardinality(S)
      BY <3>1 DEF CountsStand
    <3>3. QED
      BY <1>5, <3>2 DEF Return, Between
  <2>4. QED
    BY <2>1, <2>2, <2>3 DEF ResultStands
<1>6. ASSUME Ack PROVE Inv'
  <2>1. ReportTypeOK' /\ Spanned' /\ ResultInTime'
    BY <1>6 DEF Ack, vars, ReportTypeOK, Task, Spanned, ResultInTime, Members, Statement
  <2>2. CountsStand' /\ ResultStands'
    BY <1>6 DEF Ack, CountsStand, ResultStands, Counted, Between, Statement
  <2>3. QED
    BY <2>1, <2>2
<1>7. QED
  BY <1>0, <1>1, <1>2, <1>3, <1>4, <1>5, <1>6, PageKeeps DEF ReportsNext, allVars, vars

\* What has been counted lies between the rows that were in the group all the
\* time and those that were in it at some time; so do the numbers.
LEMMA Sandwiched == Inv => ReportWithinChurn
<1> SUFFICES ASSUME Inv, result # NoResult, NEW g \in Statement
             PROVE  result[g] \in Cardinality(throughout[g])..Cardinality(sometime[g])
  BY DEF ReportWithinChurn
<1>1. PICK S \in SUBSET Id : Between(g, S) /\ result[g] = Cardinality(S)
  BY DEF Inv, ResultStands
<1>2. throughout[g] \in SUBSET Id /\ sometime[g] \in SUBSET Id
  BY DEF Inv, ReportTypeOK
<1>3. IsFiniteSet(S) /\ IsFiniteSet(sometime[g])
  BY <1>2, CountIsNat
<1>4. Cardinality(throughout[g]) <= Cardinality(S) /\ Cardinality(S) <= Cardinality(sometime[g])
  BY <1>1, <1>3, FS_Subset DEF Between
<1>5. Cardinality(throughout[g]) \in Nat /\ Cardinality(S) \in Nat /\ Cardinality(sometime[g]) \in Nat
  BY <1>2, CountIsNat
<1>6. QED
  BY <1>1, <1>4, <1>5

\* The invariant holds in every state of every behaviour.
THEOREM Invariance == ReportsSpec => []Inv
  BY InvInit, InvNext, PTL DEF ReportsSpec

\* No report counts a user who was never in the group while the task ran, or
\* leaves out one who was in it all the time, whatever handlers commit between
\* its four statements and however often it is taken up again.
THEOREM ReportsAreBounded == ReportsSpec => []ReportWithinChurn
  BY Invariance, Sandwiched, PTL

-----------------------------------------------------------------------------
(* Walks by cursor *)

Cursor == {<<>>} \cup {encode_cursor(i) : i \in Id}

Walk ==
  [by : {"offset", "cursor", "nobody"}, sort : SortColumns \cup {<<>>},
   order : {"asc", "desc", "none"}, pc : {"next", "items", "done"},
   cursor : Cursor, offset : Nat, total : Nat]

WalkTypeOK ==
  /\ rows \in [Id -> Row]
  /\ walk \in Walk
  /\ walk.pc = "items" => walk.by = "offset"
  /\ seen \in Seq(Id)
  /\ always \in SUBSET Id /\ late \in SUBSET Id
  /\ changes \in Nat

\* The ids seen ascend.
Ascending(s) == \A j, k \in 1..Len(s) : j < k => s[j] < s[k]

\* The next page starts after the last id seen.
CursorAtLast ==
  walk.pc = "next" =>
    walk.cursor = IF seen = <<>> THEN <<>> ELSE encode_cursor(seen[Len(seen)])

\* Up to where the walk has come, rows in the list are seen, or came late.
CoveredSoFar ==
  \A i \in Listed(rows) : walk.pc = "done" \/ i <= Passed => i \in Seen \cup late

CursorInv ==
  /\ WalkTypeOK
  /\ walk.by = "cursor" => Ascending(seen) /\ CursorAtLast /\ CoveredSoFar

\* The number of rows of a set up to one of them.
Rank(F, i) == Cardinality({j \in F : j <= i})

\* A later row has a higher rank.
LEMMA RankAscends ==
  ASSUME NEW F \in SUBSET Id, NEW i \in F, NEW j \in F
  PROVE  /\ Rank(F, i) \in 1..Cardinality(F)
         /\ i < j => Rank(F, i) < Rank(F, j)
<1> DEFINE UpTo(k) == {l \in F : l <= k}
<1>0. \A k \in F : k \in Nat
  BY ParamsAssumption DEF Id
<1>1. \A k \in F : UpTo(k) \in SUBSET Id /\ UpTo(k) \in SUBSET F /\ k \in UpTo(k)
  BY <1>0
<1>2. IsFiniteSet(F) /\ Cardinality(F) \in Nat /\ IsFiniteSet(UpTo(i)) /\ IsFiniteSet(UpTo(j))
      /\ Cardinality(UpTo(i)) \in Nat /\ Cardinality(UpTo(j)) \in Nat
  BY <1>1, CountIsNat
<1>3. Cardinality(UpTo(i)) <= Cardinality(F)
  BY <1>1, <1>2, FS_Subset
<1>4. Cardinality(UpTo(i)) # 0
  BY <1>1, <1>2, FS_EmptySet
<1>5. ASSUME i < j PROVE Cardinality(UpTo(i)) < Cardinality(UpTo(j))
  <2>1. UpTo(i) \in SUBSET UpTo(j) /\ j \notin UpTo(i)
    BY <1>0, <1>5
  <2>2. UpTo(i) # UpTo(j)
    BY <2>1, <1>1
  <2> HIDE DEF UpTo
  <2>3. Cardinality(UpTo(i)) <= Cardinality(UpTo(j)) /\ Cardinality(UpTo(j)) # Cardinality(UpTo(i))
    BY <2>1, <2>2, <1>2, FS_Subset
  <2>4. QED
    BY <2>3, <1>2
<1>6. QED
  BY <1>2, <1>3, <1>4, <1>5 DEF Rank

\* Every rank up to the number of rows is that of some row.
LEMMA RankTaken ==
  ASSUME NEW F \in SUBSET Id, NEW k \in 1..Cardinality(F)
  PROVE  \E i \in F : Rank(F, i) = k
<1> DEFINE n == Cardinality(F)
           f == [i \in F |-> Rank(F, i)]
<1>1. IsFiniteSet(F) /\ n \in Nat
  BY CountIsNat
<1>2. IsFiniteSet(1..n) /\ Cardinality(1..n) = n
  BY <1>1, FS_Interval
<1>3. f \in [F -> 1..n]
  BY RankAscends
<1>4. \A i, j \in F : f[i] = f[j] => i = j
  <2>1. SUFFICES ASSUME NEW i \in F, NEW j \in F, i < j PROVE f[i] # f[j]
    BY ParamsAssumption DEF Id
  <2>2. QED
    BY <2>1, RankAscends
<1>5. f \in Injection(F, 1..n)
  BY <1>3, <1>4 DEF Injection, IsInjective
<1> HIDE DEF f, n
<1>6. f \in Surjection(F, 1..n)
  BY <1>1, <1>2, <1>5, FS_Injection DEF n
<1>7. QED
  BY <1>6 DEF Surjection, f, n

\* A fetch returns the first rows above the cursor, in order and without gaps:
\* all of them if there are fewer than asked for.
LEMMA Fetched ==
  ASSUME NEW c, NEW n \in Nat, NEW s, s = SelectAfter(c, n)
  PROVE  /\ s \in Seq(Id) /\ Len(s) <= n /\ Ascending(s)
         /\ \A k \in 1..Len(s) : s[k] \in Above(c)
         /\ \A i \in Above(c), k \in 1..Len(s) : i <= s[k] => \E j \in 1..k : s[j] = i
         /\ Len(s) < n => \A i \in Above(c) : \E j \in 1..Len(s) : s[j] = i
<1> DEFINE F == Above(c)
           m == IF Cardinality(F) < n THEN Cardinality(F) ELSE n
<1>1. F \in SUBSET Id
  BY DEF Above, apply_search, Listed
<1>2. Cardinality(F) \in Nat /\ m \in Nat /\ m <= n /\ m <= Cardinality(F)
  BY <1>1, CountIsNat
<1>3. s = [k \in 1..m |-> CHOOSE i \in F : Rank(F, i) = k]
  BY DEF SelectAfter, Rank
<1>4. \A i \in F : i \in Nat
  BY <1>1, ParamsAssumption DEF Id
<1> HIDE DEF F, m
<1>5. ASSUME NEW k \in 1..m PROVE s[k] \in F /\ Rank(F, s[k]) = k
  <2>1. k \in 1..Cardinality(F)
    BY <1>2
  <2>2. \E i \in F : Rank(F, i) = k
    BY <1>1, <2>1, RankTaken
  <2>3. QED
    BY <1>3, <2>2
<1>6. s \in Seq(Id) /\ Len(s) = m
  <2>1. s \in [1..m -> Id]
    BY <1>1, <1>3, <1>5
  <2>2. QED
    BY <1>2, <2>1, SeqDef, LenProperties
<1>7. \A i, j \in F : i < j => Rank(F, i) < Rank(F, j)
  BY <1>1, RankAscends
<1>8. \A i \in F : Rank(F, i) \in 1..Cardinality(F)
  BY <1>1, RankAscends
<1>9. ASSUME NEW j \in 1..m, NEW k \in 1..m, j < k PROVE s[j] < s[k]
  <2>1. s[j] \in F /\ s[k] \in F /\ Rank(F, s[j]) = j /\ Rank(F, s[k]) = k
    BY <1>5
  <2>2. ~ (s[k] < s[j]) /\ s[k] # s[j]
    BY <1>2, <1>7, <1>9, <2>1
  <2>3. QED
    BY <1>4, <2>1, <2>2
<1>10. ASSUME NEW i \in F, Rank(F, i) <= m PROVE s[Rank(F, i)] = i
  <2>1. Rank(F, i) \in 1..m
    BY <1>2, <1>8, <1>10
  <2>2. s[Rank(F, i)] \in F /\ Rank(F, s[Rank(F, i)]) = Rank(F, i)
    BY <1>5, <2>1
  <2>3. ~ (s[Rank(F, i)] < i) /\ ~ (i < s[Rank(F, i)])
    BY <1>2, <1>7, <2>1, <2>2
  <2>4. QED
    BY <1>4, <2>2, <2>3
<1>11. ASSUME NEW i \in F, NEW k \in 1..m, i <= s[k] PROVE \E j \in 1..k : s[j] = i
  <2>1. s[k] \in F /\ Rank(F, s[k]) = k
    BY <1>5
  <2>2. Rank(F, i) <= k
    <3>1. i < s[k] \/ i = s[k]
      BY <1>4, <1>11, <2>1
    <3>2. QED
      BY <1>2, <1>7, <1>8, <2>1, <3>1
  <2>3. Rank(F, i) \in 1..k
    BY <1>2, <1>8, <2>2
  <2>4. QED
    BY <1>2, <1>10, <2>3
<1>12. ASSUME m < n, NEW i \in F PROVE \E j \in 1..m : s[j] = i
  <2>1. m = Cardinality(F)
    BY <1>2, <1>12 DEF m
  <2>2. QED
    BY <1>2, <1>8, <1>10, <2>1
<1>13. QED
  BY <1>2, <1>5, <1>6, <1>9, <1>11, <1>12 DEF F, Ascending

\* A cursor decodes to the id it was made from.
LEMMA CursorDecodes ==
  \A i : decode_cursor(encode_cursor(i)) = i /\ encode_cursor(i) # <<>>
  BY DEF decode_cursor, encode_cursor

\* At the start no page has been asked for.
LEMMA CursorInvInit == ReportsInit => CursorInv
<1> SUFFICES ASSUME ReportsInit PROVE CursorInv
    OBVIOUS
<1>1. walk \in Walk /\ walk.pc = "next" /\ (walk.by = "cursor" => walk.cursor = <<>>)
  BY DEF ReportsInit, Init, NewWalk, Walk, Cursor
<1>2. WalkTypeOK
  BY <1>1 DEF ReportsInit, Init, WalkTypeOK, Row, apply_search, Listed
<1>3. Ascending(seen) /\ CoveredSoFar
  <2>1. Len(seen) = 0 /\ 1..Len(seen) = {}
    BY DEF ReportsInit, Init
  <2>2. \A i \in Listed(rows) : ~ (i <= Passed)
    BY ParamsAssumption DEF ReportsInit, Init, Passed, Listed, Id
  <2>3. QED
    BY <1>1, <2>1, <2>2 DEF Ascending, CoveredSoFar
<1>4. QED
  BY <1>1, <1>2, <1>3 DEF CursorInv, CursorAtLast, ReportsInit, Init

\* A page by cursor: what is fetched lies behind what was seen, leaves no gap,
\* and the cursor moves to its last row.
LEMMA PageByCursor == CursorInv /\ paginate_cursor => CursorInv'
<1> SUFFICES ASSUME CursorInv, paginate_cursor PROVE CursorInv'
    OBVIOUS
<1> DEFINE c == walk.cursor
           fetched == SelectAfter(c, limit + 1)
           more == Len(fetched) > limit
           n == IF more THEN limit ELSE Len(fetched)
           page == SubSeq(fetched, 1, n)
<1>0. /\ walk \in Walk /\ walk.by = "cursor" /\ walk.pc = "next"
      /\ Ascending(seen) /\ CursorAtLast /\ CoveredSoFar /\ seen \in Seq(Id)
  BY DEF CursorInv, WalkTypeOK, paginate_cursor
<1>1. limit \in Nat /\ limit >= 1 /\ limit + 1 \in Nat /\ Id \subseteq Nat
  BY ParamsAssumption DEF Id
<1>a. /\ Len(seen) \in Nat /\ \A k \in 1..Len(seen) : seen[k] \in Id /\ seen[k] \in Nat
      /\ seen # <<>> => Len(seen) \in 1..Len(seen)
      /\ seen = <<>> => Len(seen) = 0
  <2>1. Len(seen) \in Nat /\ \A k \in 1..Len(seen) : seen[k] \in Id
    BY <1>0, ElementOfSeq, LenProperties
  <2>2. (seen # <<>> => Len(seen) # 0) /\ (seen = <<>> => Len(seen) = 0)
    BY <1>0, EmptySeq
  <2>3. \A k \in 1..Len(seen) : seen[k] \in Nat
    BY <1>1, <2>1
  <2>4. Len(seen) # 0 => Len(seen) \in 1..Len(seen)
    BY <2>1
  <2>5. QED
    BY <2>1, <2>2, <2>3, <2>4
<1>2. /\ fetched \in Seq(Id) /\ Len(fetched) <= limit + 1 /\ Ascending(fetched)
      /\ \A k \in 1..Len(fetched) : fetched[k] \in Above(c)
      /\ \A i \in Above(c), k \in 1..Len(fetched) :
           i <= fetched[k] => \E j \in 1..k : fetched[j] = i
      /\ Len(fetched) < limit + 1 => \A i \in Above(c) : \E j \in 1..Len(fetched) : fetched[j] = i
  BY <1>1, Fetched
<1>3. /\ seen' = seen \o page
      /\ walk' = [walk EXCEPT !.cursor = next_cursor(fetched), !.pc = IF more THEN "next" ELSE "done"]
      /\ rows' = rows /\ always' = always /\ late' = late /\ changes' = changes
  BY DEF paginate_cursor
<1>4. next_cursor(fetched) = IF more THEN encode_cursor(fetched[limit]) ELSE <<>>
  BY DEF next_cursor
<1> HIDE DEF c, fetched
<1>5. /\ Len(fetched) \in Nat /\ n \in Nat /\ n <= Len(fetched)
      /\ \A k \in 1..Len(fetched) : fetched[k] \in Id
      /\ IF more THEN n = limit /\ limit \in 1..Len(fetched) ELSE n = Len(fetched)
  BY <1>1, <1>2, ElementOfSeq, LenProperties
<1>6. page \in Seq(Id) /\ Len(page) = n /\ \A k \in 1..n : page[k] = fetched[k]
  <2>1. page \in Seq(Id) /\ Len(page) = (IF 1 <= n THEN n - 1 + 1 ELSE 0)
        /\ \A k \in 1..n - 1 + 1 : page[k] = fetched[1 + k - 1]
    <3>1. 1 \in Int /\ n \in Int /\ \A k \in 1..n : fetched[k] \in Id
      BY <1>5
    <3>2. QED
      BY <3>1, SubSeqProperties
  <2>2. QED
    BY <1>5, <2>1
<1> HIDE DEF page, n
<1>7. /\ seen' \in Seq(Id) /\ Len(seen') = Len(seen) + n
      /\ \A k \in 1..Len(seen) : seen'[k] = seen[k]
      /\ \A k \in 1..n : seen'[Len(seen) + k] = fetched[k]
  <2>1. /\ seen \o page \in Seq(Id) /\ Len(seen \o page) = Len(seen) + Len(page)
        /\ \A k \in 1..Len(seen) + Len(page) :
             (seen \o page)[k] = IF k <= Len(seen) THEN seen[k] ELSE page[k - Len(seen)]
    BY <1>0, <1>6, ConcatProperties
  <2>2. /\ seen' \in Seq(Id) /\ Len(seen') = Len(seen) + n
        /\ \A k \in 1..Len(seen) + n : seen'[k] = IF k <= Len(seen) THEN seen[k] ELSE page[k - Len(seen)]
    BY <1>3, <1>6, <2>1
  <2>3. ASSUME NEW k \in 1..n PROVE seen'[Len(seen) + k] = page[k]
    <3>1. Len(seen) + k \in 1..Len(seen) + n /\ ~ (Len(seen) + k <= Len(seen))
          /\ Len(seen) + k - Len(seen) = k
      BY <1>a, <1>5
    <3>2. QED
      BY <2>2, <3>1
  <2>4. \A k \in 1..Len(seen) : k \in 1..Len(seen) + n /\ k <= Len(seen)
    BY <1>a, <1>5
  <2>5. QED
    BY <1>6, <2>2, <2>3, <2>4
<1>8. walk' \in Walk /\ walk'.by = "cursor" /\ walk'.pc = (IF more THEN "next" ELSE "done")
      /\ walk'.cursor = next_cursor(fetched)
  <2>1. next_cursor(fetched) \in Cursor
    <3>1. more => fetched[limit] \in Id
      BY <1>5
    <3>2. QED
      BY <1>4, <3>1 DEF Cursor
  <2> DEFINE moved == next_cursor(fetched)
             pc == IF more THEN "next" ELSE "done"
  <2>2. moved \in Cursor /\ pc \in {"next", "items", "done"}
    BY <2>1
  <2>3. walk' = [walk EXCEPT !.cursor = moved, !.pc = pc]
    BY <1>3
  <2> HIDE DEF moved, pc
  <2>4. walk' \in Walk /\ walk'.by = walk.by /\ walk'.pc = pc /\ walk'.cursor = moved
    BY <1>0, <2>2, <2>3 DEF Walk
  <2>5. QED
    BY <1>0, <2>4 DEF moved, pc
\* What is fetched comes after what was seen.
<1>9. \A j \in 1..Len(seen), i \in Above(c) : seen[j] < i
  <2>1. SUFFICES ASSUME NEW j \in 1..Len(seen), NEW i \in Above(c) PROVE seen[j] < i
    OBVIOUS
  <2>2. Len(seen) \in Nat /\ seen # <<>> /\ \A k \in 1..Len(seen) : seen[k] \in Nat
    BY <1>a, <2>1
  <2>3. c = encode_cursor(seen[Len(seen)])
    BY <1>0, <2>2 DEF CursorAtLast, c
  <2>4. i > seen[Len(seen)] /\ i \in Nat
    BY <1>1, <2>3, CursorDecodes DEF Above, apply_search, Listed
  <2>5. seen[j] <= seen[Len(seen)]
    BY <1>0, <2>2 DEF Ascending
  <2>6. QED
    BY <2>2, <2>4, <2>5
<1>10. Ascending(seen')
  <2>1. SUFFICES ASSUME NEW j \in 1..Len(seen) + n, NEW k \in 1..Len(seen) + n, j < k
                 PROVE  seen'[j] < seen'[k]
    BY <1>7 DEF Ascending
  <2>2. Len(seen) \in Nat
    BY <1>a
  <2>3. CASE k <= Len(seen)
    BY <1>0, <1>7, <2>1, <2>2, <2>3 DEF Ascending
  <2>4. CASE j <= Len(seen) /\ k > Len(seen)
    <3>1. PICK l \in 1..n : k = Len(seen) + l
      BY <1>5, <2>2, <2>4
    <3>2. fetched[l] \in Above(c) /\ j \in 1..Len(seen)
      BY <1>2, <1>5, <2>2, <2>4
    <3>3. QED
      BY <1>7, <1>9, <3>1, <3>2
  <2>5. CASE j > Len(seen)
    <3>0. j - Len(seen) \in 1..n /\ k - Len(seen) \in 1..n
          /\ j = Len(seen) + (j - Len(seen)) /\ k = Len(seen) + (k - Len(seen))
      BY <1>5, <2>1, <2>2, <2>5
    <3>1. PICK l \in 1..n, m \in 1..n : j = Len(seen) + l /\ k = Len(seen) + m
      BY <3>0
    <3>2. l < m /\ l \in 1..Len(fetched) /\ m \in 1..Len(fetched)
      BY <1>5, <2>1, <2>2, <3>1
    <3>3. QED
      BY <1>2, <1>7, <3>1, <3>2 DEF Ascending
  <2>6. QED
    BY <2>1, <2>2, <2>3, <2>4, <2>5
<1>11. more => seen' # <<>> /\ seen'[Len(seen')] = fetched[limit]
  <2>1. SUFFICES ASSUME more PROVE seen' # <<>> /\ seen'[Len(seen')] = fetched[limit]
    OBVIOUS
  <2>2. n = limit /\ limit \in 1..n
    BY <1>1, <1>5, <2>1
  <2>3. Len(seen') # 0
    BY <1>1, <1>a, <1>7, <2>2
  <2>4. QED
    BY <1>7, <2>2, <2>3, EmptySeq
<1>12. CursorAtLast'
  BY <1>4, <1>8, <1>11 DEF CursorAtLast
<1>13. CoveredSoFar'
  <2>1. SUFFICES ASSUME NEW i \in Listed(rows), ~more \/ i <= Passed'
                 PROVE  i \in Seen' \/ i \in late
    BY <1>3, <1>8 DEF CoveredSoFar, Listed
  <2>2. Len(seen) \in Nat /\ i \in Id /\ i \in Nat
    BY <1>a, <1>1 DEF Listed
  <2>3. Seen \subseteq Seen' /\ \A k \in 1..n : fetched[k] \in Seen'
    <3>1. \A k \in 1..Len(seen) : k \in 1..Len(seen')
      BY <1>5, <1>7, <2>2
    <3>2. \A k \in 1..n : Len(seen) + k \in 1..Len(seen')
      BY <1>5, <1>7, <2>2
    <3>3. QED
      BY <1>7, <3>1, <3>2 DEF Seen
  <2>4. CASE i <= Passed
    BY <1>0, <2>3, <2>4 DEF CoveredSoFar
  <2>5. CASE ~ (i <= Passed)
    <3>1. i \in Above(c)
      <4>1. CASE seen = <<>>
        BY <1>0, <4>1 DEF CursorAtLast, Above, apply_search, c
      <4>2. CASE seen # <<>>
        <5>1. c = encode_cursor(seen[Len(seen)]) /\ seen[Len(seen)] \in Nat
          BY <1>0, <1>a, <4>2 DEF CursorAtLast, c
        <5>2. i > seen[Len(seen)]
          BY <2>2, <2>5, <4>2, <5>1 DEF Passed
        <5>3. QED
          BY <5>1, <5>2, CursorDecodes DEF Above, apply_search
      <4>3. QED
        BY <4>1, <4>2
    <3>2. CASE more
      <4>1. i <= fetched[limit] /\ limit \in 1..Len(fetched)
        BY <1>1, <1>5, <1>11, <2>1, <3>2 DEF Passed
      <4>2. \E j \in 1..n : fetched[j] = i
        BY <1>2, <1>5, <3>1, <3>2, <4>1
      <4>3. QED
        BY <2>3, <4>2
    <3>3. CASE ~more
      <4>1. Len(fetched) < limit + 1
        BY <1>1, <1>5, <3>3
      <4>2. \E j \in 1..n : fetched[j] = i
        BY <1>2, <1>5, <3>1, <3>3, <4>1
      <4>3. QED
        BY <2>3, <4>2
    <3>4. QED
      BY <3>2, <3>3
  <2>6. QED
    BY <2>4, <2>5
<1>14. WalkTypeOK'
  BY <1>3, <1>7, <1>8 DEF CursorInv, WalkTypeOK
<1>15. QED
  BY <1>8, <1>10, <1>12, <1>13, <1>14 DEF CursorInv

\* A page by offset does not concern a walk by cursor.
LEMMA PageByOffset == CursorInv /\ (OffsetCount \/ OffsetItems) => CursorInv'
<1> SUFFICES ASSUME CursorInv, OffsetCount \/ OffsetItems PROVE CursorInv'
    OBVIOUS
<1> USE DEF CursorInv
<1>1. CASE OffsetCount
  <2>1. Cardinality(apply_search) \in Nat
    BY CountIsNat DEF apply_search, Listed
  <2>2. walk' \in Walk /\ walk'.by = "offset"
    BY <1>1, <2>1 DEF OffsetCount, WalkTypeOK, Walk
  <2>3. QED
    BY <1>1, <2>2 DEF OffsetCount, WalkTypeOK
<1>2. CASE OffsetItems
  <2>0. walk.by = "offset" /\ walk \in Walk /\ limit \in Nat /\ limit > 0
    BY <1>2, ParamsAssumption DEF OffsetItems, WalkTypeOK
  <2> DEFINE left(s) == Len(s) - walk.offset
             items(s) == SubSeq(s, walk.offset + 1,
                                walk.offset + (IF left(s) < limit THEN left(s) ELSE limit))
             pc == IF has_more(Len(seen') - Len(seen)) THEN "next" ELSE "done"
             offset == walk.offset + limit
  <2>1. PICK s \in Orders :
             /\ seen' = IF walk.offset >= Len(s) THEN seen ELSE seen \o items(s)
             /\ walk' = [walk EXCEPT !.offset = offset, !.pc = pc]
    BY <1>2 DEF OffsetItems
  <2>2. pc \in {"next", "done"} /\ walk.offset \in Nat /\ offset \in Nat
    BY <2>0 DEF Walk
  <2> HIDE DEF pc, offset
  <2>3. walk' \in Walk /\ walk'.by = "offset" /\ walk'.pc # "items"
    BY <2>0, <2>1, <2>2 DEF Walk
  <2>4. s \in Seq(Id)
    <3>1. Cardinality(apply_search) \in Nat /\ apply_search \in SUBSET Id
      BY CountIsNat DEF apply_search, Listed
    <3>2. s \in [1..Cardinality(apply_search) -> Id]
      BY <3>1 DEF Orders
    <3>3. QED
      BY <3>1, <3>2, SeqDef
  <2>5. ASSUME ~ (walk.offset >= Len(s)) PROVE items(s) \in Seq(Id)
    <3> DEFINE first == walk.offset + 1
               last == walk.offset + (IF left(s) < limit THEN left(s) ELSE limit)
    <3>1. Len(s) \in Nat /\ \A k \in 1..Len(s) : s[k] \in Id
      BY <2>4, LenProperties, ElementOfSeq
    <3>2. first \in Int /\ last \in Int /\ first >= 1 /\ last <= Len(s)
      BY <2>0, <2>2, <2>5, <3>1
    <3>3. items(s) = SubSeq(s, first, last)
      OBVIOUS
    <3> HIDE DEF first, last, items
    <3>4. \A k \in first..last : s[k] \in Id
      BY <3>1, <3>2
    <3>5. QED
      BY <3>2, <3>3, <3>4, SubSeqProperties
  <2>6. seen' \in Seq(Id)
    <3>1. seen \in Seq(Id)
      BY DEF WalkTypeOK
    <3> HIDE DEF items
    <3>2. QED
      BY <2>1, <2>5, <3>1, ConcatProperties
  <2>7. QED
    BY <1>2, <2>3, <2>6 DEF OffsetItems, WalkTypeOK
<1>3. QED
  BY <1>1, <1>2

\* A change of the table: a row that joins the list at or below the last id
\* seen is late, and no other row joins it.
LEMMA ChangeDuringWalk == CursorInv /\ Environment => CursorInv'
<1> SUFFICES ASSUME CursorInv, NEW i \in Id, Commit(i) \/ Update(i) \/ Delete(i) PROVE CursorInv'
  BY DEF Environment
<1> USE DEF CursorInv
<1>1. PICK state \in Row : Become(i, state)
  BY DEF Commit, Update, Delete, Row
<1>2. rows' = [rows EXCEPT ![i] = state] /\ walk' = walk /\ seen' = seen /\ walk.pc # "done"
  BY <1>1 DEF Become
<1>3. late' = (IF state = "match" /\ i <= Passed THEN late \cup {i} ELSE late)
      /\ always' = always \cap Listed(rows') /\ changes' = changes + 1
  BY <1>1 DEF Become
<1>4. WalkTypeOK'
  BY <1>2, <1>3 DEF WalkTypeOK
<1>5. ASSUME walk.by = "cursor" PROVE CoveredSoFar'
  <2>1. SUFFICES ASSUME NEW j \in Listed(rows'), j <= Passed PROVE j \in Seen \cup late'
    BY <1>2 DEF CoveredSoFar, Passed, Seen
  <2>2. CASE j = i
    <3>1. state = "match"
      BY <1>2, <2>2 DEF Listed, WalkTypeOK
    <3>2. QED
      BY <1>3, <2>1, <2>2, <3>1
  <2>3. CASE j # i
    <3>1. j \in Listed(rows)
      BY <1>2, <2>3 DEF Listed, WalkTypeOK
    <3>2. QED
      BY <1>3, <1>5, <2>1, <3>1 DEF CoveredSoFar
  <2>4. QED
    BY <2>2, <2>3
<1>6. QED
  BY <1>2, <1>4, <1>5 DEF Ascending, CursorAtLast

\* Every step of the clients, of the table and of the task.
LEMMA CursorInvNext == CursorInv /\ [ReportsNext]_allVars => CursorInv'
<1> SUFFICES ASSUME CursorInv, [ReportsNext]_allVars PROVE CursorInv'
    OBVIOUS
<1>1. ASSUME UNCHANGED vars PROVE CursorInv'
  BY <1>1 DEF vars, CursorInv, WalkTypeOK, Ascending, CursorAtLast, CoveredSoFar, Listed, Passed, Seen
<1>2. CASE Page
  BY <1>2, PageByCursor, PageByOffset DEF Page
<1>3. CASE TableStep
  BY <1>3, ChangeDuringWalk DEF TableStep
<1>4. CASE Trigger \/ Begin \/ Count \/ Return \/ Ack \/ UNCHANGED allVars
  BY <1>1, <1>4 DEF Trigger, Begin, Count, Return, Ack, allVars
<1>5. QED
  BY <1>2, <1>3, <1>4 DEF ReportsNext

\* Ids that ascend are all different.
LEMMA AscendingDistinct ==
  ASSUME seen \in Seq(Id), Ascending(seen) PROVE Len(seen) = Cardinality(Seen)
<1>1. Len(seen) \in Nat /\ \A k \in 1..Len(seen) : seen[k] \in Nat
  <2>1. Len(seen) \in Nat /\ \A k \in 1..Len(seen) : seen[k] \in Id
    BY LenProperties, ElementOfSeq
  <2>2. QED
    BY <2>1, ParamsAssumption DEF Id
<1>2. seen \in [1..Len(seen) -> Seen]
  BY LenProperties DEF Seen
<1>3. \A j, k \in 1..Len(seen) : seen[j] = seen[k] => j = k
  <2>1. SUFFICES ASSUME NEW j \in 1..Len(seen), NEW k \in 1..Len(seen), j < k PROVE seen[j] # seen[k]
    BY <1>1
  <2>2. QED
    BY <1>1, <2>1 DEF Ascending
<1>4. seen \in Bijection(1..Len(seen), Seen)
  BY <1>2, <1>3 DEF Bijection, Injection, Surjection, IsInjective, Seen
<1>5. QED
  BY <1>1, <1>4, FS_CountingElements DEF ExistsBijection

\* The invariant of the walks holds in every state of every behaviour.
THEOREM CursorInvariance == ReportsSpec => []CursorInv
  BY CursorInvInit, CursorInvNext, PTL DEF ReportsSpec

\* When next_cursor is null, the client has every row of the list once, but for
\* those that joined it behind the client's back.
THEOREM CursorWalksAreComplete == ReportsSpec => []CursorMissesOnlyLate
<1>1. CursorInv => CursorMissesOnlyLate
  BY AscendingDistinct DEF CursorInv, WalkTypeOK, CoveredSoFar, CursorMissesOnlyLate
<1>2. QED
  BY <1>1, CursorInvariance, PTL

-----------------------------------------------------------------------------
(* Walks by offset *)

\* The order of a walk by offset: pairs of rows, the first before the second.
Ordering ==
  {p \in Id \X Id : IF walk.order = "desc" THEN walk.sort[p[1]] >= walk.sort[p[2]]
                                           ELSE walk.sort[p[1]] <= walk.sort[p[2]]}

\* The place of a row in a list.
Place(R, F, i) == Cardinality({j \in F : <<j, i>> \in R})

\* Rows that were there all the time and have been passed without being seen.
Skipped == {i \in always \ Seen : Place(Ordering, apply_search, i) <= walk.offset}

\* Rows the client has seen and will see again.
Again == {i \in Seen \cap apply_search : Place(Ordering, apply_search, i) > walk.offset}

\* What the list has grown by since its rows were counted for the page under way.
Grown ==
  IF walk.pc = "items" /\ Cardinality(apply_search) > walk.total
  THEN Cardinality(apply_search) - walk.total ELSE 0

\* Rows that are missed, or will be, are no more than there were changes.
MissesBounded ==
  IF walk.pc = "done" THEN Cardinality(always \ Seen) <= changes
                      ELSE Cardinality(Skipped) + Grown <= changes

\* So are rows that are repeated, or will be.
RepeatsBounded == Len(seen) - Cardinality(Seen) + Cardinality(Again) <= changes

\* While nothing has changed, the client has as many rows as the offset says.
Quiet ==
  IF walk.pc = "done"
  THEN Len(seen) = Cardinality(apply_search)
  ELSE /\ Len(seen) = walk.offset /\ walk.offset <= Cardinality(apply_search)
       /\ walk.pc = "items" => walk.total = Cardinality(apply_search)

\* And every row it has was due where it stands.
Placed == \A k \in 1..Len(seen) : InPlace(k)

\* The invariant of walks by offset.
OffsetInv ==
  /\ always \subseteq apply_search
  /\ walk.by = "offset" =>
       /\ walk.sort \in SortColumns /\ walk.order \in {"asc", "desc"}
       /\ NoTies => MissesBounded /\ RepeatsBounded
       /\ changes = 0 => Quiet /\ Placed

\* A linear order of all ids.
Linear(R) ==
  /\ \A i, j \in Id : <<i, j>> \in R \/ <<j, i>> \in R
  /\ \A i, j \in Id : <<i, j>> \in R /\ <<j, i>> \in R => i = j
  /\ \A i, j, k \in Id : <<i, j>> \in R /\ <<j, k>> \in R => <<i, k>> \in R

\* Without equal rows, the order of a walk is linear.
LEMMA OrderingLinear ==
  ASSUME walk.sort \in SortColumns, NoTies PROVE Linear(Ordering)
<1>1. PICK key \in [Id -> Nat] : key = walk.sort
  BY ParamsAssumption
<1>2. \A i, j \in Id : <<i, j>> \in Ordering <=>
        IF walk.order = "desc" THEN key[i] >= key[j] ELSE key[i] <= key[j]
  BY <1>1 DEF Ordering
<1>3. \A i, j \in Id : key[i] = key[j] => i = j
  BY <1>1 DEF NoTies
<1>4. QED
  <2>1. CASE walk.order = "desc"
    BY <1>1, <1>2, <1>3, <2>1 DEF Linear
  <2>2. CASE walk.order # "desc"
    BY <1>1, <1>2, <1>3, <2>2 DEF Linear
  <2>3. QED
    BY <2>1, <2>2

\* A row that joins the list moves the rows after it by one place.
LEMMA PlaceMoves ==
  ASSUME NEW R, NEW F \in SUBSET Id, NEW r \in Id \ F, NEW i \in Id
  PROVE  /\ Place(R, F, i) \in Nat
         /\ \/ Place(R, F \cup {r}, i) = Place(R, F, i)
            \/ Place(R, F \cup {r}, i) = Place(R, F, i) + 1 /\ <<r, i>> \in R
         /\ <<r, i>> \in R => Place(R, F \cup {r}, i) = Place(R, F, i) + 1
<1>1. PICK S \in SUBSET Id : S = {j \in F : <<j, i>> \in R}
  OBVIOUS
<1>2. IsFiniteSet(S) /\ Cardinality(S) \in Nat /\ r \notin S
  BY <1>1, CountIsNat
<1>3. {j \in F \cup {r} : <<j, i>> \in R} = IF <<r, i>> \in R THEN S \cup {r} ELSE S
  BY <1>1
<1>4. Cardinality(S \cup {r}) = Cardinality(S) + 1
  BY <1>2, FS_AddElement
<1>5. Place(R, F, i) = Cardinality(S)
  BY <1>1 DEF Place
<1>6. Place(R, F \cup {r}, i) = IF <<r, i>> \in R THEN Cardinality(S) + 1 ELSE Cardinality(S)
  BY <1>3, <1>4 DEF Place
<1>7. QED
  BY <1>2, <1>5, <1>6

\* A place is a number.
LEMMA PlaceIsNat == ASSUME NEW R, NEW F \in SUBSET Id, NEW i PROVE Place(R, F, i) \in Nat
<1>1. PICK S \in SUBSET Id : S = {j \in F : <<j, i>> \in R}
  OBVIOUS
<1>2. Cardinality(S) \in Nat
  BY CountIsNat
<1>3. QED
  BY <1>1, <1>2 DEF Place

\* A later row has a later place.
LEMMA PlaceAscends ==
  ASSUME NEW R, Linear(R), NEW F \in SUBSET Id, NEW i \in F, NEW j \in F, i # j, <<i, j>> \in R
  PROVE  Place(R, F, i) < Place(R, F, j)
<1>1. PICK S \in SUBSET Id, T \in SUBSET Id : S = {k \in F : <<k, i>> \in R} /\ T = {k \in F : <<k, j>> \in R}
  OBVIOUS
<1>2. IsFiniteSet(T) /\ Cardinality(S) \in Nat /\ Cardinality(T) \in Nat
  BY CountIsNat
<1>3. S \in SUBSET T /\ j \in T /\ j \notin S
  BY <1>1 DEF Linear
<1>4. Cardinality(S) <= Cardinality(T) /\ Cardinality(S) # Cardinality(T)
  <2>1. S # T
    BY <1>3
  <2>2. QED
    BY <1>2, <1>3, <2>1, FS_Subset
<1>5. Place(R, F, i) = Cardinality(S) /\ Place(R, F, j) = Cardinality(T)
  BY <1>1 DEF Place
<1>6. QED
  BY <1>2, <1>4, <1>5

\* No two rows have the same place.
LEMMA PlaceOfOne ==
  ASSUME NEW R, Linear(R), NEW F \in SUBSET Id, NEW i \in F, NEW j \in F,
         Place(R, F, i) = Place(R, F, j)
  PROVE  i = j
<1>1. Place(R, F, i) \in Nat
  BY PlaceIsNat
<1>2. SUFFICES ASSUME i # j PROVE FALSE
  OBVIOUS
<1>3. <<i, j>> \in R \/ <<j, i>> \in R
  BY DEF Linear
<1>4. Place(R, F, i) < Place(R, F, j) \/ Place(R, F, j) < Place(R, F, i)
  BY <1>2, <1>3, PlaceAscends
<1>5. QED
  BY <1>1, <1>4

\* A set that has at most one element beyond another.
LEMMA OneMoreAtMost ==
  ASSUME NEW S \in SUBSET Id, NEW T \in SUBSET Id, \A a, b \in T \ S : a = b
  PROVE  Cardinality(T) <= Cardinality(S) + 1
<1>0. IsFiniteSet(S) /\ Cardinality(S) \in Nat /\ Cardinality(T) \in Nat
  BY CountIsNat
<1>1. CASE T \subseteq S
  BY <1>0, <1>1, FS_Subset
<1>2. CASE ~ (T \subseteq S)
  <2>1. PICK x \in T : x \notin S
    BY <1>2
  <2>2. PICK U : U = S \cup {x}
    OBVIOUS
  <2>3. IsFiniteSet(U) /\ Cardinality(U) = Cardinality(S) + 1
    BY <1>0, <2>1, <2>2, FS_AddElement
  <2>4. T \in SUBSET U
    BY <2>1, <2>2
  <2>5. Cardinality(T) <= Cardinality(U)
    BY <2>3, <2>4, FS_Subset
  <2>6. QED
    BY <2>3, <2>5
<1>3. QED
  BY <1>1, <1>2

\* A page by offset: n rows from the offset on, of the list in some order.
IsPage(s, n) ==
  /\ n = IF Cardinality(apply_search) <= walk.offset THEN 0
         ELSE IF Cardinality(apply_search) - walk.offset < limit
              THEN Cardinality(apply_search) - walk.offset ELSE limit
  /\ Len(seen') = Len(seen) + n
  /\ Seen' = Seen \cup {s[k] : k \in walk.offset + 1 .. walk.offset + n}
  /\ \A k \in 1..Len(seen) : seen'[k] = seen[k]
  /\ \A k \in 1..n : seen'[Len(seen) + k] = s[walk.offset + k]
  /\ walk' \in Walk /\ walk'.offset = walk.offset + limit
  /\ walk'.pc = IF walk.offset + n < walk.total THEN "next" ELSE "done"
  /\ walk'.sort = walk.sort /\ walk'.order = walk.order /\ walk'.by = walk.by

\* Every step of paginate_offset that fetches rows is such a page.
LEMMA PageTaken ==
  ASSUME CursorInv, OffsetItems PROVE \E s \in Orders, n \in Nat : IsPage(s, n)
<1>0. /\ walk.by = "offset" /\ walk \in Walk /\ limit \in Nat /\ limit > 0 /\ seen \in Seq(Id)
      /\ walk.offset \in Nat
  BY ParamsAssumption DEF OffsetItems, WalkTypeOK, CursorInv, Walk
<1>a. PICK o \in Nat : o = walk.offset
  BY <1>0
<1> DEFINE left(s) == Len(s) - o
           upTo(s) == o + (IF left(s) < limit THEN left(s) ELSE limit)
           pc == IF has_more(Len(seen') - Len(seen)) THEN "next" ELSE "done"
           offset == o + limit
<1>1. PICK s \in Orders :
           /\ seen' = IF o >= Len(s) THEN seen ELSE seen \o SubSeq(s, o + 1, upTo(s))
           /\ walk' = [walk EXCEPT !.offset = offset, !.pc = pc]
  BY <1>a DEF OffsetItems
<1>2. Cardinality(apply_search) \in Nat /\ apply_search \in SUBSET Id
  BY CountIsNat DEF apply_search, Listed
<1>3. s \in Seq(Id) /\ Len(s) = Cardinality(apply_search) /\ \A k \in 1..Len(s) : s[k] \in Id
  <2>1. s \in [1..Cardinality(apply_search) -> Id]
    BY <1>2 DEF Orders
  <2>2. QED
    BY <1>2, <2>1, SeqDef, LenProperties
<1>4. PICK m \in Nat : m = Len(s)
  BY <1>2, <1>3
<1>5. PICK n \in Nat : n = IF m <= o THEN 0 ELSE IF m - o < limit THEN m - o ELSE limit
  <2>1. (IF m <= o THEN 0 ELSE IF m - o < limit THEN m - o ELSE limit) \in Nat
    BY <1>0
  <2>2. QED
    BY <2>1
<1>6. /\ seen' \in Seq(Id) /\ Len(seen') = Len(seen) + n
      /\ Seen' = Seen \cup {s[k] : k \in o + 1 .. o + n}
      /\ \A k \in 1..Len(seen) : seen'[k] = seen[k]
      /\ \A k \in 1..n : seen'[Len(seen) + k] = s[o + k]
  <2>0. Len(seen) \in Nat
    BY <1>0, LenProperties
  <2>1. CASE m <= o
    <3>1. seen' = seen /\ n = 0 /\ o + 1 .. o + n = {}
      BY <1>0, <1>1, <1>4, <1>5, <2>1
    <3>2. QED
      BY <1>0, <2>0, <3>1 DEF Seen
  <2>2. CASE m > o
    <3>0. upTo(s) = o + n /\ o + n <= m /\ n >= 1 /\ ~ (o >= Len(s))
      BY <1>0, <1>4, <1>5, <2>2
    <3>1. seen' = seen \o SubSeq(s, o + 1, o + n)
      <4>1. seen' = seen \o SubSeq(s, o + 1, upTo(s))
        BY <1>1, <3>0
      <4> HIDE DEF upTo
      <4>2. QED
        BY <3>0, <4>1
    <3>b. PICK first \in Int, last \in Int : first = o + 1 /\ last = o + n
      BY <1>5
    <3>2. PICK page : page = SubSeq(s, first, last)
      OBVIOUS
    <3>3. \A k \in first..last : s[k] \in Id
      <4>1. \A k \in first..last : k \in 1..Len(s)
        BY <1>4, <3>0, <3>b
      <4>2. QED
        BY <1>3, <4>1
    <3>4. page \in Seq(Id) /\ Len(page) = (IF first <= last THEN last - first + 1 ELSE 0)
          /\ \A k \in 1 .. last - first + 1 : page[k] = s[first + k - 1]
      BY <3>2, <3>3, SubSeqProperties
    <3>5. page \in Seq(Id) /\ Len(page) = n /\ \A k \in 1..n : page[k] = s[o + k]
      <4>1. first <= last /\ last - first + 1 = n
        BY <3>0, <3>b
      <4>2. \A k \in 1..n : first + k - 1 = o + k
        BY <3>b
      <4>3. QED
        BY <3>4, <4>1, <4>2
    <3>6. seen' = seen \o page
      BY <3>1, <3>b, <3>2
    <3>7. /\ seen' \in Seq(Id) /\ Len(seen') = Len(seen) + n
          /\ \A k \in 1..Len(seen) + n : seen'[k] = IF k <= Len(seen) THEN seen[k] ELSE page[k - Len(seen)]
      BY <1>0, <3>5, <3>6, ConcatProperties
    <3>8. ASSUME NEW x \in Seen' PROVE x \in Seen \/ \E k \in o + 1 .. o + n : x = s[k]
      <4>1. PICK k \in 1..Len(seen) + n : x = seen'[k]
        BY <3>7, <3>8 DEF Seen
      <4>2. CASE k <= Len(seen)
        BY <2>0, <3>7, <4>1, <4>2 DEF Seen
      <4>3. CASE ~ (k <= Len(seen))
        <5>1. PICK l \in 1..n : l = k - Len(seen)
          <6>1. k - Len(seen) \in 1..n
            BY <2>0, <4>3
          <6>2. QED
            BY <6>1
        <5>2. x = page[l]
          BY <3>7, <4>1, <4>3, <5>1
        <5>a. x = s[o + l] /\ o + l \in o + 1 .. o + n
          BY <3>5, <5>1, <5>2
        <5>3. QED
          BY <5>a
      <4>4. QED
        BY <4>2, <4>3
    <3>9. ASSUME NEW k \in 1..Len(seen) PROVE seen[k] \in Seen'
      <4>1. k \in 1..Len(seen) + n /\ k <= Len(seen)
        BY <2>0, <1>5
      <4>2. QED
        BY <3>7, <4>1 DEF Seen
    <3>10. ASSUME NEW k \in o + 1 .. o + n PROVE s[k] \in Seen'
      <4>1. PICK l \in 1..n : k = o + l
        <5>1. k - o \in 1..n /\ k = o + (k - o)
          BY <1>0, <1>5
        <5>2. QED
          BY <5>1
      <4>2. Len(seen) + l \in 1..Len(seen) + n /\ ~ (Len(seen) + l <= Len(seen))
            /\ Len(seen) + l - Len(seen) = l
        BY <2>0, <1>5
      <4>3. seen'[Len(seen) + l] = s[k]
        BY <3>5, <3>7, <4>1, <4>2
      <4>4. QED
        BY <3>7, <4>2, <4>3 DEF Seen
    <3>11. Seen \subseteq Seen'
      BY <3>9 DEF Seen
    <3>12. ASSUME NEW k \in 1..Len(seen) PROVE seen'[k] = seen[k]
      <4>1. k \in 1..Len(seen) + n /\ k <= Len(seen)
        BY <2>0, <1>5
      <4>2. QED
        BY <3>7, <4>1
    <3>13. ASSUME NEW k \in 1..n PROVE seen'[Len(seen) + k] = s[o + k]
      <4>1. Len(seen) + k \in 1..Len(seen) + n /\ ~ (Len(seen) + k <= Len(seen))
            /\ Len(seen) + k - Len(seen) = k
        BY <2>0, <1>5
      <4>2. QED
        BY <3>5, <3>7, <4>1
    <3>14. QED
      BY <3>7, <3>8, <3>10, <3>11, <3>12, <3>13
  <2>3. m <= o \/ m > o
    BY <1>a, <1>4
  <2>4. QED
    BY <2>1, <2>2, <2>3
<1>7. pc = (IF o + n < walk.total THEN "next" ELSE "done") /\ pc \in {"next", "done"}
  <2>1. Len(seen') - Len(seen) = n
    BY <1>0, <1>5, <1>6, LenProperties
  <2>2. QED
    BY <1>a, <2>1 DEF has_more
<1>8. offset \in Nat
  BY <1>0
<1>9. /\ walk' \in Walk /\ walk'.offset = offset /\ walk'.pc = pc
      /\ walk'.sort = walk.sort /\ walk'.order = walk.order /\ walk'.by = walk.by
  <2> HIDE DEF offset, pc
  <2>1. QED
    BY <1>0, <1>1, <1>7, <1>8 DEF Walk
<1>10. IsPage(s, n)
  <2>1. /\ Len(seen') = Len(seen) + n
        /\ \A k \in 1..Len(seen) : seen'[k] = seen[k]
        /\ \A k \in 1..n : seen'[Len(seen) + k] = s[walk.offset + k]
    BY <1>a, <1>6
  <2>2. Seen' = Seen \cup {s[k] : k \in walk.offset + 1 .. walk.offset + n}
    BY <1>a, <1>6
  <2>3. n = IF Cardinality(apply_search) <= walk.offset THEN 0
            ELSE IF Cardinality(apply_search) - walk.offset < limit
                 THEN Cardinality(apply_search) - walk.offset ELSE limit
    BY <1>a, <1>3, <1>4, <1>5
  <2>4. /\ walk' \in Walk /\ walk'.offset = walk.offset + limit
        /\ walk'.pc = IF walk.offset + n < walk.total THEN "next" ELSE "done"
        /\ walk'.sort = walk.sort /\ walk'.order = walk.order /\ walk'.by = walk.by
    BY <1>a, <1>7, <1>9
  <2>5. QED
    BY <2>1, <2>2, <2>3, <2>4 DEF IsPage
<1>11. QED
  BY <1>10

\* In a list without equal rows, place and position are the same.
LEMMA ListPlaces ==
  ASSUME walk.sort \in SortColumns, NoTies, NEW s \in Orders, NEW F, F = apply_search,
         NEW n \in Nat, n = Cardinality(F), NEW R, R = Ordering
  PROVE  /\ \A k \in 1..n : s[k] \in F /\ Place(R, F, s[k]) = k
         /\ \A i \in F : \E k \in 1..n : s[k] = i
         /\ \A j, k \in 1..n : s[j] = s[k] => j = k
<1>0. F \in SUBSET Id /\ IsFiniteSet(F) /\ Linear(R)
  BY CountIsNat, OrderingLinear DEF apply_search, Listed
<1>1. s \in [1..n -> F] /\ {s[k] : k \in 1..n} = F /\ apply_sort(s)
  BY DEF Orders
<1>2. s \in Surjection(1..n, F)
  BY <1>1 DEF Surjection
<1>3. IsFiniteSet(1..n) /\ Cardinality(1..n) = n
  BY FS_Interval
<1>4. s \in Injection(1..n, F)
  BY <1>2, <1>3, FS_Surjection
<1>5. \A j, k \in 1..n : s[j] = s[k] => j = k
  BY <1>4 DEF Injection, IsInjective
<1>6. Len(s) = n
  BY <1>1, LenProperties, SeqDef
<1>7. ASSUME NEW j \in 1..n, NEW k \in 1..n, j < k PROVE <<s[j], s[k]>> \in R
  <2>1. s[j] \in Id /\ s[k] \in Id
    BY <1>0, <1>1
  <2>2. IF walk.order = "desc" THEN walk.sort[s[j]] >= walk.sort[s[k]]
                               ELSE walk.sort[s[j]] <= walk.sort[s[k]]
    BY <1>1, <1>6, <1>7 DEF apply_sort
  <2>3. QED
    BY <2>1, <2>2 DEF Ordering
<1>8. ASSUME NEW k \in 1..n PROVE Place(R, F, s[k]) = k
  <2>1. \A i \in F : <<i, s[k]>> \in R <=> \E j \in 1..k : s[j] = i
    <3>1. SUFFICES ASSUME NEW i \in F PROVE <<i, s[k]>> \in R <=> \E j \in 1..k : s[j] = i
      OBVIOUS
    <3>2. PICK l \in 1..n : s[l] = i
      BY <1>1
    <3>3. CASE l < k
      BY <1>7, <3>2, <3>3
    <3>4. CASE l = k
      BY <1>0, <1>1, <3>2, <3>4 DEF Linear
    <3>5. CASE l > k
      <4>1. <<s[k], i>> \in R /\ s[k] # i /\ s[k] \in Id /\ i \in Id
        BY <1>0, <1>1, <1>5, <1>7, <3>2, <3>5
      <4>2. <<i, s[k]>> \notin R
        BY <1>0, <4>1 DEF Linear
      <4>3. ~ \E j \in 1..k : s[j] = i
        BY <1>5, <3>2, <3>5
      <4>4. QED
        BY <4>2, <4>3
    <3>6. QED
      BY <3>3, <3>4, <3>5
  <2>2. PICK S : S = {i \in F : <<i, s[k]>> \in R}
    OBVIOUS
  <2>3. PICK f : f = [j \in 1..k |-> s[j]]
    OBVIOUS
  <2>4. f \in [1..k -> S] /\ \A j \in 1..k : f[j] = s[j] /\ j \in 1..n
    BY <1>1, <2>1, <2>2, <2>3
  <2>5. f \in Bijection(1..k, S)
    <3>1. \A i \in S : \E j \in 1..k : f[j] = i
      BY <2>1, <2>2, <2>4
    <3>2. \A i, j \in 1..k : f[i] = f[j] => i = j
      BY <1>5, <2>4
    <3>3. QED
      BY <2>4, <3>1, <3>2 DEF Bijection, Injection, Surjection, IsInjective
  <2>6. Cardinality(S) = k
    BY <2>5, FS_CountingElements DEF ExistsBijection
  <2>7. QED
    BY <2>2, <2>6 DEF Place
<1>9. QED
  BY <1>1, <1>5, <1>8

\* The rows of a list from one position to another.
IsSegment(S, s, a, b) ==
  /\ \A k \in a..b : s[k] \in S
  /\ \A x \in S : \E k \in a..b : x = s[k]
  /\ \A j, k \in a..b : s[j] = s[k] => j = k

\* They are as many as there are positions.
LEMMA Segment ==
  ASSUME NEW S, NEW s, NEW a \in Int, NEW b \in Int, IsSegment(S, s, a, b)
  PROVE  Cardinality(S) = IF a > b THEN 0 ELSE b - a + 1
<1>2. PICK f : f = [k \in a..b |-> s[k]]
  OBVIOUS
<1>3. f \in Bijection(a..b, S)
  BY <1>2 DEF IsSegment, Bijection, Injection, Surjection, IsInjective
<1>4. IsFiniteSet(a..b) /\ Cardinality(a..b) = IF a > b THEN 0 ELSE b - a + 1
  BY FS_Interval
<1>5. Cardinality(S) = Cardinality(a..b)
  BY <1>3, <1>4, FS_Bijection DEF ExistsBijection
<1>6. QED
  BY <1>4, <1>5

\* A page by offset misses no more rows than the list has grown by: those that
\* lie behind it when the walk ends.
LEMMA PageMisses ==
  ASSUME CursorInv, always \subseteq apply_search, OffsetItems, walk.sort \in SortColumns, NoTies,
         MissesBounded
  PROVE  MissesBounded'
<1>0. /\ rows' = rows /\ always' = always /\ changes' = changes /\ walk.pc = "items"
      /\ walk \in Walk /\ walk.offset \in Nat /\ walk.total \in Nat
      /\ limit \in Nat /\ limit > 0 /\ changes \in Nat
  BY ParamsAssumption DEF OffsetItems, CursorInv, WalkTypeOK, Walk
<1>1. PICK s \in Orders, n \in Nat : IsPage(s, n)
  BY PageTaken
<1>a. PICK F \in SUBSET Id, o \in Nat : F = apply_search /\ o = walk.offset
  BY <1>0 DEF apply_search, Listed
<1>b. PICK R : R = Ordering
  OBVIOUS
<1>2. F = apply_search /\ R = Ordering /\ o = walk.offset
  BY <1>a, <1>b
<1>3. F = apply_search' /\ R = Ordering'
  BY <1>0, <1>1, <1>2 DEF apply_search, Ordering, IsPage
<1>4. PICK m \in Nat : m = Cardinality(F)
  BY CountIsNat
<1>5. n = IF m <= o THEN 0 ELSE IF m - o < limit THEN m - o ELSE limit
  BY <1>1, <1>2, <1>4 DEF IsPage
<1>6. /\ \A k \in 1..m : s[k] \in F /\ Place(R, F, s[k]) = k
      /\ \A i \in F : \E k \in 1..m : s[k] = i
      /\ \A j, k \in 1..m : s[j] = s[k] => j = k
  BY <1>2, <1>4, ListPlaces
<1>c. PICK A \in SUBSET F : A = always
  BY <1>2
<1>d. PICK S, T : S = Seen /\ T = Seen'
  OBVIOUS
<1>7. A = always /\ S = Seen /\ T = Seen'
  BY <1>c, <1>d
<1>8. T = S \cup {s[k] : k \in o + 1 .. o + n}
  BY <1>1, <1>2, <1>7 DEF IsPage
<1>9. walk'.offset = o + limit /\ walk'.pc = IF o + n < walk.total THEN "next" ELSE "done"
  BY <1>1, <1>2 DEF IsPage
<1>10. PICK K \in SUBSET Id : K = Skipped /\ K = {i \in A \ S : Place(R, F, i) <= o}
  BY <1>2, <1>7 DEF Skipped
<1>11. IsFiniteSet(K) /\ Cardinality(K) \in Nat
  BY CountIsNat
\* A row that is not seen lies before the page, or behind it.
<1>12. ASSUME NEW i \in A \ T PROVE i \in K \/ \E k \in o + limit + 1 .. m : i = s[k]
  <2>1. PICK k \in 1..m : s[k] = i
    BY <1>6
  <2>2. k \notin o + 1 .. o + n /\ i \notin S
    BY <1>8, <1>12, <2>1
  <2>3. CASE k <= o
    BY <1>6, <1>10, <1>12, <2>1, <2>2, <2>3
  <2>4. CASE k > o
    <3>1. k > o + n
      BY <2>2, <2>4
    <3>2. k > o + limit
      BY <1>0, <1>5, <2>1, <2>4, <3>1
    <3>3. k \in o + limit + 1 .. m
      BY <1>0, <2>1, <3>2
    <3>4. QED
      BY <2>1, <3>3
  <2>5. QED
    BY <2>3, <2>4
<1>13. Cardinality(K) + Grown <= changes
  BY <1>0, <1>10 DEF MissesBounded
<1>14. Grown = IF m > walk.total THEN m - walk.total ELSE 0
  BY <1>0, <1>2, <1>4 DEF Grown
<1>15. CASE o + n < walk.total
  <2>1. walk'.pc = "next" /\ Grown' = 0
    BY <1>9, <1>15 DEF Grown
  <2>2. PICK L \in SUBSET Id : L = Skipped' /\ L = {i \in A \ T : Place(R, F, i) <= o + limit}
    BY <1>0, <1>2, <1>3, <1>7, <1>9 DEF Skipped
  <2>3. L \in SUBSET K
    <3>1. SUFFICES ASSUME NEW i \in L, NEW k \in o + limit + 1 .. m, i = s[k] PROVE FALSE
      BY <1>12, <2>2
    <3>2. k \in 1..m
      BY <1>0
    <3>3. Place(R, F, i) = k /\ Place(R, F, i) <= o + limit
      BY <1>6, <2>2, <3>1, <3>2
    <3>4. QED
      BY <1>0, <3>3
  <2>4. Cardinality(L) <= Cardinality(K) /\ Cardinality(L) \in Nat
    BY <1>11, <2>3, FS_Subset, CountIsNat
  <2>5. Cardinality(L) <= changes
    BY <1>0, <1>11, <1>13, <1>14, <2>4
  <2>6. QED
    BY <1>0, <2>1, <2>2, <2>4, <2>5 DEF MissesBounded
<1>16. CASE ~ (o + n < walk.total)
  <2>1. walk'.pc = "done"
    BY <1>9, <1>16
  <2>2. PICK a \in Int : a = o + limit + 1
    BY <1>0
  <2>3. PICK H : H = {s[k] : k \in a..m}
    OBVIOUS
  <2>4. H \in SUBSET Id /\ Cardinality(H) = IF a > m THEN 0 ELSE m - a + 1
    <3>1. \A k \in a..m : k \in 1..m
      BY <1>0, <2>2
    <3>2. \A k \in a..m : s[k] \in F
      BY <1>6, <3>1
    <3>3. \A j, k \in a..m : s[j] = s[k] => j = k
      BY <1>6, <3>1
    <3>a. IsSegment(H, s, a, m)
      BY <2>3, <3>3 DEF IsSegment
    <3>4. Cardinality(H) = IF a > m THEN 0 ELSE m - a + 1
      BY <3>a, Segment
    <3>5. H \in SUBSET Id
      BY <2>3, <3>2
    <3>6. QED
      BY <2>3, <3>4, <3>5
  <2>5. Cardinality(H) <= Grown
    BY <1>0, <1>5, <1>14, <1>16, <2>2, <2>4
  <2>6. IsFiniteSet(H) /\ Cardinality(H) \in Nat
    BY <2>4, CountIsNat
  <2>7. PICK U \in SUBSET Id : U = K \cup H
    BY <2>4
  <2>8. IsFiniteSet(U) /\ Cardinality(U) <= Cardinality(K) + Cardinality(H)
    <3>1. Cardinality(K \cap H) \in Nat
      BY CountIsNat
    <3>2. IsFiniteSet(U) /\ Cardinality(U) = Cardinality(K) + Cardinality(H) - Cardinality(K \cap H)
      BY <1>11, <2>6, <2>7, FS_Union
    <3>3. QED
      BY <1>11, <2>6, <3>1, <3>2
  <2>9. A \ T \in SUBSET U
    BY <1>12, <2>2, <2>3, <2>7
  <2>10. Cardinality(A \ T) <= Cardinality(U) /\ Cardinality(A \ T) \in Nat /\ Cardinality(U) \in Nat
    BY <2>8, <2>9, FS_Subset, CountIsNat
  <2>11. Grown \in Nat
    BY <1>0, <1>14
  <2>12. Cardinality(A \ T) <= changes
    BY <1>0, <1>11, <1>13, <2>5, <2>6, <2>8, <2>10, <2>11
  <2>13. QED
    BY <1>0, <1>7, <2>1, <2>12 DEF MissesBounded
<1>17. QED
  BY <1>15, <1>16

\* Rows on a page that were seen before are no longer still to be seen again.
LEMMA PageRepeats ==
  ASSUME CursorInv, OffsetItems, walk.sort \in SortColumns, NoTies, RepeatsBounded
  PROVE  RepeatsBounded'
<1>0. /\ rows' = rows /\ changes' = changes /\ walk.pc = "items"
      /\ walk \in Walk /\ walk.offset \in Nat
      /\ limit \in Nat /\ limit > 0 /\ changes \in Nat /\ seen \in Seq(Id)
  BY ParamsAssumption DEF OffsetItems, CursorInv, WalkTypeOK, Walk
<1>1. PICK s \in Orders, n \in Nat : IsPage(s, n)
  BY PageTaken
<1>a. PICK F \in SUBSET Id, o \in Nat : F = apply_search /\ o = walk.offset
  BY <1>0 DEF apply_search, Listed
<1>b. PICK R : R = Ordering
  OBVIOUS
<1>2. F = apply_search' /\ R = Ordering'
  BY <1>0, <1>1, <1>a, <1>b DEF apply_search, Ordering, IsPage
<1>3. PICK m \in Nat : m = Cardinality(F)
  BY CountIsNat
<1>4. n = IF m <= o THEN 0 ELSE IF m - o < limit THEN m - o ELSE limit
  BY <1>1, <1>a, <1>3 DEF IsPage
<1>5. n <= limit /\ \A k \in o + 1 .. o + n : k \in 1..m
  BY <1>0, <1>4
<1>6. /\ \A k \in 1..m : s[k] \in F /\ Place(R, F, s[k]) = k
      /\ \A j, k \in 1..m : s[j] = s[k] => j = k
  BY <1>a, <1>b, <1>3, ListPlaces
<1>7. PICK S \in SUBSET Id : S = Seen
  <2>1. \A k \in 1..Len(seen) : seen[k] \in Id
    BY <1>0, ElementOfSeq
  <2>2. QED
    BY <2>1 DEF Seen
<1>8. PICK I : I = {s[k] : k \in o + 1 .. o + n}
  OBVIOUS
<1>9. I \in SUBSET F /\ \A i \in I : Place(R, F, i) > o /\ Place(R, F, i) <= o + limit
  <2>1. SUFFICES ASSUME NEW k \in o + 1 .. o + n
                 PROVE  s[k] \in F /\ Place(R, F, s[k]) > o /\ Place(R, F, s[k]) <= o + limit
    BY <1>8
  <2>2. s[k] \in F /\ Place(R, F, s[k]) = k
    BY <1>5, <1>6
  <2>3. QED
    BY <1>0, <1>5, <2>2
<1>10. Cardinality(I) = n
  <2>1. PICK a \in Int, b \in Int : a = o + 1 /\ b = o + n
    OBVIOUS
  <2>3. \A j, k \in a..b : s[j] = s[k] => j = k
    BY <1>5, <1>6, <2>1
  <2>2. IsSegment(I, s, a, b)
    BY <1>8, <2>1, <2>3 DEF IsSegment
  <2>4. Cardinality(I) = IF a > b THEN 0 ELSE b - a + 1
    BY <2>2, Segment
  <2>5. QED
    BY <2>1, <2>4
<1>11. Seen' = S \cup I /\ Len(seen') = Len(seen) + n /\ walk'.offset = o + limit
  BY <1>1, <1>a, <1>7, <1>8 DEF IsPage
<1>12. PICK B \in SUBSET Id : B = Again /\ B = {i \in S \cap F : Place(R, F, i) > o}
  BY <1>a, <1>b, <1>7 DEF Again
<1>13. PICK C \in SUBSET Id :
            C = Again' /\ C = {i \in (S \cup I) \cap F : Place(R, F, i) > o + limit}
  BY <1>2, <1>11 DEF Again
<1>14. PICK D \in SUBSET Id : D = S \cap I
  BY <1>7
<1>15. \A i \in F : Place(R, F, i) \in Nat
  BY PlaceIsNat
<1>16. C \cap D = {} /\ (C \cup D) \in SUBSET B
  <2>1. ASSUME NEW i \in C PROVE i \in B /\ i \notin I
    <3>1. i \in F /\ Place(R, F, i) > o + limit /\ Place(R, F, i) \in Nat
      BY <1>13, <1>15
    <3>2. i \notin I
      BY <1>0, <1>9, <3>1
    <3>3. Place(R, F, i) > o
      BY <1>0, <3>1
    <3>4. QED
      BY <1>12, <1>13, <3>1, <3>2, <3>3
  <2>2. ASSUME NEW i \in D PROVE i \in B
    BY <1>9, <1>12, <1>14
  <2>3. QED
    BY <1>14, <2>1, <2>2
<1>17. /\ IsFiniteSet(B) /\ IsFiniteSet(C) /\ IsFiniteSet(D) /\ IsFiniteSet(S) /\ IsFiniteSet(I)
       /\ Cardinality(B) \in Nat /\ Cardinality(C) \in Nat /\ Cardinality(D) \in Nat
       /\ Cardinality(S) \in Nat
  <2>1. I \in SUBSET Id
    BY <1>9
  <2>2. QED
    BY <2>1, CountIsNat
<1>18. Cardinality(C) + Cardinality(D) <= Cardinality(B)
  <2>1. PICK U : U = C \cup D
    OBVIOUS
  <2>2. Cardinality(U) = Cardinality(C) + Cardinality(D) - 0
    BY <1>16, <1>17, <2>1, FS_Union, FS_EmptySet
  <2>3. Cardinality(U) <= Cardinality(B)
    BY <1>16, <1>17, <2>1, FS_Subset
  <2>4. QED
    BY <1>17, <2>2, <2>3
<1>19. Cardinality(S \cup I) = Cardinality(S) + n - Cardinality(D)
  BY <1>10, <1>14, <1>17, FS_Union
<1>20. Len(seen) \in Nat /\ Len(seen) - Cardinality(S) + Cardinality(B) <= changes
  BY <1>0, <1>7, <1>12, LenProperties DEF RepeatsBounded
<1>21. Len(seen) + n - Cardinality(S \cup I) + Cardinality(C) <= changes
  BY <1>0, <1>17, <1>18, <1>19, <1>20
<1>22. PICK t \in Int, l \in Int : t = Cardinality(S \cup I) /\ l = Len(seen) + n
  BY <1>17, <1>19, <1>20
<1>23. Cardinality(Seen') = t /\ Len(seen') = l /\ Cardinality(Again') = Cardinality(C)
  BY <1>11, <1>13, <1>22
<1>24. l - t + Cardinality(C) <= changes
  BY <1>21, <1>22
<1>25. SUFFICES Len(seen') - Cardinality(Seen') + Cardinality(Again') <= changes'
  BY DEF RepeatsBounded
<1>26. QED
  BY <1>0, <1>23, <1>24

\* A page of a list that has not changed: the number of rows seen keeps up with
\* the offset until there are no more.
LEMMA PageQuiet ==
  ASSUME CursorInv, OffsetItems, Quiet PROVE Quiet'
<1>0. /\ rows' = rows /\ walk.pc = "items" /\ walk \in Walk /\ limit \in Nat /\ limit > 0
  BY ParamsAssumption DEF OffsetItems, CursorInv, WalkTypeOK
<1>1. PICK s \in Orders, n \in Nat : IsPage(s, n)
  BY PageTaken
<1>2. PICK m \in Nat, o \in Nat : m = Cardinality(apply_search) /\ o = walk.offset
  BY <1>0, CountIsNat DEF apply_search, Listed, Walk
<1>3. Len(seen) = o /\ o <= m /\ walk.total = m
  BY <1>0, <1>2 DEF Quiet
<1>4. n = (IF m <= o THEN 0 ELSE IF m - o < limit THEN m - o ELSE limit)
      /\ Len(seen') = Len(seen) + n /\ walk'.offset = o + limit
      /\ walk'.pc = IF o + n < m THEN "next" ELSE "done"
  BY <1>1, <1>2, <1>3 DEF IsPage
<1>5. Cardinality(apply_search)' = m
  BY <1>0, <1>2 DEF apply_search
<1>6. CASE o + n < m
  <2>1. n = limit
    BY <1>0, <1>3, <1>4, <1>6
  <2>2. walk'.pc = "next" /\ Len(seen') = o + limit /\ o + limit <= m
    BY <1>0, <1>3, <1>4, <1>6, <2>1
  <2>3. QED
    BY <1>4, <1>5, <2>2 DEF Quiet
<1>7. CASE ~ (o + n < m)
  <2>1. walk'.pc = "done" /\ Len(seen') = m
    BY <1>0, <1>3, <1>4, <1>7
  <2>2. QED
    BY <1>5, <2>1 DEF Quiet
<1>8. QED
  BY <1>6, <1>7

\* The rows of a list at their positions, equal rows in any order.
LEMMA ListDue ==
  ASSUME walk.sort \in SortColumns, NEW s \in Orders, NEW F, F = apply_search,
         NEW n \in Nat, n = Cardinality(F), NEW k \in 1..n
  PROVE  /\ s[k] \in F
         /\ Cardinality({i \in F : Precedes(i, s[k])}) < k
         /\ k <= Cardinality({i \in F : ~Precedes(s[k], i)})
<1>0. F \in SUBSET Id /\ IsFiniteSet(F)
  BY CountIsNat DEF apply_search, Listed
<1>1. s \in [1..n -> F] /\ {s[j] : j \in 1..n} = F /\ apply_sort(s)
  BY DEF Orders
<1>2. s \in Surjection(1..n, F)
  BY <1>1 DEF Surjection
<1>3. IsFiniteSet(1..n) /\ Cardinality(1..n) = n
  BY FS_Interval
<1>4. s \in Injection(1..n, F)
  BY <1>2, <1>3, FS_Surjection
<1>5. \A i, j \in 1..n : s[i] = s[j] => i = j
  BY <1>4 DEF Injection, IsInjective
<1>6. Len(s) = n
  BY <1>1, LenProperties, SeqDef
<1>7. PICK key \in [Id -> Nat] : key = walk.sort
  BY ParamsAssumption
<1>8. ASSUME NEW i \in 1..n, NEW j \in 1..n, i <= j PROVE ~Precedes(s[j], s[i])
  <2>1. s[i] \in Id /\ s[j] \in Id
    BY <1>0, <1>1
  <2>2. key[s[i]] \in Nat /\ key[s[j]] \in Nat
    BY <1>7, <2>1
  <2>3. CASE i = j
    BY <1>7, <2>2, <2>3 DEF Precedes
  <2>4. CASE i < j
    <3>1. IF walk.order = "desc" THEN walk.sort[s[i]] >= walk.sort[s[j]]
                                 ELSE walk.sort[s[i]] <= walk.sort[s[j]]
      BY <1>1, <1>6, <2>4 DEF apply_sort
    <3>2. QED
      BY <1>7, <2>2, <3>1 DEF Precedes
  <2>5. QED
    BY <1>8, <2>3, <2>4
<1>9. PICK A \in SUBSET Id : A = {i \in F : Precedes(i, s[k])}
  BY <1>0
<1>10. PICK C \in SUBSET Id : C = {i \in F : ~Precedes(s[k], i)}
  BY <1>0
<1>a. \A j \in 1..k : j \in 1..n /\ s[j] \in Id
  <2>1. \A j \in 1..k : j \in 1..n
    OBVIOUS
  <2>2. QED
    BY <1>0, <1>1, <2>1
<1>11. PICK below \in SUBSET Id : below = {s[j] : j \in 1..k - 1}
  <2>1. \A j \in 1..k - 1 : j \in 1..k
    OBVIOUS
  <2>2. {s[j] : j \in 1..k - 1} \in SUBSET Id
    BY <1>a, <2>1
  <2>3. QED
    BY <2>2
<1>12. PICK upTo \in SUBSET Id : upTo = {s[j] : j \in 1..k}
  <2>1. {s[j] : j \in 1..k} \in SUBSET Id
    BY <1>a
  <2>2. QED
    BY <2>1
<1>13. A \subseteq below
  <2>1. SUFFICES ASSUME NEW i \in F, Precedes(i, s[k]) PROVE i \in below
    BY <1>9
  <2>2. PICK l \in 1..n : s[l] = i
    BY <1>1
  <2>3. ~ (k <= l)
    BY <1>8, <2>1, <2>2
  <2>4. l \in 1..k - 1
    BY <2>3
  <2>5. QED
    BY <1>11, <2>2, <2>4
<1>14. upTo \subseteq C
  <2>1. SUFFICES ASSUME NEW j \in 1..k PROVE s[j] \in C
    BY <1>12
  <2>2. j \in 1..n /\ j <= k
    OBVIOUS
  <2>3. s[j] \in F /\ ~Precedes(s[k], s[j])
    BY <1>1, <1>8, <2>2
  <2>4. QED
    BY <1>10, <2>3
<1>15. Cardinality(below) = k - 1
  <2>1. IsSegment(below, s, 1, k - 1)
    BY <1>5, <1>11 DEF IsSegment
  <2>2. QED
    BY <2>1, Segment
<1>16. Cardinality(upTo) = k
  <2>1. IsSegment(upTo, s, 1, k)
    BY <1>5, <1>12 DEF IsSegment
  <2>2. QED
    BY <2>1, Segment
<1>17. Cardinality(A) <= k - 1 /\ k <= Cardinality(C)
  BY <1>13, <1>14, <1>15, <1>16, CountIsNat, FS_Subset
<1>18. Cardinality(A) < k
  BY <1>17, CountIsNat
<1>19. QED
  BY <1>1, <1>9, <1>10, <1>17, <1>18

\* A page of a list that has not changed adds rows that were due.
LEMMA PagePlaced ==
  ASSUME CursorInv, OffsetItems, walk.sort \in SortColumns, Quiet, Placed PROVE Placed'
<1>0. /\ rows' = rows /\ walk.pc = "items" /\ walk \in Walk /\ limit \in Nat /\ limit > 0
  BY ParamsAssumption DEF OffsetItems, CursorInv, WalkTypeOK
<1>1. PICK s \in Orders, n \in Nat : IsPage(s, n)
  BY PageTaken
<1>2. PICK m \in Nat, o \in Nat : m = Cardinality(apply_search) /\ o = walk.offset
  BY <1>0, CountIsNat DEF apply_search, Listed, Walk
<1>3. Len(seen) = o /\ o <= m
  BY <1>0, <1>2 DEF Quiet
<1>4. n = (IF m <= o THEN 0 ELSE IF m - o < limit THEN m - o ELSE limit)
      /\ Len(seen') = o + n /\ o + n <= m
  BY <1>0, <1>1, <1>2, <1>3 DEF IsPage
<1>5. /\ \A k \in 1..o : seen'[k] = seen[k]
      /\ \A k \in 1..n : seen'[o + k] = s[o + k]
      /\ walk'.sort = walk.sort /\ walk'.order = walk.order
  BY <1>1, <1>2, <1>3 DEF IsPage
<1>6. apply_search' = apply_search /\ \A i, j : Precedes(i, j)' <=> Precedes(i, j)
  BY <1>0, <1>5 DEF apply_search, Precedes
<1>7. SUFFICES ASSUME NEW k \in 1..o + n PROVE InPlace(k)'
  BY <1>4 DEF Placed
<1>8. CASE k <= o
  <2>1. k \in 1..o
    BY <1>8
  <2>2. InPlace(k) /\ seen'[k] = seen[k]
    BY <1>3, <1>5, <2>1 DEF Placed
  <2>3. QED
    BY <1>6, <2>2 DEF InPlace
<1>9. CASE ~ (k <= o)
  <2>1. PICK l \in 1..n : k = o + l
    <3>1. k - o \in 1..n /\ k = o + (k - o)
      BY <1>9
    <3>2. QED
      BY <3>1
  <2>a. seen'[k] = s[k]
    BY <1>5, <2>1
  <2>b. k \in 1..m
    BY <1>4, <2>1
  <2>2. seen'[k] = s[k] /\ k \in 1..m
    BY <2>a, <2>b
  <2>3. /\ s[k] \in apply_search
        /\ Cardinality({i \in apply_search : Precedes(i, s[k])}) < k
        /\ k <= Cardinality({i \in apply_search : ~Precedes(s[k], i)})
    BY <1>2, <2>2, ListDue
  <2>4. QED
    BY <1>6, <2>2, <2>3 DEF InPlace
<1>10. QED
  BY <1>8, <1>9

\* A change of the table moves at most one row past the offset, in either
\* direction, and no row both ways.
LEMMA ChangeCounts ==
  ASSUME CursorInv, always \subseteq apply_search, NEW r \in Id, NEW state \in Row, Become(r, state),
         walk.sort \in SortColumns, NoTies, MissesBounded, RepeatsBounded
  PROVE  MissesBounded' /\ RepeatsBounded'
<1>0. /\ rows \in [Id -> Row] /\ changes \in Nat /\ seen \in Seq(Id) /\ always \in SUBSET Id
      /\ walk \in Walk /\ walk.offset \in Nat /\ walk.total \in Nat
  BY DEF CursorInv, WalkTypeOK, Walk
<1>1. /\ rows' = [rows EXCEPT ![r] = state] /\ always' = always \cap Listed(rows')
      /\ changes' = changes + 1 /\ walk' = walk /\ seen' = seen /\ walk.pc # "done"
  BY DEF Become
<1>2. PICK F \in SUBSET Id, G \in SUBSET Id, o \in Nat :
           F = apply_search /\ G = apply_search' /\ o = walk.offset
  BY <1>0 DEF apply_search, Listed
<1>3. PICK R : R = Ordering /\ R = Ordering'
  BY <1>1 DEF Ordering
<1>4. Linear(R)
  BY <1>3, OrderingLinear
<1>5. \/ G = F
      \/ r \notin F /\ G = F \cup {r}
      \/ r \in F /\ G = F \ {r}
  BY <1>0, <1>1, <1>2 DEF apply_search, Listed
<1>6. PICK S \in SUBSET Id : S = Seen /\ S = Seen'
  <2>1. \A k \in 1..Len(seen) : seen[k] \in Id
    BY <1>0, ElementOfSeq
  <2>2. QED
    BY <1>1, <2>1 DEF Seen
<1>7. PICK A \in SUBSET Id : A = always /\ always' = A \cap G /\ A \subseteq F
  BY <1>0, <1>1, <1>2 DEF apply_search
<1>8. PICK K \in SUBSET Id, L \in SUBSET Id :
           /\ K = Skipped /\ K = {i \in A \ S : Place(R, F, i) <= o}
           /\ L = Skipped' /\ L = {i \in (A \cap G) \ S : Place(R, G, i) <= o}
  BY <1>1, <1>2, <1>3, <1>6, <1>7 DEF Skipped
<1>9. PICK B \in SUBSET Id, C \in SUBSET Id :
           /\ B = Again /\ B = {i \in S \cap F : Place(R, F, i) > o}
           /\ C = Again' /\ C = {i \in S \cap G : Place(R, G, i) > o}
  BY <1>1, <1>2, <1>3, <1>6 DEF Again
<1>10. /\ Cardinality(K) \in Nat /\ Cardinality(L) \in Nat /\ Cardinality(B) \in Nat
       /\ Cardinality(C) \in Nat /\ IsFiniteSet(K) /\ IsFiniteSet(B)
       /\ Cardinality(F) \in Nat /\ Cardinality(G) \in Nat /\ IsFiniteSet(F) /\ IsFiniteSet(G)
  BY CountIsNat
<1>11. \A i \in Id : Place(R, F, i) \in Nat /\ Place(R, G, i) \in Nat
  BY PlaceIsNat
<1>12. Grown = (IF walk.pc = "items" /\ Cardinality(F) > walk.total THEN Cardinality(F) - walk.total ELSE 0)
       /\ Grown' = (IF walk.pc = "items" /\ Cardinality(G) > walk.total THEN Cardinality(G) - walk.total ELSE 0)
  BY <1>1, <1>2 DEF Grown
<1>13. Cardinality(L) + Grown' <= Cardinality(K) + Grown + 1 /\ Cardinality(C) <= Cardinality(B) + 1
  <2>1. CASE G = F
    <3>1. L \in SUBSET K /\ C \in SUBSET B
      BY <1>8, <1>9, <2>1
    <3>2. Cardinality(L) <= Cardinality(K) /\ Cardinality(C) <= Cardinality(B)
      BY <1>10, <3>1, FS_Subset
    <3>3. QED
      BY <1>0, <1>10, <1>12, <2>1, <3>2
  <2>2. CASE r \notin F /\ G = F \cup {r}
    <3>1. Cardinality(G) = Cardinality(F) + 1
      BY <1>10, <2>2, FS_AddElement
    <3>2. ASSUME NEW i \in Id
          PROVE  /\ \/ Place(R, G, i) = Place(R, F, i)
                    \/ Place(R, G, i) = Place(R, F, i) + 1 /\ <<r, i>> \in R
                 /\ <<r, i>> \in R => Place(R, G, i) = Place(R, F, i) + 1
      BY <2>2, PlaceMoves
    <3>3. L \in SUBSET K
      <4>1. SUFFICES ASSUME NEW i \in L PROVE Place(R, F, i) <= o
        BY <1>8
      <4>2. i \in Id /\ Place(R, G, i) <= o
        BY <1>8
      <4>a. Place(R, G, i) = Place(R, F, i) \/ Place(R, G, i) = Place(R, F, i) + 1
        BY <3>2, <4>2
      <4>3. Place(R, F, i) <= Place(R, G, i) /\ Place(R, F, i) \in Nat /\ Place(R, G, i) \in Nat
        BY <1>11, <4>2, <4>a
      <4>4. QED
        BY <4>2, <4>3
    <3>4. ASSUME NEW a \in C \ B, a # r PROVE <<r, a>> \in R /\ a \in F /\ Place(R, F, a) = o
      <4>1. a \in F /\ a \in Id /\ Place(R, G, a) > o /\ ~ (Place(R, F, a) > o)
        BY <1>9, <2>2, <3>4
      <4>2. QED
        BY <1>11, <3>2, <4>1
    <3>5. ASSUME NEW a \in C \ B, a # r PROVE r \notin C
      <4>1. <<r, a>> \in R /\ a \in F /\ Place(R, F, a) = o
        BY <3>4, <3>5
      <4>2. Place(R, G, a) = o + 1
        BY <3>2, <4>1
      <4>3. Place(R, G, r) < Place(R, G, a)
        BY <1>4, <2>2, <3>5, <4>1, PlaceAscends
      <4>4. QED
        BY <1>9, <1>11, <4>2, <4>3
    <3>6. \A a, b \in C \ B : a = b
      <4>1. SUFFICES ASSUME NEW a \in C \ B, NEW b \in C \ B, a # r, b # r PROVE a = b
        BY <3>5
      <4>2. a \in F /\ b \in F /\ Place(R, F, a) = Place(R, F, b)
        BY <3>4, <4>1
      <4>3. QED
        BY <1>4, <4>2, PlaceOfOne
    <3>7. Cardinality(L) <= Cardinality(K)
      BY <1>10, <3>3, FS_Subset
    <3>8. Cardinality(C) <= Cardinality(B) + 1
      BY <3>6, OneMoreAtMost
    <3>9. Grown' <= Grown + 1 /\ Grown \in Nat /\ Grown' \in Nat
      BY <1>0, <1>10, <1>12, <3>1
    <3>10. QED
      BY <1>10, <3>7, <3>8, <3>9
  <2>3. CASE r \in F /\ G = F \ {r}
    <3>1. Cardinality(G) = Cardinality(F) - 1
      BY <1>10, <2>3, FS_RemoveElement
    <3>2. ASSUME NEW i \in Id
          PROVE  Place(R, F, i) = Place(R, G, i) \/ Place(R, F, i) = Place(R, G, i) + 1
      <4>1. F = G \cup {r} /\ r \in Id \ G
        BY <2>3
      <4>2. QED
        BY <4>1, PlaceMoves
    <3>3. C \in SUBSET B
      <4>1. SUFFICES ASSUME NEW i \in C PROVE Place(R, F, i) > o
        BY <1>9, <2>3
      <4>2. i \in Id /\ Place(R, G, i) > o
        BY <1>9
      <4>3. Place(R, G, i) <= Place(R, F, i) /\ Place(R, F, i) \in Nat /\ Place(R, G, i) \in Nat
        BY <1>11, <3>2, <4>2
      <4>4. QED
        BY <4>2, <4>3
    <3>4. ASSUME NEW a \in L \ K PROVE a \in F /\ Place(R, F, a) = o + 1
      <4>1. a \in F /\ a \in Id /\ Place(R, G, a) <= o /\ ~ (Place(R, F, a) <= o)
        BY <1>7, <1>8, <3>4
      <4>2. /\ Place(R, F, a) = Place(R, G, a) \/ Place(R, F, a) = Place(R, G, a) + 1
            /\ Place(R, F, a) \in Nat /\ Place(R, G, a) \in Nat
        BY <1>11, <3>2, <4>1
      <4>3. QED
        BY <4>1, <4>2
    <3>5. \A a, b \in L \ K : a = b
      BY <1>4, <3>4, PlaceOfOne
    <3>6. Cardinality(C) <= Cardinality(B)
      BY <1>10, <3>3, FS_Subset
    <3>7. Cardinality(L) <= Cardinality(K) + 1
      BY <3>5, OneMoreAtMost
    <3>8. Grown' <= Grown /\ Grown \in Nat /\ Grown' \in Nat
      <4>1. PICK f \in Nat, g \in Nat, t \in Nat : f = Cardinality(F) /\ g = Cardinality(G) /\ t = walk.total
        BY <1>0, <1>10
      <4>2. g = f - 1
        BY <3>1, <4>1
      <4>3. QED
        BY <1>12, <4>1, <4>2
    <3>9. QED
      BY <1>10, <3>6, <3>7, <3>8
  <2>4. QED
    BY <1>5, <2>1, <2>2, <2>3
<1>14. Grown \in Nat /\ Grown' \in Nat
  BY <1>0, <1>10, <1>12
<1>15. MissesBounded'
  <2>1. Cardinality(K) + Grown <= changes
    BY <1>1, <1>8 DEF MissesBounded
  <2>2. Cardinality(L) + Grown' <= changes'
    BY <1>0, <1>1, <1>10, <1>13, <1>14, <2>1
  <2>3. QED
    BY <1>1, <1>8, <2>2 DEF MissesBounded
<1>16. RepeatsBounded'
  <2>0. Len(seen) \in Nat /\ Cardinality(S) \in Nat
    BY <1>0, LenProperties, CountIsNat
  <2>1. Len(seen) - Cardinality(S) + Cardinality(B) <= changes
    BY <1>6, <1>9 DEF RepeatsBounded
  <2>2. Len(seen) - Cardinality(S) + Cardinality(C) <= changes'
    BY <1>0, <1>1, <1>10, <1>13, <2>0, <2>1
  <2>3. SUFFICES Len(seen') - Cardinality(Seen') + Cardinality(Again') <= changes'
    BY DEF RepeatsBounded
  <2>4. QED
    BY <1>1, <1>6, <1>9, <2>2
<1>17. QED
  BY <1>15, <1>16

\* At the start nothing is skipped and nothing seen.
LEMMA OffsetInvInit == ReportsInit => OffsetInv
<1> SUFFICES ASSUME ReportsInit PROVE OffsetInv
    OBVIOUS
<1>1. /\ seen = <<>> /\ always = apply_search /\ changes = 0 /\ walk.pc = "next"
      /\ walk.by = "offset" => /\ walk.sort \in SortColumns /\ walk.order \in {"asc", "desc"}
                               /\ walk.offset = 0
  BY DEF ReportsInit, Init, NewWalk
<1>2. Len(seen) = 0 /\ Seen = {} /\ Cardinality(Seen) = 0
  <2>1. Len(seen) = 0 /\ 1..Len(seen) = {}
    BY <1>1
  <2>2. Seen = {}
    BY <2>1 DEF Seen
  <2>3. QED
    BY <2>1, <2>2, FS_EmptySet
<1>3. PICK F \in SUBSET Id : F = apply_search
  BY DEF apply_search, Listed
<1>4. Cardinality(F) \in Nat
  BY CountIsNat
<1>5. ASSUME walk.by = "offset", NoTies PROVE MissesBounded /\ RepeatsBounded
  <2>1. Again = {} /\ Cardinality(Again) = 0
    BY <1>2, FS_EmptySet DEF Again
  <2>2. Skipped = {}
    <3>1. SUFFICES ASSUME NEW i \in F, Place(Ordering, F, i) <= 0 PROVE FALSE
      BY <1>1, <1>3, <1>5 DEF Skipped
    <3>2. PICK S \in SUBSET Id : S = {j \in F : <<j, i>> \in Ordering}
      OBVIOUS
    <3>3. Linear(Ordering) /\ i \in Id
      BY <1>1, <1>5, OrderingLinear
    <3>4. i \in S
      BY <3>1, <3>2, <3>3 DEF Linear
    <3>5. IsFiniteSet(S) /\ Cardinality(S) \in Nat
      BY CountIsNat
    <3>6. Cardinality(S) # 0
      BY <3>4, <3>5, FS_EmptySet
    <3>7. QED
      BY <3>1, <3>2, <3>5, <3>6 DEF Place
  <2>3. Cardinality(Skipped) = 0 /\ Grown = 0
    BY <1>1, <2>2, FS_EmptySet DEF Grown
  <2>4. QED
    BY <1>1, <1>2, <2>1, <2>3 DEF MissesBounded, RepeatsBounded
<1>6. walk.by = "offset" => Quiet /\ Placed
  BY <1>1, <1>2, <1>3, <1>4 DEF Quiet, Placed
<1>7. QED
  BY <1>1, <1>5, <1>6 DEF OffsetInv

\* Counting the rows for a page changes nothing that was seen.
LEMMA CountKeeps == ASSUME CursorInv, OffsetInv, OffsetCount PROVE OffsetInv'
<1>0. /\ walk \in Walk /\ walk.by = "offset" /\ walk.pc = "next" /\ changes \in Nat
      /\ rows' = rows /\ seen' = seen /\ always' = always /\ changes' = changes
  BY DEF CursorInv, WalkTypeOK, OffsetCount
<1>1. PICK total \in Nat : total = Cardinality(apply_search)
  BY CountIsNat DEF apply_search, Listed
<1>2. walk' = [walk EXCEPT !.pc = "items", !.total = total]
  BY <1>1 DEF OffsetCount
<1>3. /\ walk'.pc = "items" /\ walk'.total = total /\ walk'.offset = walk.offset
      /\ walk'.sort = walk.sort /\ walk'.order = walk.order /\ walk'.by = walk.by
  BY <1>0, <1>2 DEF Walk
<1>4. apply_search' = apply_search /\ Seen' = Seen /\ Ordering' = Ordering
  BY <1>0, <1>3 DEF apply_search, Seen, Ordering
<1>5. Skipped' = Skipped /\ Again' = Again
  BY <1>0, <1>3, <1>4 DEF Skipped, Again
<1>6. Grown = 0 /\ Grown' = 0
  BY <1>0, <1>1, <1>3, <1>4 DEF Grown
<1>7. MissesBounded => MissesBounded'
  BY <1>0, <1>3, <1>5, <1>6 DEF MissesBounded
<1>8. RepeatsBounded => RepeatsBounded'
  BY <1>0, <1>4, <1>5 DEF RepeatsBounded
<1>9. Quiet => Quiet'
  BY <1>0, <1>1, <1>3, <1>4 DEF Quiet
<1>10. NoTies' => NoTies
  BY <1>3 DEF NoTies
<1>11. Placed => Placed'
  BY <1>0, <1>3, <1>4 DEF Placed, InPlace, Precedes
<1>12. QED
  BY <1>0, <1>3, <1>4, <1>7, <1>8, <1>9, <1>10, <1>11 DEF OffsetInv

\* Every step of the clients, of the table and of the task.
LEMMA OffsetInvNext == CursorInv /\ OffsetInv /\ [ReportsNext]_allVars => OffsetInv'
<1> SUFFICES ASSUME CursorInv, OffsetInv, [ReportsNext]_allVars PROVE OffsetInv'
    OBVIOUS
<1>1. ASSUME UNCHANGED vars PROVE OffsetInv'
  <2>1. rows' = rows /\ walk' = walk /\ seen' = seen /\ always' = always /\ changes' = changes
    BY <1>1 DEF vars
  <2>2. apply_search' = apply_search /\ Seen' = Seen /\ Ordering' = Ordering
    BY <2>1 DEF apply_search, Seen, Ordering
  <2>3. Skipped' = Skipped /\ Again' = Again /\ Grown' = Grown
    BY <2>1, <2>2 DEF Skipped, Again, Grown
  <2>4. (MissesBounded' <=> MissesBounded) /\ (RepeatsBounded' <=> RepeatsBounded)
        /\ (Quiet' <=> Quiet) /\ (NoTies' <=> NoTies)
    BY <2>1, <2>2, <2>3 DEF MissesBounded, RepeatsBounded, Quiet, NoTies
  <2>5. Placed' <=> Placed
    BY <2>1, <2>2 DEF Placed, InPlace, Precedes
  <2>6. QED
    BY <2>1, <2>2, <2>4, <2>5 DEF OffsetInv
<1>2. CASE paginate_cursor
  <2>1. walk.by = "cursor" /\ walk \in Walk /\ always' = always /\ rows' = rows
    BY <1>2 DEF paginate_cursor, CursorInv, WalkTypeOK
  <2>2. walk'.by = "cursor"
    BY <1>2, <2>1 DEF paginate_cursor, Walk
  <2>3. QED
    BY <2>1, <2>2 DEF OffsetInv, apply_search
<1>3. CASE OffsetCount
  BY <1>3, CountKeeps
<1>4. CASE OffsetItems
  <2>1. walk.by = "offset" /\ always' = always /\ rows' = rows /\ changes' = changes
    BY <1>4 DEF OffsetItems, CursorInv, WalkTypeOK
  <2>2. walk'.sort = walk.sort /\ walk'.order = walk.order /\ walk'.by = walk.by
    BY <1>4, PageTaken DEF IsPage
  <2>3. NoTies' <=> NoTies
    BY <2>2 DEF NoTies
  <2>4. NoTies => MissesBounded' /\ RepeatsBounded'
    BY <1>4, <2>1, PageMisses, PageRepeats DEF OffsetInv
  <2>5. changes = 0 => Quiet' /\ Placed'
    BY <1>4, <2>1, PageQuiet, PagePlaced DEF OffsetInv
  <2>6. QED
    BY <2>1, <2>2, <2>3, <2>4, <2>5 DEF OffsetInv, apply_search
<1>5. CASE Environment
  <2>1. PICK r \in Id : Commit(r) \/ Update(r) \/ Delete(r)
    BY <1>5 DEF Environment
  <2>2. PICK state \in Row : Become(r, state)
    BY <2>1 DEF Commit, Update, Delete, Row
  <2>3. walk' = walk /\ always' = always \cap Listed(rows') /\ changes' = changes + 1 /\ changes \in Nat
    BY <2>2 DEF Become, CursorInv, WalkTypeOK
  <2>4. walk.by = "offset" /\ NoTies => MissesBounded' /\ RepeatsBounded'
    BY <2>2, ChangeCounts DEF OffsetInv
  <2>5. changes' # 0 /\ (NoTies' <=> NoTies) /\ always' \subseteq apply_search'
    BY <2>3 DEF NoTies, apply_search
  <2>6. QED
    BY <2>3, <2>4, <2>5 DEF OffsetInv
<1>6. CASE Trigger \/ Begin \/ Count \/ Return \/ Ack \/ UNCHANGED allVars
  BY <1>1, <1>6 DEF Trigger, Begin, Count, Return, Ack, allVars
<1>7. QED
  BY <1>2, <1>3, <1>4, <1>5, <1>6 DEF ReportsNext, Page, TableStep

\* The invariant of the walks by offset holds in every state of every behaviour.
THEOREM OffsetInvariance == ReportsSpec => []OffsetInv
  BY OffsetInvInit, OffsetInvNext, CursorInvariance, PTL DEF ReportsSpec

\* paginate_offset: without equal rows a walk misses no more of the rows that
\* were there all the time, and repeats no more, than there were changes; with
\* equal rows a walk of a quiet table lists as many rows as there are, each of
\* them, or one equal to it, where it is due.
THEOREM OffsetWalksAreBounded == ReportsSpec => []OffsetErrorsBounded
<1>1. CursorInv /\ OffsetInv => OffsetErrorsBounded
  <2>1. SUFFICES ASSUME CursorInv, OffsetInv, walk.by = "offset", walk.pc = "done"
                 PROVE  /\ NoTies => /\ Cardinality(always \ Seen) <= changes
                                     /\ Len(seen) - Cardinality(Seen) <= changes
                        /\ changes = 0 => Len(seen) = Cardinality(apply_search) /\ Placed
    BY DEF OffsetErrorsBounded, Placed
  <2>2. PICK B \in SUBSET Id, S \in SUBSET Id : B = Again /\ S = Seen
    <3>1. \A k \in 1..Len(seen) : seen[k] \in Id
      BY <2>1, ElementOfSeq DEF CursorInv, WalkTypeOK
    <3>2. QED
      BY <3>1 DEF Again, Seen
  <2>3. Cardinality(B) \in Nat /\ Cardinality(S) \in Nat /\ Len(seen) \in Nat /\ changes \in Nat
    BY <2>1, CountIsNat, LenProperties DEF CursorInv, WalkTypeOK
  <2>4. NoTies => Len(seen) - Cardinality(S) + Cardinality(B) <= changes
    BY <2>1, <2>2 DEF OffsetInv, RepeatsBounded
  <2>5. QED
    BY <2>1, <2>2, <2>3, <2>4 DEF OffsetInv, MissesBounded, Quiet
<1>2. QED
  BY <1>1, CursorInvariance, OffsetInvariance, PTL
=============================================================================
