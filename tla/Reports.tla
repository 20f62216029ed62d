------------------------------ MODULE Reports ------------------------------
(***************************************************************************)
(* The user summary report (tasks/reports.py): a Celery task that counts   *)
(* users in four statements while the table of module Pagination changes,  *)
(* asked for and polled through api/admin.py.                              *)
(*                                                                         *)
(* The first statement counts all rows, the others the rows that match a   *)
(* condition of their own (active, verified, a role); a row here matches   *)
(* all three or none.  How handlers bring that about is the subject of     *)
(* modules Accounts and Rbac.                                              *)
(***************************************************************************)
EXTENDS Pagination

VARIABLES
  task,         \* the next step of the task; "done": its message is to be acknowledged
  counts,       \* what its statements returned
  result,       \* the result in the Redis backend
  (* history *)
  throughout,   \* rows a statement would have counted ever since the task began;
                \* the first time, if a result was left, else the last
  sometime      \* rows it would have counted at some time since then

reportVars == <<task, counts, result, throughout, sometime>>
allVars == <<vars, reportVars>>

Statement == {"total", "active", "verified", "roles"}

After == [total |-> "active", active |-> "verified", verified |-> "roles", roles |-> "return"]

Members(g) == {i \in Id : rows[i] = "match" \/ (g = "total" /\ rows[i] = "other")}

NoResult == <<>>

\* trigger_user_summary_report
Trigger ==
  /\ task = "none" /\ walk.by = "nobody"
  /\ task' = "queued"
  /\ UNCHANGED <<vars, counts, result, throughout, sometime>>

\* A worker takes the task; or takes it again, when another has died at any
\* point before its acknowledgement.  A result that was stored stays until the
\* next one.
Begin ==
  /\ task \notin {"none", "acked"}
  /\ task' = "total"
  /\ counts' = [g \in Statement |-> 0]
  /\ IF result = NoResult
     THEN /\ throughout' = [g \in Statement |-> Members(g)]
          /\ sometime' = [g \in Statement |-> Members(g)]
     ELSE UNCHANGED <<throughout, sometime>>
  /\ UNCHANGED <<vars, result>>

\* Mutated form: the condition of a COUNT is left out.
CountMembers_All(g) == Cardinality(Members("total"))

CountMembers(g) == Cardinality(Members(g))

Count ==
  /\ task \in Statement
  /\ task' = After[task]
  /\ counts' = [counts EXCEPT ![task] = CountMembers(task)]
  /\ UNCHANGED <<vars, result, throughout, sometime>>

Return ==
  /\ task = "return"
  /\ task' = "done"
  /\ result' = counts
  /\ UNCHANGED <<vars, counts, throughout, sometime>>

\* task_acks_late: the message is acknowledged after the result is stored.
Ack ==
  /\ task = "done"
  /\ task' = "acked"
  /\ UNCHANGED <<vars, counts, result, throughout, sometime>>

-----------------------------------------------------------------------------
(* The table, read by a client or by the task *)

ReportsInit ==
  /\ Init
  /\ task = "none" /\ result = NoResult
  /\ counts = [g \in Statement |-> 0]
  /\ throughout = [g \in Statement |-> {}] /\ sometime = [g \in Statement |-> {}]

TableStep ==
  /\ Environment
  /\ throughout' = [g \in Statement |-> throughout[g] \cap Members(g)']
  /\ sometime' = [g \in Statement |-> sometime[g] \cup Members(g)']
  /\ UNCHANGED <<task, counts, result>>

ReportsNext ==
  \/ Page /\ UNCHANGED reportVars
  \/ TableStep
  \/ Trigger \/ Begin \/ Count \/ Return \/ Ack

ReportsSpec == ReportsInit /\ [][ReportsNext]_allVars

-----------------------------------------------------------------------------

\* A report that get_report_status hands out need not be true of any moment;
\* but each of its numbers counts all users that were in the group all the
\* time, and none that never was, also when the task was run more than once and
\* the result of one run replaced that of another.
ReportWithinChurn ==
  result # NoResult =>
    \A g \in Statement : result[g] \in Cardinality(throughout[g])..Cardinality(sometime[g])
=============================================================================
