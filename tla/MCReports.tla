----------------------------- MODULE MCReports -----------------------------
(* Pagination and Reports on a table of a few rows. *)
EXTENDS Reports

\* A column without equal values (up to 6 rows), in another order than the id,
\* and a flag.
ScrambledAndFlag == {[i \in Id |-> (2 * i) % 7], [i \in Id |-> i % 2]}
=============================================================================
