------------------------- MODULE MCTokenRevocation -------------------------
(* TokenRevocation on a small instance. *)
EXTENDS TokenRevocation, FiniteSets, TLC

\* Bound: once a refresh has minted the third token, requests come one by
\* one, and each token passes a check once.
ChainAlone ==
  (\A j \in Jti : Issued(j)) =>
    /\ Cardinality({r \in Req : req[r].pc # "idle"}) <= 1
    /\ \A j \in Jti : passed[j] <= 1

Symmetry == Permutations(Jti) \cup Permutations(Req)
=============================================================================
