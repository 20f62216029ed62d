------------------------------- MODULE MCRbac -------------------------------
(* Rbac on a small instance. *)
EXTENDS Rbac, TLC

Symmetry == Permutations(Req) \cup Permutations(User)
=============================================================================
