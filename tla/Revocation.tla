----------------------------- MODULE Revocation -----------------------------
(***************************************************************************)
(* What the API promises about a token and its revocation, without clocks, *)
(* Redis or requests.                                                      *)
(*                                                                         *)
(* A token is issued, may be revoked, and in the end lapses.  Until it     *)
(* lapses the revocation check lets it pass exactly when it has not been   *)
(* revoked; a revocation is never undone.  About a lapsing token (one that *)
(* is within a second of its expiry, or past it) nothing is promised: its  *)
(* revocation record may be gone while the token still decodes.            *)
(*                                                                         *)
(* TokenRevocation is the implementation; it is shown to refine this       *)
(* module.                                                                 *)
(***************************************************************************)
EXTENDS Naturals

CONSTANT Jti            \* token identifiers

VARIABLES status,       \* where each token is in its life
          passed        \* how often each token passed the revocation check

vars == <<status, passed>>

Init ==
  /\ status = [j \in Jti |-> "unissued"]
  /\ passed = [j \in Jti |-> 0]

Issue(S) ==
  /\ S # {}
  /\ \A j \in S : status[j] = "unissued"
  /\ status' = [j \in Jti |-> IF j \in S THEN "valid" ELSE status[j]]
  /\ UNCHANGED passed

Revoke(j) ==
  /\ status[j] = "valid"
  /\ status' = [status EXCEPT ![j] = "revoked"]
  /\ UNCHANGED passed

\* Time passes for every token alike, so several may lapse together.
Lapse(S) ==
  /\ S # {}
  /\ \A j \in S : status[j] \in {"valid", "revoked"}
  /\ status' = [j \in Jti |-> IF j \in S THEN "lapsing" ELSE status[j]]
  /\ UNCHANGED passed

Pass(j) ==
  /\ status[j] \in {"valid", "lapsing"}
  /\ passed' = [passed EXCEPT ![j] = @ + 1]
  /\ UNCHANGED status

Next ==
  \/ \E S \in SUBSET Jti : Issue(S) \/ Lapse(S)
  \/ \E j \in Jti : Revoke(j) \/ Pass(j)

Spec == Init /\ [][Next]_vars
=============================================================================
