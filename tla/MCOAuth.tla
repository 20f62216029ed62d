------------------------------ MODULE MCOAuth ------------------------------
(* OAuth, with Accounts, on a small instance. *)
EXTENDS OAuth, TLC

CONSTANTS e1, e2, E2

\* Two addresses, one of which the provider may spell with capitals.
TwoSpellings == [e \in Email |-> IF e = E2 THEN e2 ELSE e]

Using(ops, emails, accounts) ==
  [ops : {ops}, email : {emails}, password : {Password}, ids : accounts]

OneAccount == {{u} : u \in UserId}

\* Accounts that signed up through the provider ask for a password.
Resets == Using({"login", "forgot", "reset"}, {e2, E2}, OneAccount)

\* Beside callbacks and unlinks, clients change their addresses (two of them,
\* or two spellings), reset the password of an account, or register.
BesideOAuth ==
  Using({"login", "email"}, {e1, e2}, OneAccount)
    \cup Using({"login", "email"}, {e2, E2}, {UserId})
    \cup Resets
    \cup Using({"register"}, {e2, E2}, OneAccount)

Symmetry == Permutations(Flow) \cup Permutations(Identity) \cup Permutations(UserId)
              \cup Permutations(Jti)
============================================================================
