---------------------------- MODULE MCAccounts ----------------------------
(* Accounts on small instances. *)
EXTENDS Accounts, TLC

\* Addresses that are all in lower case.
Same == [e \in Email |-> e]

Singletons(S) == {{x} : x \in S}

\* What clients do to the accounts there are, each group of operations with
\* the names that make it interesting:
\* sessions, addresses that change hands, and deactivation;
Sessions == [ops : {{"register", "login", "email", "deactivate"}}, email : {Email},
             password : Singletons(Password), ids : {UserId}]

\* changes of a password, by its owner and by reset links, and the admin;
Mail == [ops : {{"login", "forgot", "reset", "password", "admin"}},
         email : Singletons(Email), password : {Password}, ids : Singletons(UserId)]

\* registration and verification of one address, the admin, and the cleanup.
Signup == [ops : {{"register", "verify", "admin"}}, email : Singletons(Email),
           password : Singletons(Password), ids : {UserId}]

AllScopes == Sessions \cup Mail \cup Signup

\* Two reset requests with one link.
Resets == [ops : {{"forgot", "reset"}}, email : {Email}, password : {Password},
           ids : {UserId}]

Symmetry == Permutations(Req) \cup Permutations(UserId) \cup Permutations(Email)
              \cup Permutations(Password) \cup Permutations(Jti)
===========================================================================
