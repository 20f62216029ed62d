-------------------------------- MODULE Rbac --------------------------------
(***************************************************************************)
(* Roles of users: the admin endpoints that assign and revoke them         *)
(* (api/admin.py) behind the permission check of core/rbac.py, the tables  *)
(* of models/role.py as the migration fills them, and the ways an account  *)
(* comes and goes.                                                         *)
(*                                                                         *)
(* A request checks the caller, reads the roles of the user and commits in *)
(* separate statements; others commit in between.  The session writes what *)
(* differs from the roles it read: one INSERT or DELETE in user_roles.     *)
(***************************************************************************)

CONSTANTS Req, User

VARIABLES
  account,      \* table users: who has a row, and where it came from
  has,          \* table user_roles
  req,          \* what each request slot is doing
  (* history *)
  revoked       \* users from whom the default role was revoked

vars == <<account, has, req, revoked>>

\* upgrade() of the migration that adds the tables; no endpoint changes this.
ROLE_PERMISSIONS ==
  [role \in {"admin", "moderator", "user"} |->
     CASE role = "admin" -> {"users:read", "users:write", "users:delete", "roles:manage"}
       [] role = "moderator" -> {"users:read", "users:write"}
       [] role = "user" -> {}]

Role == DOMAIN ROLE_PERMISSIONS

DEFAULT_USER_ROLE_NAME == "user"

Present(u) == account[u] \in {"existing", "registered", "oauth"}

\* PermissionChecker.__call__, for one permission
PermissionChecker(u, permission) ==
  Present(u) /\ permission \in UNION {ROLE_PERMISSIONS[role] : role \in has[u]}

Idle == [pc |-> "idle"]

\* self: the user is the caller (up to Read); loaded: the roles the session
\* has read of the user; overtaken (history): since then another commit
\* touched the same role of the same user, or removed the user.
Request == [pc : {"read", "commit", "answer"}, op : {"assign", "revoke"}, self : BOOLEAN,
            user : User, role : Role, loaded : SUBSET Role, overtaken : BOOLEAN]

-----------------------------------------------------------------------------
(* assign_role, revoke_role *)

\* The roles of the caller are read for the check, and stay in the session.
Start(r, op, a, u, role) ==
  /\ req[r] = Idle
  /\ PermissionChecker(a, "roles:manage")
  /\ req' = [req EXCEPT ![r] = [pc |-> "read", op |-> op, self |-> a = u, user |-> u,
                                role |-> role, loaded |-> IF a = u THEN has[a] ELSE {},
                                overtaken |-> FALSE]]
  /\ UNCHANGED <<account, has, revoked>>

\* For the caller itself the session has the row and its roles already.
\* Nothing to do if the role is there, or not there to be revoked.
Read(r) ==
  LET q == req[r]
      loaded == IF q.self THEN q.loaded ELSE has[q.user]
      toDo == (q.op = "assign") = (q.role \notin loaded) IN
  /\ q.pc = "read"
  /\ req' = [req EXCEPT ![r] =
       IF q.self \/ Present(q.user)
       THEN [q EXCEPT !.pc = IF toDo THEN "commit" ELSE "answer", !.loaded = IF toDo THEN loaded ELSE {},
                      !.self = FALSE, !.overtaken = @ /\ q.self]
       ELSE Idle]
  /\ UNCHANGED <<account, has, revoked>>

\* r commits, and goes to pc; to others that have read this role it is news.
Overtake(r, pc) ==
  LET q == req[r] IN
  req' = [s \in Req |->
            IF s = r THEN [q EXCEPT !.pc = pc, !.loaded = {}, !.overtaken = FALSE]
            ELSE IF req[s] # Idle /\ req[s].user = q.user /\ req[s].role = q.role
                 THEN [req[s] EXCEPT !.overtaken = TRUE]
                 ELSE req[s]]

Fail(r) == req' = [req EXCEPT ![r] = Idle]

\* INSERT: fails if the user has gone (foreign key) or got the role meanwhile
\* (primary key).  The notification that follows is module WsDelivery's.
AssignCommit(r) ==
  LET q == req[r] IN
  /\ q.pc = "commit" /\ q.op = "assign"
  /\ IF Present(q.user) /\ q.role \notin has[q.user]
     THEN has' = [has EXCEPT ![q.user] = @ \cup {q.role}] /\ Overtake(r, "answer")
     ELSE Fail(r) /\ UNCHANGED has
  /\ UNCHANGED <<account, revoked>>

\* Mutated form: the list that was read is written back as a whole.
RevokeCommit_WriteBack(r) ==
  LET q == req[r] IN
  /\ q.pc = "commit" /\ q.op = "revoke"
  /\ IF Present(q.user)
     THEN has' = [has EXCEPT ![q.user] = q.loaded \ {q.role}] /\ Overtake(r, "answer")
     ELSE Fail(r) /\ UNCHANGED has
  /\ revoked' = IF q.role = DEFAULT_USER_ROLE_NAME THEN revoked \cup {q.user} ELSE revoked
  /\ UNCHANGED account

\* DELETE: fails if the row has gone meanwhile (StaleDataError).
RevokeCommit(r) ==
  LET q == req[r] IN
  /\ q.pc = "commit" /\ q.op = "revoke"
  /\ IF q.role \in has[q.user]
     THEN has' = [has EXCEPT ![q.user] = @ \ {q.role}] /\ Overtake(r, "answer")
     ELSE Fail(r) /\ UNCHANGED has
  /\ revoked' = IF q.role = DEFAULT_USER_ROLE_NAME THEN revoked \cup {q.user} ELSE revoked
  /\ UNCHANGED account

\* The answer is given, or the refresh finds the user gone, or the worker dies.
Finish(r) ==
  /\ req[r] # Idle
  /\ Fail(r)
  /\ UNCHANGED <<account, has, revoked>>

-----------------------------------------------------------------------------
(* Accounts come and go *)

\* Mutated form: the role is attached after the commit, and lost.
register_user_NoRole(u) ==
  /\ account[u] = "none"
  /\ account' = [account EXCEPT ![u] = "registered"]
  /\ UNCHANGED <<has, req, revoked>>

\* The row and its default role are one commit.
register_user(u) ==
  /\ account[u] = "none"
  /\ account' = [account EXCEPT ![u] = "registered"]
  /\ has' = [has EXCEPT ![u] = {DEFAULT_USER_ROLE_NAME}]
  /\ UNCHANGED <<req, revoked>>

\* oauth_callback creates an account.
OAuthCreate(u) ==
  /\ account[u] = "none"
  /\ account' = [account EXCEPT ![u] = "oauth"]
  /\ UNCHANGED <<has, req, revoked>>

\* cleanup_unverified_users; user_roles has ON DELETE CASCADE.
Cleanup(u) ==
  /\ Present(u)
  /\ account' = [account EXCEPT ![u] = "deleted"]
  /\ has' = [has EXCEPT ![u] = {}]
  /\ req' = [r \in Req |-> IF req[r] # Idle /\ req[r].user = u
                           THEN [req[r] EXCEPT !.overtaken = TRUE] ELSE req[r]]
  /\ UNCHANGED revoked

\* The migration gives every user there is the default role; the first admin
\* is made by hand.
Init ==
  /\ account \in [User -> {"none", "existing"}]
  /\ has \in [User -> {{}, {"user"}, {"user", "admin"}}]
  /\ \A u \in User : Present(u) <=> has[u] # {}
  /\ req = [r \in Req |-> Idle] /\ revoked = {}

Next ==
  \/ \E r \in Req :
       \/ \E op \in {"assign", "revoke"}, a, u \in User, role \in Role : Start(r, op, a, u, role)
       \/ Read(r) \/ AssignCommit(r) \/ RevokeCommit(r) \/ Finish(r)
  \/ \E u \in User : register_user(u) \/ OAuthCreate(u) \/ Cleanup(u)

Spec == Init /\ [][Next]_vars

-----------------------------------------------------------------------------
(* Properties *)

TypeOK ==
  /\ account \in [User -> {"none", "existing", "registered", "oauth", "deleted"}]
  /\ has \in [User -> SUBSET Role]
  /\ req \in [Req -> Request \cup {Idle}]
  /\ revoked \in SUBSET User

\* What an assign or revoke is answered with 200 for is so, unless a later
\* commit has changed it again: concurrent changes of a user's roles do not
\* undo each other, though each request works on the list it has read.
AnswerTrue ==
  \A r \in Req :
    (req[r].pc = "answer" /\ ~req[r].overtaken)
      => ((req[r].op = "assign") = (req[r].role \in has[req[r].user]))

\* Accounts that registered, and those the migration found, have the default
\* role until an admin revokes it, whatever happens to their other roles.
\* (README, RBAC: "Every new user gets the `user` role automatically"; those
\* that oauth_callback creates do not.)
DefaultRoleUnlessRevoked ==
  \A u \in User \ revoked :
    account[u] \in {"existing", "registered"} => DEFAULT_USER_ROLE_NAME \in has[u]
=============================================================================
