------------------------------ MODULE Accounts ------------------------------
(***************************************************************************)
(* The life of a user account: registration, e-mail verification, login,   *)
(* password reset and change, change of address, deactivation, the admin   *)
(* status endpoints, and the Celery job that removes accounts that were    *)
(* never verified.                                                         *)
(*                                                                         *)
(* The handlers run concurrently (a thread pool in each of several worker  *)
(* processes) on one PostgreSQL database at READ COMMITTED and one Redis.  *)
(* A request is a process; a step of it is one statement or commit, or one *)
(* Redis command, with the local code around it.  A refusal (4xx) found    *)
(* in a request's first step changes nothing and is not a step.  The ORM   *)
(* writes, at commit, just the columns whose value differs from the one it *)
(* loaded; an UPDATE that finds its row gone fails with 500.               *)
(*                                                                         *)
(* Roles, and the default role that registration attaches, are not part    *)
(* of this state: no handler here reads them after get_current_user.       *)
(*                                                                         *)
(* Expiry and revocation of session tokens are the subject of module       *)
(* TokenRevocation; rate limits that of RateLimit.  A session token stands *)
(* for the access token and the refresh token of a login: both carry the   *)
(* e-mail address as "sub", and what refresh mints carries the same one.   *)
(***************************************************************************)
EXTENDS Naturals

CONSTANTS
  Req,          \* request slots
  UserId,       \* values of the users.id sequence, never used twice
  Email,        \* addresses, as they may be spelled
  Lower,        \* str.lower on them
  Password,
  Jti,          \* token identifiers (uuid4), never used twice
  Scopes        \* bounds: what the clients of one behaviour call and type

AllOps == {"register", "login", "verify", "forgot", "reset", "email",
           "password", "deactivate", "admin"}

\* The operations clients call, the addresses and passwords they type, and
\* the accounts there are at the start.
Scope == [ops : SUBSET AllOps, email : SUBSET Email, password : SUBSET Password,
          ids : SUBSET UserId]

ASSUME ScopesAssumption == Scopes \subseteq Scope

ASSUME LowerAssumption ==
  /\ Lower \in [Email -> Email]
  /\ \A e \in Email : Lower[Lower[e]] = Lower[e]

ASSUME NoneAssumption ==
  /\ "none" \notin UserId
  /\ "none" \notin Email
  /\ "none" \notin Jti

VARIABLES
  users,        \* table users: one row per id
  tokens,       \* the JWTs handed out, by jti
  usedKeys,     \* tokens with a Redis key used:token:<jti>
  req,          \* what each request slot is doing
  scope,        \* the member of Scopes this behaviour keeps to
  sweep,        \* ids the running cleanup task has selected; {}: not running
  (* history *)
  released,     \* addresses some account had and gave up
  pardoned,     \* accounts an admin verified while the cleanup had them selected
  spent,        \* tokens whose handler got to the end of mark_token_used
  commits       \* database commits made on the strength of a mail token, up to 2

history == <<released, pardoned, spent, commits>>
vars == <<users, tokens, usedKeys, req, scope, sweep, history>>

-----------------------------------------------------------------------------
(* app/models/user.py, app/auth/password.py, app/auth/jwt.py *)

hash_password(p) == <<"hash", p>>

NoHash == <<>>

verify_password(p, h) == h = hash_password(p)

Hash == {hash_password(p) : p \in Password} \cup {NoHash}

\* age: "new" within the grace period of the cleanup, "stale" after it.
User == [email : Email, password : Hash, active : BOOLEAN, verified : BOOLEAN,
         age : {"new", "stale"}]

NoUser == [email |-> "none", password |-> NoHash, active |-> FALSE,
           verified |-> FALSE, age |-> "none"]

Deleted == [NoUser EXCEPT !.age = "deleted"]

Present(u) == users[u].age \in {"new", "stale"}

EmailTaken(e) == \E u \in UserId : Present(u) /\ users[u].email = e

MailType == {"email_verification", "password_reset"}

\* life: "ending" is the last second before exp, when whole seconds to live
\* are none.  holder is history: the account the token was made for.
Token == [type : MailType \cup {"session"}, sub : Email \cup UserId,
          life : {"fresh", "ending", "expired"}, holder : UserId]

NoToken == [type |-> "none", sub |-> "none", life |-> "expired", holder |-> "none"]

create_token(type, sub, u) ==
  [type |-> type, sub |-> sub, life |-> "fresh", holder |-> u]

IssueToken(type, sub, u) ==
  \E j \in Jti : /\ tokens[j] = NoToken
                 /\ tokens' = [tokens EXCEPT ![j] = create_token(type, sub, u)]

decode_token(j, type) == tokens[j].type = type /\ tokens[j].life # "expired"

(* app/services/token_blacklist.py *)

\* Mutated form: the key is not written.
mark_token_used_Lost(j) == UNCHANGED usedKeys

\* remaining_ttl_seconds is 0 in the last second, and then nothing is stored.
mark_token_used(j) ==
  usedKeys' = IF tokens[j].life = "fresh" THEN usedKeys \cup {j} ELSE usedKeys

is_token_used(j) == j \in usedKeys

-----------------------------------------------------------------------------
(* Requests *)

PC == {"idle", "register_insert", "register_mail",
       "verify_check", "verify_commit", "verify_mark",
       "reset_load", "reset_commit", "reset_mark",
       "email_check", "email_commit", "password_commit", "deactivate_commit",
       "admin_commit"}

\* A column of the admin's payload: leave it, set it to true, to false.
Flag == {"keep", "on", "off"}

\* The token and the row a request works on, its input, the columns an admin
\* request will write, and (history) whether the token was spent already when
\* the request looked for its used:token key.
ReqState == [pc : PC, jti : Jti \cup {"none"}, uid : UserId \cup {"none"},
             email : Email \cup {"none"}, password : Hash,
             active : Flag, verified : Flag, after : BOOLEAN]

Idle == [pc |-> "idle", jti |-> "none", uid |-> "none", email |-> "none",
         password |-> NoHash, active |-> "keep", verified |-> "keep",
         after |-> FALSE]

TypeOK ==
  /\ users \in [UserId -> User \cup {NoUser, Deleted}]
  /\ tokens \in [Jti -> Token \cup {NoToken}]
  /\ usedKeys \in SUBSET Jti
  /\ req \in [Req -> ReqState]
  /\ scope \in Scopes
  /\ sweep \in SUBSET UserId
  /\ released \in SUBSET Email
  /\ pardoned \in SUBSET UserId
  /\ spent \in SUBSET Jti
  /\ commits \in [Jti -> 0..2]

Begin(op, r) == op \in scope.ops /\ req[r].pc = "idle"

Goto(r, state) == req' = [req EXCEPT ![r] = state]

\* The request answers, or raises: its slot is free again.
Done(r) == Goto(r, Idle)

Commit(j) == commits' = [commits EXCEPT ![j] = IF @ < 2 THEN @ + 1 ELSE 2]

-----------------------------------------------------------------------------
(* register_user *)

RegisterCheck(r, e, p) ==
  /\ Begin("register", r)
  /\ ~EmailTaken(Lower[e])
  /\ Goto(r, [Idle EXCEPT !.pc = "register_insert", !.email = Lower[e],
                          !.password = hash_password(p)])
  /\ UNCHANGED <<users, tokens, usedKeys, sweep, history, scope>>

\* Mutated form: users.email has no unique constraint.
RegisterInsert_NotUnique(r) ==
  /\ req[r].pc = "register_insert"
  /\ \E u \in UserId :
       /\ users[u] = NoUser
       /\ users' = [users EXCEPT ![u] =
                      [email |-> req[r].email, password |-> req[r].password,
                       active |-> TRUE, verified |-> FALSE, age |-> "new"]]
       /\ Goto(r, [req[r] EXCEPT !.pc = "register_mail", !.uid = u])
  /\ UNCHANGED <<tokens, usedKeys, sweep, history, scope>>

\* INSERT; the unique index on users.email turns a lost race into a 500.
RegisterInsert(r) ==
  /\ req[r].pc = "register_insert"
  /\ IF EmailTaken(req[r].email)
     THEN Done(r) /\ UNCHANGED users
     ELSE \E u \in UserId :
            /\ users[u] = NoUser
            /\ users' = [users EXCEPT ![u] =
                           [email |-> req[r].email, password |-> req[r].password,
                            active |-> TRUE, verified |-> FALSE, age |-> "new"]]
            /\ Goto(r, [req[r] EXCEPT !.pc = "register_mail", !.uid = u])
  /\ UNCHANGED <<tokens, usedKeys, sweep, history, scope>>

\* The verification token is made and handed to the mail queue.  (If the
\* queue cannot be reached the row stays, without a token: Crash.)
RegisterMail(r) ==
  /\ req[r].pc = "register_mail"
  /\ IssueToken("email_verification", req[r].uid, req[r].uid)
  /\ Done(r)
  /\ UNCHANGED <<users, usedKeys, sweep, history, scope>>

-----------------------------------------------------------------------------
(* login_user: one SELECT, then local checks *)

Login(e, p) ==
  /\ "login" \in scope.ops
  /\ \E u \in UserId :
       /\ Present(u) /\ users[u].email = Lower[e]
       /\ verify_password(p, users[u].password)
       /\ users[u].verified /\ users[u].active
       /\ IssueToken("session", users[u].email, u)
  /\ UNCHANGED <<users, usedKeys, req, sweep, history, scope>>

-----------------------------------------------------------------------------
(* verify_email.  The subject is the user's id. *)

VerifyLoad(r, j) ==
  LET u == tokens[j].sub IN
  /\ Begin("verify", r)
  /\ decode_token(j, "email_verification")
  /\ Present(u) /\ ~users[u].verified
  /\ Goto(r, [Idle EXCEPT !.pc = "verify_check", !.jti = j, !.uid = u])
  /\ UNCHANGED <<users, tokens, usedKeys, sweep, history, scope>>

VerifyCheck(r) ==
  LET j == req[r].jti IN
  /\ req[r].pc = "verify_check"
  /\ IF is_token_used(j)
     THEN Done(r)
     ELSE Goto(r, [req[r] EXCEPT !.pc = "verify_commit", !.after = j \in spent])
  /\ UNCHANGED <<users, tokens, usedKeys, sweep, history, scope>>

VerifyCommit(r) ==
  LET u == req[r].uid IN
  /\ req[r].pc = "verify_commit"
  /\ IF Present(u)
     THEN /\ users' = [users EXCEPT ![u].verified = TRUE]
          /\ Commit(req[r].jti)
          /\ Goto(r, [req[r] EXCEPT !.pc = "verify_mark"])
     ELSE Done(r) /\ UNCHANGED <<users, commits>>
  /\ UNCHANGED <<tokens, usedKeys, sweep, released, pardoned, spent, scope>>

VerifyMark(r) ==
  /\ req[r].pc = "verify_mark"
  /\ mark_token_used(req[r].jti)
  /\ spent' = spent \cup {req[r].jti}
  /\ Done(r)
  /\ UNCHANGED <<users, tokens, sweep, released, pardoned, commits, scope>>

-----------------------------------------------------------------------------
(* forgot_password: one SELECT; a known, active address gets a reset token. *)

\* The account whose address, in lower case, was typed.
ForgotFinds(e, u) == Present(u) /\ users[u].email = Lower[e] /\ users[u].active

Forgot(e) ==
  /\ "forgot" \in scope.ops
  /\ \E u \in UserId : ForgotFinds(e, u) /\ IssueToken("password_reset", u, u)
  /\ UNCHANGED <<users, usedKeys, req, sweep, history, scope>>

(* reset_password *)

ResetCheck(r, j, p) ==
  /\ Begin("reset", r)
  /\ decode_token(j, "password_reset")
  /\ ~is_token_used(j)
  /\ Goto(r, [Idle EXCEPT !.pc = "reset_load", !.jti = j,
                          !.password = hash_password(p), !.after = j \in spent])
  /\ UNCHANGED <<users, tokens, usedKeys, sweep, history, scope>>

ResetLoad(r) ==
  LET u == tokens[req[r].jti].sub IN
  /\ req[r].pc = "reset_load"
  /\ IF Present(u) /\ users[u].active /\ users[u].password # req[r].password
     THEN Goto(r, [req[r] EXCEPT !.pc = "reset_commit", !.uid = u])
     ELSE Done(r)
  /\ UNCHANGED <<users, tokens, usedKeys, sweep, history, scope>>

ResetCommit(r) ==
  LET u == req[r].uid IN
  /\ req[r].pc = "reset_commit"
  /\ IF Present(u)
     THEN /\ users' = [users EXCEPT ![u].password = req[r].password]
          /\ Commit(req[r].jti)
          /\ Goto(r, [req[r] EXCEPT !.pc = "reset_mark"])
     ELSE Done(r) /\ UNCHANGED <<users, commits>>
  /\ UNCHANGED <<tokens, usedKeys, sweep, released, pardoned, spent, scope>>

ResetMark(r) ==
  /\ req[r].pc = "reset_mark"
  /\ mark_token_used(req[r].jti)
  /\ spent' = spent \cup {req[r].jti}
  /\ Done(r)
  /\ UNCHANGED <<users, tokens, sweep, released, pardoned, commits, scope>>

-----------------------------------------------------------------------------
(* The /users/me endpoints of v1 and v2, behind get_current_user: the row is *)
(* the one that has the token's address now, and must be active.             *)

get_current_user(j, u) ==
  /\ tokens[j].type = "session"
  /\ Present(u) /\ users[u].email = tokens[j].sub
  /\ users[u].active

EmailAuth(r, j, u, e) ==
  /\ Begin("email", r)
  /\ get_current_user(j, u)
  /\ Goto(r, [Idle EXCEPT !.pc = "email_check", !.jti = j, !.uid = u,
                          !.email = Lower[e]])
  /\ UNCHANGED <<users, tokens, usedKeys, sweep, history, scope>>

EmailCheck(r) ==
  /\ req[r].pc = "email_check"
  /\ IF \E u \in UserId \ {req[r].uid} : Present(u) /\ users[u].email = req[r].email
     THEN Done(r)
     ELSE Goto(r, [req[r] EXCEPT !.pc = "email_commit"])
  /\ UNCHANGED <<users, tokens, usedKeys, sweep, history, scope>>

\* Mutated form: users.email has no unique constraint.
EmailCommit_NotUnique(r) ==
  LET u == req[r].uid IN
  /\ req[r].pc = "email_commit"
  /\ IF Present(u)
     THEN /\ users' = [users EXCEPT ![u].email = req[r].email]
          /\ released' = released \cup ({users[u].email} \ {req[r].email})
     ELSE UNCHANGED <<users, released>>
  /\ Done(r)
  /\ UNCHANGED <<tokens, usedKeys, sweep, pardoned, spent, commits, scope>>

\* Mutated form: the UPDATE writes the whole row as it was loaded, not just
\* the address.
EmailCommit_WholeRow(r) ==
  LET u == req[r].uid IN
  /\ req[r].pc = "email_commit"
  /\ IF Present(u) /\ ~EmailTaken(req[r].email)
     THEN /\ users' = [users EXCEPT ![u].email = req[r].email, ![u].active = TRUE]
          /\ released' = released \cup {users[u].email}
     ELSE UNCHANGED <<users, released>>
  /\ Done(r)
  /\ UNCHANGED <<tokens, usedKeys, sweep, pardoned, spent, commits, scope>>

\* The address that was loaded is the token's; if the new one is the same
\* there is no UPDATE.  A taken address fails on the unique index.
EmailCommit(r) ==
  LET u == req[r].uid IN
  /\ req[r].pc = "email_commit"
  /\ IF /\ req[r].email # tokens[req[r].jti].sub
        /\ Present(u)
        /\ ~\E v \in UserId \ {u} : Present(v) /\ users[v].email = req[r].email
     THEN /\ users' = [users EXCEPT ![u].email = req[r].email]
          /\ released' = released \cup ({users[u].email} \ {req[r].email})
     ELSE UNCHANGED <<users, released>>
  /\ Done(r)
  /\ UNCHANGED <<tokens, usedKeys, sweep, pardoned, spent, commits, scope>>

\* change_user_password: its three checks look at the row as loaded.
PasswordAuth(r, j, u, current, new) ==
  /\ Begin("password", r)
  /\ get_current_user(j, u)
  /\ verify_password(current, users[u].password)
  /\ ~verify_password(new, users[u].password)
  /\ Goto(r, [Idle EXCEPT !.pc = "password_commit", !.jti = j, !.uid = u,
                          !.password = hash_password(new)])
  /\ UNCHANGED <<users, tokens, usedKeys, sweep, history, scope>>

PasswordCommit(r) ==
  LET u == req[r].uid IN
  /\ req[r].pc = "password_commit"
  /\ users' = IF Present(u) THEN [users EXCEPT ![u].password = req[r].password]
                            ELSE users
  /\ Done(r)
  /\ UNCHANGED <<tokens, usedKeys, sweep, history, scope>>

DeactivateAuth(r, j, u) ==
  /\ Begin("deactivate", r)
  /\ get_current_user(j, u)
  /\ Goto(r, [Idle EXCEPT !.pc = "deactivate_commit", !.jti = j, !.uid = u])
  /\ UNCHANGED <<users, tokens, usedKeys, sweep, history, scope>>

DeactivateCommit(r) ==
  LET u == req[r].uid IN
  /\ req[r].pc = "deactivate_commit"
  /\ users' = IF Present(u) THEN [users EXCEPT ![u].active = FALSE] ELSE users
  /\ Done(r)
  /\ UNCHANGED <<tokens, usedKeys, sweep, history, scope>>

-----------------------------------------------------------------------------
(* update_user_status and deactivate_user of app/api/admin.py (the latter   *)
(* is the former with active "off"), for an admin who has the permission.   *)

Net(flag, loaded) == IF flag = "keep" \/ loaded = (flag = "on") THEN "keep" ELSE flag

Apply(flag, stored) == IF flag = "keep" THEN stored ELSE flag = "on"

AdminLoad(r, u, active, verified) ==
  /\ Begin("admin", r)
  /\ Present(u)
  /\ Goto(r, [Idle EXCEPT !.pc = "admin_commit", !.uid = u,
                          !.active = Net(active, users[u].active),
                          !.verified = Net(verified, users[u].verified)])
  /\ UNCHANGED <<users, tokens, usedKeys, sweep, history, scope>>

\* Mutated form: a row that has gone is written back (a merge instead of an
\* UPDATE).
AdminCommit_Upsert(r) ==
  LET u == req[r].uid IN
  /\ req[r].pc = "admin_commit"
  /\ users' = [users EXCEPT ![u].active = Apply(req[r].active, @),
                            ![u].verified = Apply(req[r].verified, @)]
  /\ Done(r)
  /\ UNCHANGED <<tokens, usedKeys, sweep, history, scope>>

AdminCommit(r) ==
  LET u == req[r].uid
      verified == Apply(req[r].verified, users[u].verified) IN
  /\ req[r].pc = "admin_commit"
  /\ IF Present(u)
     THEN /\ users' = [users EXCEPT ![u].active = Apply(req[r].active, @),
                                    ![u].verified = verified]
          /\ pardoned' = IF req[r].verified = "on" /\ u \in sweep
                         THEN pardoned \cup {u} ELSE pardoned
     ELSE UNCHANGED <<users, pardoned>>
  /\ Done(r)
  /\ UNCHANGED <<tokens, usedKeys, sweep, released, spent, commits, scope>>

-----------------------------------------------------------------------------
(* cleanup_unverified_users (app/tasks/cleanup.py), run daily by Celery beat *)

Stale(u) == users[u].age = "stale" /\ ~users[u].verified

\* Mutated form: the WHERE clause does not look at is_verified.
CleanupSelect_AnyStale ==
  /\ sweep = {}
  /\ sweep' = {u \in UserId : users[u].age = "stale"}
  /\ sweep' # {}
  /\ UNCHANGED <<users, tokens, usedKeys, req, history, scope>>

\* A run that selects nothing does nothing.
CleanupSelect ==
  /\ sweep = {}
  /\ \E u \in UserId : Stale(u)
  /\ sweep' = {u \in UserId : Stale(u)}
  /\ UNCHANGED <<users, tokens, usedKeys, req, history, scope>>

\* Mutated form: the deletion is not committed.
CleanupDelete_NoCommit ==
  /\ sweep # {}
  /\ sweep' = {}
  /\ pardoned' = {}
  /\ UNCHANGED <<users, tokens, usedKeys, req, released, spent, commits, scope>>

\* The rows are deleted by primary key, whatever they hold by now; one that
\* has gone already is passed over.
CleanupDelete ==
  /\ sweep # {}
  /\ users' = [u \in UserId |-> IF u \in sweep THEN Deleted ELSE users[u]]
  /\ released' = released \cup {users[u].email : u \in {v \in sweep : Present(v)}}
  /\ sweep' = {}
  /\ pardoned' = {}
  /\ UNCHANGED <<tokens, usedKeys, req, spent, commits, scope>>

-----------------------------------------------------------------------------
(* The environment *)

\* The worker dies, or one of its calls raises, between two steps.
Crash(r) ==
  /\ req[r].pc # "idle"
  /\ Done(r)
  /\ UNCHANGED <<users, tokens, usedKeys, sweep, history, scope>>

CleanupCrash ==
  /\ sweep # {}
  /\ sweep' = {}
  /\ pardoned' = {}
  /\ UNCHANGED <<users, tokens, usedKeys, req, released, spent, commits, scope>>

\* A mail token lives 15 or 30 minutes; session tokens are not aged here.
TokenAge(j) ==
  /\ tokens[j].type \in MailType
  /\ \/ tokens[j].life = "fresh" /\ tokens' = [tokens EXCEPT ![j].life = "ending"]
     \/ tokens[j].life = "ending" /\ tokens' = [tokens EXCEPT ![j].life = "expired"]
  /\ UNCHANGED <<users, usedKeys, req, sweep, history, scope>>

\* Redis drops the key after the whole seconds the token had left.
UsedKeyExpires(j) ==
  /\ j \in usedKeys
  /\ tokens[j].life # "fresh"
  /\ usedKeys' = usedKeys \ {j}
  /\ UNCHANGED <<users, tokens, req, sweep, history, scope>>

\* Seven days pass: no request lasts as long, no verification token lives so long.
UserAge(u) ==
  /\ users[u].age = "new"
  /\ \A r \in Req : req[r].uid # u
  /\ \A j \in Jti : (tokens[j].type = "email_verification" /\ tokens[j].sub = u)
                       => tokens[j].life = "expired"
  /\ users' = [users EXCEPT ![u].age = "stale"]
  /\ UNCHANGED <<tokens, usedKeys, req, sweep, history, scope>>

-----------------------------------------------------------------------------

\* Accounts from earlier times: some of the ids, with their own addresses,
\* verified, with a password or (signed up through OAuth) without one.
Init ==
  /\ scope \in Scopes
  /\ users \in [UserId -> {NoUser} \cup
                  {x \in User : /\ x.active /\ x.verified /\ x.age = "new"
                                /\ x.email \in scope.email /\ Lower[x.email] = x.email
                                /\ x.password \in {NoHash} \cup
                                     {hash_password(p) : p \in scope.password}}]
  /\ \A u \in UserId : Present(u) => u \in scope.ids
  /\ \A u, v \in UserId : users[u].email = users[v].email => u = v \/ ~Present(u)
  /\ tokens = [j \in Jti |-> NoToken]
  /\ usedKeys = {}
  /\ req = [r \in Req |-> Idle]
  /\ sweep = {}
  /\ released = {}
  /\ pardoned = {}
  /\ spent = {}
  /\ commits = [j \in Jti |-> 0]

RegisterStep(r) ==
  \/ \E e \in scope.email, p \in scope.password : RegisterCheck(r, e, p)
  \/ RegisterInsert(r) \/ RegisterMail(r)

VerifyStep(r) ==
  \/ \E j \in Jti : VerifyLoad(r, j)
  \/ VerifyCheck(r) \/ VerifyCommit(r) \/ VerifyMark(r)

ResetStep(r) ==
  \/ \E j \in Jti, p \in scope.password : ResetCheck(r, j, p)
  \/ ResetLoad(r) \/ ResetCommit(r) \/ ResetMark(r)

MeStep(r) ==
  \/ \E j \in Jti, u \in UserId :
       \/ \E e \in scope.email : EmailAuth(r, j, u, e)
       \/ \E p, q \in scope.password : PasswordAuth(r, j, u, p, q)
       \/ DeactivateAuth(r, j, u)
  \/ EmailCheck(r) \/ EmailCommit(r) \/ PasswordCommit(r) \/ DeactivateCommit(r)

AdminStep(r) ==
  \/ \E u \in UserId, a, v \in Flag : AdminLoad(r, u, a, v)
  \/ AdminCommit(r)

Cleanup == CleanupSelect \/ CleanupDelete \/ CleanupCrash

Next ==
  \/ \E r \in Req : \/ RegisterStep(r) \/ VerifyStep(r) \/ ResetStep(r)
                    \/ MeStep(r) \/ AdminStep(r) \/ Crash(r)
  \/ \E e \in scope.email : Forgot(e) \/ \E p \in scope.password : Login(e, p)
  \/ Cleanup
  \/ \E j \in Jti : TokenAge(j) \/ UsedKeyExpires(j)
  \/ \E u \in UserId : UserAge(u)

Spec == Init /\ [][Next]_vars

\* A request that has begun goes on, or fails.
Progress(r) ==
  \/ RegisterInsert(r) \/ RegisterMail(r)
  \/ VerifyCheck(r) \/ VerifyCommit(r) \/ VerifyMark(r)
  \/ ResetLoad(r) \/ ResetCommit(r) \/ ResetMark(r)
  \/ EmailCheck(r) \/ EmailCommit(r) \/ PasswordCommit(r) \/ DeactivateCommit(r)
  \/ AdminCommit(r) \/ Crash(r)

\* Every request ends; tokens and accounts grow old whatever requests come
\* in; Celery beat starts the cleanup every day, and it does not crash every
\* single time.
Fairness ==
  /\ \A r \in Req : WF_vars(Progress(r))
  /\ \A j \in Jti : WF_vars(TokenAge(j))
  /\ \A u \in UserId : SF_vars(UserAge(u))
  /\ WF_vars(CleanupSelect)
  /\ SF_vars(CleanupDelete)

FairSpec == Spec /\ Fairness

-----------------------------------------------------------------------------
(* Properties *)

\* Two requests that both found an address free (register_user,
\* update_user_email) never both get it.
EmailUnique ==
  \A u, v \in UserId :
    (u # v /\ Present(u) /\ Present(v)) => users[u].email # users[v].email

\* A mail token that a finished request has marked as used lets no later
\* request of verify_email or reset_password past its used-check, except in
\* the token's last second, when mark_token_used stores nothing.
ReplayOnlyInLastSecond ==
  \A r \in Req :
    (req[r].pc \in {"verify_commit", "reset_load", "reset_commit"} /\ req[r].after)
      => tokens[req[r].jti].life # "fresh"

\* README, features: mail tokens are "single-use - enforced via Redis", and
\* test_reset_password_token_is_single_use.  The code does not meet this: the
\* check and the mark are apart, and two requests may both pass the check.
SingleUse == \A j \in Jti : commits[j] <= 1

MePC == {"email_check", "email_commit", "password_commit", "deactivate_commit"}

\* As long as no account has given up the address in a session token,
\* get_current_user finds the account that logged in, and the /users/me
\* endpoints act on no other, whatever registrations, renames and deletions
\* of accounts run meanwhile.  (README, RBAC, has no such condition: "acts
\* only on itself"; the token names the account by an address that can change
\* hands.)
ActsOnHolderWhileAddressHeld ==
  \A r \in Req :
    (req[r].pc \in MePC /\ tokens[req[r].jti].sub \notin released)
      => req[r].uid = tokens[req[r].jti].holder

\* An account that has been deactivated stays so until an admin request that
\* asks for it: no handler that loaded the row while it was active (change
\* of address or password, reset, verification) writes that back.
DeactivationSticks ==
  [][\A u \in UserId :
       (Present(u) /\ ~users[u].active /\ users'[u].active)
         => \E r \in Req : /\ req[r].pc = "admin_commit"
                           /\ req[r].uid = u /\ req[r].active = "on"]_vars

\* A row the cleanup has deleted is not brought back by a request that had
\* loaded it before.
DeletedStaysDeleted ==
  [][\A u \in UserId : users[u] = Deleted => users'[u] = Deleted]_vars

\* When the cleanup is about to delete an account that is verified, an admin
\* verified it after the cleanup's SELECT: no verification link can.  (So
\* cleanup.py's accounts that "never verified their email" may be verified by
\* the time they go, but only by an admin.)
SweepMeetsVerifiedOnlyByAdmin ==
  \A u \in sweep : (Present(u) /\ users[u].verified) => u \in pardoned

\* cleanup.py: without it unverified accounts "accumulate forever and
\* permanently squat the email address".  With it an unverified account is
\* removed or verified in the end, even if its registration died before the
\* mail went out.
UnverifiedEventuallyGone ==
  \A u \in UserId :
    (Present(u) /\ ~users[u].verified) ~> (~Present(u) \/ users[u].verified)
=============================================================================
