----------------------------- MODULE RbacProofs -----------------------------
(***************************************************************************)
(* Roles under concurrent admin requests, for any number of requests and   *)
(* users.                                                                  *)
(*                                                                         *)
(* AnswerTrue says nothing of a request before its answer.  What it needs  *)
(* is that an admin who changes his own roles decides on what the          *)
(* permission check has read (OwnRolesFresh), and that no request is on an *)
(* account that is still to be made (Known): a new account brings a role.  *)
(***************************************************************************)
EXTENDS Rbac, TLAPS

\* What the session of a request on the caller itself has read of the role is
\* so, unless a later commit has changed it.
OwnRolesFresh ==
  \A r \in Req : (req[r].pc = "read" /\ req[r].self /\ ~req[r].overtaken)
    => (req[r].role \in req[r].loaded <=> req[r].role \in has[req[r].user])

\* A request that has found its user is on an account that is there or was.
Known ==
  \A r \in Req : (req[r] # Idle /\ (req[r].self \/ req[r].pc # "read"))
    => account[req[r].user] # "none"

Inv ==
  /\ TypeOK
  /\ OwnRolesFresh /\ Known
  /\ AnswerTrue /\ DefaultRoleUnlessRevoked

\* A slot that is not idle has a request in it.
LEMMA Working == ASSUME TypeOK, NEW r \in Req, req[r].pc # "idle"
                 PROVE  req[r] \in Request /\ req[r] # Idle
  BY DEF TypeOK, Request, Idle

\* The default role is one of those the migration makes.
LEMMA DefaultRole == DEFAULT_USER_ROLE_NAME \in Role
  BY DEF DEFAULT_USER_ROLE_NAME, Role, ROLE_PERMISSIONS

\* What a commit does to the requests: r has its answer, those on the same role
\* of the same user are overtaken, and nothing else about any request changes.
LEMMA CommitMarks ==
  ASSUME TypeOK, NEW r \in Req, req[r].pc = "commit", Overtake(r, "answer")
  PROVE  /\ req' \in [Req -> Request \cup {Idle}]
         /\ req'[r].pc = "answer" /\ req'[r] # Idle
         /\ req'[r].op = req[r].op /\ req'[r].user = req[r].user
         /\ req'[r].role = req[r].role
         /\ \A s \in Req \ {r} :
              \/ /\ req'[s] = req[s]
                 /\ req[s] # Idle => req[s].user # req[r].user \/ req[s].role # req[r].role
              \/ /\ req[s] # Idle /\ req'[s] # Idle /\ req'[s].overtaken
                 /\ req'[s].pc = req[s].pc /\ req'[s].self = req[s].self
                 /\ req'[s].user = req[s].user
<1>1. req[r] \in Request
  BY Working DEF TypeOK
<1>2. \A s \in Req : req'[s] = IF s = r
          THEN [req[r] EXCEPT !.pc = "answer", !.loaded = {}, !.overtaken = FALSE]
          ELSE IF req[s] # Idle /\ req[s].user = req[r].user /\ req[s].role = req[r].role
               THEN [req[s] EXCEPT !.overtaken = TRUE] ELSE req[s]
  BY DEF Overtake
<1>3. /\ req'[r] \in Request /\ req'[r].pc = "answer" /\ req'[r].op = req[r].op
      /\ req'[r].user = req[r].user /\ req'[r].role = req[r].role
  <2>1. req'[r] = [req[r] EXCEPT !.pc = "answer", !.loaded = {}, !.overtaken = FALSE]
    BY <1>2
  <2> QED BY <1>1, <2>1 DEF Request
<1>4. ASSUME NEW s \in Req \ {r}, req[s] # Idle, req[s].user = req[r].user,
             req[s].role = req[r].role
      PROVE  /\ req'[s] \in Request /\ req'[s].overtaken
             /\ req'[s].pc = req[s].pc /\ req'[s].self = req[s].self
             /\ req'[s].user = req[s].user
  <2>1. req[s] \in Request
    BY <1>4 DEF TypeOK
  <2>2. req'[s] = [req[s] EXCEPT !.overtaken = TRUE]
    BY <1>2, <1>4
  <2> QED BY <2>1, <2>2 DEF Request
<1>5. ASSUME NEW s \in Req \ {r},
             ~(req[s] # Idle /\ req[s].user = req[r].user /\ req[s].role = req[r].role)
      PROVE  req'[s] = req[s]
  BY <1>2, <1>5
<1>6. Idle \notin Request
  BY DEF Idle, Request
<1>7. \A s \in Req : req'[s] \in Request \cup {Idle}
  BY <1>3, <1>4, <1>5 DEF TypeOK
<1>8. DOMAIN req' = Req /\ req' = [s \in Req |-> req'[s]]
  BY DEF Overtake
<1> QED BY <1>3, <1>4, <1>5, <1>6, <1>7, <1>8

\* The migration and the first admin satisfy the invariant.
LEMMA InvInit == Init => Inv
<1> SUFFICES ASSUME Init PROVE Inv
    OBVIOUS
<1>1. TypeOK
  BY DEF Init, TypeOK, Role, ROLE_PERMISSIONS
<1>2. OwnRolesFresh /\ Known /\ AnswerTrue
  BY DEF Init, OwnRolesFresh, Known, AnswerTrue, Idle
<1>3. DefaultRoleUnlessRevoked
  BY DEF Init, DefaultRoleUnlessRevoked, DEFAULT_USER_ROLE_NAME, Present
<1> QED BY <1>1, <1>2, <1>3 DEF Inv

\* The steps of the two endpoints, and accounts that come and go, preserve it.
LEMMA InvNext == Inv /\ [Next]_vars => Inv'
<1> SUFFICES ASSUME Inv, [Next]_vars PROVE Inv'
    OBVIOUS
<1> USE DEF Inv, Idle
<1>1. ASSUME NEW r \in Req, NEW op \in {"assign", "revoke"}, NEW a \in User, NEW u \in User,
   NEW role \in Role, Start(r, op, a, u, role) PROVE Inv'
  <2>1. TypeOK'
    BY <1>1, Working DEF Start, PermissionChecker, Present, TypeOK, Request
  <2>2. OwnRolesFresh'
    BY <1>1, Working DEF Start, PermissionChecker, Present, TypeOK, Request,
       OwnRolesFresh
  <2>3. Known'
    BY <1>1, Working DEF Start, PermissionChecker, Present, TypeOK, Request, Known
  <2>4. AnswerTrue'
    BY <1>1, Working DEF Start, PermissionChecker, Present, TypeOK, Request, AnswerTrue
  <2>5. DefaultRoleUnlessRevoked'
    BY <1>1, Working DEF Start, PermissionChecker, Present, TypeOK, Request,
       DefaultRoleUnlessRevoked
  <2> QED BY <2>1, <2>2, <2>3, <2>4, <2>5
<1>2. ASSUME NEW r \in Req, Read(r) PROVE Inv'
  <2>1. req[r] \in Request
    BY <1>2, Working DEF Read
  <2>2. TypeOK'
    <3> DEFINE loaded == IF req[r].self THEN req[r].loaded ELSE has[req[r].user]
               toDo == (req[r].op = "assign") = (req[r].role \notin loaded)
               next == [req[r] EXCEPT !.pc = IF toDo THEN "commit" ELSE "answer",
                                      !.loaded = IF toDo THEN loaded ELSE {},
                                      !.self = FALSE,
                                      !.overtaken = @ /\ req[r].self]
    <3>1. loaded \in SUBSET Role
      BY <2>1 DEF TypeOK, Request
    <3>2. (req[r].overtaken /\ req[r].self) \in BOOLEAN
      OBVIOUS
    <3>3. next \in Request
      BY <2>1, <3>1, <3>2 DEF Request
    <3>4. req' = [req EXCEPT ![r] = next] \/ req' = [req EXCEPT ![r] = Idle]
      BY <1>2 DEF Read
    <3> HIDE DEF next
    <3> QED BY <1>2, <3>3, <3>4 DEF Read, TypeOK
  <2>3. OwnRolesFresh'
    BY <1>2, <2>1 DEF Read, Present, TypeOK, Request, OwnRolesFresh
  <2>4. Known'
    BY <1>2, <2>1 DEF Read, Present, TypeOK, Request, Known
  <2>5. AnswerTrue'
    BY <1>2, <2>1 DEF Read, Present, TypeOK, Request, AnswerTrue, OwnRolesFresh
  <2>6. DefaultRoleUnlessRevoked'
    BY <1>2, <2>1 DEF Read, Present, TypeOK, Request, DefaultRoleUnlessRevoked
  <2> QED BY <2>2, <2>3, <2>4, <2>5, <2>6
<1>3. ASSUME NEW r \in Req, AssignCommit(r) PROVE Inv'
  <2>1. req[r] \in Request /\ req[r].pc = "commit" /\ req[r].op = "assign"
    BY <1>3, Working DEF AssignCommit
  <2>2. CASE Present(req[r].user) /\ req[r].role \notin has[req[r].user]
    <3>1. /\ has' = [has EXCEPT ![req[r].user] = @ \cup {req[r].role}]
          /\ Overtake(r, "answer") /\ account' = account
          /\ has'[req[r].user] = has[req[r].user] \cup {req[r].role}
          /\ \A u \in User \ {req[r].user} : has'[u] = has[u]
      BY <1>3, <2>1, <2>2 DEF AssignCommit, TypeOK, Request
    <3>2. TypeOK'
      BY <1>3, <2>1, <2>2, <3>1, CommitMarks DEF AssignCommit, TypeOK, Request
    <3>3. OwnRolesFresh'
      BY <2>1, <3>1, CommitMarks DEF TypeOK, Request, OwnRolesFresh
    <3>4. Known'
      BY <2>1, <3>1, CommitMarks DEF TypeOK, Request, Known
    <3>5. AnswerTrue'
      BY <2>1, <3>1, CommitMarks DEF TypeOK, Request, AnswerTrue
    <3>6. DefaultRoleUnlessRevoked'
      BY <1>3, <2>1, <2>2, <3>1 DEF AssignCommit, TypeOK, Request, DefaultRoleUnlessRevoked
    <3> QED BY <3>2, <3>3, <3>4, <3>5, <3>6
  <2>3. CASE ~(Present(req[r].user) /\ req[r].role \notin has[req[r].user])
    BY <1>3, <2>1, <2>3 DEF AssignCommit, Fail, TypeOK, Request, OwnRolesFresh, Known, AnswerTrue,
       DefaultRoleUnlessRevoked
  <2> QED BY <2>2, <2>3
<1>4. ASSUME NEW r \in Req, RevokeCommit(r) PROVE Inv'
  <2>1. req[r] \in Request /\ req[r].pc = "commit" /\ req[r].op = "revoke"
    BY <1>4, Working DEF RevokeCommit
  <2>2. CASE req[r].role \in has[req[r].user]
    <3>1. /\ has' = [has EXCEPT ![req[r].user] = @ \ {req[r].role}]
          /\ Overtake(r, "answer") /\ account' = account
          /\ has'[req[r].user] = has[req[r].user] \ {req[r].role}
          /\ \A u \in User \ {req[r].user} : has'[u] = has[u]
      BY <1>4, <2>1, <2>2 DEF RevokeCommit, TypeOK, Request
    <3>2. TypeOK'
      BY <1>4, <2>1, <2>2, <3>1, CommitMarks DEF RevokeCommit, TypeOK, Request
    <3>3. OwnRolesFresh'
      BY <2>1, <3>1, CommitMarks DEF TypeOK, Request, OwnRolesFresh
    <3>4. Known'
      BY <2>1, <3>1, CommitMarks DEF TypeOK, Request, Known
    <3>5. AnswerTrue'
      BY <2>1, <3>1, CommitMarks DEF TypeOK, Request, AnswerTrue
    <3>6. DefaultRoleUnlessRevoked'
      BY <1>4, <2>1, <2>2, <3>1 DEF RevokeCommit, TypeOK, Request, DefaultRoleUnlessRevoked
    <3> QED BY <3>2, <3>3, <3>4, <3>5, <3>6
  <2>3. CASE ~(req[r].role \in has[req[r].user])
    BY <1>4, <2>1, <2>3 DEF RevokeCommit, Fail, TypeOK, Request, OwnRolesFresh, Known, AnswerTrue,
       DefaultRoleUnlessRevoked
  <2> QED BY <2>2, <2>3
<1>5. ASSUME NEW r \in Req, Finish(r) PROVE Inv'
  <2>1. TypeOK'
    BY <1>5, Working DEF Finish, Fail, TypeOK, Request
  <2>2. OwnRolesFresh'
    BY <1>5, Working DEF Finish, Fail, TypeOK, Request, OwnRolesFresh
  <2>3. Known'
    BY <1>5, Working DEF Finish, Fail, TypeOK, Request, Known
  <2>4. AnswerTrue'
    BY <1>5, Working DEF Finish, Fail, TypeOK, Request, AnswerTrue
  <2>5. DefaultRoleUnlessRevoked'
    BY <1>5, Working DEF Finish, Fail, TypeOK, Request, DefaultRoleUnlessRevoked
  <2> QED BY <2>1, <2>2, <2>3, <2>4, <2>5
<1>6. ASSUME NEW u \in User, register_user(u) PROVE Inv'
  <2>1. TypeOK'
    BY <1>6, Working, DefaultRole DEF register_user, TypeOK, Request
  <2>2. OwnRolesFresh'
    BY <1>6, Working, DefaultRole DEF register_user, TypeOK, Request, OwnRolesFresh,
       Known
  <2>3. Known'
    BY <1>6, Working, DefaultRole DEF register_user, TypeOK, Request, Known
  <2>4. AnswerTrue'
    BY <1>6, Working, DefaultRole DEF register_user, TypeOK, Request, AnswerTrue, Known
  <2>5. DefaultRoleUnlessRevoked'
    BY <1>6, Working, DefaultRole DEF register_user, TypeOK, Request,
       DefaultRoleUnlessRevoked
  <2> QED BY <2>1, <2>2, <2>3, <2>4, <2>5
<1>7. ASSUME NEW u \in User, OAuthCreate(u) PROVE Inv'
  <2>1. TypeOK'
    BY <1>7, Working DEF OAuthCreate, TypeOK, Request
  <2>2. OwnRolesFresh'
    BY <1>7, Working DEF OAuthCreate, TypeOK, Request, OwnRolesFresh
  <2>3. Known'
    BY <1>7, Working DEF OAuthCreate, TypeOK, Request, Known
  <2>4. AnswerTrue'
    BY <1>7, Working DEF OAuthCreate, TypeOK, Request, AnswerTrue
  <2>5. DefaultRoleUnlessRevoked'
    BY <1>7, Working DEF OAuthCreate, TypeOK, Request, DefaultRoleUnlessRevoked
  <2> QED BY <2>1, <2>2, <2>3, <2>4, <2>5
<1>8. ASSUME NEW u \in User, Cleanup(u) PROVE Inv'
  <2>1. TypeOK'
    BY <1>8, Working DEF Cleanup, Present, TypeOK, Request
  <2>2. OwnRolesFresh'
    BY <1>8, Working DEF Cleanup, Present, TypeOK, Request, OwnRolesFresh
  <2>3. Known'
    BY <1>8, Working DEF Cleanup, Present, TypeOK, Request, Known
  <2>4. AnswerTrue'
    BY <1>8, Working DEF Cleanup, Present, TypeOK, Request, AnswerTrue
  <2>5. DefaultRoleUnlessRevoked'
    BY <1>8, Working DEF Cleanup, Present, TypeOK, Request, DefaultRoleUnlessRevoked
  <2> QED BY <2>1, <2>2, <2>3, <2>4, <2>5
<1>9. CASE UNCHANGED vars
  BY <1>9 DEF vars, TypeOK, OwnRolesFresh, Known, AnswerTrue, DefaultRoleUnlessRevoked
<1> QED BY <1>1, <1>2, <1>3, <1>4, <1>5, <1>6, <1>7, <1>8, <1>9 DEF Next

\* The invariant holds throughout.
THEOREM Invariance == Spec => []Inv
  BY InvInit, InvNext, PTL DEF Spec

\* The role tables and the requests stay well formed.
THEOREM TypeCorrect == Spec => []TypeOK
  BY Invariance, PTL DEF Inv

\* An assign or revoke that is answered with 200 has happened, unless a later
\* commit changed it again: concurrent changes do not undo each other.
THEOREM AnswersAreTrue == Spec => []AnswerTrue
  BY Invariance, PTL DEF Inv

\* Only an admin's revoke takes the default role from a registered account.
THEOREM DefaultRoleStays == Spec => []DefaultRoleUnlessRevoked
  BY Invariance, PTL DEF Inv
=============================================================================
