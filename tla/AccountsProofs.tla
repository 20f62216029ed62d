--------------------------- MODULE AccountsProofs ---------------------------
(***************************************************************************)
(* The accounts of module Accounts, and their composition with OAuth, for  *)
(* any number of requests, accounts, addresses, passwords and tokens.      *)
(*                                                                         *)
(* A request works on what it read some steps ago.  The invariant says,    *)
(* request by request, what of that is still true whatever the other       *)
(* requests, the cleanup and the clock have done since (Served); and what  *)
(* is true of a token as long as it exists (Vouched) and of a row (Kept).  *)
(***************************************************************************)
EXTENDS OAuth, FiniteSetTheorems, TLAPS

VerifyPC == {"verify_check", "verify_commit", "verify_mark"}
ResetPC == {"reset_load", "reset_commit", "reset_mark"}

\* The row that a request works on.
RowPC == VerifyPC \cup MePC \cup {"register_mail", "reset_commit", "reset_mark", "admin_commit"}

\* An address that forgot_password can find.
HasLower(u) == Present(u) => Lower[users[u].email] = users[u].email

\* What a request relies on: its row was inserted, and its id will not be used
\* again; a request that verifies lasts no seven days; its token is of its type;
\* a new address is in lower case, and only accounts that can get a reset link,
\* or have a password, get a password; and the two properties about requests.
Served(s) ==
  /\ s.pc \in RowPC => s.uid \in UserId /\ users[s.uid] # NoUser
  /\ s.pc \in VerifyPC \cup {"register_mail"} => users[s.uid].age # "stale"
  /\ s.pc \in VerifyPC => s.jti \in Jti /\ tokens[s.jti].type = "email_verification"
  /\ s.pc \in ResetPC => s.jti \in Jti /\ tokens[s.jti].type = "password_reset"
  /\ s.pc \in MePC => s.jti \in Jti /\ tokens[s.jti].type = "session"
  /\ s.pc \in {"register_insert", "email_check", "email_commit"} =>
       s.email \in Email /\ Lower[s.email] = s.email
  /\ s.pc \in ResetPC \cup {"password_commit"} => s.password # NoHash
  /\ s.pc \in {"reset_commit", "password_commit"} => HasLower(s.uid)
  /\ (s.pc \in MePC /\ tokens[s.jti].sub \notin released) => s.uid = tokens[s.jti].holder
  /\ (s.pc \in {"verify_commit", "reset_load", "reset_commit"} /\ s.after)
       => tokens[s.jti].life # "fresh"

\* What a token stands for: a session names its holder by address as long as
\* nobody gives that address up; a mail token names its holder by id, and is
\* marked once it is spent, but for its last second; no verification link
\* outlives the grace period; and no reset link goes to an address with capitals.
Vouched(j) ==
  /\ j \in spent => tokens[j] # NoToken
  /\ tokens[j] # NoToken =>
       /\ users[tokens[j].holder] # NoUser
       /\ tokens[j].type = "session" =>
            /\ tokens[j].sub \in Email
            /\ tokens[j].sub \notin released =>
                 Present(tokens[j].holder) /\ users[tokens[j].holder].email = tokens[j].sub
       /\ tokens[j].type \in MailType => tokens[j].sub = tokens[j].holder
       /\ (tokens[j].type = "email_verification" /\ users[tokens[j].holder].age = "stale")
            => tokens[j].life = "expired"
       /\ tokens[j].type = "password_reset" => HasLower(tokens[j].holder)
       /\ (j \in spent /\ tokens[j].life = "fresh") => j \in usedKeys

\* What a row can be relied on for: no password under an address with capitals;
\* and while the cleanup has it selected it is stale, and verified by an admin
\* or not at all.
Kept(u) ==
  /\ Present(u) => HasLower(u) \/ users[u].password = NoHash
  /\ u \in sweep => /\ users[u].age = "stale"
                    /\ users[u].verified => u \in pardoned

Inv ==
  /\ TypeOK
  /\ EmailUnique
  /\ \A r \in Req : Served(req[r])
  /\ \A j \in Jti : Vouched(j)
  /\ \A u \in UserId : Kept(u)

UnlinkPC == {"unlink_find", "unlink_count", "unlink_delete"}

TwoLinks(u) == \E i, k \in LinksOf(u) : i # k

\* What a callback or an unlink relies on: the values it has read; the password
\* that an unlink loaded is not taken away again; the link it found is still
\* there, or its account is not; and the account has another link if the unlink
\* may go on.
Backed(s) ==
  /\ s.pc = "delete_state" => s.state \in State
  /\ s.pc \in {"delete_state", "find_link"} => s.purpose \in UserId \cup {"login"}
  /\ s.pc \in {"load_linked", "load_asker", "link", "issue"} \cup UnlinkPC => s.uid \in UserId
  /\ s.pc \in {"load_asker", "find_email", "create", "link"} => s.identity \in Identity
  /\ s.pc \in {"find_email", "create"} => s.email \in Email
  /\ s.pc \in UnlinkPC =>
       /\ users[s.uid] # NoUser
       /\ s.password # NoHash => users[s.uid] = Deleted \/ users[s.uid].password # NoHash
  /\ (s.pc \in {"unlink_count", "unlink_delete"} /\ s.identity # "none")
       => links[s.identity] = s.uid \/ users[s.uid] = Deleted
  /\ ( /\ s.pc = "unlink_delete" /\ s.identity \in LinksOf(s.uid)
       /\ users[s.uid].password = NoHash /\ ~s.overtaken ) => TwoLinks(s.uid)

OAuthInv ==
  /\ OAuthTypeOK /\ Inv
  /\ NoDanglingLink
  /\ \A f \in Flow : Backed(flow[f])

\* What a step leaves true of rows, tokens and every request it does not serve.
Undisturbed ==
  /\ EmailUnique'
  /\ \A s \in ReqState : Served(s) => Served(s)'
  /\ \A j \in Jti : Vouched(j)'
  /\ \A u \in UserId : Kept(u)'

\* A row is there, was deleted, or was never inserted.
LEMMA Rows ==
  ASSUME TypeOK, NEW u \in UserId
  PROVE  /\ Present(u) => users[u] \in User
         /\ Present(u) \/ users[u] = NoUser \/ users[u] = Deleted
         /\ users[u].age \in {"new", "stale", "none", "deleted"}
         /\ Deleted.age = "deleted" /\ NoUser.age = "none" /\ Deleted # NoUser
         /\ Present(u) => users[u] # NoUser /\ users[u] # Deleted
<1>1. users[u] \in User \cup {NoUser, Deleted}
  BY DEF TypeOK
<1>2. NoUser.age = "none" /\ Deleted.age = "deleted"
  BY DEF NoUser, Deleted
<1>3. CASE users[u] \in User
  BY <1>2, <1>3 DEF User, Present
<1>4. CASE users[u] \in {NoUser, Deleted}
  BY <1>2, <1>4 DEF Present
<1> QED BY <1>1, <1>3, <1>4

\* A request that has ended relies on nothing.
LEMMA IdleServed == Idle \in ReqState /\ Idle.pc = "idle" /\ Served(Idle) /\ Served(Idle)'
<1>1. Idle \in ReqState
  BY DEF Idle, ReqState, PC, Flag, Hash
<1>2. Idle.pc = "idle"
  BY DEF Idle
<1>3. Served(Idle) /\ Served(Idle)'
  BY <1>2 DEF Served, RowPC, VerifyPC, ResetPC, MePC
<1> QED BY <1>1, <1>2, <1>3

\* A step that serves one request and disturbs no other.
LEMMA Frame ==
  ASSUME Inv, TypeOK', Undisturbed, NEW r \in Req, NEW t \in ReqState,
         Served(t) \/ Served(t)', Goto(r, t)
  PROVE  Inv'
<1> SUFFICES ASSUME NEW q \in Req PROVE Served(req[q])'
  BY DEF Inv, Undisturbed
<1>1. CASE q = r
  <2>1. req'[q] = t
    BY <1>1 DEF Goto, Inv, TypeOK
  <2>2. Served(t)'
    BY DEF Undisturbed
  <2> QED BY <2>1, <2>2 DEF Served, HasLower, Present
<1>2. CASE q # r
  <2>1. req'[q] = req[q] /\ req[q] \in ReqState /\ Served(req[q])
    BY <1>2 DEF Goto, Inv, TypeOK
  <2> DEFINE s == req[q]
  <2> HIDE DEF s
  <2>2. Served(s)'
    BY <2>1 DEF Undisturbed, s
  <2> QED BY <2>1, <2>2 DEF Served, HasLower, Present, s
<1> QED BY <1>1, <1>2

\* A step that serves no request.
LEMMA FrameNoRequest ==
  ASSUME Inv, TypeOK', Undisturbed, UNCHANGED req
  PROVE  Inv'
<1> SUFFICES ASSUME NEW q \in Req PROVE Served(req[q])'
  BY DEF Inv, Undisturbed
<1>1. req'[q] = req[q] /\ req[q] \in ReqState /\ Served(req[q])
  BY DEF Inv, TypeOK
<1> DEFINE s == req[q]
<1> HIDE DEF s
<1>2. Served(s)'
  BY <1>1 DEF Undisturbed, s
<1> QED BY <1>1, <1>2 DEF Served, HasLower, Present, s

\* A step that changes nothing but where a request is.
LEMMA RequestMoves ==
  ASSUME Inv, NEW r \in Req, NEW t \in ReqState, Served(t), Goto(r, t),
         UNCHANGED <<users, tokens, usedKeys, sweep, history, scope>>
  PROVE  Inv'
<1>1. TypeOK'
  BY DEF Inv, TypeOK, Goto, history
<1>2. Undisturbed
  <2>1. EmailUnique'
    BY DEF Inv, EmailUnique, Present
  <2>2. \A s \in ReqState : Served(s) => Served(s)'
    BY DEF Served, HasLower, Present, history
  <2>3. \A j \in Jti : Vouched(j)'
    BY DEF Inv, Vouched, HasLower, Present, history
  <2>4. \A u \in UserId : Kept(u)'
    BY DEF Inv, Kept, HasLower, Present, history
  <2> QED BY <2>1, <2>2, <2>3, <2>4 DEF Undisturbed
<1> QED BY <1>1, <1>2, Frame

\* One column of a row that is there is written: not the address, and no
\* password where the address has capitals.
LEMMA RowWritten ==
  ASSUME Inv, NEW u \in UserId, Present(u), NEW row \in User,
         row.email = users[u].email, row.age = users[u].age,
         row.password = users[u].password \/ HasLower(u),
         u \in sweep /\ row.verified => u \in pardoned',
         users' = [users EXCEPT ![u] = row],
         pardoned \subseteq pardoned',
         UNCHANGED <<tokens, usedKeys, released, sweep, spent>>
  PROVE  Undisturbed
<1>1. /\ \A v \in UserId : v # u => users'[v] = users[v]
      /\ users'[u] = row
  BY DEF Inv, TypeOK
<1>2. \A v \in UserId : /\ Present(v)' <=> Present(v)
                        /\ users'[v].email = users[v].email
                        /\ users'[v].age = users[v].age
                        /\ users'[v] = NoUser <=> users[v] = NoUser
  <2>1. row # NoUser /\ users[u] # NoUser
    BY Rows DEF Inv, User, NoUser
  <2> QED BY <1>1, <2>1 DEF Present
<1>3. EmailUnique'
  BY <1>2 DEF Inv, EmailUnique
<1>4. \A v \in UserId : HasLower(v)' <=> HasLower(v)
  BY <1>2 DEF HasLower
<1>5. ASSUME NEW s \in ReqState, Served(s) PROVE Served(s)'
  BY <1>2, <1>4, <1>5 DEF Served, RowPC, VerifyPC, ResetPC, MePC
<1>6. ASSUME NEW j \in Jti PROVE Vouched(j)'
  <2>1. Vouched(j) /\ (tokens[j] # NoToken => tokens[j].holder \in UserId)
    BY DEF Inv, TypeOK, Token
  <2> QED BY <1>2, <1>4, <2>1 DEF Vouched
<1>7. ASSUME NEW v \in UserId PROVE Kept(v)'
  <2>1. CASE v = u
    BY <1>1, <1>2, <1>4, <2>1 DEF Inv, Kept
  <2>2. CASE v # u
    BY <1>1, <1>2, <1>4, <2>2 DEF Inv, Kept
  <2> QED BY <2>1, <2>2
<1> QED BY <1>3, <1>5, <1>6, <1>7 DEF Undisturbed

\* A row that is inserted has an id that no token and no request names.
LEMMA RowInserted ==
  ASSUME Inv, NEW u \in UserId, users[u] = NoUser, NEW row \in User, row.age = "new",
         ~EmailTaken(row.email), Lower[row.email] = row.email \/ row.password = NoHash,
         users' = [users EXCEPT ![u] = row],
         UNCHANGED <<tokens, usedKeys, released, sweep, spent, pardoned>>
  PROVE  Undisturbed
<1>1. /\ \A v \in UserId : v # u => users'[v] = users[v]
      /\ users'[u] = row
  BY DEF Inv, TypeOK
<1>2. \A v \in UserId : v # u => (Present(v)' <=> Present(v)) /\ (HasLower(v)' <=> HasLower(v))
  BY <1>1 DEF Present, HasLower
<1>3. EmailUnique'
  BY <1>1, <1>2 DEF Inv, EmailUnique, EmailTaken
<1>4. ASSUME NEW s \in ReqState, Served(s) PROVE Served(s)'
  <2>1. s.pc \in RowPC => s.uid \in UserId /\ s.uid # u
    BY <1>4 DEF Served
  <2> QED BY <1>1, <1>2, <1>4, <2>1 DEF Served, RowPC, VerifyPC, ResetPC, MePC
<1>5. ASSUME NEW j \in Jti PROVE Vouched(j)'
  <2>1. Vouched(j) /\ (tokens[j] # NoToken => tokens[j].holder \in UserId)
    BY DEF Inv, TypeOK, Token
  <2>2. tokens[j] # NoToken => tokens[j].holder # u
    BY <2>1 DEF Vouched
  <2> QED BY <1>1, <1>2, <2>1, <2>2 DEF Vouched
<1>6. ASSUME NEW v \in UserId PROVE Kept(v)'
  <2>1. CASE v = u
    <3>1. u \notin sweep
      BY Rows DEF Inv, Kept
    <3>2. row.age \in {"new", "stale"}
      OBVIOUS
    <3> QED BY <1>1, <2>1, <3>1, <3>2 DEF Kept, HasLower
  <2>2. CASE v # u
    BY <1>1, <1>2, <2>2 DEF Inv, Kept
  <2> QED BY <2>1, <2>2
<1> QED BY <1>3, <1>4, <1>5, <1>6 DEF Undisturbed

\* A token is handed out to an account that is there, or just was.
LEMMA TokenIssued ==
  ASSUME Inv, NEW type \in MailType \cup {"session"}, NEW sub \in Email \cup UserId,
         NEW u \in UserId, users[u] # NoUser, IssueToken(type, sub, u),
         type = "session" => Present(u) /\ sub = users[u].email,
         type \in MailType => sub = u,
         type = "email_verification" => users[u].age # "stale",
         type = "password_reset" => HasLower(u),
         UNCHANGED <<users, usedKeys, released, sweep, spent, pardoned>>
  PROVE  Undisturbed /\ tokens' \in [Jti -> Token \cup {NoToken}]
<1> DEFINE tok == create_token(type, sub, u)
<1>1. PICK j \in Jti : tokens[j] = NoToken /\ tokens' = [tokens EXCEPT ![j] = tok]
  BY DEF IssueToken
<1>2. /\ tok \in Token /\ tok.type = type /\ tok.sub = sub /\ tok.life = "fresh"
      /\ tok.holder = u
  BY DEF create_token, Token
<1> HIDE DEF tok
<1>3. /\ tokens'[j] = tok
      /\ \A k \in Jti : k # j => tokens'[k] = tokens[k]
      /\ tokens' \in [Jti -> Token \cup {NoToken}]
  BY <1>1, <1>2 DEF Inv, TypeOK
<1>4. tokens[j].type = "none"
  BY <1>1 DEF NoToken
<1>5. EmailUnique' /\ (\A v \in UserId : (HasLower(v)' <=> HasLower(v)) /\ (Present(v)' <=> Present(v)))
  BY DEF Inv, EmailUnique, Present, HasLower
<1>6. ASSUME NEW s \in ReqState, Served(s) PROVE Served(s)'
  <2>1. s.pc \in VerifyPC \cup ResetPC \cup MePC => s.jti \in Jti /\ s.jti # j
    BY <1>4, <1>6 DEF Served
  <2> QED BY <1>3, <1>5, <1>6, <2>1 DEF Served, RowPC, VerifyPC, ResetPC, MePC
<1>7. ASSUME NEW k \in Jti PROVE Vouched(k)'
  <2>1. CASE k # j
    <3>1. Vouched(k) /\ (tokens[k] # NoToken => tokens[k].holder \in UserId)
      BY DEF Inv, TypeOK, Token
    <3> QED BY <1>3, <1>5, <2>1, <3>1 DEF Vouched
  <2>2. CASE k = j
    <3>1. j \notin spent
      BY <1>1 DEF Inv, Vouched
    <3>2. type = "session" => sub \in Email
      BY Rows DEF Inv, User
    <3> QED BY <1>2, <1>3, <1>5, <2>2, <3>1, <3>2 DEF Vouched, MailType
  <2> QED BY <2>1, <2>2
<1>8. \A v \in UserId : Kept(v)'
  BY <1>5 DEF Inv, Kept
<1> QED BY <1>3, <1>5, <1>6, <1>7, <1>8 DEF Undisturbed

\* A change of address gives the old one up.
LEMMA RowRenamed ==
  ASSUME Inv, NEW u \in UserId, Present(u), NEW e \in Email, Lower[e] = e,
         ~\E v \in UserId \ {u} : Present(v) /\ users[v].email = e,
         users' = [users EXCEPT ![u].email = e],
         released' = released \cup ({users[u].email} \ {e}),
         UNCHANGED <<tokens, usedKeys, sweep, spent, pardoned>>
  PROVE  Undisturbed /\ users' \in [UserId -> User \cup {NoUser, Deleted}]
<1> DEFINE row == [users[u] EXCEPT !.email = e]
<1>0. users[u] \in User
  BY Rows DEF Inv
<1>1. /\ row \in User /\ row.email = e /\ row.age = users[u].age
      /\ row.password = users[u].password /\ row.verified = users[u].verified
  BY <1>0 DEF User
<1>2. users' = [users EXCEPT ![u] = row]
  OBVIOUS
<1> HIDE DEF row
<1>3. /\ \A v \in UserId : v # u => users'[v] = users[v]
      /\ users'[u] = row /\ users' \in [UserId -> User \cup {NoUser, Deleted}]
  BY <1>1, <1>2 DEF Inv, TypeOK
<1>4. row # NoUser /\ users[u] # NoUser
  BY <1>0, <1>1, Rows DEF Inv, User, NoUser
<1>5. \A v \in UserId : /\ Present(v)' <=> Present(v)
                        /\ HasLower(v) => HasLower(v)'
                        /\ users'[v].age = users[v].age
                        /\ users'[v] = NoUser <=> users[v] = NoUser
  BY <1>1, <1>3, <1>4 DEF Present, HasLower
<1>6. EmailUnique'
  BY <1>1, <1>3, <1>5 DEF Inv, EmailUnique
<1>7. ASSUME NEW s \in ReqState, Served(s) PROVE Served(s)'
  BY <1>5, <1>7 DEF Served, RowPC, VerifyPC, ResetPC, MePC
<1>8. ASSUME NEW j \in Jti PROVE Vouched(j)'
  <2>1. Vouched(j) /\ (tokens[j] # NoToken => tokens[j].holder \in UserId)
    BY DEF Inv, TypeOK, Token
  <2> QED BY <1>1, <1>3, <1>5, <2>1 DEF Vouched
<1>9. ASSUME NEW v \in UserId PROVE Kept(v)'
  <2>1. Kept(v)
    BY DEF Inv
  <2>2. CASE v = u
    <3>1. HasLower(u)'
      BY <1>1, <1>3 DEF HasLower
    <3> QED BY <1>1, <1>3, <1>5, <2>1, <2>2, <3>1 DEF Kept
  <2>3. CASE v # u
    BY <1>3, <1>5, <2>1, <2>3 DEF Kept
  <2> QED BY <2>2, <2>3
<1> QED BY <1>3, <1>6, <1>7, <1>8, <1>9 DEF Undisturbed

\* A mail token that is marked as used.
LEMMA TokenSpent ==
  ASSUME Inv, NEW j \in Jti, tokens[j].type \in MailType, mark_token_used(j),
         spent' = spent \cup {j},
         UNCHANGED <<users, tokens, sweep, released, pardoned>>
  PROVE  Undisturbed /\ usedKeys' \in SUBSET Jti /\ spent' \in SUBSET Jti
<1>1. /\ usedKeys \subseteq usedKeys' /\ (tokens[j].life = "fresh" => j \in usedKeys')
      /\ usedKeys' \in SUBSET Jti /\ spent' \in SUBSET Jti
  BY DEF mark_token_used, Inv, TypeOK
<1>2. tokens[j] # NoToken
  BY DEF NoToken, MailType
<1>3. EmailUnique' /\ \A s \in ReqState : Served(s) => Served(s)'
  BY DEF Inv, EmailUnique, Served, HasLower, Present
<1>4. ASSUME NEW k \in Jti PROVE Vouched(k)'
  BY <1>1, <1>2 DEF Inv, Vouched, HasLower, Present
<1>5. \A u \in UserId : Kept(u)'
  BY DEF Inv, Kept, HasLower, Present
<1> QED BY <1>1, <1>3, <1>4, <1>5 DEF Undisturbed

\* A request that goes on: where it is, and what of it is new.
LEMMA Moved ==
  ASSUME NEW s \in ReqState, NEW pc \in PC
  PROVE  /\ [s EXCEPT !.pc = pc] \in ReqState
         /\ \A u \in UserId : [s EXCEPT !.pc = pc, !.uid = u] \in ReqState
         /\ \A after \in BOOLEAN : [s EXCEPT !.pc = pc, !.after = after] \in ReqState
<1>1. /\ s.jti \in Jti \cup {"none"} /\ s.uid \in UserId \cup {"none"}
      /\ s.email \in Email \cup {"none"} /\ s.password \in Hash
      /\ s.active \in Flag /\ s.verified \in Flag /\ s.after \in BOOLEAN
  BY DEF ReqState
<1>2. [s EXCEPT !.pc = pc] \in ReqState
  BY <1>1 DEF ReqState
<1>3. \A u \in UserId : [s EXCEPT !.pc = pc, !.uid = u] \in ReqState
  BY <1>1 DEF ReqState
<1>4. \A after \in BOOLEAN : [s EXCEPT !.pc = pc, !.after = after] \in ReqState
  BY <1>1 DEF ReqState
<1> QED BY <1>2, <1>3, <1>4

\* The addresses and passwords that clients type.
LEMMA Typed ==
  ASSUME TypeOK
  PROVE  /\ scope.email \subseteq Email /\ scope.password \subseteq Password
         /\ \A e \in scope.email : Lower[e] \in Email /\ Lower[Lower[e]] = Lower[e]
         /\ \A p \in scope.password : hash_password(p) \in Hash /\ hash_password(p) # NoHash
<1>1. scope \in Scope
  BY ScopesAssumption DEF TypeOK
<1>2. scope.email \subseteq Email /\ scope.password \subseteq Password
  BY <1>1 DEF Scope
<1>3. \A p \in Password : hash_password(p) \in Hash /\ hash_password(p) # NoHash
  BY DEF Hash, hash_password, NoHash
<1> QED BY <1>2, <1>3, LowerAssumption

\* get_current_user finds the holder of the session unless its address was
\* given up.
LEMMA FindsHolder ==
  ASSUME Inv, NEW j \in Jti, NEW u \in UserId, get_current_user(j, u)
  PROVE  /\ Present(u) /\ users[u] # NoUser /\ tokens[j].type = "session"
         /\ tokens[j].sub \notin released => u = tokens[j].holder
<1>1. Present(u) /\ users[u].email = tokens[j].sub /\ tokens[j].type = "session"
  BY DEF get_current_user
<1>2. tokens[j] # NoToken /\ tokens[j].holder \in UserId /\ Vouched(j)
  BY <1>1 DEF Inv, TypeOK, NoToken, Token
<1>3. tokens[j].sub \notin released => u = tokens[j].holder
  BY <1>1, <1>2 DEF Inv, EmailUnique, Vouched
<1> QED BY <1>1, <1>3, Rows DEF Inv

\* Registration.
LEMMA InvRegister ==
  ASSUME Inv, NEW r \in Req, RegisterStep(r)
  PROVE  Inv'
<1>1. CASE \E e \in scope.email, p \in scope.password : RegisterCheck(r, e, p)
  <2>1. PICK e \in scope.email, p \in scope.password : RegisterCheck(r, e, p)
    BY <1>1
  <2> DEFINE t == [Idle EXCEPT !.pc = "register_insert", !.email = Lower[e],
                               !.password = hash_password(p)]
  <2>2. /\ Lower[e] \in Email /\ Lower[Lower[e]] = Lower[e] /\ hash_password(p) \in Hash
    BY Typed DEF Inv
  <2>3. t \in ReqState /\ t.pc = "register_insert" /\ t.email = Lower[e]
    BY <2>2 DEF Idle, ReqState, PC, Flag
  <2> HIDE DEF t
  <2>4. Served(t)
    BY <2>2, <2>3 DEF Served, RowPC, VerifyPC, ResetPC, MePC
  <2>5. Goto(r, t) /\ UNCHANGED <<users, tokens, usedKeys, sweep, history, scope>>
    BY <2>1 DEF RegisterCheck, t
  <2> QED BY <2>3, <2>4, <2>5, RequestMoves
<1>2. CASE RegisterInsert(r)
  <2>1. CASE EmailTaken(req[r].email)
    BY <1>2, <2>1, IdleServed, RequestMoves DEF RegisterInsert, Done
  <2>2. CASE ~EmailTaken(req[r].email)
    <3> DEFINE row == [email |-> req[r].email, password |-> req[r].password,
                       active |-> TRUE, verified |-> FALSE, age |-> "new"]
    <3>1. PICK u \in UserId : /\ users[u] = NoUser
                              /\ users' = [users EXCEPT ![u] = row]
                              /\ Goto(r, [req[r] EXCEPT !.pc = "register_mail", !.uid = u])
      BY <1>2, <2>2 DEF RegisterInsert
    <3>2. /\ req[r].pc = "register_insert" /\ req[r] \in ReqState /\ Served(req[r])
          /\ UNCHANGED <<tokens, usedKeys, sweep, history, scope>>
      BY <1>2 DEF RegisterInsert, Inv, TypeOK
    <3>3. req[r].email \in Email /\ Lower[req[r].email] = req[r].email
      BY <3>2 DEF Served
    <3>4. row \in User /\ row.email = req[r].email /\ row.age = "new"
      BY <3>2, <3>3 DEF User, ReqState
    <3>5. PICK t \in ReqState : /\ t = [req[r] EXCEPT !.pc = "register_mail", !.uid = u]
                                /\ t.pc = "register_mail" /\ t.uid = u
      <4> DEFINE t == [req[r] EXCEPT !.pc = "register_mail", !.uid = u]
      <4>1. t \in ReqState
        BY <3>2, Moved DEF PC
      <4>2. t.pc = "register_mail" /\ t.uid = u
        BY <3>2 DEF ReqState
      <4> QED BY <4>1, <4>2
    <3> HIDE DEF row
    <3>6. Undisturbed
      BY <2>2, <3>1, <3>2, <3>3, <3>4, RowInserted DEF history
    <3>7. TypeOK'
      BY <3>1, <3>2, <3>4, <3>5 DEF Inv, TypeOK, Goto, history
    <3>8. Served(t)'
      <4>1. users'[u] = row /\ row # NoUser
        BY <3>1, <3>4 DEF Inv, TypeOK, NoUser
      <4> QED BY <3>4, <3>5, <4>1 DEF Served, RowPC, VerifyPC, ResetPC, MePC
    <3> QED BY <3>1, <3>5, <3>6, <3>7, <3>8, Frame
  <2> QED BY <2>1, <2>2
<1>3. CASE RegisterMail(r)
  <2>1. /\ req[r].uid \in UserId /\ users[req[r].uid] # NoUser
        /\ users[req[r].uid].age # "stale"
    BY <1>3 DEF RegisterMail, Inv, Served, RowPC
  <2>2. Undisturbed /\ tokens' \in [Jti -> Token \cup {NoToken}]
    BY <1>3, <2>1, TokenIssued DEF RegisterMail, MailType, history
  <2>3. TypeOK'
    BY <1>3, <2>2, IdleServed DEF RegisterMail, Done, Goto, Inv, TypeOK, history
  <2> QED BY <1>3, <2>2, <2>3, IdleServed, Frame DEF RegisterMail, Done
<1> QED BY <1>1, <1>2, <1>3 DEF RegisterStep

\* Verification.
LEMMA InvVerify ==
  ASSUME Inv, NEW r \in Req, VerifyStep(r)
  PROVE  Inv'
<1>1. CASE \E j \in Jti : VerifyLoad(r, j)
  <2>1. PICK j \in Jti : VerifyLoad(r, j)
    BY <1>1
  <2> DEFINE u == tokens[j].sub
             t == [Idle EXCEPT !.pc = "verify_check", !.jti = j, !.uid = u]
  <2>2. tokens[j].type = "email_verification" /\ tokens[j].life # "expired" /\ Present(u)
    BY <2>1 DEF VerifyLoad, decode_token
  <2>3. /\ u \in UserId /\ users[u].age # "stale"
    BY <2>2 DEF Inv, TypeOK, Vouched, NoToken, Token, MailType
  <2>4. users[u] # NoUser
    BY <2>2, <2>3, Rows DEF Inv
  <2>5. t \in ReqState /\ t.pc = "verify_check" /\ t.jti = j /\ t.uid = u
    BY <2>3 DEF Idle, ReqState, PC, Flag, Hash
  <2> HIDE DEF t, u
  <2>6. Served(t)
    BY <2>2, <2>3, <2>4, <2>5 DEF Served, RowPC, VerifyPC, ResetPC, MePC
  <2>7. Goto(r, t) /\ UNCHANGED <<users, tokens, usedKeys, sweep, history, scope>>
    BY <2>1 DEF VerifyLoad, t, u
  <2> QED BY <2>5, <2>6, <2>7, RequestMoves
<1>2. CASE VerifyCheck(r)
  <2> DEFINE j == req[r].jti
             t == [req[r] EXCEPT !.pc = "verify_commit", !.after = j \in spent]
  <2>1. /\ req[r].pc = "verify_check" /\ req[r] \in ReqState /\ Served(req[r])
        /\ UNCHANGED <<users, tokens, usedKeys, sweep, history, scope>>
    BY <1>2 DEF VerifyCheck, Inv, TypeOK
  <2>2. CASE is_token_used(j)
    BY <1>2, <2>2, IdleServed, RequestMoves DEF VerifyCheck, Done
  <2>3. CASE ~is_token_used(j)
    <3>1. t \in ReqState
      <4>1. (j \in spent) \in BOOLEAN /\ "verify_commit" \in PC
        BY DEF PC
      <4> QED BY <2>1, <4>1, Moved
    <3>2. t.pc = "verify_commit" /\ t.jti = j /\ t.uid = req[r].uid /\ t.after = (j \in spent)
      BY <2>1 DEF ReqState
    <3>3. Goto(r, t)
      BY <1>2, <2>3 DEF VerifyCheck
    <3> HIDE DEF t
    <3>4. j \in Jti /\ tokens[j].type = "email_verification"
      BY <2>1 DEF Served, VerifyPC
    <3>5. j \in spent => tokens[j].life # "fresh"
      BY <2>3, <3>4 DEF Inv, Vouched, is_token_used, NoToken
    <3> HIDE DEF j
    <3>6. Served(t)
      BY <2>1, <3>2, <3>4, <3>5 DEF Served, RowPC, VerifyPC, ResetPC, MePC
    <3> QED BY <2>1, <3>1, <3>3, <3>6, RequestMoves
  <2> QED BY <2>2, <2>3
<1>3. CASE VerifyCommit(r)
  <2> DEFINE u == req[r].uid
             row == [users[u] EXCEPT !.verified = TRUE]
  <2>1. /\ req[r].pc = "verify_commit" /\ req[r] \in ReqState /\ Served(req[r])
        /\ u \in UserId /\ users[u].age # "stale" /\ req[r].jti \in Jti
        /\ UNCHANGED <<tokens, usedKeys, sweep, released, pardoned, spent, scope>>
    BY <1>3 DEF VerifyCommit, Inv, TypeOK, Served, RowPC, VerifyPC
  <2>2. CASE ~Present(u)
    BY <1>3, <2>2, IdleServed, RequestMoves DEF VerifyCommit, Done, history
  <2>3. CASE Present(u)
    <3>1. users[u] \in User
      BY <2>1, <2>3, Rows DEF Inv
    <3>2. /\ row \in User /\ row.email = users[u].email /\ row.age = users[u].age
          /\ row.password = users[u].password
      BY <3>1 DEF User
    <3>3. PICK t \in ReqState : /\ t = [req[r] EXCEPT !.pc = "verify_mark"]
                                /\ t.pc = "verify_mark" /\ t.jti = req[r].jti /\ t.uid = u
      <4> DEFINE t == [req[r] EXCEPT !.pc = "verify_mark"]
      <4>1. t \in ReqState
        BY <2>1, Moved DEF PC
      <4>2. t.pc = "verify_mark" /\ t.jti = req[r].jti /\ t.uid = u
        BY <2>1 DEF ReqState
      <4> QED BY <4>1, <4>2
    <3>4. users' = [users EXCEPT ![u] = row] /\ Goto(r, t) /\ Commit(req[r].jti)
      BY <1>3, <2>3, <3>3 DEF VerifyCommit
    <3> HIDE DEF row
    <3>5. u \notin sweep
      BY <2>1 DEF Inv, Kept
    <3>6. Undisturbed
      BY <2>1, <2>3, <3>2, <3>4, <3>5, RowWritten
    <3>7. commits' \in [Jti -> 0..2]
      BY <2>1, <3>4 DEF Commit, Inv, TypeOK
    <3>8. TypeOK'
      BY <2>1, <3>2, <3>4, <3>7 DEF Inv, TypeOK, Goto
    <3>9. Served(t)
      BY <2>1, <3>3 DEF Served, RowPC, VerifyPC, ResetPC, MePC
    <3> QED BY <3>4, <3>6, <3>8, <3>9, Frame
  <2> QED BY <2>2, <2>3
<1>4. CASE VerifyMark(r)
  <2>1. req[r].jti \in Jti /\ tokens[req[r].jti].type \in MailType
    BY <1>4 DEF VerifyMark, Inv, Served, VerifyPC, MailType
  <2>2. Undisturbed /\ usedKeys' \in SUBSET Jti /\ spent' \in SUBSET Jti
    BY <1>4, <2>1, TokenSpent DEF VerifyMark
  <2>3. TypeOK'
    BY <1>4, <2>2, IdleServed DEF VerifyMark, Done, Goto, Inv, TypeOK
  <2> QED BY <1>4, <2>2, <2>3, IdleServed, Frame DEF VerifyMark, Done
<1> QED BY <1>1, <1>2, <1>3, <1>4 DEF VerifyStep

\* Password reset.
LEMMA InvReset ==
  ASSUME Inv, NEW r \in Req, ResetStep(r)
  PROVE  Inv'
<1>1. CASE \E j \in Jti, p \in scope.password : ResetCheck(r, j, p)
  <2>1. PICK j \in Jti, p \in scope.password : ResetCheck(r, j, p)
    BY <1>1
  <2> DEFINE after == j \in spent
             t == [Idle EXCEPT !.pc = "reset_load", !.jti = j,
                               !.password = hash_password(p), !.after = after]
  <2>2. /\ tokens[j].type = "password_reset" /\ j \notin usedKeys
        /\ hash_password(p) \in Hash /\ hash_password(p) # NoHash
    BY <2>1, Typed DEF ResetCheck, decode_token, is_token_used, Inv
  <2>3. after => tokens[j].life # "fresh"
    BY <2>2 DEF Inv, Vouched, NoToken
  <2>4. Goto(r, t) /\ UNCHANGED <<users, tokens, usedKeys, sweep, history, scope>>
    BY <2>1 DEF ResetCheck
  <2>5. after \in BOOLEAN
    OBVIOUS
  <2> HIDE DEF after
  <2>6. /\ t \in ReqState /\ t.pc = "reset_load" /\ t.jti = j
        /\ t.password = hash_password(p) /\ t.after = after
    BY <2>2, <2>5 DEF Idle, ReqState, PC, Flag
  <2> HIDE DEF t
  <2>7. Served(t)
    BY <2>2, <2>3, <2>6 DEF Served, RowPC, VerifyPC, ResetPC, MePC
  <2> QED BY <2>4, <2>6, <2>7, RequestMoves
<1>2. CASE ResetLoad(r)
  <2> DEFINE u == tokens[req[r].jti].sub
             t == [req[r] EXCEPT !.pc = "reset_commit", !.uid = u]
  <2>1. /\ req[r].pc = "reset_load" /\ req[r] \in ReqState /\ Served(req[r])
        /\ req[r].jti \in Jti /\ tokens[req[r].jti].type = "password_reset"
        /\ UNCHANGED <<users, tokens, usedKeys, sweep, history, scope>>
    BY <1>2 DEF ResetLoad, Inv, TypeOK, Served, ResetPC
  <2>2. u \in UserId /\ HasLower(u) /\ users[u] # NoUser
    BY <2>1 DEF Inv, TypeOK, Vouched, NoToken, Token, MailType
  <2>3. CASE Goto(r, Idle)
    BY <2>1, <2>3, IdleServed, RequestMoves
  <2>4. CASE Goto(r, t)
    <3>1. t \in ReqState
      BY <2>1, <2>2, Moved DEF PC
    <3>2. /\ t.pc = "reset_commit" /\ t.uid = u /\ t.jti = req[r].jti
          /\ t.password = req[r].password /\ t.after = req[r].after
      BY <2>1 DEF ReqState
    <3> HIDE DEF t, u
    <3>3. Served(t)
      BY <2>1, <2>2, <3>2 DEF Served, RowPC, VerifyPC, ResetPC, MePC
    <3> QED BY <2>1, <2>4, <3>1, <3>3, RequestMoves
  <2> QED BY <1>2, <2>3, <2>4 DEF ResetLoad, Done
<1>3. CASE ResetCommit(r)
  <2> DEFINE u == req[r].uid
             row == [users[u] EXCEPT !.password = req[r].password]
  <2>1. /\ req[r].pc = "reset_commit" /\ req[r] \in ReqState /\ Served(req[r])
        /\ u \in UserId /\ HasLower(u) /\ req[r].jti \in Jti
        /\ UNCHANGED <<tokens, usedKeys, sweep, released, pardoned, spent, scope>>
    BY <1>3 DEF ResetCommit, Inv, TypeOK, Served, RowPC, ResetPC
  <2>2. CASE ~Present(u)
    BY <1>3, <2>2, IdleServed, RequestMoves DEF ResetCommit, Done, history
  <2>3. CASE Present(u)
    <3>1. users[u] \in User
      BY <2>1, <2>3, Rows DEF Inv
    <3>2. /\ row \in User /\ row.email = users[u].email /\ row.age = users[u].age
          /\ row.verified = users[u].verified
      BY <2>1, <3>1 DEF User, ReqState
    <3>3. PICK t \in ReqState : /\ t = [req[r] EXCEPT !.pc = "reset_mark"]
                                /\ t.pc = "reset_mark" /\ t.jti = req[r].jti /\ t.uid = u
                                /\ t.password = req[r].password
      <4> DEFINE t == [req[r] EXCEPT !.pc = "reset_mark"]
      <4>1. t \in ReqState
        BY <2>1, Moved DEF PC
      <4>2. /\ t.pc = "reset_mark" /\ t.jti = req[r].jti /\ t.uid = u
            /\ t.password = req[r].password
        BY <2>1 DEF ReqState
      <4> QED BY <4>1, <4>2
    <3>4. users' = [users EXCEPT ![u] = row] /\ Goto(r, t) /\ Commit(req[r].jti)
      BY <1>3, <2>3, <3>3 DEF ResetCommit
    <3> HIDE DEF row
    <3>5. u \in sweep /\ row.verified => u \in pardoned'
      BY <2>1, <3>2 DEF Inv, Kept
    <3>6. Undisturbed
      BY <2>1, <2>3, <3>2, <3>4, <3>5, RowWritten
    <3>7. commits' \in [Jti -> 0..2]
      BY <2>1, <3>4 DEF Commit, Inv, TypeOK
    <3>8. TypeOK'
      BY <2>1, <3>2, <3>4, <3>7 DEF Inv, TypeOK, Goto
    <3>9. Served(t)
      BY <2>1, <3>3 DEF Served, RowPC, VerifyPC, ResetPC, MePC
    <3> QED BY <3>4, <3>6, <3>8, <3>9, Frame
  <2> QED BY <2>2, <2>3
<1>4. CASE ResetMark(r)
  <2>1. req[r].jti \in Jti /\ tokens[req[r].jti].type \in MailType
    BY <1>4 DEF ResetMark, Inv, Served, ResetPC, MailType
  <2>2. Undisturbed /\ usedKeys' \in SUBSET Jti /\ spent' \in SUBSET Jti
    BY <1>4, <2>1, TokenSpent DEF ResetMark
  <2>3. TypeOK'
    BY <1>4, <2>2, IdleServed DEF ResetMark, Done, Goto, Inv, TypeOK
  <2> QED BY <1>4, <2>2, <2>3, IdleServed, Frame DEF ResetMark, Done
<1> QED BY <1>1, <1>2, <1>3, <1>4 DEF ResetStep

\* The /users/me endpoints.
LEMMA InvMe ==
  ASSUME Inv, NEW r \in Req, MeStep(r)
  PROVE  Inv'
<1>1. ASSUME NEW j \in Jti, NEW u \in UserId, NEW e \in scope.email, EmailAuth(r, j, u, e)
      PROVE  Inv'
  <2> DEFINE t == [Idle EXCEPT !.pc = "email_check", !.jti = j, !.uid = u, !.email = Lower[e]]
  <2>1. Lower[e] \in Email /\ Lower[Lower[e]] = Lower[e]
    BY Typed DEF Inv
  <2>2. /\ users[u] # NoUser /\ tokens[j].type = "session"
        /\ tokens[j].sub \notin released => u = tokens[j].holder
    BY <1>1, FindsHolder DEF EmailAuth
  <2>3. t \in ReqState /\ t.pc = "email_check" /\ t.jti = j /\ t.uid = u /\ t.email = Lower[e]
    BY <2>1 DEF Idle, ReqState, PC, Flag, Hash
  <2>4. Goto(r, t) /\ UNCHANGED <<users, tokens, usedKeys, sweep, history, scope>>
    BY <1>1 DEF EmailAuth
  <2> HIDE DEF t
  <2>5. Served(t)
    BY <2>1, <2>2, <2>3 DEF Served, RowPC, VerifyPC, ResetPC, MePC
  <2> QED BY <2>3, <2>4, <2>5, RequestMoves
<1>2. ASSUME NEW j \in Jti, NEW u \in UserId, NEW p \in scope.password,
             NEW q \in scope.password, PasswordAuth(r, j, u, p, q)
      PROVE  Inv'
  <2> DEFINE t == [Idle EXCEPT !.pc = "password_commit", !.jti = j, !.uid = u,
                               !.password = hash_password(q)]
  <2>1. /\ hash_password(q) \in Hash /\ hash_password(q) # NoHash
        /\ hash_password(p) # NoHash
    BY Typed DEF Inv
  <2>2. /\ users[u] # NoUser /\ tokens[j].type = "session" /\ Present(u)
        /\ tokens[j].sub \notin released => u = tokens[j].holder
    BY <1>2, FindsHolder DEF PasswordAuth
  <2>3. HasLower(u)
    BY <1>2, <2>1, <2>2 DEF PasswordAuth, verify_password, Inv, Kept
  <2>4. /\ t \in ReqState /\ t.pc = "password_commit" /\ t.jti = j /\ t.uid = u
        /\ t.password = hash_password(q)
    BY <2>1 DEF Idle, ReqState, PC, Flag
  <2>5. Goto(r, t) /\ UNCHANGED <<users, tokens, usedKeys, sweep, history, scope>>
    BY <1>2 DEF PasswordAuth
  <2> HIDE DEF t
  <2>6. Served(t)
    BY <2>1, <2>2, <2>3, <2>4 DEF Served, RowPC, VerifyPC, ResetPC, MePC
  <2> QED BY <2>4, <2>5, <2>6, RequestMoves
<1>3. ASSUME NEW j \in Jti, NEW u \in UserId, DeactivateAuth(r, j, u)
      PROVE  Inv'
  <2> DEFINE t == [Idle EXCEPT !.pc = "deactivate_commit", !.jti = j, !.uid = u]
  <2>1. /\ users[u] # NoUser /\ tokens[j].type = "session"
        /\ tokens[j].sub \notin released => u = tokens[j].holder
    BY <1>3, FindsHolder DEF DeactivateAuth
  <2>2. t \in ReqState /\ t.pc = "deactivate_commit" /\ t.jti = j /\ t.uid = u
    BY DEF Idle, ReqState, PC, Flag, Hash
  <2>3. Goto(r, t) /\ UNCHANGED <<users, tokens, usedKeys, sweep, history, scope>>
    BY <1>3 DEF DeactivateAuth
  <2> HIDE DEF t
  <2>4. Served(t)
    BY <2>1, <2>2 DEF Served, RowPC, VerifyPC, ResetPC, MePC
  <2> QED BY <2>2, <2>3, <2>4, RequestMoves
<1>4. CASE EmailCheck(r)
  <2> DEFINE t == [req[r] EXCEPT !.pc = "email_commit"]
  <2>1. /\ req[r].pc = "email_check" /\ req[r] \in ReqState /\ Served(req[r])
        /\ UNCHANGED <<users, tokens, usedKeys, sweep, history, scope>>
    BY <1>4 DEF EmailCheck, Inv, TypeOK
  <2>2. CASE Goto(r, Idle)
    BY <2>1, <2>2, IdleServed, RequestMoves
  <2>3. CASE Goto(r, t)
    <3>1. t \in ReqState
      BY <2>1, Moved DEF PC
    <3>2. /\ t.pc = "email_commit" /\ t.uid = req[r].uid /\ t.jti = req[r].jti
          /\ t.email = req[r].email
      BY <2>1 DEF ReqState
    <3> HIDE DEF t
    <3>3. Served(t)
      BY <2>1, <3>2 DEF Served, RowPC, VerifyPC, ResetPC, MePC
    <3> QED BY <2>1, <2>3, <3>1, <3>3, RequestMoves
  <2> QED BY <1>4, <2>2, <2>3 DEF EmailCheck, Done
<1>5. CASE EmailCommit(r)
  <2> DEFINE u == req[r].uid
             e == req[r].email
  <2>1. /\ req[r].pc = "email_commit" /\ u \in UserId /\ e \in Email /\ Lower[e] = e
        /\ UNCHANGED <<tokens, usedKeys, sweep, pardoned, spent, commits, scope>>
        /\ Goto(r, Idle)
    BY <1>5 DEF EmailCommit, Done, Inv, Served, RowPC, MePC
  <2>2. CASE UNCHANGED <<users, released>>
    BY <2>1, <2>2, IdleServed, RequestMoves DEF history
  <2>3. CASE /\ Present(u) /\ users' = [users EXCEPT ![u].email = e]
             /\ ~\E v \in UserId \ {u} : Present(v) /\ users[v].email = e
             /\ released' = released \cup ({users[u].email} \ {e})
    <3> HIDE DEF u, e
    <3>1. Undisturbed /\ users' \in [UserId -> User \cup {NoUser, Deleted}]
      BY <2>1, <2>3, RowRenamed
    <3>2. released' \in SUBSET Email
      BY <2>1, <2>3, Rows DEF Inv, TypeOK, User
    <3>3. TypeOK'
      BY <2>1, <3>1, <3>2, IdleServed DEF Inv, TypeOK, Goto
    <3> QED BY <2>1, <3>1, <3>3, IdleServed, Frame
  <2> QED BY <1>5, <2>2, <2>3 DEF EmailCommit
<1>6. CASE PasswordCommit(r)
  <2> DEFINE u == req[r].uid
             row == [users[u] EXCEPT !.password = req[r].password]
  <2>1. /\ req[r].pc = "password_commit" /\ u \in UserId /\ HasLower(u)
        /\ req[r] \in ReqState /\ Goto(r, Idle)
        /\ UNCHANGED <<tokens, usedKeys, sweep, history, scope>>
    BY <1>6 DEF PasswordCommit, Done, Inv, TypeOK, Served, RowPC, MePC
  <2>2. CASE ~Present(u)
    BY <1>6, <2>1, <2>2, IdleServed, RequestMoves DEF PasswordCommit
  <2>3. CASE Present(u)
    <3>1. users[u] \in User
      BY <2>1, <2>3, Rows DEF Inv
    <3>2. /\ row \in User /\ row.email = users[u].email /\ row.age = users[u].age
          /\ row.verified = users[u].verified
      BY <2>1, <3>1 DEF User, ReqState
    <3>3. users' = [users EXCEPT ![u] = row]
      BY <1>6, <2>3 DEF PasswordCommit
    <3> HIDE DEF row
    <3>4. u \in sweep /\ row.verified => u \in pardoned'
      BY <2>1, <3>2 DEF Inv, Kept, history
    <3>5. Undisturbed
      BY <2>1, <2>3, <3>2, <3>3, <3>4, RowWritten DEF history
    <3>6. TypeOK'
      BY <2>1, <3>2, <3>3, IdleServed DEF Inv, TypeOK, Goto, history
    <3> QED BY <2>1, <3>5, <3>6, IdleServed, Frame
  <2> QED BY <2>2, <2>3
<1>7. CASE DeactivateCommit(r)
  <2> DEFINE u == req[r].uid
             row == [users[u] EXCEPT !.active = FALSE]
  <2>1. /\ req[r].pc = "deactivate_commit" /\ u \in UserId /\ Goto(r, Idle)
        /\ UNCHANGED <<tokens, usedKeys, sweep, history, scope>>
    BY <1>7 DEF DeactivateCommit, Done, Inv, TypeOK, Served, RowPC, MePC
  <2>2. CASE ~Present(u)
    BY <1>7, <2>1, <2>2, IdleServed, RequestMoves DEF DeactivateCommit
  <2>3. CASE Present(u)
    <3>1. users[u] \in User
      BY <2>1, <2>3, Rows DEF Inv
    <3>2. /\ row \in User /\ row.email = users[u].email /\ row.age = users[u].age
          /\ row.verified = users[u].verified /\ row.password = users[u].password
      BY <3>1 DEF User
    <3>3. users' = [users EXCEPT ![u] = row]
      BY <1>7, <2>3 DEF DeactivateCommit
    <3> HIDE DEF row
    <3>4. u \in sweep /\ row.verified => u \in pardoned'
      BY <2>1, <3>2 DEF Inv, Kept, history
    <3>5. Undisturbed
      BY <2>1, <2>3, <3>2, <3>3, <3>4, RowWritten DEF history
    <3>6. TypeOK'
      BY <2>1, <3>2, <3>3, IdleServed DEF Inv, TypeOK, Goto, history
    <3> QED BY <2>1, <3>5, <3>6, IdleServed, Frame
  <2> QED BY <2>2, <2>3
<1> QED BY <1>1, <1>2, <1>3, <1>4, <1>5, <1>6, <1>7 DEF MeStep

\* The columns an admin writes.
LEMMA Flags ==
  /\ \A flag \in Flag, b \in BOOLEAN : Net(flag, b) \in Flag /\ Apply(flag, b) \in BOOLEAN
  /\ \A flag \in Flag, b \in BOOLEAN : Apply(flag, b) => b \/ flag = "on"
BY DEF Flag, Net, Apply

\* The admin endpoints.
LEMMA InvAdmin ==
  ASSUME Inv, NEW r \in Req, AdminStep(r)
  PROVE  Inv'
<1>1. ASSUME NEW u \in UserId, NEW a \in Flag, NEW v \in Flag, AdminLoad(r, u, a, v)
      PROVE  Inv'
  <2> DEFINE active == Net(a, users[u].active)
             verified == Net(v, users[u].verified)
             t == [Idle EXCEPT !.pc = "admin_commit", !.uid = u, !.active = active,
                               !.verified = verified]
  <2>1. users[u] \in User /\ users[u] # NoUser
    BY <1>1, Rows DEF AdminLoad, Inv
  <2>2. active \in Flag /\ verified \in Flag
    BY <2>1, Flags DEF User
  <2>3. Goto(r, t) /\ UNCHANGED <<users, tokens, usedKeys, sweep, history, scope>>
    BY <1>1 DEF AdminLoad
  <2> HIDE DEF active, verified
  <2>4. t \in ReqState /\ t.pc = "admin_commit" /\ t.uid = u
    BY <2>2 DEF Idle, ReqState, PC, Hash
  <2> HIDE DEF t
  <2>5. Served(t)
    BY <2>1, <2>4 DEF Served, RowPC, VerifyPC, ResetPC, MePC
  <2> QED BY <2>3, <2>4, <2>5, RequestMoves
<1>2. CASE AdminCommit(r)
  <2> DEFINE u == req[r].uid
             active == Apply(req[r].active, users[u].active)
             verified == Apply(req[r].verified, users[u].verified)
             row == [users[u] EXCEPT !.active = active, !.verified = verified]
  <2>1. /\ req[r].pc = "admin_commit" /\ u \in UserId /\ req[r] \in ReqState
        /\ UNCHANGED <<tokens, usedKeys, sweep, released, spent, commits, scope>>
        /\ Goto(r, Idle)
    BY <1>2 DEF AdminCommit, Done, Inv, TypeOK, Served, RowPC
  <2>2. CASE ~Present(u)
    BY <1>2, <2>1, <2>2, IdleServed, RequestMoves DEF AdminCommit, history
  <2>3. CASE Present(u)
    <3>1. users[u] \in User
      BY <2>1, <2>3, Rows DEF Inv
    <3>2. /\ active \in BOOLEAN /\ verified \in BOOLEAN
          /\ verified => users[u].verified \/ req[r].verified = "on"
      BY <2>1, <3>1, Flags DEF User, ReqState
    <3>3. /\ users' = [users EXCEPT ![u] = row]
          /\ pardoned' = IF req[r].verified = "on" /\ u \in sweep
                         THEN pardoned \cup {u} ELSE pardoned
      BY <1>2, <2>3, <3>1 DEF AdminCommit, User, Inv, TypeOK
    <3> HIDE DEF active, verified
    <3>4. /\ row \in User /\ row.email = users[u].email /\ row.age = users[u].age
          /\ row.verified = verified /\ row.password = users[u].password
      BY <3>1, <3>2 DEF User
    <3> HIDE DEF row
    <3>5. u \in sweep /\ row.verified => u \in pardoned'
      BY <2>1, <3>2, <3>3, <3>4 DEF Inv, Kept
    <3>6. pardoned \subseteq pardoned' /\ pardoned' \in SUBSET UserId
      BY <2>1, <3>3 DEF Inv, TypeOK
    <3>7. Undisturbed
      BY <2>1, <2>3, <3>3, <3>4, <3>5, <3>6, RowWritten
    <3>8. TypeOK'
      BY <2>1, <3>3, <3>4, <3>6, IdleServed DEF Inv, TypeOK, Goto
    <3> QED BY <2>1, <3>7, <3>8, IdleServed, Frame
  <2> QED BY <2>2, <2>3
<1> QED BY <1>1, <1>2 DEF AdminStep

\* Login and forgot_password.
LEMMA InvMailAndLogin ==
  ASSUME Inv, NEW e \in scope.email,
         Forgot(e) \/ \E p \in scope.password : Login(e, p)
  PROVE  Inv'
<1>1. Lower[e] \in Email /\ Lower[Lower[e]] = Lower[e]
  BY Typed DEF Inv
<1>2. Undisturbed /\ tokens' \in [Jti -> Token \cup {NoToken}]
  <2>1. CASE Forgot(e)
    <3>1. PICK u \in UserId : /\ Present(u) /\ users[u].email = Lower[e]
                              /\ IssueToken("password_reset", u, u)
      BY <2>1 DEF Forgot, ForgotFinds
    <3>2. HasLower(u) /\ users[u] # NoUser
      BY <1>1, <3>1, Rows DEF HasLower, Inv
    <3> QED BY <2>1, <3>1, <3>2, TokenIssued DEF Forgot, MailType, history
  <2>2. CASE \E p \in scope.password : Login(e, p)
    <3>1. PICK u \in UserId : Present(u) /\ IssueToken("session", users[u].email, u)
      BY <2>2 DEF Login
    <3>2. users[u] # NoUser /\ users[u].email \in Email
      BY <3>1, Rows DEF Inv, User
    <3> QED BY <2>2, <3>1, <3>2, TokenIssued DEF Login, MailType, history
  <2> QED BY <2>1, <2>2
<1>3. UNCHANGED <<users, usedKeys, req, sweep, history, scope>>
  BY DEF Forgot, Login
<1>4. TypeOK'
  BY <1>2, <1>3 DEF Inv, TypeOK, history
<1> QED BY <1>2, <1>3, <1>4, FrameNoRequest

\* The cleanup task.
LEMMA InvCleanup ==
  ASSUME Inv, Cleanup
  PROVE  Inv'
<1>1. CASE CleanupSelect
  <2>1. /\ sweep' = {u \in UserId : Stale(u)}
        /\ UNCHANGED <<users, tokens, usedKeys, req, history, scope>>
    BY <1>1 DEF CleanupSelect
  <2>2. TypeOK'
    BY <2>1 DEF Inv, TypeOK, history
  <2>3. EmailUnique' /\ \A s \in ReqState : Served(s) => Served(s)'
    BY <2>1 DEF Inv, EmailUnique, Served, HasLower, Present, history
  <2>4. \A j \in Jti : Vouched(j)'
    BY <2>1 DEF Inv, Vouched, HasLower, Present, history
  <2>5. \A u \in UserId : Kept(u)'
    BY <2>1 DEF Inv, Kept, HasLower, Present, Stale, history
  <2> QED BY <2>1, <2>2, <2>3, <2>4, <2>5, FrameNoRequest DEF Undisturbed
<1>2. CASE CleanupDelete
  <2>1. /\ users' = [u \in UserId |-> IF u \in sweep THEN Deleted ELSE users[u]]
        /\ released' = released \cup {users[u].email : u \in {v \in sweep : Present(v)}}
        /\ sweep' = {} /\ pardoned' = {}
        /\ UNCHANGED <<tokens, usedKeys, req, spent, commits, scope>>
    BY <1>2 DEF CleanupDelete
  <2>2. /\ \A u \in UserId : u \notin sweep => users'[u] = users[u]
        /\ \A u \in sweep : users'[u] = Deleted /\ u \in UserId
    BY <2>1 DEF Inv, TypeOK
  <2>3. /\ released \subseteq released'
        /\ \A u \in sweep : Present(u) => users[u].email \in released'
        /\ \A u \in sweep : Present(u) => users[u].email \in Email
    BY <2>1, <2>2, Rows DEF Inv, User
  <2>4. Deleted.age = "deleted" /\ Deleted # NoUser
    BY DEF Deleted, NoUser
  <2>5. \A u \in UserId : /\ Present(u)' <=> (Present(u) /\ u \notin sweep)
                          /\ HasLower(u) => HasLower(u)'
                          /\ users[u] # NoUser => users'[u] # NoUser
                          /\ users'[u].age = "stale" => users[u].age = "stale"
    BY <2>2, <2>4 DEF Present, HasLower
  <2>6. TypeOK'
    <3>1. users' \in [UserId -> User \cup {NoUser, Deleted}]
      BY <2>1 DEF Inv, TypeOK
    <3>2. released' \in SUBSET Email
      BY <2>1, <2>3 DEF Inv, TypeOK
    <3> QED BY <2>1, <3>1, <3>2 DEF Inv, TypeOK
  <2>7. EmailUnique'
    BY <2>2, <2>5 DEF Inv, EmailUnique
  <2>8. ASSUME NEW s \in ReqState, Served(s) PROVE Served(s)'
    BY <2>1, <2>3, <2>5, <2>8 DEF Served, RowPC, VerifyPC, ResetPC, MePC
  <2>9. ASSUME NEW j \in Jti PROVE Vouched(j)'
    <3>1. Vouched(j) /\ (tokens[j] # NoToken => tokens[j].holder \in UserId)
      BY DEF Inv, TypeOK, Token
    <3> QED BY <2>1, <2>2, <2>3, <2>5, <3>1 DEF Vouched
  <2>10. \A u \in UserId : Kept(u)'
    BY <2>1, <2>2, <2>5 DEF Inv, Kept
  <2> QED BY <2>1, <2>6, <2>7, <2>8, <2>9, <2>10, FrameNoRequest DEF Undisturbed
<1>3. CASE CleanupCrash
  <2>1. /\ sweep' = {} /\ pardoned' = {}
        /\ UNCHANGED <<users, tokens, usedKeys, req, released, spent, commits, scope>>
    BY <1>3 DEF CleanupCrash
  <2>2. TypeOK'
    BY <2>1 DEF Inv, TypeOK
  <2>3. EmailUnique' /\ \A s \in ReqState : Served(s) => Served(s)'
    BY <2>1 DEF Inv, EmailUnique, Served, HasLower, Present
  <2>4. (\A j \in Jti : Vouched(j)') /\ \A u \in UserId : Kept(u)'
    BY <2>1 DEF Inv, Vouched, Kept, HasLower, Present
  <2> QED BY <2>1, <2>2, <2>3, <2>4, FrameNoRequest DEF Undisturbed
<1> QED BY <1>1, <1>2, <1>3 DEF Cleanup

\* Time passes for tokens.
LEMMA InvTokenTime ==
  ASSUME Inv, NEW j \in Jti, TokenAge(j) \/ UsedKeyExpires(j)
  PROVE  Inv'
<1>1. CASE TokenAge(j)
  <2>1. PICK life \in {"ending", "expired"} :
          /\ tokens' = [tokens EXCEPT ![j].life = life]
          /\ tokens[j].life = "expired" => life = "expired"
    BY <1>1 DEF TokenAge
  <2> DEFINE tok == [tokens[j] EXCEPT !.life = life]
  <2>2. tokens[j] \in Token /\ tokens[j] # NoToken /\ tokens[j].type \in MailType
    BY <1>1 DEF TokenAge, Inv, TypeOK, NoToken, MailType
  <2>3. /\ tok \in Token /\ tok.type = tokens[j].type /\ tok.sub = tokens[j].sub
        /\ tok.holder = tokens[j].holder /\ tok.life = life
    BY <2>2 DEF Token
  <2>4. tokens' = [tokens EXCEPT ![j] = tok]
    BY <2>1
  <2> HIDE DEF tok
  <2>5. /\ tokens'[j] = tok /\ \A k \in Jti : k # j => tokens'[k] = tokens[k]
        /\ tokens' \in [Jti -> Token \cup {NoToken}]
        /\ tok # NoToken
    BY <2>2, <2>3, <2>4 DEF Inv, TypeOK, NoToken, MailType
  <2>6. UNCHANGED <<users, usedKeys, req, sweep, history, scope>>
    BY <1>1 DEF TokenAge
  <2>7. TypeOK'
    BY <2>5, <2>6 DEF Inv, TypeOK, history
  <2>8. /\ EmailUnique' /\ (\A u \in UserId : Kept(u)')
        /\ \A v \in UserId : (HasLower(v)' <=> HasLower(v)) /\ (Present(v)' <=> Present(v))
    BY <2>6 DEF Inv, EmailUnique, Kept, HasLower, Present, history
  <2>9. ASSUME NEW s \in ReqState, Served(s) PROVE Served(s)'
    BY <2>3, <2>5, <2>6, <2>8, <2>9 DEF Served, RowPC, VerifyPC, ResetPC, MePC, history
  <2>10. ASSUME NEW k \in Jti PROVE Vouched(k)'
    <3>1. Vouched(k) /\ (tokens[k] # NoToken => tokens[k].holder \in UserId)
      BY DEF Inv, TypeOK, Token
    <3>2. CASE k = j
      BY <2>1, <2>2, <2>3, <2>5, <2>6, <2>8, <3>1, <3>2 DEF Vouched, history, MailType
    <3>3. CASE k # j
      BY <2>5, <2>6, <2>8, <3>1, <3>3 DEF Vouched, history
    <3> QED BY <3>2, <3>3
  <2> QED BY <2>6, <2>7, <2>8, <2>9, <2>10, FrameNoRequest DEF Undisturbed
<1>2. CASE UsedKeyExpires(j)
  <2>1. /\ usedKeys' = usedKeys \ {j} /\ tokens[j].life # "fresh"
        /\ UNCHANGED <<users, tokens, req, sweep, history, scope>>
    BY <1>2 DEF UsedKeyExpires
  <2>2. TypeOK'
    BY <2>1 DEF Inv, TypeOK, history
  <2>3. EmailUnique' /\ \A s \in ReqState : Served(s) => Served(s)'
    BY <2>1 DEF Inv, EmailUnique, Served, HasLower, Present, history
  <2>4. \A k \in Jti : Vouched(k)'
    BY <2>1 DEF Inv, Vouched, HasLower, Present, history
  <2>5. \A u \in UserId : Kept(u)'
    BY <2>1 DEF Inv, Kept, HasLower, Present, history
  <2> QED BY <2>1, <2>2, <2>3, <2>4, <2>5, FrameNoRequest DEF Undisturbed
<1> QED BY <1>1, <1>2

\* An account leaves the grace period of the cleanup.
LEMMA InvUserAge ==
  ASSUME Inv, NEW u \in UserId, UserAge(u)
  PROVE  Inv'
<1> DEFINE row == [users[u] EXCEPT !.age = "stale"]
<1>1. /\ users[u].age = "new" /\ (\A r \in Req : req[r].uid # u)
      /\ \A j \in Jti : tokens[j].type = "email_verification" /\ tokens[j].sub = u
                          => tokens[j].life = "expired"
      /\ users' = [users EXCEPT ![u] = row]
      /\ UNCHANGED <<tokens, usedKeys, req, sweep, history, scope>>
  BY DEF UserAge
<1>2. Present(u) /\ users[u] \in User /\ users[u] # NoUser
  BY <1>1, Rows DEF Present, Inv
<1>3. /\ row \in User /\ row.email = users[u].email /\ row.age = "stale"
      /\ row.password = users[u].password
  BY <1>2 DEF User
<1> HIDE DEF row
<1>4. row # NoUser
  BY <1>3 DEF NoUser
<1>5. /\ users'[u] = row /\ \A v \in UserId : v # u => users'[v] = users[v]
      /\ users' \in [UserId -> User \cup {NoUser, Deleted}]
  BY <1>1, <1>3 DEF Inv, TypeOK
<1>6. \A v \in UserId : /\ Present(v)' <=> Present(v)
                        /\ HasLower(v)' <=> HasLower(v)
                        /\ users'[v].email = users[v].email
                        /\ users'[v].password = users[v].password
                        /\ users[v] # NoUser => users'[v] # NoUser
  BY <1>2, <1>3, <1>4, <1>5 DEF Present, HasLower
<1>7. TypeOK'
  BY <1>1, <1>5 DEF Inv, TypeOK, history
<1>8. EmailUnique'
  BY <1>6 DEF Inv, EmailUnique
<1>9. ASSUME NEW r \in Req PROVE Served(req[r])'
  <2>1. Served(req[r]) /\ req'[r] = req[r] /\ req[r].uid # u
    BY <1>1 DEF Inv
  <2>2. req[r].pc \in VerifyPC \cup {"register_mail"} =>
          users'[req[r].uid].age # "stale"
    BY <1>5, <2>1 DEF Served, RowPC
  <2> QED BY <1>1, <1>6, <2>1, <2>2 DEF Served, RowPC, VerifyPC, ResetPC, MePC, history
<1>10. ASSUME NEW j \in Jti PROVE Vouched(j)'
  <2>1. Vouched(j) /\ (tokens[j] # NoToken => tokens[j].holder \in UserId)
    BY DEF Inv, TypeOK, Token
  <2>2. tokens[j] # NoToken /\ tokens[j].type = "email_verification" =>
          (users'[tokens[j].holder].age = "stale" => tokens[j].life = "expired")
    BY <1>1, <1>5, <2>1 DEF Vouched, MailType
  <2> QED BY <1>1, <1>6, <2>1, <2>2 DEF Vouched, history
<1>11. ASSUME NEW v \in UserId PROVE Kept(v)'
  <2>1. u \notin sweep
    BY <1>1 DEF Inv, Kept
  <2> QED BY <1>1, <1>5, <1>6, <2>1 DEF Inv, Kept, history
<1> QED BY <1>7, <1>8, <1>9, <1>10, <1>11 DEF Inv

\* At the start no request has begun and no token has been handed out.
LEMMA InvInit == Init => Inv
<1> SUFFICES ASSUME Init PROVE Inv
  OBVIOUS
<1>1. TypeOK
  <2>1. users \in [UserId -> User \cup {NoUser, Deleted}]
    BY DEF Init
  <2> QED BY <2>1, IdleServed DEF Init, TypeOK
<1>2. EmailUnique
  BY DEF Init, EmailUnique
<1>3. \A r \in Req : Served(req[r])
  BY IdleServed DEF Init
<1>4. \A j \in Jti : Vouched(j)
  BY DEF Init, Vouched
<1>5. ASSUME NEW u \in UserId PROVE Kept(u)
  <2>1. Present(u) => HasLower(u)
    <3>1. CASE users[u] = NoUser
      BY <3>1 DEF Present, NoUser
    <3>2. CASE users[u] # NoUser
      BY <3>2 DEF Init, HasLower
    <3> QED BY <3>1, <3>2
  <2> QED BY <2>1 DEF Kept, Init
<1> QED BY <1>1, <1>2, <1>3, <1>4, <1>5 DEF Inv

\* Every step of requests, the cleanup and the clock preserves the invariant.
LEMMA InvNext == Inv /\ [Next]_vars => Inv'
<1> SUFFICES ASSUME Inv, [Next]_vars PROVE Inv'
  OBVIOUS
<1>1. ASSUME NEW r \in Req, Crash(r) PROVE Inv'
  BY <1>1, IdleServed, RequestMoves DEF Crash, Done
<1>2. CASE UNCHANGED vars
  <2>1. TypeOK' /\ UNCHANGED req
    BY <1>2 DEF Inv, TypeOK, vars, history
  <2>2. EmailUnique' /\ \A s \in ReqState : Served(s) => Served(s)'
    BY <1>2 DEF Inv, EmailUnique, Served, HasLower, Present, vars, history
  <2>3. \A j \in Jti : Vouched(j)'
    BY <1>2 DEF Inv, Vouched, HasLower, Present, vars, history
  <2>4. \A u \in UserId : Kept(u)'
    BY <1>2 DEF Inv, Kept, HasLower, Present, vars, history
  <2> QED BY <2>1, <2>2, <2>3, <2>4, FrameNoRequest DEF Undisturbed
<1> QED BY <1>1, <1>2, InvRegister, InvVerify, InvReset, InvMe, InvAdmin, InvMailAndLogin,
           InvCleanup, InvTokenTime, InvUserAge DEF Next

\* The invariant holds throughout.
THEOREM Invariance == Spec => []Inv
  BY InvInit, InvNext, PTL DEF Spec

\* The state of rows, tokens and requests stays well formed.
THEOREM TypeCorrect == Spec => []TypeOK
  BY Invariance, PTL DEF Inv

\* Requests that found the same address free never both get it.
THEOREM AddressesAreUnique == Spec => []EmailUnique
  BY Invariance, PTL DEF Inv

\* /users/me acts on the account that logged in while its address is held.
THEOREM SessionsActOnHolder == Spec => []ActsOnHolderWhileAddressHeld
<1>1. Inv => ActsOnHolderWhileAddressHeld
  BY DEF Inv, Served, ActsOnHolderWhileAddressHeld
<1> QED BY <1>1, Invariance, PTL

\* A spent mail token passes the used-check again only in its last second.
THEOREM ReplayIsBounded == Spec => []ReplayOnlyInLastSecond
<1>1. Inv => ReplayOnlyInLastSecond
  BY DEF Inv, Served, ReplayOnlyInLastSecond
<1> QED BY <1>1, Invariance, PTL

\* The cleanup deletes a verified account only if an admin verified it after
\* the cleanup had selected it.
THEOREM SweepIsExplained == Spec => []SweepMeetsVerifiedOnlyByAdmin
<1>1. Inv => SweepMeetsVerifiedOnlyByAdmin
  BY DEF Inv, TypeOK, Kept, SweepMeetsVerifiedOnlyByAdmin
<1> QED BY <1>1, Invariance, PTL

\* What a step may do to a row: a deleted one stays deleted, one that is there
\* is written in place or deleted, keeps a password once it has one, and is made
\* active by an admin only.
Fate(u) ==
  /\ users[u] = Deleted => users'[u] = Deleted
  /\ Present(u) => Present(u)' \/ users'[u] = Deleted
  /\ (Present(u) /\ Present(u)' /\ users[u].password # NoHash) => users'[u].password # NoHash
  /\ (Present(u) /\ ~users[u].active /\ users'[u].active)
       => \E r \in Req : /\ req[r].pc = "admin_commit"
                         /\ req[r].uid = u /\ req[r].active = "on"

\* No step does anything else to a row.
LEMMA RowFate ==
  ASSUME Inv, [Next]_vars, NEW u \in UserId
  PROVE  Fate(u)
<1> USE DEF Fate
<1>0. TypeOK
  BY DEF Inv
<1>1. CASE users'[u] = users[u]
  BY <1>1 DEF Present
<1>2. ASSUME NEW r \in Req, RegisterInsert(r) PROVE Fate(u)
  <2>1. users'[u] = users[u] \/ users[u] = NoUser
    BY <1>0, <1>2 DEF RegisterInsert, TypeOK
  <2> QED BY <1>0, <1>1, <2>1, Rows
<1>3. ASSUME NEW r \in Req, NEW row, users' = [users EXCEPT ![req[r].uid] = row],
             Present(req[r].uid), row.age = users[req[r].uid].age,
             row.password = users[req[r].uid].password \/ row.password # NoHash,
             row.active /\ ~users[req[r].uid].active =>
               req[r].pc = "admin_commit" /\ req[r].active = "on"
      PROVE  Fate(u)
  <2>1. CASE u # req[r].uid
    BY <1>0, <1>1, <1>3, <2>1 DEF TypeOK
  <2>2. CASE u = req[r].uid
    <3>1. users'[u] = row
      BY <1>0, <1>3, <2>2 DEF TypeOK
    <3>2. Present(u)' /\ users[u] # Deleted
      BY <1>0, <1>3, <2>2, <3>1, Rows DEF Present
    <3> QED BY <1>3, <2>2, <3>1, <3>2
  <2> QED BY <2>1, <2>2
<1>4. ASSUME NEW r \in Req, VerifyCommit(r) PROVE Fate(u)
  <2>1. CASE UNCHANGED users
    BY <1>1, <2>1
  <2>2. CASE /\ Present(req[r].uid)
             /\ users' = [users EXCEPT ![req[r].uid] = [users[req[r].uid] EXCEPT !.verified = TRUE]]
    <3>1. req[r].uid \in UserId
      BY <1>4 DEF VerifyCommit, Inv, Served, RowPC, VerifyPC
    <3>2. users[req[r].uid] \in User
      BY <1>0, <2>2, <3>1, Rows
    <3> QED BY <1>3, <2>2, <3>2 DEF User
  <2> QED BY <1>4, <2>1, <2>2 DEF VerifyCommit
<1>5. ASSUME NEW r \in Req, ResetCommit(r) \/ PasswordCommit(r) PROVE Fate(u)
  <2>1. CASE UNCHANGED users
    BY <1>1, <2>1
  <2>2. CASE /\ Present(req[r].uid)
             /\ users' = [users EXCEPT ![req[r].uid] =
                            [users[req[r].uid] EXCEPT !.password = req[r].password]]
    <3>1. req[r].uid \in UserId /\ req[r].password # NoHash
      BY <1>5 DEF ResetCommit, PasswordCommit, Inv, Served, RowPC, ResetPC, MePC
    <3>2. users[req[r].uid] \in User
      BY <1>0, <2>2, <3>1, Rows
    <3> QED BY <1>3, <2>2, <3>1, <3>2 DEF User
  <2> QED BY <1>5, <2>1, <2>2 DEF ResetCommit, PasswordCommit
<1>6. ASSUME NEW r \in Req, EmailCommit(r) PROVE Fate(u)
  <2>1. CASE UNCHANGED users
    BY <1>1, <2>1
  <2>2. CASE /\ Present(req[r].uid)
             /\ users' = [users EXCEPT ![req[r].uid] =
                            [users[req[r].uid] EXCEPT !.email = req[r].email]]
    <3>1. req[r].uid \in UserId
      BY <1>6 DEF EmailCommit, Inv, Served, RowPC, MePC
    <3>2. users[req[r].uid] \in User
      BY <1>0, <2>2, <3>1, Rows
    <3> QED BY <1>3, <2>2, <3>1, <3>2 DEF User
  <2> QED BY <1>6, <2>1, <2>2 DEF EmailCommit
<1>7. ASSUME NEW r \in Req, DeactivateCommit(r) PROVE Fate(u)
  <2>1. CASE UNCHANGED users
    BY <1>1, <2>1
  <2>2. CASE /\ Present(req[r].uid)
             /\ users' = [users EXCEPT ![req[r].uid] = [users[req[r].uid] EXCEPT !.active = FALSE]]
    <3>1. req[r].uid \in UserId
      BY <1>7 DEF DeactivateCommit, Inv, Served, RowPC, MePC
    <3>2. users[req[r].uid] \in User
      BY <1>0, <2>2, <3>1, Rows
    <3> QED BY <1>3, <2>2, <3>1, <3>2 DEF User
  <2> QED BY <1>7, <2>1, <2>2 DEF DeactivateCommit
<1>8. ASSUME NEW r \in Req, AdminCommit(r) PROVE Fate(u)
  <2> DEFINE v == req[r].uid
             active == Apply(req[r].active, users[v].active)
             row == [users[v] EXCEPT !.active = active,
                                     !.verified = Apply(req[r].verified, users[v].verified)]
  <2>1. CASE ~Present(v)
    BY <1>1, <1>8, <2>1 DEF AdminCommit
  <2>2. CASE Present(v)
    <3>1. v \in UserId /\ req[r].pc = "admin_commit" /\ req[r] \in ReqState
      BY <1>8 DEF AdminCommit, Inv, TypeOK, Served, RowPC
    <3>2. users[v] \in User
      BY <1>0, <2>2, <3>1, Rows
    <3>3. users' = [users EXCEPT ![v] = row]
      BY <1>0, <1>8, <2>2, <3>1, <3>2 DEF AdminCommit, User, TypeOK
    <3>4. active => users[v].active \/ req[r].active = "on"
      BY <3>1, <3>2, Flags DEF User, ReqState
    <3> HIDE DEF active
    <3>5. row.age = users[v].age /\ row.password = users[v].password /\ row.active = active
      BY <3>2 DEF User
    <3> HIDE DEF row
    <3> QED BY <1>3, <2>2, <3>1, <3>3, <3>4, <3>5
  <2> QED BY <2>1, <2>2
<1>9. CASE CleanupDelete
  <2>1. users'[u] = users[u] \/ users'[u] = Deleted
    BY <1>9 DEF CleanupDelete
  <2>2. CASE users'[u] = Deleted
    <3>1. ~Present(u)' /\ users'[u].active = FALSE
      BY <2>2 DEF Deleted, NoUser, Present
    <3> QED BY <2>2, <3>1
  <2> QED BY <1>1, <2>1, <2>2
<1>10. ASSUME NEW v \in UserId, UserAge(v) PROVE Fate(u)
  <2>1. CASE u # v
    BY <1>0, <1>1, <1>10, <2>1 DEF UserAge, TypeOK
  <2>2. CASE u = v
    <3>1. users[u] \in User /\ users[u] # Deleted
      BY <1>0, <1>10, <2>2, Rows DEF UserAge, Present
    <3>2. users'[u] = [users[u] EXCEPT !.age = "stale"]
      BY <1>0, <1>10, <2>2 DEF UserAge, TypeOK
    <3> QED BY <3>1, <3>2 DEF User, Present
  <2> QED BY <2>1, <2>2
<1>11. Fate(u)
  <2>1. CASE UNCHANGED users
    BY <1>1, <2>1
  <2>2. ASSUME NEW r \in Req,
               RegisterStep(r) \/ VerifyStep(r) \/ ResetStep(r) \/ MeStep(r)
                 \/ AdminStep(r) \/ Crash(r)
        PROVE  Fate(u)
    <3>1. CASE RegisterStep(r)
      BY <1>2, <2>1, <3>1 DEF RegisterStep, RegisterCheck, RegisterMail
    <3>2. CASE VerifyStep(r)
      BY <1>4, <2>1, <3>2 DEF VerifyStep, VerifyLoad, VerifyCheck, VerifyMark
    <3>3. CASE ResetStep(r)
      BY <1>5, <2>1, <3>3 DEF ResetStep, ResetCheck, ResetLoad, ResetMark
    <3>4. CASE MeStep(r)
      BY <1>5, <1>6, <1>7, <2>1, <3>4 DEF MeStep, EmailAuth, PasswordAuth, DeactivateAuth,
         EmailCheck
    <3>5. CASE AdminStep(r)
      BY <1>8, <2>1, <3>5 DEF AdminStep, AdminLoad
    <3>6. CASE Crash(r)
      BY <2>1, <3>6 DEF Crash
    <3> QED BY <2>2, <3>1, <3>2, <3>3, <3>4, <3>5, <3>6
  <2>3. CASE \E e \in scope.email : Forgot(e) \/ \E p \in scope.password : Login(e, p)
    BY <2>1, <2>3 DEF Forgot, Login
  <2>4. CASE Cleanup
    BY <1>9, <2>1, <2>4 DEF Cleanup, CleanupSelect, CleanupCrash
  <2>5. CASE \E j \in Jti : TokenAge(j) \/ UsedKeyExpires(j)
    BY <2>1, <2>5 DEF TokenAge, UsedKeyExpires
  <2>6. CASE UNCHANGED vars
    BY <2>1, <2>6 DEF vars
  <2> QED BY <1>10, <2>2, <2>3, <2>4, <2>5, <2>6 DEF Next
<1> QED BY <1>11

\* Only an admin request that asks for it makes a deactivated account active.
THEOREM DeactivationIsKept == Spec => DeactivationSticks
<1>1. Inv /\ [Next]_vars =>
        [\A u \in UserId :
           (Present(u) /\ ~users[u].active /\ users'[u].active)
             => \E r \in Req : /\ req[r].pc = "admin_commit"
                               /\ req[r].uid = u /\ req[r].active = "on"]_vars
  BY RowFate DEF Fate
<1> QED BY <1>1, Invariance, PTL DEF Spec, DeactivationSticks

\* No request brings a row back that the cleanup has deleted.
THEOREM DeletionIsFinal == Spec => DeletedStaysDeleted
<1>1. Inv /\ [Next]_vars => [\A u \in UserId : users[u] = Deleted => users'[u] = Deleted]_vars
  BY RowFate DEF Fate
<1> QED BY <1>1, Invariance, PTL DEF Spec, DeletedStaysDeleted

-----------------------------------------------------------------------------
(* Callbacks and unlinks *)

\* A set of identities has two members exactly when it counts more than one.
LEMMA MoreThanOne ==
  ASSUME NEW S \in SUBSET Identity
  PROVE  /\ ~(Cardinality(S) <= 1) => \E i, k \in S : i # k
         /\ (\E i, k \in S : i # k) => Cardinality(S) > 1
<1>1. IsFiniteSet(S) /\ Cardinality(S) \in Nat
  BY IdentityAssumption, FS_Subset, FS_CardinalityType
<1>2. (\E i, k \in S : i # k) => Cardinality(S) > 1
  <2> SUFFICES ASSUME NEW i \in S, NEW k \in S, i # k PROVE Cardinality(S) > 1
    OBVIOUS
  <2>1. Cardinality(S) # 0
    BY <1>1, FS_EmptySet
  <2>2. Cardinality(S) # 1
    BY <1>1, FS_Singleton
  <2> QED BY <1>1, <2>1, <2>2
<1>3. ASSUME ~\E i, k \in S : i # k PROVE Cardinality(S) <= 1
  <2>1. CASE S = {}
    BY <2>1, FS_EmptySet
  <2>2. CASE S # {}
    <3>1. PICK i \in S : TRUE
      BY <2>2
    <3>2. S = {i}
      BY <1>3, <3>1
    <3> QED BY <3>2, FS_Singleton
  <2> QED BY <2>1, <2>2
<1> QED BY <1>2, <1>3

\* A slot that is free relies on nothing.
LEMMA NoFlowBacked ==
  NoFlow \in FlowState /\ NoFlow.pc = "idle" /\ Backed(NoFlow) /\ Backed(NoFlow)'
<1>1. NoFlow \in FlowState
  BY DEF NoFlow, FlowState, Hash
<1>2. NoFlow.pc = "idle"
  BY DEF NoFlow
<1>3. Backed(NoFlow) /\ Backed(NoFlow)'
  BY <1>2 DEF Backed, UnlinkPC
<1> QED BY <1>1, <1>2, <1>3

\* A step of one flow that takes nothing from the others.
LEMMA FlowFrame ==
  ASSUME OAuthInv, Inv', NoDanglingLink',
         links' \in [Identity -> UserId \cup {"none"}],
         states' \in [State -> UserId \cup {"login", "free", "gone"}],
         \A s \in FlowState : Backed(s) => Backed(s)',
         NEW f \in Flow, NEW t \in FlowState, Backed(t) \/ Backed(t)', Move(f, t)
  PROVE  OAuthInv'
<1>1. OAuthTypeOK'
  BY DEF OAuthInv, OAuthTypeOK, Inv, Move
<1> SUFFICES ASSUME NEW g \in Flow PROVE Backed(flow[g])'
  BY <1>1 DEF OAuthInv
<1>2. CASE g = f
  <2>1. flow'[g] = t
    BY <1>2 DEF Move, OAuthInv, OAuthTypeOK
  <2>2. Backed(t)'
    OBVIOUS
  <2> QED BY <2>1, <2>2 DEF Backed, TwoLinks, LinksOf
<1>3. CASE g # f
  <2>1. flow'[g] = flow[g] /\ flow[g] \in FlowState /\ Backed(flow[g])
    BY <1>3 DEF Move, OAuthInv, OAuthTypeOK
  <2>2. PICK s \in FlowState : s = flow[g]
    BY <2>1
  <2>3. Backed(s)'
    BY <2>1, <2>2
  <2> QED BY <2>1, <2>2, <2>3 DEF Backed, TwoLinks, LinksOf
<1> QED BY <1>2, <1>3

\* A step that changes nothing but where a flow is, and states.
LEMMA FlowMoves ==
  ASSUME OAuthInv, UNCHANGED <<vars, links>>,
         states' \in [State -> UserId \cup {"login", "free", "gone"}],
         NEW f \in Flow, NEW t \in FlowState, Backed(t), Move(f, t)
  PROVE  OAuthInv'
<1>1. Inv'
  BY InvNext DEF OAuthInv
<1>2. NoDanglingLink' /\ links' \in [Identity -> UserId \cup {"none"}]
  BY DEF OAuthInv, OAuthTypeOK, NoDanglingLink, Present, vars
<1>3. \A s \in FlowState : Backed(s) => Backed(s)'
  BY DEF Backed, TwoLinks, LinksOf, vars
<1> QED BY <1>1, <1>2, <1>3, FlowFrame

\* A flow that goes on: where it is, and what of it is new.
LEMMA FlowMoved ==
  ASSUME NEW s \in FlowState,
         NEW pc \in {"idle", "delete_state", "find_link", "load_linked", "load_asker",
                     "find_email", "create", "link", "issue",
                     "unlink_find", "unlink_count", "unlink_delete"}
  PROVE  /\ [s EXCEPT !.pc = pc] \in FlowState
         /\ \A u \in UserId : [s EXCEPT !.pc = pc, !.uid = u] \in FlowState
         /\ \A i \in Identity : [s EXCEPT !.pc = pc, !.identity = i] \in FlowState
         /\ \A i \in Identity, e \in Email \cup {"none"}, u \in UserId \cup {"none"} :
              [s EXCEPT !.pc = pc, !.identity = i, !.email = e, !.uid = u] \in FlowState
<1>1. /\ s.state \in State \cup {"none"} /\ s.purpose \in UserId \cup {"login", "none"}
      /\ s.identity \in Identity \cup {"none"} /\ s.email \in Email \cup {"none"}
      /\ s.uid \in UserId \cup {"none"} /\ s.password \in Hash /\ s.overtaken \in BOOLEAN
  BY DEF FlowState
<1>2. [s EXCEPT !.pc = pc] \in FlowState
  BY <1>1 DEF FlowState
<1>3. \A u \in UserId : [s EXCEPT !.pc = pc, !.uid = u] \in FlowState
  BY <1>1 DEF FlowState
<1>4. \A i \in Identity : [s EXCEPT !.pc = pc, !.identity = i] \in FlowState
  BY <1>1 DEF FlowState
<1>5. \A i \in Identity, e \in Email \cup {"none"}, u \in UserId \cup {"none"} :
        [s EXCEPT !.pc = pc, !.identity = i, !.email = e, !.uid = u] \in FlowState
  BY <1>1 DEF FlowState
<1> QED BY <1>2, <1>3, <1>4, <1>5

\* The steps of module Accounts, with the cascade.
LEMMA AccountStepKeeps ==
  ASSUME OAuthInv, AccountStep
  PROVE  OAuthInv'
<1>1. Inv' /\ \A u \in UserId : Fate(u)
  BY InvNext, RowFate DEF OAuthInv, AccountStep
<1>2. /\ \A i \in Identity :
           links'[i] = IF links[i] # "none" /\ users'[links[i]] = Deleted
                       THEN "none" ELSE links[i]
      /\ links' \in [Identity -> UserId \cup {"none"}]
      /\ UNCHANGED <<states, flow>>
  BY DEF AccountStep, Cascade, OAuthInv, OAuthTypeOK
<1>3. OAuthTypeOK'
  BY <1>1, <1>2 DEF OAuthInv, OAuthTypeOK, Inv
<1>4. \A i \in Identity : links'[i] # "none" =>
        links'[i] = links[i] /\ links[i] \in UserId /\ users'[links[i]] # Deleted
  BY <1>2 DEF OAuthInv, OAuthTypeOK
<1>5. NoDanglingLink'
  <2> SUFFICES ASSUME NEW i \in Identity, links'[i] # "none" PROVE Present(links[i])'
    BY DEF NoDanglingLink
  <2>1. /\ links'[i] = links[i] /\ links[i] \in UserId /\ users'[links[i]] # Deleted
        /\ Present(links[i])
    BY <1>4 DEF OAuthInv, NoDanglingLink
  <2>2. PICK u \in UserId : u = links[i]
    BY <2>1
  <2>3. Present(u)'
    BY <1>1, <2>1, <2>2 DEF Fate
  <2> QED BY <2>1, <2>2, <2>3 DEF Present
<1>6. ASSUME NEW f \in Flow PROVE Backed(flow[f])'
  <2>1. PICK s \in FlowState : s = flow[f] /\ s = flow'[f] /\ Backed(s)
    BY <1>2 DEF OAuthInv, OAuthTypeOK
  <2> DEFINE u == s.uid
  <2>2. ASSUME s.pc \in UnlinkPC
        PROVE  /\ u \in UserId /\ users[u] # NoUser /\ users'[u] # NoUser
               /\ users[u] = Deleted => users'[u] = Deleted
               /\ s.password # NoHash => users'[u] = Deleted \/ users'[u].password # NoHash
    <3>1. u \in UserId /\ users[u] # NoUser /\ Fate(u)
      BY <1>1, <2>1, <2>2 DEF Backed
    <3>2. Present(u) \/ users[u] = Deleted
      BY <3>1, Rows DEF OAuthInv, Inv
    <3>3. users'[u] # NoUser
      <4>1. Deleted # NoUser /\ NoUser.age = "none"
        BY DEF Deleted, NoUser
      <4> QED BY <3>1, <3>2, <4>1 DEF Fate, Present
    <3>4. s.password # NoHash => users'[u] = Deleted \/ users'[u].password # NoHash
      BY <2>1, <2>2, <3>1, <3>2 DEF Backed, Fate
    <3> QED BY <3>1, <3>3, <3>4 DEF Fate
  <2>3. ASSUME s.pc \in {"unlink_count", "unlink_delete"}, s.identity # "none"
        PROVE  links'[s.identity] = u \/ users'[u] = Deleted
    <3>1. s.identity \in Identity /\ s.pc \in UnlinkPC
      BY <2>3 DEF FlowState, UnlinkPC
    <3>2. u # "none"
      BY <2>2, <3>1, NoneAssumption
    <3> QED BY <1>2, <2>1, <2>2, <2>3, <3>1, <3>2 DEF Backed
  <2>4. ASSUME s.pc = "unlink_delete", s.identity \in LinksOf(u)',
               users'[u].password = NoHash, ~s.overtaken
        PROVE  TwoLinks(u)'
    <3>1. s.identity \in Identity /\ links'[s.identity] = u /\ u \in UserId
      BY <2>2, <2>4 DEF LinksOf, UnlinkPC
    <3>2. u # "none" /\ links[s.identity] = u /\ users'[u] # Deleted
      BY <1>4, <3>1, NoneAssumption
    <3>3. Present(u) /\ Present(u)'
      <4>1. Present(u)
        BY <3>1, <3>2 DEF OAuthInv, NoDanglingLink
      <4> QED BY <1>1, <3>1, <3>2, <4>1 DEF Fate
    <3>4. users[u].password = NoHash
      BY <1>1, <2>4, <3>1, <3>3 DEF Fate
    <3>5. TwoLinks(u)
      BY <2>1, <2>4, <3>1, <3>2, <3>4 DEF Backed, LinksOf
    <3>6. \A i \in Identity : links[i] = u => links'[i] = u
      BY <1>2, <3>2
    <3> QED BY <3>5, <3>6 DEF TwoLinks, LinksOf
  <2> QED BY <2>1, <2>2, <2>3, <2>4 DEF Backed, UnlinkPC, TwoLinks, LinksOf
<1> QED BY <1>1, <1>3, <1>5, <1>6 DEF OAuthInv

\* The states of oauth_login and oauth_link.
LEMMA StatesKeep ==
  ASSUME OAuthInv, NEW s \in State,
         OAuthLogin(s) \/ StateExpires(s) \/ \E j \in Jti, u \in UserId : OAuthLink(j, u, s)
  PROVE  OAuthInv'
<1>1. /\ UNCHANGED <<vars, links, flow>>
      /\ states' \in [State -> UserId \cup {"login", "free", "gone"}]
  BY DEF OAuthLogin, StateExpires, OAuthLink, OAuthInv, OAuthTypeOK
<1>2. Inv'
  BY <1>1, InvNext DEF OAuthInv
<1>3. OAuthTypeOK' /\ NoDanglingLink'
  BY <1>1, <1>2 DEF OAuthInv, OAuthTypeOK, Inv, NoDanglingLink, Present, vars
<1>4. \A f \in Flow : Backed(flow[f])'
  BY <1>1 DEF OAuthInv, Backed, TwoLinks, LinksOf, vars
<1> QED BY <1>2, <1>3, <1>4 DEF OAuthInv

\* A session is issued to the account of a flow.
LEMMA IssueKeeps ==
  ASSUME OAuthInv, NEW f \in Flow, flow[f].pc \in {"load_linked", "issue"}, IssueSession(f)
  PROVE  OAuthInv'
<1>1. /\ flow[f].uid \in UserId /\ Move(f, NoFlow)
      /\ UNCHANGED <<users, usedKeys, req, sweep, history, scope, links, states>>
  BY DEF IssueSession, FlowDone, OAuthInv, Backed
<1>2. Inv'
  <2>1. CASE UNCHANGED tokens
    BY <1>1, <2>1, InvNext DEF OAuthInv, vars
  <2>2. CASE MayHaveSession(f)
    <3>1. /\ Present(flow[f].uid)
          /\ IssueToken("session", users[flow[f].uid].email, flow[f].uid)
      BY <2>2 DEF MayHaveSession, IssueSession
    <3>2. users[flow[f].uid] # NoUser /\ users[flow[f].uid].email \in Email
      BY <1>1, <3>1, Rows DEF OAuthInv, Inv, User
    <3>3. Undisturbed /\ tokens' \in [Jti -> Token \cup {NoToken}]
      BY <1>1, <3>1, <3>2, TokenIssued DEF OAuthInv, MailType, history
    <3>4. TypeOK'
      BY <1>1, <3>3 DEF OAuthInv, Inv, TypeOK, history
    <3> QED BY <1>1, <3>3, <3>4, FrameNoRequest DEF OAuthInv
  <2> QED BY <2>1, <2>2 DEF IssueSession
<1>3. /\ NoDanglingLink' /\ links' \in [Identity -> UserId \cup {"none"}]
      /\ states' \in [State -> UserId \cup {"login", "free", "gone"}]
  BY <1>1 DEF OAuthInv, OAuthTypeOK, NoDanglingLink, Present
<1>4. \A s \in FlowState : Backed(s) => Backed(s)'
  BY <1>1 DEF Backed, TwoLinks, LinksOf
<1> QED BY <1>1, <1>2, <1>3, <1>4, NoFlowBacked, FlowFrame

\* oauth_callback.
LEMMA CallbackKeeps ==
  ASSUME OAuthInv, NEW f \in Flow, Callback(f)
  PROVE  OAuthInv'
<1>0. /\ flow[f] \in FlowState /\ Backed(flow[f])
      /\ states \in [State -> UserId \cup {"login", "free", "gone"}]
      /\ links \in [Identity -> UserId \cup {"none"}]
  BY DEF OAuthInv, OAuthTypeOK
<1>1. ASSUME NEW s \in State, CallbackGetState(f, s) PROVE OAuthInv'
  <2> DEFINE t == [NoFlow EXCEPT !.pc = "delete_state", !.state = s, !.purpose = states[s]]
  <2>1. states[s] \in UserId \cup {"login"}
    BY <1>0, <1>1 DEF CallbackGetState
  <2>2. t \in FlowState /\ t.pc = "delete_state" /\ t.state = s /\ t.purpose = states[s]
    BY <2>1 DEF NoFlow, FlowState, Hash
  <2>3. Move(f, t) /\ UNCHANGED <<vars, links, states>>
    BY <1>1 DEF CallbackGetState
  <2> HIDE DEF t
  <2>4. Backed(t)
    BY <2>1, <2>2 DEF Backed, UnlinkPC
  <2> QED BY <1>0, <2>2, <2>3, <2>4, FlowMoves
<1>2. CASE CallbackDeleteState(f)
  <2> DEFINE t == [flow[f] EXCEPT !.pc = "find_link"]
  <2>1. flow[f].pc = "delete_state" /\ Move(f, t) /\ UNCHANGED <<vars, links>>
    BY <1>2 DEF CallbackDeleteState
  <2>2. states' \in [State -> UserId \cup {"login", "free", "gone"}]
    BY <1>0, <1>2 DEF CallbackDeleteState
  <2>3. t \in FlowState
    BY <1>0, FlowMoved
  <2>4. t.pc = "find_link" /\ t.purpose = flow[f].purpose
    BY <1>0 DEF FlowState
  <2> HIDE DEF t
  <2>5. Backed(t)
    BY <1>0, <2>1, <2>4 DEF Backed, UnlinkPC
  <2> QED BY <2>1, <2>2, <2>3, <2>5, FlowMoves
<1>3. ASSUME NEW i \in Identity, NEW e \in scope.email \cup {"none"}, CallbackFindLink(f, i, e)
      PROVE  OAuthInv'
  <2>1. flow[f].pc = "find_link" /\ UNCHANGED <<vars, links, states>>
    BY <1>3 DEF CallbackFindLink
  <2>2. flow[f].purpose \in UserId \cup {"login"} /\ e \in Email \cup {"none"}
    BY <1>0, <2>1, Typed DEF Backed, OAuthInv, Inv
  <2>3. CASE Move(f, NoFlow)
    BY <1>0, <2>1, <2>3, NoFlowBacked, FlowMoves
  <2>4. ASSUME NEW pc \in {"load_linked", "load_asker", "find_email"},
               NEW u \in UserId \cup {"none"},
               pc = "find_email" => e # "none",
               pc # "find_email" => u # "none",
               Move(f, [flow[f] EXCEPT !.pc = pc, !.identity = i, !.email = e, !.uid = u])
        PROVE  OAuthInv'
    <3> DEFINE t == [flow[f] EXCEPT !.pc = pc, !.identity = i, !.email = e, !.uid = u]
    <3>1. t \in FlowState
      BY <1>0, <2>2, FlowMoved
    <3>2. t.pc = pc /\ t.identity = i /\ t.email = e /\ t.uid = u
      BY <1>0 DEF FlowState
    <3>3. Move(f, t)
      BY <2>4
    <3> HIDE DEF t
    <3>4. Backed(t)
      BY <2>2, <2>4, <3>2 DEF Backed, UnlinkPC
    <3> QED BY <1>0, <2>1, <3>1, <3>3, <3>4, FlowMoves
  <2>5. "none" \in UserId \cup {"none"} /\ links[i] \in UserId \cup {"none"}
    BY <1>0
  <2>6. flow[f].purpose # "login" => flow[f].purpose \in UserId /\ flow[f].purpose # "none"
    BY <2>2, NoneAssumption
  <2> QED BY <1>3, <2>3, <2>4, <2>5, <2>6 DEF CallbackFindLink, FlowDone
<1>4. CASE CallbackLoadLinked(f) \/ CallbackIssue(f)
  BY <1>4, IssueKeeps DEF CallbackLoadLinked, CallbackIssue
<1>5. CASE CallbackLoadAsker(f)
  <2> DEFINE t == [flow[f] EXCEPT !.pc = "link"]
  <2>1. flow[f].pc = "load_asker" /\ UNCHANGED <<vars, links, states>>
    BY <1>5 DEF CallbackLoadAsker
  <2>2. CASE Move(f, NoFlow)
    BY <1>0, <2>1, <2>2, NoFlowBacked, FlowMoves
  <2>3. CASE Move(f, t)
    <3>1. t \in FlowState
      BY <1>0, FlowMoved
    <3>2. t.pc = "link" /\ t.identity = flow[f].identity /\ t.uid = flow[f].uid
      BY <1>0 DEF FlowState
    <3> HIDE DEF t
    <3>3. Backed(t)
      BY <1>0, <2>1, <3>2 DEF Backed, UnlinkPC
    <3> QED BY <1>0, <2>1, <2>3, <3>1, <3>3, FlowMoves
  <2> QED BY <1>5, <2>2, <2>3 DEF CallbackLoadAsker, FlowDone
<1>6. CASE CallbackFindEmail(f)
  <2>1. flow[f].pc = "find_email" /\ UNCHANGED <<vars, links, states>>
    BY <1>6 DEF CallbackFindEmail
  <2>2. ASSUME NEW u \in UserId, Move(f, [flow[f] EXCEPT !.pc = "link", !.uid = u])
        PROVE  OAuthInv'
    <3> DEFINE t == [flow[f] EXCEPT !.pc = "link", !.uid = u]
    <3>1. t \in FlowState
      BY <1>0, FlowMoved
    <3>2. t.pc = "link" /\ t.identity = flow[f].identity /\ t.uid = u
      BY <1>0 DEF FlowState
    <3>3. Move(f, t)
      BY <2>2
    <3> HIDE DEF t
    <3>4. Backed(t)
      BY <1>0, <2>1, <3>2 DEF Backed, UnlinkPC
    <3> QED BY <1>0, <2>1, <3>1, <3>3, <3>4, FlowMoves
  <2>3. CASE Move(f, [flow[f] EXCEPT !.pc = "create"])
    <3> DEFINE t == [flow[f] EXCEPT !.pc = "create"]
    <3>1. t \in FlowState
      BY <1>0, FlowMoved
    <3>2. t.pc = "create" /\ t.identity = flow[f].identity /\ t.email = flow[f].email
      BY <1>0 DEF FlowState
    <3>3. Move(f, t)
      BY <2>3
    <3> HIDE DEF t
    <3>4. Backed(t)
      BY <1>0, <2>1, <3>2 DEF Backed, UnlinkPC
    <3> QED BY <1>0, <2>1, <3>1, <3>3, <3>4, FlowMoves
  <2> QED BY <1>6, <2>2, <2>3 DEF CallbackFindEmail
<1>7. CASE CallbackCreate(f)
  <2> DEFINE row == [email |-> flow[f].email, password |-> NoHash,
                     active |-> TRUE, verified |-> TRUE, age |-> "new"]
  <2>1. /\ flow[f].pc = "create" /\ flow[f].email \in Email /\ flow[f].identity \in Identity
        /\ UNCHANGED <<tokens, usedKeys, req, sweep, history, scope, links, states>>
    BY <1>0, <1>7 DEF CallbackCreate, Backed
  <2>2. CASE UNCHANGED users /\ Move(f, NoFlow)
    BY <1>0, <2>1, <2>2, NoFlowBacked, FlowMoves DEF vars
  <2>3. ASSUME NEW u \in UserId, users[u] = NoUser, ~EmailTaken(flow[f].email),
               users' = [users EXCEPT ![u] = row],
               Move(f, [flow[f] EXCEPT !.pc = "link", !.uid = u])
        PROVE  OAuthInv'
    <3>1. row \in User /\ row.email = flow[f].email /\ row.age = "new" /\ row.password = NoHash
      BY <2>1 DEF User, Hash
    <3> HIDE DEF row
    <3>2. Inv'
      <4>1. Undisturbed
        BY <2>1, <2>3, <3>1, RowInserted DEF OAuthInv, history
      <4>2. TypeOK'
        BY <2>1, <2>3, <3>1 DEF OAuthInv, Inv, TypeOK, history
      <4> QED BY <2>1, <4>1, <4>2, FrameNoRequest DEF OAuthInv
    <3>3. \A v \in UserId : users[v] # NoUser => users'[v] = users[v]
      BY <2>3 DEF OAuthInv, Inv, TypeOK
    <3>4. NoDanglingLink'
      <4>1. \A i \in Identity : links[i] # "none" =>
              links[i] \in UserId /\ Present(links[i]) /\ users[links[i]] # NoUser
        BY <1>0, Rows DEF OAuthInv, Inv, NoDanglingLink
      <4> QED BY <2>1, <3>3, <4>1 DEF NoDanglingLink, Present
    <3>5. ASSUME NEW s \in FlowState, Backed(s) PROVE Backed(s)'
      BY <2>1, <3>3, <3>5 DEF Backed, UnlinkPC, TwoLinks, LinksOf
    <3>6. PICK t \in FlowState : /\ t = [flow[f] EXCEPT !.pc = "link", !.uid = u]
                                 /\ t.pc = "link" /\ t.uid = u
                                 /\ t.identity = flow[f].identity
      <4> DEFINE t == [flow[f] EXCEPT !.pc = "link", !.uid = u]
      <4>1. t \in FlowState
        BY <1>0, FlowMoved
      <4>2. t.pc = "link" /\ t.uid = u /\ t.identity = flow[f].identity
        BY <1>0 DEF FlowState
      <4> QED BY <4>1, <4>2
    <3>7. Backed(t)
      BY <2>1, <3>6 DEF Backed, UnlinkPC
    <3> QED BY <1>0, <2>1, <2>3, <3>2, <3>4, <3>5, <3>6, <3>7, FlowFrame
  <2> QED BY <1>7, <2>2, <2>3 DEF CallbackCreate, FlowDone
<1>8. CASE CallbackLink(f)
  <2> DEFINE i == flow[f].identity
             u == flow[f].uid
  <2>1. /\ flow[f].pc = "link" /\ i \in Identity /\ u \in UserId
        /\ UNCHANGED <<vars, states>>
    BY <1>0, <1>8 DEF CallbackLink, Backed
  <2>2. CASE UNCHANGED links /\ Move(f, NoFlow)
    BY <1>0, <2>1, <2>2, NoFlowBacked, FlowMoves
  <2>3. CASE /\ Present(u) /\ links[i] = "none" /\ links' = [links EXCEPT ![i] = u]
             /\ Move(f, [flow[f] EXCEPT !.pc = "issue"])
    <3>1. Inv'
      BY <2>1, InvNext DEF OAuthInv
    <3>2. PICK t \in FlowState : /\ t = [flow[f] EXCEPT !.pc = "issue"]
                                 /\ t.pc = "issue" /\ t.uid = u
      <4> DEFINE t == [flow[f] EXCEPT !.pc = "issue"]
      <4>1. t \in FlowState
        BY <1>0, FlowMoved
      <4>2. t.pc = "issue" /\ t.uid = u
        BY <1>0 DEF FlowState
      <4> QED BY <4>1, <4>2
    <3>3. Backed(t)
      BY <2>1, <3>2 DEF Backed, UnlinkPC
    <3> HIDE DEF i, u
    <3>4. /\ links' \in [Identity -> UserId \cup {"none"}] /\ links'[i] = u
          /\ \A k \in Identity : k # i => links'[k] = links[k]
      BY <1>0, <2>1, <2>3
    <3>5. NoDanglingLink'
      BY <2>1, <2>3, <3>4 DEF OAuthInv, NoDanglingLink, Present, vars
    <3>6. ASSUME NEW s \in FlowState, Backed(s) PROVE Backed(s)'
      <4>1. /\ s.pc \in UnlinkPC => s.uid \in UserId /\ s.uid # "none"
            /\ s.identity # "none" => s.identity \in Identity
            /\ UNCHANGED users
        BY <2>1, <3>6, NoneAssumption DEF Backed, FlowState, vars
      <4>2. users[u] # Deleted
        BY <2>1, <2>3, Rows DEF OAuthInv, Inv
      <4>3. (s.pc \in {"unlink_count", "unlink_delete"} /\ s.identity # "none")
              => links'[s.identity] = s.uid \/ users[s.uid] = Deleted
        BY <2>3, <3>4, <3>6, <4>1 DEF Backed, UnlinkPC
      <4>4. ASSUME s.pc = "unlink_delete", s.identity \in LinksOf(s.uid)',
                   users[s.uid].password = NoHash, ~s.overtaken
            PROVE  TwoLinks(s.uid)'
        <5>1. s.identity \in Identity /\ links'[s.identity] = s.uid
          BY <4>4 DEF LinksOf
        <5>2. s.identity # "none"
          BY <5>1, OAuthNoneAssumption
        <5>3. s.identity # i
          BY <2>3, <3>4, <3>6, <4>1, <4>2, <4>4, <5>1, <5>2 DEF Backed, UnlinkPC
        <5>4. TwoLinks(s.uid)
          BY <3>4, <3>6, <4>4, <5>1, <5>3 DEF Backed, LinksOf
        <5>5. \A k \in Identity : links[k] = s.uid => links'[k] = s.uid
          BY <2>3, <3>4, <4>1, <4>4 DEF UnlinkPC
        <5> QED BY <5>4, <5>5 DEF TwoLinks, LinksOf
      <4> QED BY <3>6, <4>1, <4>3, <4>4 DEF Backed, UnlinkPC
    <3> QED BY <1>0, <2>1, <2>3, <3>1, <3>2, <3>3, <3>4, <3>5, <3>6, FlowFrame
  <2> QED BY <1>8, <2>2, <2>3 DEF CallbackLink, FlowDone
<1> QED BY <1>1, <1>2, <1>3, <1>4, <1>5, <1>6, <1>7, <1>8 DEF Callback

\* unlink_provider.
LEMMA UnlinkKeeps ==
  ASSUME OAuthInv, NEW f \in Flow, Unlink(f)
  PROVE  OAuthInv'
<1>0. /\ flow[f] \in FlowState /\ Backed(flow[f])
      /\ states \in [State -> UserId \cup {"login", "free", "gone"}]
      /\ links \in [Identity -> UserId \cup {"none"}]
  BY DEF OAuthInv, OAuthTypeOK
<1>1. ASSUME NEW j \in Jti, NEW u \in UserId, UnlinkAuth(f, j, u) PROVE OAuthInv'
  <2> DEFINE t == [NoFlow EXCEPT !.pc = "unlink_find", !.uid = u,
                                 !.password = users[u].password]
  <2>1. Present(u) /\ Move(f, t) /\ UNCHANGED <<vars, links, states>>
    BY <1>1 DEF UnlinkAuth, get_current_user
  <2>2. users[u] # NoUser /\ users[u].password \in Hash
    BY <2>1, Rows DEF OAuthInv, Inv, User
  <2>3. /\ t \in FlowState /\ t.pc = "unlink_find" /\ t.uid = u
        /\ t.password = users[u].password
    BY <2>2 DEF NoFlow, FlowState
  <2> HIDE DEF t
  <2>4. Backed(t)
    BY <2>2, <2>3 DEF Backed, UnlinkPC
  <2> QED BY <1>0, <2>1, <2>3, <2>4, FlowMoves
<1>2. CASE UnlinkFind(f)
  <2>1. flow[f].pc = "unlink_find" /\ UNCHANGED <<vars, links, states>>
    BY <1>2 DEF UnlinkFind
  <2>2. CASE Move(f, NoFlow)
    BY <1>0, <2>1, <2>2, NoFlowBacked, FlowMoves
  <2>3. ASSUME NEW i \in LinksOf(flow[f].uid),
               Move(f, [flow[f] EXCEPT !.pc = "unlink_count", !.identity = i])
        PROVE  OAuthInv'
    <3> DEFINE t == [flow[f] EXCEPT !.pc = "unlink_count", !.identity = i]
    <3>1. i \in Identity /\ links[i] = flow[f].uid
      BY DEF LinksOf
    <3>2. t \in FlowState
      BY <1>0, <3>1, FlowMoved
    <3>3. /\ t.pc = "unlink_count" /\ t.identity = i /\ t.uid = flow[f].uid
          /\ t.password = flow[f].password
      BY <1>0 DEF FlowState
    <3>4. Move(f, t)
      BY <2>3
    <3> HIDE DEF t
    <3>5. Backed(t)
      BY <1>0, <2>1, <3>1, <3>3 DEF Backed, UnlinkPC
    <3> QED BY <1>0, <2>1, <3>2, <3>4, <3>5, FlowMoves
  <2> QED BY <1>2, <2>2, <2>3 DEF UnlinkFind, FlowDone
<1>3. CASE UnlinkCount(f)
  <2> DEFINE t == [flow[f] EXCEPT !.pc = "unlink_delete"]
             u == flow[f].uid
  <2>1. flow[f].pc = "unlink_count" /\ UNCHANGED <<vars, links, states>>
    BY <1>3 DEF UnlinkCount
  <2>2. CASE Move(f, NoFlow)
    BY <1>0, <2>1, <2>2, NoFlowBacked, FlowMoves
  <2>3. CASE /\ Move(f, t)
             /\ ~(flow[f].password = NoHash /\ Cardinality(LinksOf(u)) <= 1)
    <3>1. t \in FlowState
      BY <1>0, FlowMoved
    <3>2. /\ t.pc = "unlink_delete" /\ t.identity = flow[f].identity /\ t.uid = u
          /\ t.password = flow[f].password
      BY <1>0 DEF FlowState
    <3> HIDE DEF t
    <3>3. /\ u \in UserId /\ users[u] # NoUser
          /\ flow[f].password # NoHash => users[u] = Deleted \/ users[u].password # NoHash
          /\ flow[f].identity # "none" => links[flow[f].identity] = u \/ users[u] = Deleted
      BY <1>0, <2>1 DEF Backed, UnlinkPC
    <3>4. ASSUME flow[f].identity \in LinksOf(u), users[u].password = NoHash
          PROVE  TwoLinks(u)
      <4>1. links[flow[f].identity] = u /\ flow[f].identity \in Identity
        BY <3>4 DEF LinksOf
      <4>2. Present(u) /\ users[u] # Deleted
        BY <3>3, <4>1, NoneAssumption, Rows DEF OAuthInv, NoDanglingLink, Inv
      <4>3. ~(Cardinality(LinksOf(u)) <= 1)
        BY <2>3, <3>3, <3>4, <4>2
      <4>4. LinksOf(u) \in SUBSET Identity
        BY DEF LinksOf
      <4> QED BY <4>3, <4>4, MoreThanOne DEF TwoLinks
    <3> HIDE DEF u
    <3>5. Backed(t)
      BY <3>2, <3>3, <3>4 DEF Backed, UnlinkPC
    <3> QED BY <1>0, <2>1, <2>3, <3>1, <3>5, FlowMoves
  <2> QED BY <1>3, <2>2, <2>3 DEF UnlinkCount, FlowDone
<1>4. CASE UnlinkDelete(f)
  <2> DEFINE i == flow[f].identity
             u == flow[f].uid
             holds(g) == flow[g].identity = i /\ flow[g].pc \in {"unlink_count", "unlink_delete"}
             counted(g) == flow[g].uid = u /\ flow[g].pc = "unlink_delete"
             over(g) == flow[g].overtaken \/ (counted(g) /\ links' # links)
             next(g) == [flow[g] EXCEPT !.identity = IF holds(g) THEN "none" ELSE @,
                                        !.overtaken = over(g)]
  <2>1. /\ flow[f].pc = "unlink_delete" /\ u \in UserId /\ UNCHANGED <<vars, states>>
        /\ links' = IF i # "none" /\ links[i] = u THEN [links EXCEPT ![i] = "none"] ELSE links
    BY <1>0, <1>4 DEF UnlinkDelete, Backed, UnlinkPC
  <2>2. flow' = [g \in Flow |-> IF g = f THEN NoFlow ELSE next(g)]
    BY <1>4 DEF UnlinkDelete
  <2>3. i \in Identity \cup {"none"}
    BY <1>0 DEF FlowState
  <2>4. Inv' /\ UNCHANGED users
    BY <2>1, InvNext DEF OAuthInv, vars
  <2>5. ASSUME NEW g \in Flow
        PROVE  /\ next(g) \in FlowState
               /\ next(g).pc = flow[g].pc /\ next(g).uid = flow[g].uid
               /\ next(g).state = flow[g].state /\ next(g).purpose = flow[g].purpose
               /\ next(g).email = flow[g].email /\ next(g).password = flow[g].password
               /\ next(g).identity = IF holds(g) THEN "none" ELSE flow[g].identity
               /\ next(g).overtaken = over(g)
    <3>1. flow[g] \in FlowState
      BY DEF OAuthInv, OAuthTypeOK
    <3>2. over(g) \in BOOLEAN
      OBVIOUS
    <3>3. (IF holds(g) THEN "none" ELSE flow[g].identity) \in Identity \cup {"none"}
      BY <3>1 DEF FlowState
    <3> HIDE DEF over, holds
    <3> QED BY <3>1, <3>2, <3>3 DEF FlowState
  <2> HIDE DEF next
  <2>6. /\ links' \in [Identity -> UserId \cup {"none"}]
        /\ \A k \in Identity : k # i => links'[k] = links[k]
        /\ \A k \in Identity : links'[k] # links[k] => links[k] = u /\ links'[k] = "none"
    BY <1>0, <2>1, <2>3
  <2>7. OAuthTypeOK'
    <3>1. flow' \in [Flow -> FlowState]
      BY <2>2, <2>5, NoFlowBacked
    <3> QED BY <1>0, <2>1, <2>4, <2>6, <3>1 DEF OAuthTypeOK, Inv
  <2>8. NoDanglingLink'
    BY <2>4, <2>6 DEF OAuthInv, NoDanglingLink, Present
  <2>9. ASSUME NEW g \in Flow PROVE Backed(flow[g])'
    <3>1. CASE g = f
      BY <2>2, <3>1, NoFlowBacked
    <3>2. CASE g # f
      <4>1. PICK s \in FlowState : s = flow[g] /\ Backed(s)
        BY DEF OAuthInv, OAuthTypeOK
      <4>2. PICK t \in FlowState : t = next(g) /\ t = flow'[g]
        BY <2>2, <2>5, <3>2
      <4>3. /\ t.pc = s.pc /\ t.uid = s.uid /\ t.state = s.state /\ t.purpose = s.purpose
            /\ t.email = s.email /\ t.password = s.password
            /\ t.identity = IF holds(g) THEN "none" ELSE s.identity
            /\ t.overtaken = over(g)
        BY <2>5, <4>1, <4>2
      <4>4. holds(g) => s.pc \in {"unlink_count", "unlink_delete"}
        BY <4>1
      <4>5. ASSUME t.pc \in {"unlink_count", "unlink_delete"}, t.identity # "none"
            PROVE  links'[t.identity] = t.uid \/ users[t.uid] = Deleted
        <5>1. ~holds(g) /\ s.identity # i /\ t.identity = s.identity
          BY <4>1, <4>3, <4>5
        <5>2. t.identity \in Identity
          BY <4>5 DEF FlowState
        <5> QED BY <2>6, <4>1, <4>3, <4>5, <5>1, <5>2 DEF Backed
      <4>6. ASSUME t.pc = "unlink_delete", t.identity \in LinksOf(t.uid)',
                   users[t.uid].password = NoHash, ~t.overtaken
            PROVE  TwoLinks(t.uid)'
        <5>1. t.identity \in Identity /\ links'[t.identity] = t.uid
          BY <4>6 DEF LinksOf
        <5>2. t.identity # "none" /\ t.identity = s.identity /\ t.uid # "none"
          BY <4>1, <4>3, <4>6, <5>1, OAuthNoneAssumption, NoneAssumption DEF Backed, UnlinkPC
        <5>3. ~s.overtaken /\ (s.uid = u => links' = links)
          BY <4>1, <4>3, <4>6
        <5>4. s.identity \in LinksOf(s.uid)
          BY <2>6, <4>3, <5>1, <5>2 DEF LinksOf
        <5>5. TwoLinks(s.uid)
          BY <4>1, <4>3, <4>6, <5>3, <5>4 DEF Backed
        <5>6. \A k \in Identity : links[k] = s.uid => links'[k] = s.uid
          BY <2>6, <5>3
        <5> QED BY <4>3, <5>5, <5>6 DEF TwoLinks, LinksOf
      <4> HIDE DEF holds, over
      <4>7. Backed(t)'
        BY <2>4, <4>1, <4>3, <4>4, <4>5, <4>6 DEF Backed, UnlinkPC
      <4> QED BY <4>2, <4>7 DEF Backed, TwoLinks, LinksOf
    <3> QED BY <3>1, <3>2
  <2> QED BY <2>4, <2>7, <2>8, <2>9 DEF OAuthInv
<1> QED BY <1>1, <1>2, <1>3, <1>4 DEF Unlink

\* Every step of the composition preserves its invariant.
LEMMA OAuthInvNext == OAuthInv /\ [OAuthNext]_allVars => OAuthInv'
<1> SUFFICES ASSUME OAuthInv, [OAuthNext]_allVars PROVE OAuthInv'
  OBVIOUS
<1>1. ASSUME NEW f \in Flow, FlowCrash(f) PROVE OAuthInv'
  BY <1>1, NoFlowBacked, FlowMoves DEF FlowCrash, FlowDone, OAuthInv, OAuthTypeOK
<1>2. CASE UNCHANGED allVars
  <2>1. Inv' /\ UNCHANGED <<vars, links, states, flow>>
    BY <1>2, InvNext DEF OAuthInv, allVars, oauthVars
  <2>2. OAuthTypeOK' /\ NoDanglingLink'
    BY <2>1 DEF OAuthInv, OAuthTypeOK, Inv, NoDanglingLink, Present, vars
  <2>3. \A f \in Flow : Backed(flow[f])'
    BY <2>1 DEF OAuthInv, Backed, TwoLinks, LinksOf, vars
  <2> QED BY <2>1, <2>2, <2>3 DEF OAuthInv
<1> QED BY <1>1, <1>2, AccountStepKeeps, StatesKeep, CallbackKeeps, UnlinkKeeps DEF OAuthNext

\* Before any callback or unlink.
LEMMA OAuthInvInit == OAuthInit => OAuthInv
<1> SUFFICES ASSUME OAuthInit PROVE OAuthInv
  OBVIOUS
<1>1. Inv
  BY InvInit DEF OAuthInit
<1>2. OAuthTypeOK /\ NoDanglingLink
  BY <1>1, NoFlowBacked DEF OAuthInit, OAuthTypeOK, NoDanglingLink, Inv
<1>3. \A f \in Flow : Backed(flow[f])
  BY NoFlowBacked DEF OAuthInit
<1> QED BY <1>1, <1>2, <1>3 DEF OAuthInv

\* The invariant of accounts, callbacks and unlinks holds throughout.
THEOREM OAuthInvariance == OAuthSpec => []OAuthInv
  BY OAuthInvInit, OAuthInvNext, PTL DEF OAuthSpec

\* The state of links, states and flows stays well formed.
THEOREM OAuthTypeCorrect == OAuthSpec => []OAuthTypeOK
  BY OAuthInvariance, PTL DEF OAuthInv

\* With callbacks that create accounts, too, no address is had twice.
THEOREM OAuthAddressesAreUnique == OAuthSpec => []EmailUnique
  BY OAuthInvariance, PTL DEF OAuthInv, Inv

\* No link is left to an account that the cleanup has deleted.
THEOREM LinksAreBacked == OAuthSpec => []NoDanglingLink
  BY OAuthInvariance, PTL DEF OAuthInv

\* A session names the account it was made for while its address is held.
THEOREM SessionsNameHolder == OAuthSpec => []SessionNamesHolder
<1>1. OAuthInv => SessionNamesHolder
  <2> SUFFICES ASSUME OAuthInv, NEW j \in Jti, tokens[j].type = "session" PROVE Vouched(j) /\ tokens[j] # NoToken
    BY DEF SessionNamesHolder, Vouched
  <2> QED BY DEF OAuthInv, Inv, NoToken
<1> QED BY <1>1, OAuthInvariance, PTL

\* An unlink that is not overtaken by another leaves a way to sign in.
THEOREM SignInIsLeft == OAuthSpec => []UnlinkLeavesSignIn
<1>1. OAuthInv => UnlinkLeavesSignIn
  <2> SUFFICES ASSUME OAuthInv, NEW f \in Flow,
                      flow[f].pc = "unlink_delete", flow[f].identity \in LinksOf(flow[f].uid),
                      users[flow[f].uid].password = NoHash, ~flow[f].overtaken
               PROVE  Cardinality(LinksOf(flow[f].uid)) > 1
    BY DEF UnlinkLeavesSignIn
  <2>1. TwoLinks(flow[f].uid)
    BY DEF OAuthInv, Backed
  <2>2. LinksOf(flow[f].uid) \in SUBSET Identity
    BY DEF LinksOf
  <2> QED BY <2>1, <2>2, MoreThanOne DEF TwoLinks
<1> QED BY <1>1, OAuthInvariance, PTL

\* No step moves the link of an identity from one account to another.
THEOREM LinksDoNotMove == OAuthSpec => IdentityNeverMoves
<1>1. OAuthInv /\ [OAuthNext]_allVars =>
        [\A i \in Identity : links[i] # "none" => links'[i] \in {links[i], "none"}]_allVars
  <2> SUFFICES ASSUME OAuthInv, OAuthNext, NEW i \in Identity, links[i] # "none"
               PROVE  links'[i] \in {links[i], "none"}
    OBVIOUS
  <2>0. links \in [Identity -> UserId \cup {"none"}]
    BY DEF OAuthInv, OAuthTypeOK
  <2>1. CASE UNCHANGED links
    BY <2>1
  <2>2. CASE AccountStep
    BY <2>2 DEF AccountStep, Cascade
  <2>3. ASSUME NEW f \in Flow, CallbackLink(f) PROVE links'[i] \in {links[i], "none"}
    BY <2>0, <2>3 DEF CallbackLink
  <2>4. ASSUME NEW f \in Flow, UnlinkDelete(f) PROVE links'[i] \in {links[i], "none"}
    BY <2>0, <2>4 DEF UnlinkDelete
  <2>5. ASSUME NEW f \in Flow, Callback(f) PROVE links'[i] \in {links[i], "none"}
    BY <2>1, <2>3, <2>5 DEF Callback, CallbackGetState, CallbackDeleteState,
       CallbackFindLink, CallbackLoadLinked, CallbackLoadAsker, CallbackFindEmail,
       CallbackCreate, CallbackIssue, IssueSession
  <2>6. ASSUME NEW f \in Flow, Unlink(f) PROVE links'[i] \in {links[i], "none"}
    BY <2>1, <2>4, <2>6 DEF Unlink, UnlinkAuth, UnlinkFind, UnlinkCount
  <2> QED BY <2>1, <2>2, <2>5, <2>6 DEF OAuthNext, OAuthLogin, StateExpires, OAuthLink, FlowCrash
<1> QED BY <1>1, OAuthInvariance, PTL DEF OAuthSpec, IdentityNeverMoves
=============================================================================
