------------------------------- MODULE OAuth -------------------------------
(***************************************************************************)
(* Login, sign-up, linking and unlinking through an OAuth provider         *)
(* (app/api/oauth.py), composed with the accounts of module Accounts: the  *)
(* handlers here create accounts and sessions, and the cleanup and the     *)
(* /users/me endpoints there change the rows these handlers have read.     *)
(*                                                                         *)
(* An identity is a provider and a user id at that provider.  What the     *)
(* provider answers, an identity with or without an e-mail address in any  *)
(* spelling, is an input.  A state parameter does not name its provider,   *)
(* so providers need not be told apart.                                    *)
(***************************************************************************)
EXTENDS Accounts, FiniteSets

CONSTANTS
  Flow,         \* slots of callback and unlink requests
  Identity,
  State         \* values of secrets.token_urlsafe, never used twice

ASSUME OAuthNoneAssumption ==
  /\ "none" \notin Identity /\ "none" \notin State
  /\ UserId \cap {"login", "free", "gone"} = {}

ASSUME IdentityAssumption == IsFiniteSet(Identity)

VARIABLES
  links,        \* table oauth_accounts: the account an identity is linked to
  states,       \* Redis keys oauth:state:<state>: "free" not made yet, "gone"
                \* deleted or expired, "login", or the account that is linking
  flow          \* what each slot is doing

oauthVars == <<links, states, flow>>
allVars == <<vars, oauthVars>>

\* purpose: the value of the state; uid: the row worked on; password: as loaded;
\* overtaken (history): since this unlink counted, another has deleted a link of
\* the account.
FlowState == [pc : {"idle", "delete_state", "find_link", "load_linked", "load_asker",
                    "find_email", "create", "link", "issue",
                    "unlink_find", "unlink_count", "unlink_delete"},
              state : State \cup {"none"}, purpose : UserId \cup {"login", "none"},
              identity : Identity \cup {"none"}, email : Email \cup {"none"},
              uid : UserId \cup {"none"}, password : Hash,
              overtaken : BOOLEAN]

NoFlow == [pc |-> "idle", state |-> "none", purpose |-> "none", identity |-> "none",
           email |-> "none", uid |-> "none", password |-> NoHash,
           overtaken |-> FALSE]

Move(f, s) == flow' = [flow EXCEPT ![f] = s]

FlowDone(f) == Move(f, NoFlow)

LinksOf(u) == {i \in Identity : links[i] = u}

-----------------------------------------------------------------------------
(* oauth_login, oauth_link: the state is stored, the browser redirected *)

OAuthLogin(s) ==
  /\ states[s] = "free"
  /\ states' = [states EXCEPT ![s] = "login"]
  /\ UNCHANGED <<vars, links, flow>>

OAuthLink(j, u, s) ==
  /\ get_current_user(j, u)
  /\ states[s] = "free"
  /\ states' = [states EXCEPT ![s] = u]
  /\ UNCHANGED <<vars, links, flow>>

\* Ten minutes pass.
StateExpires(s) ==
  /\ states[s] \notin {"free", "gone"}
  /\ states' = [states EXCEPT ![s] = "gone"]
  /\ UNCHANGED <<vars, links, flow>>

-----------------------------------------------------------------------------
(* oauth_callback *)

CallbackGetState(f, s) ==
  /\ flow[f].pc = "idle"
  /\ states[s] \notin {"free", "gone"}
  /\ Move(f, [NoFlow EXCEPT !.pc = "delete_state", !.state = s, !.purpose = states[s]])
  /\ UNCHANGED <<vars, links, states>>

CallbackDeleteState(f) ==
  /\ flow[f].pc = "delete_state"
  /\ states' = [states EXCEPT ![flow[f].state] = "gone"]
  /\ Move(f, [flow[f] EXCEPT !.pc = "find_link"])
  /\ UNCHANGED <<vars, links>>

\* The provider names the identity and perhaps an address; its link is looked up.
CallbackFindLink(f, i, e) ==
  LET asker == flow[f].purpose
      at(pc, u) == Move(f, [flow[f] EXCEPT !.pc = pc, !.identity = i, !.email = e,
                                           !.uid = u]) IN
  /\ flow[f].pc = "find_link"
  /\ \/ asker = "login" /\ links[i] # "none" /\ at("load_linked", links[i])
     \/ asker = "login" /\ links[i] = "none" /\ e # "none" /\ at("find_email", "none")
     \/ asker = "login" /\ links[i] = "none" /\ e = "none" /\ FlowDone(f)
     \/ asker # "login" /\ links[i] = asker /\ at("load_linked", asker)
     \/ asker # "login" /\ links[i] = "none" /\ at("load_asker", asker)
     \/ asker # "login" /\ links[i] \notin {asker, "none"} /\ FlowDone(f)
  /\ UNCHANGED <<vars, links, states>>

\* Only a login asks for an active account.
MayHaveSession(f) ==
  LET u == flow[f].uid IN
  Present(u) /\ (flow[f].purpose = "login" => users[u].active)

\* The session carries the address the row has now.
IssueSession(f) ==
  /\ IF MayHaveSession(f)
     THEN IssueToken("session", users[flow[f].uid].email, flow[f].uid)
     ELSE UNCHANGED tokens
  /\ FlowDone(f)
  /\ UNCHANGED <<users, usedKeys, req, sweep, history, scope, links, states>>

CallbackLoadLinked(f) == flow[f].pc = "load_linked" /\ IssueSession(f)

CallbackLoadAsker(f) ==
  /\ flow[f].pc = "load_asker"
  /\ IF Present(flow[f].uid) THEN Move(f, [flow[f] EXCEPT !.pc = "link"]) ELSE FlowDone(f)
  /\ UNCHANGED <<vars, links, states>>

CallbackFindEmail(f) ==
  /\ flow[f].pc = "find_email"
  /\ \/ \E u \in UserId : /\ Present(u) /\ users[u].email = flow[f].email
                          /\ Move(f, [flow[f] EXCEPT !.pc = "link", !.uid = u])
     \/ ~EmailTaken(flow[f].email) /\ Move(f, [flow[f] EXCEPT !.pc = "create"])
  /\ UNCHANGED <<vars, links, states>>

\* Mutated form: users.email has no unique constraint.
CallbackCreate_NotUnique(f) ==
  /\ flow[f].pc = "create"
  /\ \E u \in UserId :
       /\ users[u] = NoUser
       /\ users' = [users EXCEPT ![u] = [email |-> flow[f].email, password |-> NoHash,
                                         active |-> TRUE, verified |-> TRUE, age |-> "new"]]
       /\ Move(f, [flow[f] EXCEPT !.pc = "link", !.uid = u])
  /\ UNCHANGED <<tokens, usedKeys, req, sweep, history, scope, links, states>>

\* The new account is committed before its link is; its address is stored as
\* the provider spells it.
CallbackCreate(f) ==
  /\ flow[f].pc = "create"
  /\ \/ EmailTaken(flow[f].email) /\ FlowDone(f) /\ UNCHANGED users
     \/ /\ ~EmailTaken(flow[f].email)
        /\ \E u \in UserId :
             /\ users[u] = NoUser
             /\ users' = [users EXCEPT ![u] =
                            [email |-> flow[f].email, password |-> NoHash,
                             active |-> TRUE, verified |-> TRUE, age |-> "new"]]
             /\ Move(f, [flow[f] EXCEPT !.pc = "link", !.uid = u])
  /\ UNCHANGED <<tokens, usedKeys, req, sweep, history, scope, links, states>>

\* Mutated form: a link that another callback has made meanwhile is overwritten.
CallbackLink_Upsert(f) ==
  /\ flow[f].pc = "link"
  /\ IF Present(flow[f].uid)
     THEN /\ links' = [links EXCEPT ![flow[f].identity] = flow[f].uid]
          /\ Move(f, [flow[f] EXCEPT !.pc = "issue"])
     ELSE FlowDone(f) /\ UNCHANGED links
  /\ UNCHANGED <<vars, states>>

\* Mutated form: user_id is not a foreign key.
CallbackLink_NoForeignKey(f) ==
  /\ flow[f].pc = "link"
  /\ IF links[flow[f].identity] = "none"
     THEN /\ links' = [links EXCEPT ![flow[f].identity] = flow[f].uid]
          /\ Move(f, [flow[f] EXCEPT !.pc = "issue"])
     ELSE FlowDone(f) /\ UNCHANGED links
  /\ UNCHANGED <<vars, states>>

\* INSERT: the account must still be there (foreign key), the identity not
\* be linked yet (uq_oauth_provider_account).
CallbackLink(f) ==
  /\ flow[f].pc = "link"
  /\ IF Present(flow[f].uid) /\ links[flow[f].identity] = "none"
     THEN /\ links' = [links EXCEPT ![flow[f].identity] = flow[f].uid]
          /\ Move(f, [flow[f] EXCEPT !.pc = "issue"])
     ELSE FlowDone(f) /\ UNCHANGED links
  /\ UNCHANGED <<vars, states>>

\* Mutated form: the session carries the address the provider gave.
CallbackIssue_ProviderEmail(f) ==
  /\ flow[f].pc = "issue"
  /\ IF MayHaveSession(f) /\ flow[f].email # "none"
     THEN IssueToken("session", flow[f].email, flow[f].uid)
     ELSE UNCHANGED tokens
  /\ FlowDone(f)
  /\ UNCHANGED <<users, usedKeys, req, sweep, history, scope, links, states>>

\* The commit has expired the row, so it is read again.
CallbackIssue(f) == flow[f].pc = "issue" /\ IssueSession(f)

-----------------------------------------------------------------------------
(* unlink_provider *)

UnlinkAuth(f, j, u) ==
  /\ flow[f].pc = "idle"
  /\ get_current_user(j, u)
  /\ Move(f, [NoFlow EXCEPT !.pc = "unlink_find", !.uid = u, !.password = users[u].password])
  /\ UNCHANGED <<vars, links, states>>

UnlinkFind(f) ==
  /\ flow[f].pc = "unlink_find"
  /\ \/ \E i \in LinksOf(flow[f].uid) :
          Move(f, [flow[f] EXCEPT !.pc = "unlink_count", !.identity = i])
     \/ LinksOf(flow[f].uid) = {} /\ FlowDone(f)
  /\ UNCHANGED <<vars, links, states>>

\* Mutated form: the link that is about to go is counted as one that stays.
UnlinkCount_OffByOne(f) ==
  /\ flow[f].pc = "unlink_count"
  /\ IF flow[f].password = NoHash /\ Cardinality(LinksOf(flow[f].uid)) < 1
     THEN FlowDone(f)
     ELSE Move(f, [flow[f] EXCEPT !.pc = "unlink_delete"])
  /\ UNCHANGED <<vars, links, states>>

UnlinkCount(f) ==
  /\ flow[f].pc = "unlink_count"
  /\ IF flow[f].password = NoHash /\ Cardinality(LinksOf(flow[f].uid)) <= 1
     THEN FlowDone(f)
     ELSE Move(f, [flow[f] EXCEPT !.pc = "unlink_delete"])
  /\ UNCHANGED <<vars, links, states>>

\* DELETE by the primary key of the row that was found.  Other unlinks that
\* hold the same row hold nothing afterwards, even if the identity is linked
\* again; their DELETE matches no row.
UnlinkDelete(f) ==
  LET i == flow[f].identity
      holds(g) == flow[g].identity = i /\ flow[g].pc \in {"unlink_count", "unlink_delete"}
      counted(g) == flow[g].uid = flow[f].uid /\ flow[g].pc = "unlink_delete"
  IN
  /\ flow[f].pc = "unlink_delete"
  /\ links' = IF i # "none" /\ links[i] = flow[f].uid
              THEN [links EXCEPT ![i] = "none"] ELSE links
  /\ flow' = [g \in Flow |->
                IF g = f THEN NoFlow
                ELSE [flow[g] EXCEPT !.identity = IF holds(g) THEN "none" ELSE @,
                                     !.overtaken = @ \/ (counted(g) /\ links' # links)]]
  /\ UNCHANGED <<vars, states>>

FlowCrash(f) ==
  /\ flow[f].pc # "idle"
  /\ FlowDone(f)
  /\ UNCHANGED <<vars, links, states>>

-----------------------------------------------------------------------------
(* The composition *)

\* Deleting an account deletes its links (ON DELETE CASCADE).
Cascade ==
  links' = [i \in Identity |->
              IF links[i] # "none" /\ users'[links[i]] = Deleted THEN "none" ELSE links[i]]

\* No flow lasts the seven days after which an account is stale.
AccountStep ==
  /\ Next /\ Cascade /\ UNCHANGED <<states, flow>>
  /\ \A f \in Flow : flow[f].uid # "none" =>
       (users'[flow[f].uid].age = "stale" => users[flow[f].uid].age = "stale")

Callback(f) ==
  \/ \E s \in State : CallbackGetState(f, s)
  \/ CallbackDeleteState(f)
  \/ \E i \in Identity, e \in scope.email \cup {"none"} : CallbackFindLink(f, i, e)
  \/ CallbackLoadLinked(f) \/ CallbackLoadAsker(f) \/ CallbackFindEmail(f)
  \/ CallbackCreate(f) \/ CallbackLink(f) \/ CallbackIssue(f)

Unlink(f) ==
  \/ \E j \in Jti, u \in UserId : UnlinkAuth(f, j, u)
  \/ UnlinkFind(f) \/ UnlinkCount(f) \/ UnlinkDelete(f)

\* Accounts without a password came from a callback, and have their link.
OAuthInit ==
  /\ Init
  /\ links \in [Identity -> UserId \cup {"none"}]
  /\ \A i \in Identity : links[i] # "none" => Present(links[i])
  /\ \A u \in UserId : (Present(u) /\ users[u].password = NoHash) => LinksOf(u) # {}
  /\ states = [s \in State |-> "free"]
  /\ flow = [f \in Flow |-> NoFlow]

OAuthNext ==
  \/ AccountStep
  \/ \E s \in State : \/ OAuthLogin(s) \/ StateExpires(s)
                      \/ \E j \in Jti, u \in UserId : OAuthLink(j, u, s)
  \/ \E f \in Flow : Callback(f) \/ Unlink(f) \/ FlowCrash(f)

OAuthSpec == OAuthInit /\ [][OAuthNext]_allVars

-----------------------------------------------------------------------------
(* Properties *)

OAuthTypeOK ==
  /\ TypeOK
  /\ links \in [Identity -> UserId \cup {"none"}]
  /\ states \in [State -> UserId \cup {"login", "free", "gone"}]
  /\ flow \in [Flow -> FlowState]

\* A callback that found its account, or created it, while the cleanup was
\* deleting it leaves no link to an account that is not there.
NoDanglingLink == \A i \in Identity : links[i] # "none" => Present(links[i])

\* Two callbacks for one identity (the state can be read twice before it is
\* deleted) never move its link from one account to another: the identity has
\* to be unlinked, or the account deleted, in between.
IdentityNeverMoves ==
  [][\A i \in Identity : links[i] # "none" => links'[i] \in {links[i], "none"}]_allVars

\* A session handed out by login_user or oauth_callback carries the address
\* of the account it was made for, as long as nobody gives that address up,
\* whatever renames, unlinks and deletions overlap the callback.
SessionNamesHolder ==
  \A j \in Jti :
    (tokens[j].type = "session" /\ tokens[j].sub \notin released)
      => Present(tokens[j].holder) /\ users[tokens[j].holder].email = tokens[j].sub

\* README, OAuth: an unlink is "rejected if it's the account's only sign-in
\* method and no password is set".  The link that unlink_provider is about to
\* delete is not the last one, whatever resets, callbacks and deletions came in
\* since it loaded the account, unless another unlink of the same account has
\* deleted one since this one counted.
UnlinkLeavesSignIn ==
  \A f \in Flow :
    LET u == flow[f].uid IN
    ( /\ flow[f].pc = "unlink_delete" /\ flow[f].identity \in LinksOf(u)
      /\ users[u].password = NoHash /\ ~flow[f].overtaken )
      => Cardinality(LinksOf(u)) > 1

\* README, OAuth: such accounts "have no password until one is set via the
\* password-reset flow", and unlink_provider's answer, "Set a password first via
\* the password reset flow".  So for an active account without a password there
\* is an address its owner can type, in some spelling, for which forgot_password
\* sends a link.  The code does not meet this: oauth_callback stores the address
\* as the provider spells it, and forgot_password lower-cases what is typed.
PasswordCanBeSet ==
  \A u \in UserId :
    (Present(u) /\ users[u].active /\ users[u].password = NoHash)
      => \E e \in Email : ForgotFinds(e, u)
=============================================================================
