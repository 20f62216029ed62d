--------------------------- MODULE TokenRevocation ---------------------------
(***************************************************************************)
(* JWTs with an expiry (app/auth/jwt.py), the Redis blacklist that revokes *)
(* them (app/services/token_blacklist.py), and the requests that use both: *)
(* login, refresh, logout and every authenticated request.                 *)
(*                                                                         *)
(* Handlers run in a thread pool of several worker processes, so a request *)
(* is a process here and each call it makes to Redis, or to the database,  *)
(* is a step of its own: any other request, the clock, or the death of the *)
(* worker may come between two of them.                                    *)
(*                                                                         *)
(* Time is counted in ticks, TPS ticks to the second, because the code     *)
(* mixes resolutions: "exp" and the JWT library's comparison are whole     *)
(* seconds, datetime.now() and Redis expiry are finer.  The API processes  *)
(* and Redis are taken to share one clock.                                 *)
(***************************************************************************)
EXTENDS Integers

CONSTANTS
  Req,          \* request slots (threads of the API workers)
  Jti,          \* token identifiers; each is issued at most once (uuid4)
  Subject,      \* user e-mail addresses, the "sub" of these tokens
  TPS,          \* ticks per second
  AccessTtl,    \* access_token_expire_minutes, in seconds
  RefreshTtl,   \* refresh_token_expire_days, in seconds
  MaxNow,       \* bound: the clock stops here
  MaxPassed     \* bound: requests started per token

ASSUME TimeAssumption ==
  /\ TPS \in Nat \ {0}
  /\ AccessTtl \in Nat /\ AccessTtl >= 2
  /\ RefreshTtl \in Nat /\ RefreshTtl >= 2
  /\ MaxNow \in Nat /\ MaxPassed \in Nat

ASSUME NoneAssumption == "none" \notin Jti

VARIABLES
  now,          \* the clock
  tokens,       \* the JWTs issued so far, by jti
  blacklist,    \* tick at which the key blacklist:token:<jti> expires; 0: not set
  req,          \* what each request slot is doing
  (* history *)
  revoked,      \* tokens for which a logout has made its blacklist call
  passed        \* how often each token passed the blacklist check

vars == <<now, tokens, blacklist, req, revoked, passed>>

TokenType == {"access", "refresh"}

NoToken == [type |-> "none", sub |-> "none", exp |-> 0]

Token == [type : TokenType, sub : Subject, exp : Nat]

PC == {"idle", "auth_check", "auth_user", "refresh_check", "refresh_user",
       "logout_access", "logout_decode", "logout_refresh"}

Idle == [pc |-> "idle", jti |-> "none", refresh |-> "none", ttl |-> 0,
         after |-> FALSE]

\* `after' is history: the token had been revoked before the request came in.
ReqState == [pc : PC, jti : Jti \cup {"none"}, refresh : Jti \cup {"none"},
             ttl : Nat, after : BOOLEAN]

TypeOK ==
  /\ now \in Nat
  /\ tokens \in [Jti -> Token \cup {NoToken}]
  /\ blacklist \in [Jti -> Nat]
  /\ req \in [Req -> ReqState]
  /\ revoked \in SUBSET Jti
  /\ passed \in [Jti -> Nat]

-----------------------------------------------------------------------------
(* app/auth/jwt.py *)

Issued(j) == tokens[j].type # "none"

Ttl(type) == IF type = "access" THEN AccessTtl ELSE RefreshTtl

\* The encoder writes exp as whole seconds.
create_token(type, s) == [type |-> type, sub |-> s, exp |-> now \div TPS + Ttl(type)]

\* The decoder refuses a token once the current whole second is past exp.
decode_token(j, type) ==
  /\ tokens[j].type = type
  /\ now \div TPS <= tokens[j].exp

\* Mutated form: the result is not clamped at zero.
remaining_ttl_seconds_Unclamped(exp) == (exp * TPS - now) \div TPS

\* Mutated form: the difference is taken for minutes.
remaining_ttl_seconds_Minutes(exp) == (exp * TPS - now) \div (2 * TPS)

remaining_ttl_seconds(exp) ==
  LET left == (exp * TPS - now) \div TPS IN IF left > 0 THEN left ELSE 0

-----------------------------------------------------------------------------
(* app/services/token_blacklist.py *)

blacklist_token(j, ttl) ==
  blacklist' = IF ttl <= 0 THEN blacklist
                           ELSE [blacklist EXCEPT ![j] = now + ttl * TPS]

\* Redis drops a key when its time to live has run out.
is_token_blacklisted(j) == now < blacklist[j]

-----------------------------------------------------------------------------
(* login_user: once the credentials are accepted (module Accounts), an     *)
(* access and a refresh token are made for the user's e-mail address.      *)

Login(s) ==
  /\ \E a, b \in Jti :
       /\ a # b /\ ~Issued(a) /\ ~Issued(b)
       /\ tokens' = [tokens EXCEPT ![a] = create_token("access", s),
                                   ![b] = create_token("refresh", s)]
  /\ UNCHANGED <<now, blacklist, req, revoked, passed>>

-----------------------------------------------------------------------------
(* get_current_user and get_current_user_ws: decode, look at the           *)
(* blacklist, load the user.  A token that does not decode is refused at   *)
(* once and changes nothing.                                               *)

AuthDecode(r, j) ==
  /\ req[r].pc = "idle"
  /\ decode_token(j, "access")
  /\ passed[j] < MaxPassed
  /\ req' = [req EXCEPT ![r] = [Idle EXCEPT !.pc = "auth_check", !.jti = j,
                                            !.after = j \in revoked]]
  /\ UNCHANGED <<now, tokens, blacklist, revoked, passed>>

\* The blacklist check of all three dependencies: it refuses or lets pass.
BlacklistCheck(r, next) ==
  LET j == req[r].jti IN
  /\ IF is_token_blacklisted(j)
     THEN /\ req' = [req EXCEPT ![r] = Idle]
          /\ UNCHANGED passed
     ELSE /\ req' = [req EXCEPT ![r].pc = next]
          /\ passed' = [passed EXCEPT ![j] = @ + 1]
  /\ UNCHANGED <<now, tokens, blacklist, revoked>>

AuthCheck(r) == req[r].pc = "auth_check" /\ BlacklistCheck(r, "auth_user")

\* The user row decides between serving the request and 401/403; either way
\* the tokens and the blacklist are left alone.
AuthUser(r) ==
  /\ req[r].pc = "auth_user"
  /\ req' = [req EXCEPT ![r] = Idle]
  /\ UNCHANGED <<now, tokens, blacklist, revoked, passed>>

-----------------------------------------------------------------------------
(* refresh_access_token *)

RefreshDecode(r, j) ==
  /\ req[r].pc = "idle"
  /\ decode_token(j, "refresh")
  /\ passed[j] < MaxPassed
  /\ req' = [req EXCEPT ![r] = [Idle EXCEPT !.pc = "refresh_check", !.jti = j,
                                            !.after = j \in revoked]]
  /\ UNCHANGED <<now, tokens, blacklist, revoked, passed>>

\* Mutated form: refresh forgets to consult the blacklist.
RefreshCheck_NoBlacklist(r) ==
  /\ req[r].pc = "refresh_check"
  /\ req' = [req EXCEPT ![r].pc = "refresh_user"]
  /\ passed' = [passed EXCEPT ![req[r].jti] = @ + 1]
  /\ UNCHANGED <<now, tokens, blacklist, revoked>>

RefreshCheck(r) ==
  req[r].pc = "refresh_check" /\ BlacklistCheck(r, "refresh_user")

\* A user that is gone or inactive (module Accounts: either may be the case
\* here) gets 401, any other a new access token.
RefreshUser(r) ==
  LET s == tokens[req[r].jti].sub IN
  /\ req[r].pc = "refresh_user"
  /\ \/ UNCHANGED tokens
     \/ \E a \in Jti : /\ ~Issued(a)
                       /\ tokens' = [tokens EXCEPT ![a] = create_token("access", s)]
  /\ req' = [req EXCEPT ![r] = Idle]
  /\ UNCHANGED <<now, blacklist, revoked, passed>>

-----------------------------------------------------------------------------
(* logout: the access token must decode (it may be blacklisted already);   *)
(* a refresh token in the body is revoked too if it decodes as one (any    *)
(* issued token may be sent; one of another type stands for garbage).  Each*)
(* time to live is computed before, and used in, the following Redis SET.  *)

LogoutDecode(r, j, k) ==
  /\ req[r].pc = "idle"
  /\ decode_token(j, "access")
  /\ k \in Jti => Issued(k)
  /\ req' = [req EXCEPT ![r] =
               [Idle EXCEPT !.pc = "logout_access", !.jti = j, !.refresh = k,
                            !.ttl = remaining_ttl_seconds(tokens[j].exp)]]
  /\ UNCHANGED <<now, tokens, blacklist, revoked, passed>>

LogoutAccess(r) ==
  LET j == req[r].jti IN
  /\ req[r].pc = "logout_access"
  /\ blacklist_token(j, req[r].ttl)
  /\ revoked' = revoked \cup {j}
  /\ req' = [req EXCEPT ![r] = IF @.refresh \in Jti
                               THEN [@ EXCEPT !.pc = "logout_decode", !.ttl = 0]
                               ELSE Idle]
  /\ UNCHANGED <<now, tokens, passed>>

LogoutDecodeRefresh(r) ==
  LET k == req[r].refresh IN
  /\ req[r].pc = "logout_decode"
  /\ req' = [req EXCEPT ![r] =
               IF decode_token(k, "refresh")
               THEN [@ EXCEPT !.pc = "logout_refresh",
                              !.ttl = remaining_ttl_seconds(tokens[k].exp)]
               ELSE Idle]
  /\ UNCHANGED <<now, tokens, blacklist, revoked, passed>>

LogoutRefresh(r) ==
  LET k == req[r].refresh IN
  /\ req[r].pc = "logout_refresh"
  /\ blacklist_token(k, req[r].ttl)
  /\ revoked' = revoked \cup {k}
  /\ req' = [req EXCEPT ![r] = Idle]
  /\ UNCHANGED <<now, tokens, passed>>

-----------------------------------------------------------------------------
(* The environment. *)

\* The worker dies, or a Redis or database call raises (answered with 500).
Crash(r) ==
  /\ req[r].pc # "idle"
  /\ req' = [req EXCEPT ![r] = Idle]
  /\ UNCHANGED <<now, tokens, blacklist, revoked, passed>>

Tick ==
  /\ now < MaxNow
  /\ now' = now + 1
  /\ UNCHANGED <<tokens, blacklist, req, revoked, passed>>

-----------------------------------------------------------------------------

Init ==
  /\ now = 0
  /\ tokens = [j \in Jti |-> NoToken]
  /\ blacklist = [j \in Jti |-> 0]
  /\ req = [r \in Req |-> Idle]
  /\ revoked = {}
  /\ passed = [j \in Jti |-> 0]

Next ==
  \/ Tick
  \/ \E s \in Subject : Login(s)
  \/ \E r \in Req :
       \/ \E j \in Jti : AuthDecode(r, j) \/ RefreshDecode(r, j)
       \/ \E j \in Jti, k \in Jti \cup {"none"} : LogoutDecode(r, j, k)
       \/ AuthCheck(r) \/ AuthUser(r)
       \/ RefreshCheck(r) \/ RefreshUser(r)
       \/ LogoutAccess(r) \/ LogoutDecodeRefresh(r) \/ LogoutRefresh(r)
       \/ Crash(r)

Spec == Init /\ [][Next]_vars

-----------------------------------------------------------------------------
(* Properties *)

\* The token is within a second of its expiry, or past it.
Lapsing(j) == now > tokens[j].exp * TPS - TPS

\* Once a logout has blacklisted a token, no request that arrives with it
\* later gets past the blacklist check of get_current_user or of
\* refresh_access_token, whatever else runs or dies in between, as long as
\* the token is not in the last second of its life.  (token_blacklist.py says
\* "until its natural expiry"; remaining_ttl_seconds rounds down, so the key
\* goes up to a second before exp, and the token still decodes.)
NoServiceAfterRevocation ==
  \A r \in Req :
    (req[r].pc \in {"auth_user", "refresh_user"} /\ req[r].after) => Lapsing(req[r].jti)

\* Where a token is in its life.
Status ==
  [j \in Jti |-> IF ~Issued(j) THEN "unissued"
                 ELSE IF Lapsing(j) THEN "lapsing"
                 ELSE IF j \in revoked THEN "revoked" ELSE "valid"]

Abstract == INSTANCE Revocation WITH status <- Status

\* Clock, Redis keys and interleaved requests together implement the
\* untimed promise of module Revocation: a revocation takes effect with the
\* logout's SET, is never undone by a later SET, refresh or crash, and only
\* valid or lapsing tokens pass the check.
RefinesRevocation == Abstract!Spec
=============================================================================
