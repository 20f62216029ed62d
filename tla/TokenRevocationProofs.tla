----------------------- MODULE TokenRevocationProofs -----------------------
(***************************************************************************)
(* Safety of logout for every number of requests and tokens, every token   *)
(* lifetime and every resolution of the clock.                             *)
(*                                                                         *)
(* NoServiceAfterRevocation speaks of the moment a request has passed the  *)
(* blacklist check.  It rests on facts about earlier moments: the time to  *)
(* live a logout carries from remaining_ttl_seconds to its Redis SET       *)
(* reaches the last second of the token, however late the SET comes        *)
(* (EnoughTtl), and so does the key of every revoked token                 *)
(* (RevokedRecorded).                                                      *)
(***************************************************************************)
EXTENDS TokenRevocation, TLAPS

\* A key set now for ttl seconds lasts into the last second of j, or j is in
\* its last second already.
EnoughTtl(j, ttl) == now + ttl * TPS > tokens[j].exp * TPS - TPS

\* A request in progress holds tokens that were issued, and a logout's time
\* to live is long enough.
Sound(q) ==
  /\ q.pc # "idle" => q.jti \in Jti /\ Issued(q.jti)
  /\ q.refresh \in Jti => Issued(q.refresh)
  /\ q.pc \in {"logout_decode", "logout_refresh"} => q.refresh \in Jti
  /\ q.pc = "logout_access" => EnoughTtl(q.jti, q.ttl)
  /\ q.pc = "logout_refresh" => EnoughTtl(q.refresh, q.ttl)
  /\ q.after => q.jti \in revoked

RequestsSound == \A r \in Req : Sound(req[r])

\* The key of a revoked token lasts into the token's last second.
RevokedRecorded ==
  \A j \in revoked :
    /\ Issued(j)
    /\ blacklist[j] > tokens[j].exp * TPS - TPS \/ Lapsing(j)

Inv ==
  /\ TypeOK
  /\ RequestsSound
  /\ RevokedRecorded
  /\ NoServiceAfterRevocation

-----------------------------------------------------------------------------

\* Integer division leaves a remainder smaller than the divisor.
LEMMA DivBounds ==
  ASSUME NEW a \in Int, NEW b \in Nat \ {0}
  PROVE  /\ a \div b \in Int
         /\ (a \div b) * b <= a
         /\ a < (a \div b) * b + b
  OBVIOUS

\* A product of naturals is a natural.
LEMMA ProductNat == ASSUME NEW a \in Nat, NEW b \in Nat PROVE a * b \in Nat
  OBVIOUS

\* remaining_ttl_seconds rounds down, by less than a second.
LEMMA RemainingTtl ==
  ASSUME NEW exp \in Nat, now \in Nat
  PROVE  /\ remaining_ttl_seconds(exp) \in Nat
         /\ now + remaining_ttl_seconds(exp) * TPS > exp * TPS - TPS
<1> DEFINE left == (exp * TPS - now) \div TPS
<1>1. TPS \in Nat \ {0} /\ exp * TPS \in Nat
  BY TimeAssumption, ProductNat
<1>2. left \in Int /\ exp * TPS - now < left * TPS + TPS
  BY <1>1, DivBounds
<1>3. CASE left > 0
  BY <1>1, <1>2, <1>3 DEF remaining_ttl_seconds
<1>4. CASE ~(left > 0)
  <2>1. left * TPS <= 0
    BY <1>1, <1>2, <1>4
  <2>2. left * TPS \in Int
    BY <1>1, <1>2
  <2>3. remaining_ttl_seconds(exp) = 0 /\ 0 * TPS = 0
    BY <1>1, <1>4 DEF remaining_ttl_seconds
  <2> QED BY <1>1, <1>2, <2>1, <2>2, <2>3
<1> QED BY <1>3, <1>4

\* A new token has a natural expiry, and more than a second to go.
LEMMA NewToken ==
  ASSUME NEW type \in TokenType, NEW s \in Subject, now \in Nat
  PROVE  /\ create_token(type, s) \in Token
         /\ create_token(type, s).type = type
         /\ now <= create_token(type, s).exp * TPS - TPS
<1> DEFINE q == now \div TPS
           t == Ttl(type)
<1>1. TPS \in Nat \ {0} /\ t \in Nat /\ t >= 2
  BY TimeAssumption DEF Ttl
<1>2. q \in Int /\ q * TPS <= now /\ now < q * TPS + TPS
  BY <1>1, DivBounds
<1>3. q \in Nat
  BY <1>1, <1>2
<1>4. (q + t) * TPS - TPS >= q * TPS + TPS
  <2>1. (q + t) * TPS = q * TPS + t * TPS
    BY <1>1, <1>3
  <2>2. t * TPS >= 2 * TPS
    BY <1>1
  <2> QED BY <2>1, <2>2, <1>1, <1>3, ProductNat
<1>5. create_token(type, s) = [type |-> type, sub |-> s, exp |-> q + t]
  BY DEF create_token
<1>6. now <= (q + t) * TPS - TPS
  BY <1>1, <1>2, <1>3, <1>4, ProductNat
<1> HIDE DEF q, t
<1> QED BY <1>1, <1>3, <1>5, <1>6 DEF Token

-----------------------------------------------------------------------------
(* Type correctness *)

\* The state starts well formed.
LEMMA TypeInit == Init => TypeOK
  BY NoneAssumption DEF Init, TypeOK, NoToken, Idle, ReqState, PC

\* Every action keeps it so, given that a request's tokens were issued.
LEMMA TypeNext == TypeOK /\ RequestsSound /\ [Next]_vars => TypeOK'
<1> SUFFICES ASSUME TypeOK, RequestsSound, [Next]_vars PROVE TypeOK'
    OBVIOUS
<1> USE DEF TypeOK
<1>0. Idle \in ReqState
  BY DEF Idle, ReqState, PC
<1>1. CASE Tick
  BY <1>1 DEF Tick
<1>2. ASSUME NEW s \in Subject, Login(s) PROVE TypeOK'
  <2>1. create_token("access", s) \in Token /\ create_token("refresh", s) \in Token
    BY NewToken DEF TokenType
  <2> QED BY <1>2, <2>1 DEF Login
<1>3. ASSUME NEW r \in Req, NEW j \in Jti, AuthDecode(r, j) \/ RefreshDecode(r, j)
      PROVE TypeOK'
  <2> DEFINE after == j \in revoked
  <2>1. after \in BOOLEAN
    OBVIOUS
  <2>2. PICK pc \in {"auth_check", "refresh_check"} :
          req' = [req EXCEPT ![r] = [Idle EXCEPT !.pc = pc, !.jti = j, !.after = after]]
    BY <1>3, Zenon DEF AuthDecode, RefreshDecode
  <2> HIDE DEF after
  <2>3. [Idle EXCEPT !.pc = pc, !.jti = j, !.after = after] \in ReqState
    BY <2>1 DEF ReqState, Idle, PC
  <2> QED BY <1>3, <2>2, <2>3 DEF AuthDecode, RefreshDecode
<1>4. ASSUME NEW r \in Req, NEW j \in Jti, NEW k \in Jti \cup {"none"},
             LogoutDecode(r, j, k)
      PROVE TypeOK'
  <2>1. tokens[j] \in Token
    BY <1>4 DEF LogoutDecode, decode_token, NoToken
  <2>2. remaining_ttl_seconds(tokens[j].exp) \in Nat
    BY <2>1, RemainingTtl DEF Token
  <2> QED BY <1>4, <2>2 DEF LogoutDecode, ReqState, Idle, PC
<1>5. ASSUME NEW r \in Req, AuthCheck(r) \/ RefreshCheck(r) PROVE TypeOK'
  <2>1. PICK next \in {"auth_user", "refresh_user"} :
          BlacklistCheck(r, next) /\ req[r].pc # "idle"
    BY <1>5 DEF AuthCheck, RefreshCheck
  <2>2. req[r].jti \in Jti
    BY <2>1 DEF RequestsSound, Sound
  <2> QED BY <1>0, <2>1, <2>2 DEF BlacklistCheck, ReqState, PC
<1>6. ASSUME NEW r \in Req, AuthUser(r) \/ Crash(r) PROVE TypeOK'
  BY <1>0, <1>6 DEF AuthUser, Crash
<1>7. ASSUME NEW r \in Req, RefreshUser(r) PROVE TypeOK'
  <2>1. tokens[req[r].jti] \in Token
    BY <1>7 DEF RefreshUser, RequestsSound, Sound, Issued, NoToken
  <2>2. tokens[req[r].jti].sub \in Subject
    BY <2>1 DEF Token
  <2>3. create_token("access", tokens[req[r].jti].sub) \in Token
    BY <2>2, NewToken DEF TokenType
  <2> QED BY <1>0, <1>7, <2>3 DEF RefreshUser
<1>8. ASSUME NEW r \in Req, LogoutAccess(r) PROVE TypeOK'
  <2>1. req[r].jti \in Jti
    BY <1>8 DEF LogoutAccess, RequestsSound, Sound
  <2>2. now + req[r].ttl * TPS \in Nat
    BY TimeAssumption, ProductNat DEF ReqState
  <2> QED BY <1>0, <1>8, <2>1, <2>2 DEF LogoutAccess, blacklist_token, ReqState, PC
<1>9. ASSUME NEW r \in Req, LogoutDecodeRefresh(r) PROVE TypeOK'
  <2>1. req[r].refresh \in Jti /\ tokens[req[r].refresh] \in Token
    BY <1>9 DEF LogoutDecodeRefresh, RequestsSound, Sound, Issued, NoToken
  <2>2. remaining_ttl_seconds(tokens[req[r].refresh].exp) \in Nat
    BY <2>1, RemainingTtl DEF Token
  <2> QED BY <1>0, <1>9, <2>2 DEF LogoutDecodeRefresh, ReqState, PC
<1>10. ASSUME NEW r \in Req, LogoutRefresh(r) PROVE TypeOK'
  <2>1. req[r].refresh \in Jti
    BY <1>10 DEF LogoutRefresh, RequestsSound, Sound
  <2>2. now + req[r].ttl * TPS \in Nat
    BY TimeAssumption, ProductNat DEF ReqState
  <2> QED BY <1>0, <1>10, <2>1, <2>2 DEF LogoutRefresh, blacklist_token
<1>11. CASE UNCHANGED vars
  BY <1>11 DEF vars
<1> QED BY <1>1, <1>2, <1>3, <1>4, <1>5, <1>6, <1>7, <1>8, <1>9, <1>10, <1>11 DEF Next

-----------------------------------------------------------------------------
(* What no step undoes *)

\* Time goes forward, an issued token stays as it is, a revocation stays.
Forward ==
  /\ now \in Nat /\ now' \in Nat /\ now <= now'
  /\ \A j \in Jti : Issued(j) => tokens[j] \in Token /\ tokens'[j] = tokens[j]
  /\ revoked \subseteq revoked'

\* Every step goes forward.
LEMMA StepsForward == TypeOK /\ [Next]_vars => Forward
<1> SUFFICES ASSUME TypeOK, [Next]_vars PROVE Forward
    OBVIOUS
<1>0. \A j \in Jti : Issued(j) => tokens[j] \in Token
  BY DEF TypeOK, Issued, NoToken
<1>1. CASE Tick
  BY <1>0, <1>1 DEF Tick, Forward, TypeOK
<1>2. ASSUME NEW s \in Subject, Login(s) PROVE Forward
  BY <1>0, <1>2 DEF Login, Forward, TypeOK
<1>3. ASSUME NEW r \in Req, RefreshUser(r) PROVE Forward
  BY <1>0, <1>3 DEF RefreshUser, Forward, TypeOK
<1>4. CASE UNCHANGED <<now, tokens>> /\ revoked \subseteq revoked'
  BY <1>0, <1>4 DEF Forward, TypeOK
<1> QED
  BY <1>1, <1>2, <1>3, <1>4 DEF Next, vars, AuthDecode, RefreshDecode, LogoutDecode,
     AuthCheck, RefreshCheck, BlacklistCheck, AuthUser, LogoutAccess,
     LogoutDecodeRefresh, LogoutRefresh, Crash

\* A deadline stays where it is, and a key that reaches it still does.
LEMMA DeadlineKept ==
  Forward => \A j \in Jti :
    Issued(j) => /\ Issued(j)'
                 /\ tokens[j].exp * TPS \in Nat
                 /\ Lapsing(j) => Lapsing(j)'
                 /\ \A ttl \in Nat : EnoughTtl(j, ttl) => EnoughTtl(j, ttl)'
<1> SUFFICES ASSUME Forward, NEW j \in Jti, Issued(j)
             PROVE  /\ Issued(j)'
                    /\ tokens[j].exp * TPS \in Nat
                    /\ Lapsing(j) => Lapsing(j)'
                    /\ \A ttl \in Nat : EnoughTtl(j, ttl) => EnoughTtl(j, ttl)'
    OBVIOUS
<1>1. tokens[j] \in Token /\ tokens'[j] = tokens[j] /\ TPS \in Nat \ {0}
  BY TimeAssumption DEF Forward
<1>2. tokens[j].exp * TPS \in Nat
  BY <1>1, ProductNat DEF Token
<1>3. Lapsing(j) => Lapsing(j)'
  BY <1>1, <1>2 DEF Forward, Lapsing
<1>4. ASSUME NEW ttl \in Nat, EnoughTtl(j, ttl) PROVE EnoughTtl(j, ttl)'
  BY <1>1, <1>2, <1>4, ProductNat DEF Forward, EnoughTtl
<1> QED BY <1>1, <1>2, <1>3, <1>4 DEF Issued

\* A request that does not move stays sound.
LEMMA SoundKept == Forward => \A q \in ReqState : Sound(q) => Sound(q)'
  BY DeadlineKept DEF Sound, ReqState, Forward

-----------------------------------------------------------------------------
(* The invariant *)

\* Before the first request there is nothing to be unsound.
LEMMA InvInit == Init => Inv
<1> SUFFICES ASSUME Init PROVE Inv
    OBVIOUS
<1>1. TypeOK
  BY TypeInit
<1>2. RequestsSound
  BY NoneAssumption DEF Init, Idle, RequestsSound, Sound
<1>3. RevokedRecorded /\ NoServiceAfterRevocation
  BY DEF Init, Idle, RevokedRecorded, NoServiceAfterRevocation
<1> QED BY <1>1, <1>2, <1>3 DEF Inv

\* Requests stay sound: a decoded token was issued, a freshly computed time
\* to live is enough.
LEMMA SoundNext == Inv /\ [Next]_vars => RequestsSound'
<1> SUFFICES ASSUME Inv, [Next]_vars, NEW r \in Req PROVE Sound(req[r])'
    BY DEF RequestsSound
<1>0. TypeOK /\ TypeOK' /\ Forward /\ Sound(req[r]) /\ req[r] \in ReqState
  BY TypeNext, StepsForward DEF Inv, RequestsSound, TypeOK
<1>1. CASE req'[r] = req[r]
  BY <1>0, <1>1, SoundKept DEF Sound, Issued, EnoughTtl
<1>2. CASE req'[r] = Idle
  BY <1>2, NoneAssumption DEF Idle, Sound
<1>3. ASSUME NEW j \in Jti, AuthDecode(r, j) \/ RefreshDecode(r, j)
      PROVE Sound(req[r])'
  <2> DEFINE after == j \in revoked
  <2>1. Issued(j)' /\ revoked' = revoked
    BY <1>3 DEF AuthDecode, RefreshDecode, decode_token, Issued, TokenType
  <2>2. PICK pc \in {"auth_check", "refresh_check"} :
          req' = [req EXCEPT ![r] = [Idle EXCEPT !.pc = pc, !.jti = j, !.after = after]]
    BY <1>3, Zenon DEF AuthDecode, RefreshDecode
  <2>3. after <=> j \in revoked
    OBVIOUS
  <2> HIDE DEF after
  <2>4. /\ req'[r].pc = pc /\ req'[r].jti = j /\ req'[r].refresh = "none"
        /\ req'[r].after = after
    BY <1>0, <2>2 DEF Idle, TypeOK
  <2> QED BY <2>1, <2>3, <2>4, NoneAssumption DEF Sound
<1>4. ASSUME NEW j \in Jti, NEW k \in Jti \cup {"none"}, LogoutDecode(r, j, k)
      PROVE Sound(req[r])'
  <2>1. tokens[j] \in Token /\ Issued(j)' /\ tokens'[j] = tokens[j] /\ now' = now
    BY <1>0, <1>4 DEF LogoutDecode, decode_token, Issued, TypeOK, NoToken
  <2>2. EnoughTtl(j, remaining_ttl_seconds(tokens[j].exp))
    BY <1>0, <2>1, RemainingTtl DEF EnoughTtl, TypeOK, Token
  <2>3. /\ req'[r].pc = "logout_access" /\ req'[r].jti = j /\ req'[r].refresh = k
        /\ req'[r].ttl = remaining_ttl_seconds(tokens[j].exp)
        /\ req'[r].after = FALSE
    BY <1>0, <1>4 DEF LogoutDecode, Idle, TypeOK
  <2>4. k \in Jti => Issued(k)'
    BY <1>4 DEF LogoutDecode, Issued
  <2> QED BY <2>1, <2>2, <2>3, <2>4, NoneAssumption DEF Sound, EnoughTtl
<1>5. ASSUME AuthCheck(r) \/ RefreshCheck(r) PROVE Sound(req[r])'
  <2>1. \/ req'[r] = Idle
        \/ /\ req'[r].pc \in {"auth_user", "refresh_user"}
           /\ req'[r].jti = req[r].jti /\ req'[r].refresh = req[r].refresh
           /\ req'[r].after = req[r].after /\ req[r].pc # "idle"
           /\ tokens' = tokens /\ revoked' = revoked
    BY <1>0, <1>5 DEF AuthCheck, RefreshCheck, BlacklistCheck, TypeOK, ReqState
  <2> QED BY <1>0, <1>2, <2>1 DEF Sound, Issued
<1>6. ASSUME LogoutAccess(r) PROVE Sound(req[r])'
  <2>1. \/ req'[r] = Idle
        \/ /\ req'[r].pc = "logout_decode" /\ req[r].refresh \in Jti
           /\ req'[r].jti = req[r].jti /\ req'[r].refresh = req[r].refresh
           /\ req'[r].after = req[r].after /\ req[r].pc # "idle"
           /\ tokens' = tokens /\ revoked \subseteq revoked'
    BY <1>0, <1>6 DEF LogoutAccess, TypeOK, ReqState
  <2> QED BY <1>0, <1>2, <2>1 DEF Sound, Issued
<1>7. ASSUME LogoutDecodeRefresh(r) PROVE Sound(req[r])'
  <2> DEFINE k == req[r].refresh
  <2>1. k \in Jti /\ Issued(k) /\ tokens[k] \in Token
    BY <1>0, <1>7 DEF LogoutDecodeRefresh, Sound, Forward
  <2>2. EnoughTtl(k, remaining_ttl_seconds(tokens[k].exp))
    BY <1>0, <2>1, RemainingTtl DEF EnoughTtl, TypeOK, Token
  <2>3. \/ req'[r] = Idle
        \/ /\ req'[r].pc = "logout_refresh" /\ req'[r].refresh = k
           /\ req'[r].jti = req[r].jti /\ req'[r].after = req[r].after
           /\ req'[r].ttl = remaining_ttl_seconds(tokens[k].exp)
           /\ req[r].pc # "idle"
           /\ now' = now /\ tokens' = tokens /\ revoked' = revoked
    BY <1>0, <1>7 DEF LogoutDecodeRefresh, TypeOK, ReqState
  <2> QED BY <1>0, <1>2, <2>1, <2>2, <2>3 DEF Sound, Issued, EnoughTtl
<1>8. CASE AuthUser(r) \/ RefreshUser(r) \/ LogoutRefresh(r) \/ Crash(r)
  BY <1>0, <1>2, <1>8 DEF AuthUser, RefreshUser, LogoutRefresh, Crash, TypeOK
<1>9. CASE Tick \/ (\E s \in Subject : Login(s)) \/ UNCHANGED vars
  BY <1>1, <1>9 DEF Tick, Login, vars
<1>10. ASSUME NEW x \in Req, x # r,
              \/ \E j \in Jti : AuthDecode(x, j) \/ RefreshDecode(x, j)
              \/ \E j \in Jti, k \in Jti \cup {"none"} : LogoutDecode(x, j, k)
              \/ AuthCheck(x) \/ AuthUser(x) \/ RefreshCheck(x) \/ RefreshUser(x)
              \/ LogoutAccess(x) \/ LogoutDecodeRefresh(x) \/ LogoutRefresh(x)
              \/ Crash(x)
       PROVE Sound(req[r])'
  <2>1. req'[r] = req[r]
    BY <1>0, <1>10 DEF TypeOK, AuthDecode, RefreshDecode, LogoutDecode, AuthCheck,
       RefreshCheck, BlacklistCheck, AuthUser, RefreshUser, LogoutAccess,
       LogoutDecodeRefresh, LogoutRefresh, Crash
  <2> QED BY <1>1, <2>1
<1> QED
  BY <1>3, <1>4, <1>5, <1>6, <1>7, <1>8, <1>9, <1>10 DEF Next

\* The key of j reaches the last second of j, or that has come.
Recorded(j) == blacklist[j] > tokens[j].exp * TPS - TPS \/ Lapsing(j)

\* A SET with a time to live that is enough makes a lasting record.
LEMMA SetRecords ==
  ASSUME TypeOK, NEW j \in Jti, tokens[j] \in Token, NEW ttl \in Nat,
         EnoughTtl(j, ttl), blacklist_token(j, ttl),
         now' = now, tokens' = tokens
  PROVE  Recorded(j)' /\ \A i \in Jti : Recorded(i) => Recorded(i)'
<1>1. now \in Nat /\ TPS \in Nat \ {0} /\ ttl * TPS \in Nat /\ tokens[j].exp * TPS \in Nat
  BY TimeAssumption, ProductNat DEF TypeOK, Token
<1>2. CASE ttl = 0
  <2>1. blacklist' = blacklist /\ ttl * TPS = 0
    BY <1>1, <1>2 DEF blacklist_token
  <2> QED BY <1>1, <2>1 DEF EnoughTtl, Recorded, Lapsing
<1>3. CASE ttl # 0
  <2>1. blacklist' = [blacklist EXCEPT ![j] = now + ttl * TPS]
    BY <1>3 DEF blacklist_token
  <2> QED BY <1>1, <2>1 DEF EnoughTtl, Recorded, Lapsing, TypeOK
<1> QED BY <1>2, <1>3

\* What a logout has revoked stays on record until its last second.
LEMMA RecordedNext == Inv /\ [Next]_vars => RevokedRecorded'
<1> SUFFICES ASSUME Inv, [Next]_vars PROVE RevokedRecorded'
    OBVIOUS
<1>0. TypeOK /\ Forward /\ RequestsSound /\ RevokedRecorded
  BY StepsForward DEF Inv
<1>1. CASE UNCHANGED <<blacklist, revoked>>
  BY <1>0, <1>1, DeadlineKept DEF RevokedRecorded, Forward, Lapsing, TypeOK
<1>2. ASSUME NEW r \in Req, NEW j \in Jti, Issued(j), NEW ttl \in Nat,
             EnoughTtl(j, ttl), blacklist_token(j, ttl),
             revoked' = revoked \cup {j}, now' = now, tokens' = tokens
      PROVE RevokedRecorded'
  <2>1. Recorded(j)' /\ \A i \in Jti : Recorded(i) => Recorded(i)'
    BY <1>0, <1>2, SetRecords DEF Forward
  <2> QED BY <1>0, <1>2, <2>1 DEF RevokedRecorded, Recorded, Issued, TypeOK
<1>3. ASSUME NEW r \in Req, LogoutAccess(r) PROVE RevokedRecorded'
  <2>1. /\ req[r].jti \in Jti /\ Issued(req[r].jti) /\ req[r].ttl \in Nat
        /\ EnoughTtl(req[r].jti, req[r].ttl)
    BY <1>0, <1>3 DEF LogoutAccess, RequestsSound, Sound, TypeOK, ReqState
  <2> QED BY <1>2, <1>3, <2>1 DEF LogoutAccess
<1>4. ASSUME NEW r \in Req, LogoutRefresh(r) PROVE RevokedRecorded'
  <2>1. /\ req[r].refresh \in Jti /\ Issued(req[r].refresh) /\ req[r].ttl \in Nat
        /\ EnoughTtl(req[r].refresh, req[r].ttl)
    BY <1>0, <1>4 DEF LogoutRefresh, RequestsSound, Sound, TypeOK, ReqState
  <2> QED BY <1>2, <1>4, <2>1 DEF LogoutRefresh
<1> QED
  BY <1>1, <1>3, <1>4 DEF Next, vars, Tick, Login, AuthDecode, RefreshDecode,
     LogoutDecode, AuthCheck, RefreshCheck, BlacklistCheck, AuthUser, RefreshUser,
     LogoutDecodeRefresh, Crash

\* A revoked token that is not on the blacklist is in its last second.
LEMMA UnlistedLapses ==
  ASSUME Inv, NEW j \in revoked, ~is_token_blacklisted(j)
  PROVE  Lapsing(j)
<1>1. now \in Nat /\ blacklist[j] \in Nat /\ TPS \in Nat \ {0}
      /\ tokens[j].exp * TPS \in Nat
  BY TimeAssumption, ProductNat
     DEF Inv, TypeOK, RevokedRecorded, Issued, NoToken, Token
<1> QED BY <1>1 DEF Inv, RevokedRecorded, is_token_blacklisted, Lapsing

\* No request that came with a revoked token gets past the check early.
LEMMA NoServiceNext == Inv /\ [Next]_vars => NoServiceAfterRevocation'
<1> SUFFICES ASSUME Inv, [Next]_vars, NEW r \in Req,
                    req'[r].pc \in {"auth_user", "refresh_user"}, req'[r].after
             PROVE  Lapsing(req[r].jti)'
    BY DEF NoServiceAfterRevocation
<1>0. TypeOK /\ Forward /\ Sound(req[r]) /\ req[r] \in ReqState
  BY StepsForward DEF Inv, RequestsSound, TypeOK
<1>1. CASE req'[r] = req[r]
  <2>1. Lapsing(req[r].jti) /\ req[r].jti \in Jti /\ Issued(req[r].jti)
    BY <1>0, <1>1 DEF Inv, NoServiceAfterRevocation, Sound
  <2> QED BY <1>0, <1>1, <2>1, DeadlineKept DEF Lapsing
<1>2. ASSUME NEW next, BlacklistCheck(r, next), req[r].pc # "idle"
      PROVE Lapsing(req[r].jti)'
  <2>1. /\ ~is_token_blacklisted(req[r].jti)
        /\ req'[r].jti = req[r].jti /\ req[r].after
        /\ now' = now /\ tokens' = tokens
    BY <1>0, <1>2 DEF BlacklistCheck, TypeOK, ReqState, Idle
  <2>2. req[r].jti \in revoked
    BY <1>0, <2>1 DEF Sound
  <2>3. Lapsing(req[r].jti)
    BY <2>1, <2>2, UnlistedLapses
  <2> QED BY <2>1, <2>3 DEF Lapsing
<1>3. CASE AuthCheck(r) \/ RefreshCheck(r)
  BY <1>2, <1>3 DEF AuthCheck, RefreshCheck
<1>4. CASE req'[r].pc \notin {"auth_user", "refresh_user"}
  BY <1>4
<1>5. ASSUME NEW x \in Req,
              \/ \E j \in Jti : AuthDecode(x, j) \/ RefreshDecode(x, j)
              \/ \E j \in Jti, k \in Jti \cup {"none"} : LogoutDecode(x, j, k)
              \/ AuthUser(x) \/ RefreshUser(x)
              \/ LogoutAccess(x) \/ LogoutDecodeRefresh(x) \/ LogoutRefresh(x)
              \/ Crash(x)
       PROVE req'[r] = req[r] \/ req'[r].pc \notin {"auth_user", "refresh_user"}
  <2>1. CASE \E j \in Jti : AuthDecode(x, j) \/ RefreshDecode(x, j)
    <3>1. PICK j \in Jti : AuthDecode(x, j) \/ RefreshDecode(x, j)
      BY <2>1
    <3> DEFINE after == j \in revoked
    <3>2. PICK pc \in {"auth_check", "refresh_check"} :
            req' = [req EXCEPT ![x] = [Idle EXCEPT !.pc = pc, !.jti = j, !.after = after]]
      BY <3>1, Zenon DEF AuthDecode, RefreshDecode
    <3> HIDE DEF after
    <3> QED BY <1>0, <3>2 DEF TypeOK, Idle
  <2>2. CASE \E j \in Jti, k \in Jti \cup {"none"} : LogoutDecode(x, j, k)
    BY <1>0, <2>2 DEF LogoutDecode, TypeOK, Idle
  <2>3. CASE \/ AuthUser(x) \/ RefreshUser(x) \/ LogoutAccess(x)
             \/ LogoutDecodeRefresh(x) \/ LogoutRefresh(x) \/ Crash(x)
    <3>1. CASE x # r
      BY <1>0, <2>3, <3>1 DEF TypeOK, AuthUser, RefreshUser, LogoutAccess,
         LogoutDecodeRefresh, LogoutRefresh, Crash
    <3>2. CASE x = r /\ (LogoutAccess(r) \/ LogoutDecodeRefresh(r))
      <4>1. req'[r] = Idle \/ req'[r].pc \in {"logout_decode", "logout_refresh"}
        <5>1. CASE LogoutAccess(r)
          BY <1>0, <5>1 DEF TypeOK, ReqState, LogoutAccess
        <5>2. CASE LogoutDecodeRefresh(r)
          BY <1>0, <5>2 DEF TypeOK, ReqState, LogoutDecodeRefresh
        <5> QED BY <3>2, <5>1, <5>2
      <4> QED BY <4>1 DEF Idle
    <3>3. CASE x = r /\ (AuthUser(r) \/ RefreshUser(r) \/ LogoutRefresh(r) \/ Crash(r))
      BY <1>0, <3>3 DEF TypeOK, Idle, AuthUser, RefreshUser, LogoutRefresh, Crash
    <3> QED BY <2>3, <3>1, <3>2, <3>3
  <2> QED BY <1>5, <2>1, <2>2, <2>3
<1>6. ASSUME NEW x \in Req, x # r, AuthCheck(x) \/ RefreshCheck(x)
      PROVE req'[r] = req[r]
  BY <1>0, <1>6 DEF AuthCheck, RefreshCheck, BlacklistCheck, TypeOK
<1>7. CASE Tick \/ (\E s \in Subject : Login(s)) \/ UNCHANGED vars
  BY <1>1, <1>7 DEF Tick, Login, vars
<1> QED BY <1>1, <1>3, <1>4, <1>5, <1>6, <1>7 DEF Next

\* The invariant is inductive.
LEMMA InvNext == Inv /\ [Next]_vars => Inv'
  BY TypeNext, SoundNext, RecordedNext, NoServiceNext DEF Inv

\* The invariant holds throughout.
THEOREM Invariance == Spec => []Inv
  BY InvInit, InvNext, PTL DEF Spec

\* The state of requests, tokens and blacklist stays well formed.
THEOREM TypeCorrect == Spec => []TypeOK
  BY Invariance, PTL DEF Inv

\* No request that arrives with a revoked token is served before the token's
\* last second.
THEOREM RevocationHolds == Spec => []NoServiceAfterRevocation
  BY Invariance, PTL DEF Inv

-----------------------------------------------------------------------------
(* Refinement of module Revocation *)

\* Nothing issued, nothing passed.
LEMMA RefinesInit == Init => Abstract!Init
  BY DEF Init, Abstract!Init, Status, Issued, NoToken

\* A step that leaves clock, tokens and revocations alone leaves every status.
LEMMA StatusKept ==
  UNCHANGED <<now, tokens, revoked>> => Status' = Status
  BY DEF Status, Issued, Lapsing

\* Tokens made in a step are valid after it, and the others stay as they are.
LEMMA IssueStep ==
  ASSUME TypeOK, NEW S \in SUBSET Jti, S # {},
         \A j \in S : ~Issued(j) /\ j \notin revoked,
         \A j \in S : Issued(j)' /\ ~Lapsing(j)',
         \A j \in Jti \ S : tokens'[j] = tokens[j],
         UNCHANGED <<now, revoked, passed>>
  PROVE  Abstract!Issue(S)
<1>1. \A j \in S : Status[j] = "unissued"
  BY DEF Status
<1>2. \A j \in S : Status'[j] = "valid"
  BY DEF Status
<1>3. \A j \in Jti \ S : Status'[j] = Status[j]
  BY DEF Status, Issued, Lapsing
<1>4. Status' = [j \in Jti |-> Status'[j]]
  BY DEF Status
<1>5. Status' = [j \in Jti |-> IF j \in S THEN "valid" ELSE Status[j]]
  BY <1>2, <1>3, <1>4
<1> QED BY <1>1, <1>5 DEF Abstract!Issue

\* The blacklist call of a logout revokes a valid token, and changes the
\* status of no other.
LEMMA RevokeStep ==
  ASSUME NEW j \in Jti, Issued(j), revoked' = revoked \cup {j},
         UNCHANGED <<now, tokens, passed>>
  PROVE  Abstract!Revoke(j) \/ UNCHANGED Abstract!vars
<1>1. Status' = [i \in Jti |-> Status'[i]] /\ Status = [i \in Jti |-> Status[i]]
  BY DEF Status
<1>2. \A i \in Jti \ {j} : Status'[i] = Status[i]
  BY DEF Status, Issued, Lapsing
<1>3. CASE Status[j] = "valid"
  <2>1. Status'[j] = "revoked"
    BY <1>3 DEF Status, Issued, Lapsing
  <2>2. Status' = [Status EXCEPT ![j] = "revoked"]
    BY <1>1, <1>2, <2>1
  <2> QED BY <1>3, <2>2 DEF Abstract!Revoke
<1>4. CASE Status[j] # "valid"
  <2>1. Status'[j] = Status[j]
    BY <1>4 DEF Status, Issued, Lapsing
  <2>2. Status' = Status
    BY <1>1, <1>2, <2>1
  <2> QED BY <2>2 DEF Abstract!vars
<1> QED BY <1>3, <1>4

\* Every step of requests and clock is a step of the abstract specification
\* or leaves its variables alone.
LEMMA RefinesNext == Inv /\ [Next]_vars => [Abstract!Next]_(Abstract!vars)
<1> SUFFICES ASSUME Inv, [Next]_vars PROVE Abstract!Next \/ UNCHANGED Abstract!vars
    OBVIOUS
<1>0. TypeOK /\ RequestsSound /\ Forward /\ RevokedRecorded
  BY StepsForward DEF Inv
<1>1. CASE UNCHANGED <<now, tokens, revoked, passed>>
  BY <1>1, StatusKept DEF Abstract!vars
<1>2. ASSUME NEW s \in Subject, Login(s) PROVE Abstract!Next
  <2>1. PICK a \in Jti, b \in Jti :
          /\ a # b /\ ~Issued(a) /\ ~Issued(b)
          /\ tokens' = [tokens EXCEPT ![a] = create_token("access", s),
                                      ![b] = create_token("refresh", s)]
    BY <1>2 DEF Login
  <2>2. UNCHANGED <<now, revoked, passed>>
    BY <1>2 DEF Login
  <2>3. \A j \in {a, b} : Issued(j)' /\ ~Lapsing(j)'
    <3>1. \A type \in TokenType : /\ create_token(type, s).type = type
                                  /\ create_token(type, s) \in Token
                                  /\ now <= create_token(type, s).exp * TPS - TPS
      BY <1>0, NewToken DEF TypeOK
    <3>2. \A type \in TokenType : create_token(type, s).exp * TPS \in Nat
      BY <3>1, TimeAssumption, ProductNat DEF Token
    <3>3. tokens'[a] = create_token("access", s) /\ tokens'[b] = create_token("refresh", s)
      BY <1>0, <2>1 DEF TypeOK
    <3> HIDE DEF create_token
    <3> QED BY <1>0, <2>2, <3>1, <3>2, <3>3, TimeAssumption
            DEF Issued, Lapsing, TokenType, TypeOK
  <2>4. \A j \in {a, b} : j \notin revoked
    BY <1>0, <2>1 DEF RevokedRecorded
  <2>5. \A j \in Jti \ {a, b} : tokens'[j] = tokens[j]
    BY <1>0, <2>1 DEF TypeOK
  <2>6. Abstract!Issue({a, b})
    BY <1>0, <2>1, <2>2, <2>3, <2>4, <2>5, IssueStep
  <2> QED BY <2>6 DEF Abstract!Next
<1>3. ASSUME NEW r \in Req, RefreshUser(r)
      PROVE Abstract!Next \/ UNCHANGED Abstract!vars
  <2> DEFINE s == tokens[req[r].jti].sub
  <2>1. UNCHANGED <<now, revoked, passed>>
    BY <1>3 DEF RefreshUser
  <2>2. CASE UNCHANGED tokens
    BY <1>1, <2>1, <2>2
  <2>3. ASSUME NEW a \in Jti, ~Issued(a),
               tokens' = [tokens EXCEPT ![a] = create_token("access", s)]
        PROVE Abstract!Next
    <3>1. s \in Subject
      BY <1>0, <1>3 DEF RefreshUser, RequestsSound, Sound, Forward, Token
    <3> HIDE DEF s
    <3>2. /\ create_token("access", s).type = "access"
          /\ create_token("access", s) \in Token
          /\ now <= create_token("access", s).exp * TPS - TPS
      BY <1>0, <3>1, NewToken DEF TypeOK, TokenType
    <3>3. create_token("access", s).exp * TPS \in Nat
      BY <3>2, TimeAssumption, ProductNat DEF Token
    <3>4. tokens'[a] = create_token("access", s)
      BY <1>0, <2>3 DEF TypeOK
    <3>5. Issued(a)' /\ ~Lapsing(a)'
      BY <1>0, <2>1, <3>2, <3>3, <3>4, TimeAssumption DEF Issued, Lapsing, TypeOK
    <3>6. a \notin revoked /\ \A j \in Jti \ {a} : tokens'[j] = tokens[j]
      BY <1>0, <2>3 DEF RevokedRecorded, TypeOK
    <3>7. Abstract!Issue({a})
      BY <1>0, <2>1, <2>3, <3>5, <3>6, IssueStep
    <3> QED BY <3>7 DEF Abstract!Next
  <2> QED BY <1>3, <2>2, <2>3 DEF RefreshUser
<1>4. CASE Tick
  <2> DEFINE S == {j \in Jti : Status[j] \in {"valid", "revoked"} /\ Lapsing(j)'}
  <2>1. UNCHANGED <<tokens, revoked, passed>>
    BY <1>4 DEF Tick
  <2>2. \A j \in Jti : Status'[j] = IF j \in S THEN "lapsing" ELSE Status[j]
    BY <1>0, <2>1, DeadlineKept DEF Status, Issued, Lapsing
  <2>3. Status' = [j \in Jti |-> IF j \in S THEN "lapsing" ELSE Status[j]]
    BY <2>2 DEF Status
  <2>4. CASE S = {}
    BY <2>1, <2>3, <2>4 DEF Abstract!vars, Status
  <2>5. CASE S # {}
    <3>1. Abstract!Lapse(S)
      BY <2>1, <2>3, <2>5 DEF Abstract!Lapse
    <3> QED BY <3>1 DEF Abstract!Next
  <2> QED BY <2>4, <2>5
<1>5. ASSUME NEW r \in Req, NEW next, BlacklistCheck(r, next), req[r].pc # "idle"
      PROVE Abstract!Next \/ UNCHANGED Abstract!vars
  <2> DEFINE j == req[r].jti
  <2>1. j \in Jti /\ Issued(j) /\ UNCHANGED <<now, tokens, revoked>>
    BY <1>0, <1>5 DEF BlacklistCheck, RequestsSound, Sound
  <2>2. CASE is_token_blacklisted(j)
    BY <1>1, <1>5, <2>1, <2>2 DEF BlacklistCheck
  <2>3. CASE ~is_token_blacklisted(j)
    <3>1. Status[j] \in {"valid", "lapsing"}
      BY <2>1, <2>3, UnlistedLapses DEF Status
    <3>2. passed' = [passed EXCEPT ![j] = @ + 1] /\ Status' = Status
      BY <1>5, <2>1, <2>3, StatusKept DEF BlacklistCheck
    <3>3. Abstract!Pass(j)
      BY <3>1, <3>2 DEF Abstract!Pass
    <3> QED BY <2>1, <3>3 DEF Abstract!Next
  <2> QED BY <2>2, <2>3
<1>6. CASE \E r \in Req : AuthCheck(r) \/ RefreshCheck(r)
  BY <1>5, <1>6 DEF AuthCheck, RefreshCheck
<1>7. ASSUME NEW r \in Req, LogoutAccess(r)
      PROVE Abstract!Next \/ UNCHANGED Abstract!vars
  <2>1. req[r].jti \in Jti /\ Issued(req[r].jti)
    BY <1>0, <1>7 DEF LogoutAccess, RequestsSound, Sound
  <2>2. Abstract!Revoke(req[r].jti) \/ UNCHANGED Abstract!vars
    BY <1>7, <2>1, RevokeStep DEF LogoutAccess
  <2> QED BY <2>1, <2>2 DEF Abstract!Next
<1>8. ASSUME NEW r \in Req, LogoutRefresh(r)
      PROVE Abstract!Next \/ UNCHANGED Abstract!vars
  <2>1. req[r].refresh \in Jti /\ Issued(req[r].refresh)
    BY <1>0, <1>8 DEF LogoutRefresh, RequestsSound, Sound
  <2>2. Abstract!Revoke(req[r].refresh) \/ UNCHANGED Abstract!vars
    BY <1>8, <2>1, RevokeStep DEF LogoutRefresh
  <2> QED BY <2>1, <2>2 DEF Abstract!Next
<1> QED
  BY <1>1, <1>2, <1>3, <1>4, <1>6, <1>7, <1>8 DEF Next, vars, AuthDecode,
     RefreshDecode, LogoutDecode, AuthUser, LogoutDecodeRefresh, Crash

\* Clock, Redis keys and concurrent requests implement the untimed promise
\* of module Revocation.
THEOREM Refinement == Spec => RefinesRevocation
  BY RefinesInit, RefinesNext, Invariance, PTL
     DEF Spec, RefinesRevocation, Abstract!Spec
=============================================================================
