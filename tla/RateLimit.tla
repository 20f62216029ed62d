----------------------------- MODULE RateLimit -----------------------------
(***************************************************************************)
(* The fixed-window rate limiter of app/services/rate_limit.py that guards *)
(* login, register and forgot-password, for one key (scope and client      *)
(* address): keys do not interact.                                         *)
(*                                                                         *)
(* A request makes one Redis INCR and, if it is the first of its window,   *)
(* one EXPIRE.  These are two commands: another request, the clock, or the *)
(* death of the worker may come between them.                              *)
(***************************************************************************)
EXTENDS Integers

CONSTANTS
  Req,          \* request slots
  Times,        \* requests admitted per window
  Seconds,      \* length of the window, in ticks of the clock
  MaxCount      \* bound: INCRs per life of the key

ASSUME LimitAssumption ==
  /\ Times \in Nat \ {0}
  /\ Seconds \in Nat \ {0}
  /\ MaxCount \in Nat

VARIABLES
  count,        \* value of the key; 0: there is no key
  ttl,          \* ticks until the key expires
  waiting,      \* requests between their INCR and their EXPIRE
  (* history *)
  orphaned,     \* a request died there, and its key is still set
  admitted,     \* requests let through in this life of the key
  age,          \* ticks since the key was created, while it is set; up to Seconds
  recent        \* requests let through in this tick and in each one before it

vars == <<count, ttl, waiting, orphaned, admitted, age, recent>>

NoTtl == -1

\* A sliding window of this many ticks is looked at.
Span == 0 .. Seconds - 1

TypeOK ==
  /\ count \in Nat
  /\ ttl \in {NoTtl} \cup 1 .. Seconds
  /\ waiting \in SUBSET Req
  /\ orphaned \in BOOLEAN
  /\ admitted \in Nat
  /\ age \in 0 .. Seconds
  /\ recent \in [Span -> Nat]

\* The request is let through to its handler.
Admit ==
  /\ admitted' = admitted + 1
  /\ recent' = [recent EXCEPT ![0] = @ + 1]

-----------------------------------------------------------------------------

\* Mutated form: the limit is compared with the count before this request.
Incr_OffByOne(r) ==
  /\ r \notin waiting
  /\ count < MaxCount
  /\ count' = count + 1
  /\ IF count = 0
     THEN /\ waiting' = waiting \cup {r}
          /\ UNCHANGED <<admitted, recent>>
     ELSE /\ UNCHANGED waiting
          /\ IF count <= Times THEN Admit ELSE UNCHANGED <<admitted, recent>>
  /\ UNCHANGED <<ttl, orphaned, age>>

\* Mutated form: no request of the window sets an expiry.
Incr_NoExpire(r) ==
  /\ r \notin waiting
  /\ count < MaxCount
  /\ count' = count + 1
  /\ IF count < Times THEN Admit ELSE UNCHANGED <<admitted, recent>>
  /\ UNCHANGED <<ttl, waiting, orphaned, age>>

\* INCR creates a missing key with value 1 and no expiry.  The first request
\* goes on to set one; the others are let through or get 429.
Incr(r) ==
  /\ r \notin waiting
  /\ count < MaxCount
  /\ count' = count + 1
  /\ IF count = 0
     THEN /\ waiting' = waiting \cup {r}
          /\ UNCHANGED <<admitted, recent>>
     ELSE /\ UNCHANGED waiting
          /\ IF count < Times THEN Admit ELSE UNCHANGED <<admitted, recent>>
  /\ UNCHANGED <<ttl, orphaned, age>>

\* Mutated form: the window is given in a smaller unit (PEXPIRE).
Expire_Milliseconds(r) ==
  /\ r \in waiting
  /\ waiting' = waiting \ {r}
  /\ ttl' = 1
  /\ Admit
  /\ UNCHANGED <<count, orphaned, age>>

\* The first request is always within the limit.
Expire(r) ==
  /\ r \in waiting
  /\ waiting' = waiting \ {r}
  /\ ttl' = Seconds
  /\ Admit
  /\ UNCHANGED <<count, orphaned, age>>

\* The worker dies, or Redis cannot be reached, after the INCR.
Crash(r) ==
  /\ r \in waiting
  /\ waiting' = waiting \ {r}
  /\ orphaned' = TRUE
  /\ UNCHANGED <<count, ttl, admitted, age, recent>>

\* Time passes; Redis removes the key when its time has run out.
Tick ==
  /\ IF ttl = 1
     THEN count' = 0 /\ ttl' = NoTtl /\ admitted' = 0 /\ age' = 0
     ELSE /\ ttl' = IF ttl = NoTtl THEN NoTtl ELSE ttl - 1
          /\ age' = IF count > 0 /\ age < Seconds THEN age + 1 ELSE age
          /\ UNCHANGED <<count, admitted>>
  /\ recent' = [i \in Span |-> IF i = 0 THEN 0 ELSE recent[i - 1]]
  /\ UNCHANGED <<waiting, orphaned>>

Init ==
  /\ count = 0
  /\ ttl = NoTtl
  /\ waiting = {}
  /\ orphaned = FALSE
  /\ admitted = 0
  /\ age = 0
  /\ recent = [i \in Span |-> 0]

Next == Tick \/ \E r \in Req : Incr(r) \/ Expire(r) \/ Crash(r)

\* Time passes, and a request that is not killed makes its next call.
Fairness == WF_vars(Tick) /\ \A r \in Req : WF_vars(Expire(r))

Spec == Init /\ [][Next]_vars
FairSpec == Spec /\ Fairness

-----------------------------------------------------------------------------
(* Properties *)

\* Between the creation of the key and its removal RateLimiter lets at most
\* Times requests through, however their INCR and EXPIRE calls interleave and
\* whichever of them die.
AdmittedWithinLimit == admitted <= Times

\* Totals(f, N)[n]: f[0] to f[n - 1] added up, for n up to N.
Totals(f, N) ==
  LET sum[n \in 0 .. N] == IF n = 0 THEN 0 ELSE sum[n - 1] + f[n - 1] IN sum

\* Requests let through in the last Seconds ticks.
Admissions == Totals(recent, Seconds)[Seconds]

\* In any Seconds consecutive ticks, wherever they start, at most two windows'
\* worth of requests get through.
SlidingBound == Admissions <= 2 * Times

\* The key never goes before it is Seconds old, even when the EXPIRE was
\* delayed: its age and what it has left to live make up a window.
WindowFullLength == ttl # NoTtl => age + ttl >= Seconds

\* A key without expiry, one that would lock its client out for good, has a
\* request about to set it, unless a request died between INCR and EXPIRE.
\* (Then rate_limit.py's "Please try again later." is wrong for ever.)
StuckOnlyAfterCrash ==
  (count > 0 /\ ttl = NoTtl) => (waiting # {} \/ orphaned)

\* Every window closes in the end, unless a request died between the two calls.
WindowCloses == count > 0 ~> (count = 0 \/ orphaned)
=============================================================================
