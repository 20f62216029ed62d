--------------------------- MODULE CountingProofs ---------------------------
(***************************************************************************)
(* The two components whose promises are bounds on a count, the rate       *)
(* limiter and the mail tasks, for every limit, window, number of retries, *)
(* and number of requests, mails and processes.                            *)
(*                                                                         *)
(* Counts are added up over the ticks of a window and over the retries of  *)
(* a message (Totals); the first part shows what the recursive definition  *)
(* of Totals computes, by induction on sets of natural numbers.            *)
(*                                                                         *)
(* RateLimiter.  AdmittedWithinLimit is not inductive: that the request    *)
(* between INCR and EXPIRE may still be let through has to be counted in,  *)
(* and that there is only one such request, because the key cannot go      *)
(* while it has no expiry (Inv).  For SlidingBound the ticks of the        *)
(* sliding window are divided into those since the key was created and     *)
(* the earlier ones (Divided).                                             *)
(*                                                                         *)
(* Mail tasks.  ExtraMailsExplained says nothing of the messages that may  *)
(* still lead to a mail; the account that a step balances counts them, on  *)
(* the queue and in the processes (Accounted).  GivenUpAfterRetries needs  *)
(* that the number of retries a message carries is backed by as many       *)
(* attempts that failed, duplicates of the message included                *)
(* (RetriesFailed).                                                        *)
(***************************************************************************)
EXTENDS RateLimit, MailTasks, FiniteSetTheorems, TLAPS

-----------------------------------------------------------------------------
(* Adding up *)

\* A non-empty set of natural numbers has a least element.
LEMMA LeastNumber == ASSUME NEW S \in SUBSET Nat, S # {}
                     PROVE  \E x \in S : \A y \in S : x <= y
<1> DEFINE R == OpToRel(<, Nat)
<1>1. IsWellFoundedOn(R, Nat)
  BY NatLessThanWellFounded
<1>2. R = {s \in Nat \X Nat : s[1] < s[2]}
  BY DEF OpToRel
<1> HIDE DEF R
<1>3. PICK x \in S : \A y \in S : ~ (<<y, x>> \in R)
  BY <1>1, WFMin
<1>4. ASSUME NEW y \in S PROVE x <= y
  <2>1. y < x => <<y, x>> \in R
    BY <1>2
  <2>2. QED
    BY <2>1, <1>3
<1>5. QED
  BY <1>4

\* Induction up to N, for a set: what holds of 0, and of n + 1 with n, holds of
\* all of them.
LEMMA SetInduction ==
  ASSUME NEW N \in Nat, NEW G, 0 \in G, \A n \in 0 .. N - 1 : n \in G => n + 1 \in G
  PROVE  \A n \in 0 .. N : n \in G
<1> DEFINE S == {n \in 0 .. N : n \notin G}
<1> SUFFICES ASSUME S # {} PROVE FALSE
  OBVIOUS
<1>1. S \in SUBSET Nat
  OBVIOUS
<1> HIDE DEF S
<1>2. PICK x \in S : \A y \in S : x <= y
  BY <1>1, LeastNumber
<1>3. x \in 0 .. N /\ x \notin G /\ x # 0
  BY <1>2 DEF S
<1>4. x - 1 \in 0 .. N - 1 /\ x - 1 \in 0 .. N /\ x - 1 + 1 = x /\ ~ (x <= x - 1)
  BY <1>3
<1>5. x - 1 \in G
  BY <1>2, <1>4 DEF S
<1>6. QED
  BY <1>3, <1>4, <1>5

\* What the recursion asks of Totals.
IsTotals(g, f, N) ==
  /\ g \in [0 .. N -> Nat]
  /\ g[0] = 0
  /\ \A n \in 1 .. N : g[n] = g[n - 1] + f[n - 1]

\* The recursive definition of Totals has a solution, so it defines what it says.
LEMMA TotalsDef ==
  ASSUME NEW N \in Nat, NEW f \in [0 .. N - 1 -> Nat]
  PROVE  IsTotals(Totals(f, N), f, N)
<1> DEFINE G == {n \in 0 .. N : \E g : IsTotals(g, f, n)}
<1>1. 0 \in G
  <2>1. IsTotals([n \in 0 .. 0 |-> 0], f, 0)
    BY DEF IsTotals
  <2>2. QED
    BY <2>1
<1>2. ASSUME NEW n \in 0 .. N - 1, n \in G PROVE n + 1 \in G
  <2>1. PICK g : IsTotals(g, f, n)
    BY <1>2
  <2> DEFINE h == [i \in 0 .. n + 1 |-> IF i = n + 1 THEN g[n] + f[n] ELSE g[i]]
  <2>2. n + 1 \in 0 .. N /\ n \in Nat /\ f[n] \in Nat /\ g[n] \in Nat
    BY <2>1 DEF IsTotals
  <2>3. h \in [0 .. n + 1 -> Nat] /\ h[0] = 0
    BY <2>1, <2>2 DEF IsTotals
  <2>4. ASSUME NEW i \in 1 .. n + 1 PROVE h[i] = h[i - 1] + f[i - 1]
    <3>1. i - 1 \in 0 .. n + 1 /\ i - 1 # n + 1 /\ h[i - 1] = g[i - 1]
      BY <2>2
    <3>2. CASE i = n + 1
      BY <2>2, <3>1, <3>2
    <3>3. CASE i # n + 1
      BY <2>1, <2>2, <3>1, <3>3 DEF IsTotals
    <3>4. QED
      BY <3>2, <3>3
  <2>5. IsTotals(h, f, n + 1)
    BY <2>3, <2>4 DEF IsTotals
  <2>6. QED
    BY <2>2, <2>5
<1> HIDE DEF G
<1>3. N \in G
  <2>1. \A n \in 0 .. N : n \in G
    BY <1>1, <1>2, SetInduction
  <2>2. QED
    BY <2>1
<1>4. PICK g : IsTotals(g, f, N)
  BY <1>3 DEF G
<1> DEFINE Rec(h) == [n \in 0 .. N |-> IF n = 0 THEN 0 ELSE h[n - 1] + f[n - 1]]
<1>5. g = Rec(g)
  BY <1>4 DEF IsTotals
<1>6. Totals(f, N) = CHOOSE h : h = Rec(h)
  BY DEF Totals
<1> HIDE DEF Rec
<1>7. PICK t : t = Totals(f, N)
  OBVIOUS
<1>8. t = Rec(t)
  BY <1>5, <1>6, <1>7
<1>9. t[0] = 0 /\ DOMAIN t = 0 .. N /\ \A n \in 1 .. N : t[n] = t[n - 1] + f[n - 1]
  BY <1>8 DEF Rec
<1> DEFINE T == {n \in 0 .. N : t[n] \in Nat}
<1>10. 0 \in T
  BY <1>9
<1>11. ASSUME NEW n \in 0 .. N - 1, n \in T PROVE n + 1 \in T
  <2>1. n + 1 \in 1 .. N /\ n + 1 \in 0 .. N /\ n + 1 - 1 = n
    OBVIOUS
  <2>2. t[n + 1] = t[n] + f[n]
    BY <1>9, <2>1
  <2>3. QED
    BY <1>11, <2>1, <2>2
<1> HIDE DEF T
<1>12. \A n \in 0 .. N : n \in T
  BY <1>10, <1>11, SetInduction
<1>13. t \in [0 .. N -> Nat]
  <2>1. t = [n \in 0 .. N |-> t[n]]
    BY <1>8 DEF Rec
  <2>2. QED
    BY <1>12, <2>1 DEF T
<1>14. QED
  BY <1>7, <1>9, <1>13 DEF IsTotals

\* Zeros add up to zero.
LEMMA TotalsOfZeros ==
  ASSUME NEW N \in Nat, NEW f \in [0 .. N - 1 -> Nat], \A i \in 0 .. N - 1 : f[i] = 0
  PROVE  \A n \in 0 .. N : Totals(f, N)[n] = 0
<1>1. PICK s : s = Totals(f, N) /\ IsTotals(s, f, N)
  BY TotalsDef
<1> DEFINE G == {n \in 0 .. N : s[n] = 0}
<1>2. 0 \in G
  BY <1>1 DEF IsTotals
<1>3. ASSUME NEW n \in 0 .. N - 1, n \in G PROVE n + 1 \in G
  <2>1. n + 1 \in 1 .. N /\ n + 1 \in 0 .. N /\ n + 1 - 1 = n
    OBVIOUS
  <2>2. s[n + 1] = s[n] + f[n]
    BY <1>1, <2>1 DEF IsTotals
  <2>3. QED
    BY <1>3, <2>1, <2>2
<1> HIDE DEF G
<1>4. \A n \in 0 .. N : n \in G
  BY <1>2, <1>3, SetInduction
<1>5. QED
  BY <1>1, <1>4 DEF G

\* One number replaced by another.
LEMMA TotalsUpdate ==
  ASSUME NEW N \in Nat, NEW f \in [0 .. N - 1 -> Nat], NEW k \in 0 .. N - 1, NEW v \in Nat
  PROVE  \A n \in 0 .. N : Totals([f EXCEPT ![k] = v], N)[n]
                            = Totals(f, N)[n] + (IF k < n THEN v - f[k] ELSE 0)
<1> DEFINE g == [f EXCEPT ![k] = v]
<1>1. g \in [0 .. N - 1 -> Nat] /\ \A i \in 0 .. N - 1 : g[i] = IF i = k THEN v ELSE f[i]
  OBVIOUS
<1>2. PICK s : s = Totals(f, N) /\ IsTotals(s, f, N)
  BY TotalsDef
<1> HIDE DEF g
<1>3. PICK t : t = Totals(g, N) /\ IsTotals(t, g, N)
  BY <1>1, TotalsDef
<1> DEFINE G == {n \in 0 .. N : t[n] = s[n] + (IF k < n THEN v - f[k] ELSE 0)}
<1>4. 0 \in G
  BY <1>2, <1>3 DEF IsTotals
<1>5. ASSUME NEW n \in 0 .. N - 1, n \in G PROVE n + 1 \in G
  <2>1. n + 1 \in 1 .. N /\ n + 1 \in 0 .. N /\ n + 1 - 1 = n /\ n \in 0 .. N
    OBVIOUS
  <2>2. s[n + 1] = s[n] + f[n] /\ t[n + 1] = t[n] + g[n] /\ s[n] \in Nat /\ t[n] \in Nat
    BY <1>2, <1>3, <2>1 DEF IsTotals
  <2>3. f[n] \in Nat /\ f[k] \in Nat /\ g[n] = IF n = k THEN v ELSE f[n]
    BY <1>1
  <2>4. t[n] = s[n] + (IF k < n THEN v - f[k] ELSE 0)
    BY <1>5
  <2>5. t[n + 1] = s[n + 1] + (IF k < n + 1 THEN v - f[k] ELSE 0)
    BY <2>1, <2>2, <2>3, <2>4
  <2>6. QED
    BY <2>1, <2>5
<1> HIDE DEF G
<1>6. \A n \in 0 .. N : n \in G
  BY <1>4, <1>5, SetInduction
<1>7. QED
  BY <1>2, <1>3, <1>6 DEF G, g

\* All numbers moved up by one, and a zero before them.
LEMMA TotalsShift ==
  ASSUME NEW N \in Nat \ {0}, NEW f \in [0 .. N - 1 -> Nat],
         NEW g, g = [i \in 0 .. N - 1 |-> IF i = 0 THEN 0 ELSE f[i - 1]]
  PROVE  \A n \in 0 .. N - 1 : Totals(g, N)[n + 1] = Totals(f, N)[n]
<1>1. g \in [0 .. N - 1 -> Nat] /\ \A i \in 0 .. N - 1 : g[i] = IF i = 0 THEN 0 ELSE f[i - 1]
  OBVIOUS
<1>2. PICK s : s = Totals(f, N) /\ IsTotals(s, f, N)
  BY TotalsDef
<1>3. PICK t : t = Totals(g, N) /\ IsTotals(t, g, N)
  BY <1>1, TotalsDef
<1> DEFINE G == {n \in 0 .. N - 1 : t[n + 1] = s[n]}
<1>4. 0 \in G
  <2>1. 1 \in 1 .. N /\ 0 \in 0 .. N - 1 /\ 1 - 1 = 0
    OBVIOUS
  <2>2. t[1] = t[0] + g[0] /\ t[0] = 0 /\ s[0] = 0 /\ g[0] = 0
    BY <1>1, <1>2, <1>3, <2>1 DEF IsTotals
  <2>3. QED
    BY <2>1, <2>2
<1>5. ASSUME NEW n \in 0 .. N - 1 - 1, n \in G PROVE n + 1 \in G
  <2>1. n + 1 \in 1 .. N /\ n + 2 \in 1 .. N /\ n + 1 \in 0 .. N - 1 /\ n \in 0 .. N
        /\ n + 1 - 1 = n /\ n + 2 - 1 = n + 1 /\ n + 1 + 1 = n + 2 /\ n + 1 # 0
    OBVIOUS
  <2>2. s[n + 1] = s[n] + f[n]
    BY <1>2, <2>1 DEF IsTotals
  <2>3. t[n + 2] = t[n + 1] + g[n + 1]
    <3>1. \A i \in 1 .. N : t[i] = t[i - 1] + g[i - 1]
      BY <1>3 DEF IsTotals
    <3>2. t[n + 2] = t[n + 2 - 1] + g[n + 2 - 1]
      BY <2>1, <3>1
    <3>3. QED
      BY <2>1, <3>2
  <2>4. g[n + 1] = f[n]
    BY <1>1, <2>1
  <2>5. QED
    BY <1>5, <2>1, <2>2, <2>3, <2>4
<1> HIDE DEF G
<1>6. \A n \in 0 .. N - 1 : n \in G
  <2>1. N - 1 \in Nat
    OBVIOUS
  <2>2. QED
    BY <1>4, <1>5, <2>1, SetInduction
<1>7. QED
  BY <1>2, <1>3, <1>6 DEF G

-----------------------------------------------------------------------------
(* RateLimiter *)

\* No key: nothing admitted on its account, no expiry, nobody about to set it.
NoKey == count = 0 => /\ admitted = 0 /\ ttl = NoTtl
                      /\ age = 0 /\ waiting = {}

\* The first request of the window is alone between its two calls, the key
\* has no expiry yet, and there is room left for this request.
OneWaiting ==
  /\ \A r, s \in waiting : r = s
  /\ waiting # {} => /\ ttl = NoTtl
                     /\ admitted < count /\ admitted < Times

Inv ==
  /\ TypeOK
  /\ NoKey
  /\ OneWaiting
  /\ admitted <= count
  /\ AdmittedWithinLimit
  /\ WindowFullLength
  /\ StuckOnlyAfterCrash

\* The limiter starts in a state that satisfies the invariant.
LEMMA InvInit == Init => Inv
<1> SUFFICES ASSUME Init PROVE Inv
    OBVIOUS
<1>1. TypeOK
  <2>1. count \in Nat /\ admitted \in Nat /\ age \in 0 .. Seconds
    BY LimitAssumption DEF Init
  <2>2. waiting \in SUBSET Req /\ orphaned \in BOOLEAN
    BY DEF Init
  <2>3. ttl \in {NoTtl} \cup 1 .. Seconds
    BY DEF Init
  <2>4. recent \in [Span -> Nat]
    BY DEF Init
  <2> QED BY <2>1, <2>2, <2>3, <2>4 DEF TypeOK
<1>2. NoKey /\ OneWaiting
  BY DEF Init, NoKey, OneWaiting
<1>3. admitted <= count /\ AdmittedWithinLimit
  BY LimitAssumption DEF Init, AdmittedWithinLimit
<1>4. WindowFullLength /\ StuckOnlyAfterCrash
  BY DEF Init, WindowFullLength, StuckOnlyAfterCrash
<1> QED BY <1>1, <1>2, <1>3, <1>4 DEF Inv

\* INCR, EXPIRE, the death of a request and the passing of time preserve it.
LEMMA InvNext == Inv /\ [Next]_vars => Inv'
<1> SUFFICES ASSUME Inv, [Next]_vars PROVE Inv'
    OBVIOUS
<1> USE LimitAssumption DEF NoTtl
<1>1. ASSUME NEW r \in Req, Incr(r) PROVE Inv'
  <2>1. TypeOK'
    BY <1>1 DEF Inv, TypeOK, Incr, Admit, Span
  <2>2. NoKey'
    BY <1>1 DEF Inv, TypeOK, Incr, NoKey
  <2>3. OneWaiting'
    <3>1. CASE count = 0
      BY <1>1, <3>1 DEF Inv, TypeOK, Incr, NoKey, OneWaiting
    <3>2. CASE count # 0
      BY <1>1, <3>2 DEF Inv, TypeOK, Incr, Admit, OneWaiting
    <3> QED BY <3>1, <3>2
  <2>4. (admitted <= count)' /\ AdmittedWithinLimit'
    BY <1>1 DEF Inv, TypeOK, Incr, Admit, NoKey, AdmittedWithinLimit
  <2>5. WindowFullLength'
    BY <1>1 DEF Inv, TypeOK, Incr, WindowFullLength
  <2>6. StuckOnlyAfterCrash'
    BY <1>1 DEF Inv, TypeOK, Incr, StuckOnlyAfterCrash
  <2> QED BY <2>1, <2>2, <2>3, <2>4, <2>5, <2>6 DEF Inv
<1>2. ASSUME NEW r \in Req, Expire(r) PROVE Inv'
  <2>1. waiting = {r} /\ waiting' = {}
    BY <1>2 DEF Inv, OneWaiting, Expire
  <2>2. TypeOK'
    BY <1>2, <2>1 DEF Inv, TypeOK, Expire, Admit, Span
  <2>3. NoKey' /\ OneWaiting'
    BY <1>2, <2>1 DEF Inv, TypeOK, Expire, NoKey, OneWaiting
  <2>4. (admitted <= count)' /\ AdmittedWithinLimit'
    BY <1>2, <2>1 DEF Inv, TypeOK, Expire, Admit, OneWaiting, AdmittedWithinLimit
  <2>5. WindowFullLength' /\ StuckOnlyAfterCrash'
    BY <1>2 DEF Inv, TypeOK, Expire, WindowFullLength, StuckOnlyAfterCrash
  <2> QED BY <2>2, <2>3, <2>4, <2>5 DEF Inv
<1>3. ASSUME NEW r \in Req, Crash(r) PROVE Inv'
  BY <1>3 DEF Inv, TypeOK, Crash, NoKey, OneWaiting, AdmittedWithinLimit,
     WindowFullLength, StuckOnlyAfterCrash, Span
<1>4. CASE Tick
  <2>1. TypeOK'
    BY <1>4 DEF Inv, TypeOK, Tick, Span
  <2>2. NoKey' /\ OneWaiting' /\ (admitted <= count)' /\ AdmittedWithinLimit'
    BY <1>4 DEF Inv, TypeOK, Tick, NoKey, OneWaiting, AdmittedWithinLimit
  <2>3. WindowFullLength'
    BY <1>4 DEF Inv, TypeOK, Tick, NoKey, WindowFullLength
  <2>4. StuckOnlyAfterCrash'
    BY <1>4 DEF Inv, TypeOK, Tick, StuckOnlyAfterCrash
  <2> QED BY <2>1, <2>2, <2>3, <2>4 DEF Inv
<1>5. CASE UNCHANGED vars
  BY <1>5 DEF vars, Inv, TypeOK, NoKey, OneWaiting, AdmittedWithinLimit,
     WindowFullLength, StuckOnlyAfterCrash, Span
<1> QED BY <1>1, <1>2, <1>3, <1>4, <1>5 DEF Next

\* The invariant holds throughout.
THEOREM Invariance == Spec => []Inv
  BY InvInit, InvNext, PTL DEF Spec

\* The state of the limiter stays well formed.
THEOREM TypeCorrect == Spec => []TypeOK
  BY Invariance, PTL DEF Inv

\* No life of a key lets more than Times requests through.
THEOREM LimitHolds == Spec => []AdmittedWithinLimit
  BY Invariance, PTL DEF Inv

\* No key goes before it is a full window old.
THEOREM WindowsFullLength == Spec => []WindowFullLength
  BY Invariance, PTL DEF Inv

\* A key without an expiry is being given one, or its request died.
THEOREM StuckKeysExplained == Spec => []StuckOnlyAfterCrash
  BY Invariance, PTL DEF Inv

-----------------------------------------------------------------------------
(* RateLimiter over a sliding window *)

\* Ticks of the sliding window since the key was created, this one included.
SinceCreation == IF age < Seconds THEN age + 1 ELSE Seconds

\* The requests let through since the key was created are counted in admitted;
\* those before it had a window of their own.
Divided ==
  LET total == Totals(recent, Seconds) IN
  /\ total[SinceCreation] <= admitted
  /\ total[Seconds] <= total[SinceCreation] + Times

\* A request that is let through is one more in every sum.
LEMMA AdmitAdds ==
  ASSUME recent \in [Span -> Nat], Admit
  PROVE  \A n \in 1 .. Seconds : Totals(recent, Seconds)'[n] = Totals(recent, Seconds)[n] + 1
<1>1. Seconds \in Nat /\ Seconds >= 1 /\ 0 \in 0 .. Seconds - 1
  BY LimitAssumption
<1>2. PICK f \in [0 .. Seconds - 1 -> Nat] : f = recent
  BY DEF Span
<1>3. PICK v \in Nat : v = f[0] + 1
  BY <1>1
<1>4. recent' = [f EXCEPT ![0] = v] /\ f[0] \in Nat /\ v - f[0] = 1
  BY <1>1, <1>2, <1>3 DEF Admit
<1>5. \A n \in 0 .. Seconds : Totals([f EXCEPT ![0] = v], Seconds)[n]
                               = Totals(f, Seconds)[n] + (IF 0 < n THEN v - f[0] ELSE 0)
  BY <1>1, TotalsUpdate
<1>6. Totals(recent, Seconds)' = Totals([f EXCEPT ![0] = v], Seconds)
  BY <1>4
<1>7. \A n \in 1 .. Seconds : n \in 0 .. Seconds /\ 0 < n
  BY <1>1
<1>8. QED
  BY <1>2, <1>4, <1>5, <1>6, <1>7

\* The sums are numbers, and do not fall from one tick to the next.
LEMMA SumsAreNat ==
  ASSUME recent \in [Span -> Nat]
  PROVE  /\ \A n \in 0 .. Seconds : Totals(recent, Seconds)[n] \in Nat
         /\ Totals(recent, Seconds)[0] = 0
         /\ Totals(recent, Seconds)[Seconds - 1] <= Totals(recent, Seconds)[Seconds]
<1>1. Seconds \in Nat /\ Seconds \in 1 .. Seconds /\ Seconds - 1 \in 0 .. Seconds
      /\ Seconds - 1 \in 0 .. Seconds - 1
  BY LimitAssumption
<1>2. PICK f \in [0 .. Seconds - 1 -> Nat] : f = recent
  BY DEF Span
<1>3. PICK s : s = Totals(f, Seconds) /\ IsTotals(s, f, Seconds)
  BY <1>1, TotalsDef
<1>4. /\ \A n \in 0 .. Seconds : s[n] \in Nat
      /\ s[0] = 0 /\ s[Seconds] = s[Seconds - 1] + f[Seconds - 1] /\ f[Seconds - 1] \in Nat
  BY <1>1, <1>3 DEF IsTotals
<1>5. s[Seconds - 1] <= s[Seconds]
  BY <1>1, <1>4
<1>6. QED
  BY <1>2, <1>3, <1>4, <1>5

\* A tick later every sum is that of one tick less.
LEMMA TickShifts ==
  ASSUME recent \in [Span -> Nat], Tick
  PROVE  \A n \in 0 .. Seconds - 1 : Totals(recent, Seconds)'[n + 1] = Totals(recent, Seconds)[n]
<1>1. Seconds \in Nat \ {0}
  BY LimitAssumption
<1>2. PICK f \in [0 .. Seconds - 1 -> Nat] : f = recent
  BY DEF Span
<1>3. PICK g : g = [i \in 0 .. Seconds - 1 |-> IF i = 0 THEN 0 ELSE f[i - 1]]
  OBVIOUS
<1>4. recent' = g
  BY <1>2, <1>3 DEF Tick, Span
<1>5. \A n \in 0 .. Seconds - 1 : Totals(g, Seconds)[n + 1] = Totals(f, Seconds)[n]
  BY <1>1, <1>3, TotalsShift
<1>6. QED
  BY <1>2, <1>4, <1>5

\* At the start nothing was let through.
LEMMA DividedInit == Init => Divided
<1> SUFFICES ASSUME Init PROVE Divided
    OBVIOUS
<1>1. Seconds \in Nat \ {0} /\ recent \in [Span -> Nat] /\ Times \in Nat
  BY LimitAssumption DEF Init
<1>2. PICK f \in [0 .. Seconds - 1 -> Nat] : f = recent
  BY <1>1 DEF Span
<1>3. \A i \in 0 .. Seconds - 1 : f[i] = 0
  BY <1>2 DEF Init, Span
<1>4. \A n \in 0 .. Seconds : Totals(f, Seconds)[n] = 0
  BY <1>1, <1>3, TotalsOfZeros
<1>5. SinceCreation \in 0 .. Seconds /\ Seconds \in 0 .. Seconds
  BY <1>1 DEF SinceCreation, Init
<1>6. QED
  BY <1>1, <1>2, <1>4, <1>5 DEF Divided, Init

\* A request let through counts for the life of this key; a tick takes the
\* ticks since its creation along; and when a key goes, the whole window is
\* its own, because it lived that long.
LEMMA DividedNext == Inv /\ Divided /\ [Next]_vars => Divided'
<1> SUFFICES ASSUME Inv, Divided, [Next]_vars PROVE Divided'
    OBVIOUS
<1> DEFINE S(n) == Totals(recent, Seconds)[n]
           T(n) == Totals(recent, Seconds)'[n]
           c == SinceCreation
<1>1. /\ Seconds \in Nat /\ Seconds >= 1 /\ Times \in Nat
      /\ recent \in [Span -> Nat] /\ admitted \in Nat /\ age \in 0 .. Seconds
      /\ admitted <= Times /\ count \in Nat /\ ttl \in {NoTtl} \cup 1 .. Seconds
  BY LimitAssumption DEF Inv, TypeOK, AdmittedWithinLimit
<1>2. /\ c \in 1 .. Seconds /\ c \in 0 .. Seconds /\ S(c) \in Nat /\ S(Seconds) \in Nat /\ S(0) = 0
      /\ S(Seconds - 1) \in Nat /\ S(Seconds - 1) <= S(Seconds)
      /\ S(c) <= admitted /\ S(Seconds) <= S(c) + Times
  <2>1. c \in 1 .. Seconds /\ c \in 0 .. Seconds /\ Seconds \in 0 .. Seconds /\ Seconds - 1 \in 0 .. Seconds
    BY <1>1 DEF SinceCreation
  <2>2. QED
    BY <1>1, <2>1, SumsAreNat DEF Divided
<1>3. ASSUME Admit, UNCHANGED age PROVE Divided'
  <2>1. T(c) = S(c) + 1 /\ T(Seconds) = S(Seconds) + 1 /\ c' = c /\ admitted' = admitted + 1
    <3>1. Seconds \in 1 .. Seconds
      BY <1>1
    <3>2. \A n \in 1 .. Seconds : T(n) = S(n) + 1
      BY <1>1, <1>3, AdmitAdds
    <3>3. c' = c /\ admitted' = admitted + 1
      BY <1>3 DEF Admit, SinceCreation
    <3>4. QED
      BY <1>2, <3>1, <3>2, <3>3
  <2> HIDE DEF S, T
  <2>2. T(c) <= admitted' /\ T(Seconds) <= T(c) + Times
    BY <1>1, <1>2, <2>1
  <2>3. QED
    BY <2>1, <2>2 DEF Divided, T
<1>4. ASSUME UNCHANGED <<admitted, recent, age>> PROVE Divided'
  BY <1>4 DEF Divided, SinceCreation
<1>5. ASSUME Tick PROVE Divided'
  <2>1. \A n \in 0 .. Seconds - 1 : T(n + 1) = S(n)
    BY <1>1, <1>5, TickShifts
  <2>2. T(Seconds) = S(Seconds - 1) /\ T(1) = 0
    <3>1. Seconds - 1 \in 0 .. Seconds - 1 /\ Seconds - 1 + 1 = Seconds /\ 0 \in 0 .. Seconds - 1 /\ 0 + 1 = 1
      BY <1>1
    <3>2. T(Seconds - 1 + 1) = S(Seconds - 1) /\ T(0 + 1) = S(0)
      BY <2>1, <3>1
    <3>3. QED
      BY <1>2, <3>1, <3>2
  <2> SUFFICES T(c') <= admitted' /\ T(Seconds) <= T(c') + Times
    BY DEF Divided
  <2>3. CASE ttl = 1
    <3>1. admitted' = 0 /\ c' = 1
      BY <1>1, <1>5, <2>3 DEF Tick, SinceCreation
    <3>2. c = Seconds
      BY <1>1, <2>3 DEF Inv, WindowFullLength, NoTtl, SinceCreation
    <3> HIDE DEF S, T
    <3>3. QED
      BY <1>1, <1>2, <2>2, <3>1, <3>2
  <2>4. CASE ttl # 1 /\ count = 0
    <3>1. admitted' = 0 /\ admitted = 0 /\ c' = 1 /\ c = 1
      BY <1>1, <1>5, <2>4 DEF Tick, Inv, NoKey, SinceCreation
    <3> HIDE DEF S, T
    <3>2. QED
      BY <1>1, <1>2, <2>2, <3>1
  <2>5. CASE ttl # 1 /\ count > 0 /\ c < Seconds
    <3>1. admitted' = admitted /\ c' = c + 1 /\ c \in 0 .. Seconds - 1
      BY <1>1, <1>5, <2>5 DEF Tick, SinceCreation
    <3>2. T(c + 1) = S(c)
      BY <2>1, <3>1
    <3> HIDE DEF S, T
    <3>3. QED
      BY <1>1, <1>2, <2>2, <3>1, <3>2
  <2>6. CASE ttl # 1 /\ count > 0 /\ c = Seconds
    <3>1. admitted' = admitted /\ c' = Seconds
      BY <1>1, <1>5, <2>6 DEF Tick, SinceCreation
    <3> HIDE DEF S, T
    <3>2. QED
      BY <1>1, <1>2, <2>2, <2>6, <3>1
  <2>7. QED
    BY <1>1, <1>2, <2>3, <2>4, <2>5, <2>6
<1>6. ASSUME NEW r \in Req, Incr(r) \/ Expire(r) \/ Crash(r) PROVE Divided'
  BY <1>3, <1>4, <1>6 DEF Incr, Expire, Crash
<1>7. QED
  BY <1>4, <1>5, <1>6 DEF Next, vars

\* In any Seconds consecutive ticks at most twice the limit gets through: what
\* this key has let through, and what an earlier one did.
THEOREM SlidingWindowsBounded == Spec => []SlidingBound
<1>1. Inv /\ Divided => SlidingBound
  <2> SUFFICES ASSUME Inv, Divided PROVE SlidingBound
    OBVIOUS
  <2>1. Times \in Nat /\ admitted \in Nat /\ admitted <= Times /\ recent \in [Span -> Nat]
        /\ SinceCreation \in 0 .. Seconds /\ Seconds \in 0 .. Seconds
    BY LimitAssumption DEF Inv, TypeOK, AdmittedWithinLimit, SinceCreation
  <2>2. Totals(recent, Seconds)[SinceCreation] \in Nat /\ Totals(recent, Seconds)[Seconds] \in Nat
    BY <2>1, SumsAreNat
  <2>3. QED
    BY <2>1, <2>2 DEF Divided, SlidingBound, Admissions
<1>2. Spec => [](Inv /\ Divided)
  BY InvInit, InvNext, DividedInit, DividedNext, PTL DEF Spec
<1>3. QED
  BY <1>1, <1>2, PTL

-----------------------------------------------------------------------------
(* The mail tasks *)

\* Messages of a mail that wait in the queue.
Queued(m) == Totals(queue[m], max_retries + 1)[max_retries + 1]

\* Processes that have a message of the mail and have not dealt with it yet.
Trying(m) == {p \in Process : run[p].pc \in {"send", "retry"} /\ run[p].mail = m}

\* A mail sent, and a message that may lead to one, comes from the call of
\* .delay() or from a doubt.
Accounted ==
  \A m \in Mail :
    sent[m] + Queued(m) + Cardinality(Trying(m)) <= doubts[m] + (IF m \in asked THEN 1 ELSE 0)

\* A message that counts k retries stands for as many attempts that failed.
RetriesFailed ==
  /\ \A m \in Mail, k \in Retries : queue[m][k] > 0 => failed[m] >= k
  /\ \A p \in Process : run[p].pc # "idle" => failed[run[p].mail] >= run[p].retries
  /\ \A p \in Process : run[p].pc = "retry" => failed[run[p].mail] > run[p].retries

MailInv == MailTypeOK /\ Accounted /\ RetriesFailed /\ GivenUpAfterRetries

\* The number of messages waiting, when there is one more or one less.
LEMMA QueuedChanges ==
  ASSUME MailTypeOK, NEW m \in Mail, NEW k \in Retries, NEW v \in Nat,
         queue' = [queue EXCEPT ![m][k] = v]
  PROVE  /\ Queued(m)' = Queued(m) + (v - queue[m][k])
         /\ \A n \in Mail \ {m} : Queued(n)' = Queued(n)
<1> DEFINE N == max_retries + 1
<1>1. N \in Nat /\ k \in 0 .. N - 1 /\ N \in 0 .. N /\ k < N /\ Retries = 0 .. N - 1
  BY BoundsAssumption DEF Retries
<1> HIDE DEF N
<1>2. PICK f \in [0 .. N - 1 -> Nat] : f = queue[m]
  BY <1>1 DEF MailTypeOK
<1>3. queue'[m] = [f EXCEPT ![k] = v] /\ \A n \in Mail \ {m} : queue'[n] = queue[n]
  BY <1>2 DEF MailTypeOK
<1>4. Totals([f EXCEPT ![k] = v], N)[N] = Totals(f, N)[N] + (IF k < N THEN v - f[k] ELSE 0)
  BY <1>1, TotalsUpdate
<1>5. Queued(m)' = Totals([f EXCEPT ![k] = v], N)[N] /\ Queued(m) = Totals(f, N)[N]
  BY <1>2, <1>3 DEF Queued, N
<1>6. QED
  BY <1>1, <1>2, <1>3, <1>4, <1>5 DEF Queued

\* Messages and processes are counted by natural numbers.
LEMMA CountsAreNat ==
  ASSUME MailTypeOK, NEW m \in Mail
  PROVE  /\ Queued(m) \in Nat /\ IsFiniteSet(Trying(m)) /\ Cardinality(Trying(m)) \in Nat
         /\ sent[m] \in Nat /\ doubts[m] \in Nat
<1> DEFINE N == max_retries + 1
<1>1. N \in Nat /\ N \in 0 .. N /\ Retries = 0 .. N - 1
  BY BoundsAssumption DEF Retries
<1> HIDE DEF N
<1>2. PICK f \in [0 .. N - 1 -> Nat] : f = queue[m]
  BY <1>1 DEF MailTypeOK
<1>3. IsTotals(Totals(f, N), f, N)
  BY <1>1, TotalsDef
<1>4. Queued(m) \in Nat
  BY <1>1, <1>2, <1>3 DEF IsTotals, Queued, N
<1>5. Trying(m) \in SUBSET Process
  BY DEF Trying
<1>6. IsFiniteSet(Trying(m)) /\ Cardinality(Trying(m)) \in Nat
  BY <1>5, BoundsAssumption, FS_Subset, FS_CardinalityType
<1>7. QED
  BY <1>4, <1>6 DEF MailTypeOK

\* The number of processes that try a mail, when one starts or stops.
LEMMA TryingChanges ==
  ASSUME MailTypeOK, NEW p \in Process, NEW m \in Mail
  PROVE  /\ Trying(m)' = Trying(m) \cup {p} /\ p \notin Trying(m) =>
              Cardinality(Trying(m))' = Cardinality(Trying(m)) + 1
         /\ Trying(m)' = Trying(m) \ {p} /\ p \in Trying(m) =>
              Cardinality(Trying(m))' = Cardinality(Trying(m)) - 1
<1>1. PICK S : S = Trying(m)
  OBVIOUS
<1>2. IsFiniteSet(S)
  BY <1>1, CountsAreNat
<1>3. p \notin S => Cardinality(S \cup {p}) = Cardinality(S) + 1
  BY <1>2, FS_AddElement
<1>4. p \in S => Cardinality(S \ {p}) = Cardinality(S) - 1
  BY <1>2, FS_RemoveElement
<1>5. QED
  BY <1>1, <1>3, <1>4

\* A process that is not idle has a message.
LEMMA AtWork ==
  ASSUME MailTypeOK, NEW p \in Process, run[p].pc # "idle" \/ run[p] # Idle
  PROVE  run[p] \in Running /\ run[p].mail \in Mail /\ run[p].retries \in Retries /\ run[p].pc # "idle"
  BY DEF MailTypeOK, Running, Idle

\* What becomes of a process that changes its step, or takes or drops a message.
LEMMA ProcessMoves ==
  ASSUME MailTypeOK, NEW p \in Process, NEW next \in Running \cup {Idle},
         run' = [run EXCEPT ![p] = next]
  PROVE  /\ run' \in [Process -> Running \cup {Idle}] /\ run'[p] = next
         /\ \A q \in Process \ {p} : run'[q] = run[q]
         /\ \A m \in Mail : Trying(m)' =
              IF next.pc \in {"send", "retry"} /\ next.mail = m
              THEN Trying(m) \cup {p} ELSE Trying(m) \ {p}
  BY DEF MailTypeOK, Trying

\* The same for the step alone.
LEMMA StepMoves ==
  ASSUME MailTypeOK, NEW p \in Process, run[p].pc # "idle", NEW pc \in {"send", "retry", "ack"},
         run' = [run EXCEPT ![p].pc = pc]
  PROVE  \E next \in Running :
           /\ run' = [run EXCEPT ![p] = next]
           /\ next.pc = pc /\ next.mail = run[p].mail /\ next.retries = run[p].retries
<1>1. run[p] \in Running
  BY AtWork
<1>2. PICK next : next = [run[p] EXCEPT !.pc = pc]
  OBVIOUS
<1>3. next \in Running /\ next.pc = pc /\ next.mail = run[p].mail /\ next.retries = run[p].retries
  BY <1>1, <1>2 DEF Running
<1>4. run' = [run EXCEPT ![p] = next]
  BY <1>2 DEF MailTypeOK
<1>5. QED
  BY <1>3, <1>4

\* At the start no mail is asked for.
LEMMA MailInvInit == MailInit => MailInv
<1> SUFFICES ASSUME MailInit PROVE MailInv
    OBVIOUS
<1>1. MailTypeOK
  BY BoundsAssumption DEF MailInit, MailTypeOK, Idle, Running
<1>2. RetriesFailed /\ GivenUpAfterRetries
  BY DEF MailInit, RetriesFailed, GivenUpAfterRetries, Idle
<1>3. ASSUME NEW m \in Mail PROVE Queued(m) = 0 /\ Cardinality(Trying(m)) = 0
  <2>1. Trying(m) = {}
    BY DEF MailInit, Trying, Idle
  <2> DEFINE N == max_retries + 1
             f == [k \in 0 .. N - 1 |-> 0]
  <2>2. N \in Nat /\ Retries = 0 .. N - 1 /\ N \in 0 .. N
    BY BoundsAssumption DEF Retries
  <2>3. queue[m] = f
    BY <2>2 DEF MailInit
  <2>4. f \in [0 .. N - 1 -> Nat] /\ \A k \in 0 .. N - 1 : f[k] = 0
    OBVIOUS
  <2> HIDE DEF N, f
  <2>5. Totals(f, N)[N] = 0
    BY <2>2, <2>4, TotalsOfZeros
  <2>6. Queued(m) = 0
    BY <2>3, <2>5 DEF Queued, N
  <2>7. QED
    BY <2>1, <2>6, FS_EmptySet
<1>4. Accounted
  BY <1>3 DEF Accounted, MailInit
<1>5. QED
  BY <1>1, <1>2, <1>4 DEF MailInv

\* .delay(): one message, and room for one mail.
LEMMA DelayKeeps == ASSUME MailInv, NEW m \in Mail, Delay(m) PROVE MailInv'
<1>0. MailTypeOK /\ Accounted /\ RetriesFailed /\ GivenUpAfterRetries
  BY DEF MailInv
<1>1. 0 \in Retries /\ queue[m][0] \in Nat
  BY <1>0, BoundsAssumption DEF Retries, MailTypeOK
<1>2. PICK v \in Nat : v = queue[m][0] + 1
  BY <1>1
<1>3. /\ queue' = [queue EXCEPT ![m][0] = v] /\ asked' = asked \cup {m} /\ m \notin asked
      /\ run' = run /\ deaths' = deaths /\ history' = history
  BY <1>2 DEF Delay
<1>4. MailTypeOK'
  BY <1>0, <1>1, <1>3 DEF MailTypeOK, history
<1>5. Queued(m)' = Queued(m) + 1 /\ \A n \in Mail \ {m} : Queued(n)' = Queued(n)
  <2>1. /\ Queued(m)' = Queued(m) + (v - queue[m][0])
        /\ \A n \in Mail \ {m} : Queued(n)' = Queued(n)
    BY <1>0, <1>1, <1>3, QueuedChanges
  <2>2. v - queue[m][0] = 1
    BY <1>1, <1>2
  <2>3. QED
    BY <2>1, <2>2
<1>6. Accounted'
  <2>1. SUFFICES ASSUME NEW n \in Mail
                 PROVE  sent'[n] + Queued(n)' + Cardinality(Trying(n))'
                          <= doubts'[n] + (IF n \in asked' THEN 1 ELSE 0)
    BY DEF Accounted
  <2>2. sent' = sent /\ doubts' = doubts /\ Cardinality(Trying(n))' = Cardinality(Trying(n))
    BY <1>3 DEF history, Trying
  <2>3. /\ Queued(n) \in Nat /\ Cardinality(Trying(n)) \in Nat /\ sent[n] \in Nat /\ doubts[n] \in Nat
        /\ sent[n] + Queued(n) + Cardinality(Trying(n)) <= doubts[n] + (IF n \in asked THEN 1 ELSE 0)
    BY <1>0, CountsAreNat DEF Accounted
  <2>4. CASE n = m
    BY <1>3, <1>5, <2>2, <2>3, <2>4
  <2>5. CASE n # m
    BY <1>3, <1>5, <2>2, <2>3, <2>5
  <2>6. QED
    BY <2>4, <2>5
<1>7. RetriesFailed'
  BY <1>0, <1>3 DEF RetriesFailed, MailTypeOK, Retries, history
<1>8. GivenUpAfterRetries'
  BY <1>0, <1>3 DEF GivenUpAfterRetries, history
<1>9. QED
  BY <1>4, <1>6, <1>7, <1>8 DEF MailInv

\* A process takes a message: it waits no longer, and is being tried.
LEMMA TakeKeeps ==
  ASSUME MailInv, NEW p \in Process, NEW m \in Mail, NEW k \in Retries, Take(p, m, k) PROVE MailInv'
<1>0. MailTypeOK /\ Accounted /\ RetriesFailed /\ GivenUpAfterRetries
  BY DEF MailInv
<1>1. queue[m][k] \in Nat /\ queue[m][k] > 0 /\ run[p] = Idle
  BY <1>0 DEF MailTypeOK, Take
<1>2. PICK v \in Nat : v = queue[m][k] - 1
  BY <1>1
<1>3. PICK next \in Running : next = [pc |-> "send", mail |-> m, retries |-> k]
  BY DEF Running
<1>4. /\ queue' = [queue EXCEPT ![m][k] = v] /\ run' = [run EXCEPT ![p] = next]
      /\ asked' = asked /\ deaths' = deaths /\ history' = history
  BY <1>2, <1>3 DEF Take
<1>5. /\ run' \in [Process -> Running \cup {Idle}] /\ run'[p] = next
      /\ \A q \in Process \ {p} : run'[q] = run[q]
      /\ \A n \in Mail : Trying(n)' = IF next.pc \in {"send", "retry"} /\ next.mail = n
                                      THEN Trying(n) \cup {p} ELSE Trying(n) \ {p}
  BY <1>0, <1>4, ProcessMoves
<1>6. MailTypeOK'
  BY <1>0, <1>1, <1>4, <1>5 DEF MailTypeOK, history
<1>7. Queued(m)' = Queued(m) - 1 /\ \A n \in Mail \ {m} : Queued(n)' = Queued(n)
  <2>1. /\ Queued(m)' = Queued(m) + (v - queue[m][k])
        /\ \A n \in Mail \ {m} : Queued(n)' = Queued(n)
    BY <1>0, <1>4, QueuedChanges
  <2>2. v - queue[m][k] = -1 /\ Queued(m) \in Nat
    BY <1>0, <1>1, <1>2, CountsAreNat
  <2>3. QED
    BY <2>1, <2>2
<1>8. Cardinality(Trying(m))' = Cardinality(Trying(m)) + 1
  <2>1. Trying(m)' = Trying(m) \cup {p} /\ p \notin Trying(m)
    BY <1>1, <1>3, <1>5 DEF Trying, Idle
  <2>2. QED
    BY <1>0, <2>1, TryingChanges
<1>9. \A n \in Mail \ {m} : Trying(n)' = Trying(n)
  BY <1>1, <1>3, <1>5 DEF Trying, Idle
<1>10. Accounted'
  <2>1. SUFFICES ASSUME NEW n \in Mail
                 PROVE  sent'[n] + Queued(n)' + Cardinality(Trying(n))'
                          <= doubts'[n] + (IF n \in asked' THEN 1 ELSE 0)
    BY DEF Accounted
  <2>2. sent' = sent /\ doubts' = doubts /\ asked' = asked
    BY <1>4 DEF history
  <2>3. /\ Queued(n) \in Nat /\ Cardinality(Trying(n)) \in Nat /\ sent[n] \in Nat /\ doubts[n] \in Nat
        /\ sent[n] + Queued(n) + Cardinality(Trying(n)) <= doubts[n] + (IF n \in asked THEN 1 ELSE 0)
    BY <1>0, CountsAreNat DEF Accounted
  <2>4. CASE n = m
    BY <1>7, <1>8, <2>2, <2>3, <2>4
  <2>5. CASE n # m
    BY <1>7, <1>9, <2>2, <2>3, <2>5
  <2>6. QED
    BY <2>4, <2>5
<1>11. RetriesFailed'
  <2>1. failed' = failed /\ failed[m] >= k
    BY <1>0, <1>1, <1>4 DEF RetriesFailed, history
  <2>2. \A n \in Mail, j \in Retries : queue'[n][j] > 0 => queue[n][j] > 0
    BY <1>0, <1>1, <1>2, <1>4 DEF MailTypeOK
  <2>3. QED
    BY <1>0, <1>3, <1>5, <2>1, <2>2 DEF RetriesFailed
<1>12. GivenUpAfterRetries'
  BY <1>0, <1>4 DEF GivenUpAfterRetries, history
<1>13. QED
  BY <1>6, <1>10, <1>11, <1>12 DEF MailInv

\* The account is balanced when no other mail is touched, and what this one
\* gains in mails and messages it gains in doubts.
LEMMA Balanced ==
  ASSUME MailTypeOK, Accounted, asked' = asked, NEW m \in Mail,
         \A n \in Mail \ {m} : /\ sent'[n] = sent[n] /\ doubts'[n] = doubts[n]
                              /\ Queued(n)' = Queued(n)
                              /\ Cardinality(Trying(n))' = Cardinality(Trying(n)),
         NEW s \in Nat, NEW q \in Nat, NEW t \in Nat, NEW d \in Nat,
         sent'[m] = s, Queued(m)' = q, Cardinality(Trying(m))' = t, doubts'[m] = d,
         s + q + t + doubts[m] <= sent[m] + Queued(m) + Cardinality(Trying(m)) + d
  PROVE  Accounted'
<1>1. SUFFICES ASSUME NEW n \in Mail
               PROVE  sent'[n] + Queued(n)' + Cardinality(Trying(n))'
                        <= doubts'[n] + (IF n \in asked' THEN 1 ELSE 0)
  BY DEF Accounted
<1>2. /\ Queued(n) \in Nat /\ Cardinality(Trying(n)) \in Nat /\ sent[n] \in Nat /\ doubts[n] \in Nat
      /\ sent[n] + Queued(n) + Cardinality(Trying(n)) <= doubts[n] + (IF n \in asked THEN 1 ELSE 0)
  BY CountsAreNat DEF Accounted
<1>3. CASE n = m
  BY <1>2, <1>3
<1>4. CASE n # m
  BY <1>2, <1>4
<1>5. QED
  BY <1>3, <1>4

\* A process stops trying.
LEMMA TryingStops ==
  ASSUME MailTypeOK, NEW p \in Process, run[p].pc # "idle", NEW m \in Mail, m = run[p].mail,
         NEW next \in Running \cup {Idle},
         run' = [run EXCEPT ![p] = next], next.pc \notin {"send", "retry"}
  PROVE  /\ \A n \in Mail \ {m} : Trying(n)' = Trying(n)
         /\ run[p].pc = "ack" => Trying(m)' = Trying(m)
         /\ run[p].pc # "ack" => /\ Cardinality(Trying(m))' = Cardinality(Trying(m)) - 1
                                 /\ Cardinality(Trying(m)) >= 1
<1>2. run[p].pc \in {"send", "retry", "ack"}
  BY AtWork DEF Running
<1>3. \A n \in Mail : Trying(n)' = Trying(n) \ {p}
  BY ProcessMoves
<1>4. \A n \in Mail \ {m} : Trying(n)' = Trying(n)
  BY <1>3 DEF Trying
<1>5. run[p].pc = "ack" => Trying(m)' = Trying(m)
  BY <1>3 DEF Trying
<1>6. ASSUME run[p].pc # "ack"
      PROVE  Cardinality(Trying(m))' = Cardinality(Trying(m)) - 1 /\ Cardinality(Trying(m)) >= 1
  <2>1. p \in Trying(m)
    BY <1>2, <1>6 DEF Trying
  <2>2. Cardinality(Trying(m))' = Cardinality(Trying(m)) - 1
    BY <1>3, <2>1, TryingChanges
  <2>3. PICK S : S = Trying(m)
    OBVIOUS
  <2>4. IsFiniteSet(S) /\ Cardinality(S) \in Nat
    BY <2>3, CountsAreNat
  <2>5. Cardinality(S) # 0
    BY <2>1, <2>3, <2>4, FS_EmptySet
  <2>6. QED
    BY <2>2, <2>3, <2>4, <2>5
<1>7. QED
  BY <1>4, <1>5, <1>6

\* The numbers of retries stay backed when a process moves on.
LEMMA FailuresBack ==
  ASSUME MailTypeOK, RetriesFailed, failed' \in [Mail -> Nat],
         \A n \in Mail : failed'[n] >= failed[n],
         NEW p \in Process, NEW next \in Running \cup {Idle}, run' = [run EXCEPT ![p] = next],
         next.pc # "idle" => failed'[next.mail] >= next.retries,
         next.pc = "retry" => failed'[next.mail] > next.retries,
         \A n \in Mail, j \in Retries : queue'[n][j] > 0 => queue[n][j] > 0 \/ failed'[n] >= j
  PROVE  RetriesFailed'
<1>1. run'[p] = next /\ \A q \in Process \ {p} : run'[q] = run[q]
  BY ProcessMoves
<1>2. \A n \in Mail : failed[n] \in Nat /\ failed'[n] \in Nat
  BY DEF MailTypeOK
<1>3. \A j \in Retries : j \in Nat
  BY DEF Retries
<1>4. ASSUME NEW n \in Mail, NEW j \in Retries, queue'[n][j] > 0 PROVE failed'[n] >= j
  BY <1>2, <1>3, <1>4 DEF RetriesFailed
<1>5. ASSUME NEW q \in Process, run'[q].pc # "idle"
      PROVE  failed'[run'[q].mail] >= run'[q].retries
  <2>1. CASE q = p
    BY <1>1, <1>5, <2>1
  <2>2. CASE q # p
    <3>1. run'[q] = run[q] /\ run[q].mail \in Mail /\ run[q].retries \in Retries
      BY <1>1, <1>5, <2>2, AtWork
    <3>2. failed[run[q].mail] >= run[q].retries
      BY <1>5, <3>1 DEF RetriesFailed
    <3>3. QED
      BY <1>2, <1>3, <3>1, <3>2
  <2>3. QED
    BY <2>1, <2>2
<1>6. ASSUME NEW q \in Process, run'[q].pc = "retry"
      PROVE  failed'[run'[q].mail] > run'[q].retries
  <2>1. CASE q = p
    BY <1>1, <1>6, <2>1
  <2>2. CASE q # p
    <3>1. run'[q] = run[q] /\ run[q].mail \in Mail /\ run[q].retries \in Retries
      BY <1>1, <1>6, <2>2, AtWork
    <3>2. failed[run[q].mail] > run[q].retries
      BY <1>6, <3>1 DEF RetriesFailed
    <3>3. QED
      BY <1>2, <1>3, <3>1, <3>2
  <2>3. QED
    BY <2>1, <2>2
<1>7. QED
  BY <1>4, <1>5, <1>6 DEF RetriesFailed

\* The mail goes out: what was being tried is now sent.
LEMMA SendOkKeeps == ASSUME MailInv, NEW p \in Process, SendOk(p) PROVE MailInv'
<1>0. MailTypeOK /\ Accounted /\ RetriesFailed /\ GivenUpAfterRetries /\ run[p].pc = "send"
  BY DEF MailInv, SendOk
<1>1. PICK m \in Mail : m = run[p].mail
  BY <1>0, AtWork
<1>2. PICK next \in Running :
         /\ run' = [run EXCEPT ![p] = next]
         /\ next.pc = "ack" /\ next.mail = run[p].mail /\ next.retries = run[p].retries
  BY <1>0, StepMoves DEF SendOk
<1>3. /\ sent' = OneMore(sent, m) /\ asked' = asked /\ queue' = queue /\ deaths' = deaths
      /\ failed' = failed /\ doubts' = doubts /\ gaveUp' = gaveUp /\ killed' = killed
  BY <1>1 DEF SendOk
<1>4. /\ run' \in [Process -> Running \cup {Idle}] /\ run'[p] = next
      /\ \A q \in Process \ {p} : run'[q] = run[q]
  BY <1>0, <1>2, ProcessMoves
<1>5. MailTypeOK'
  BY <1>0, <1>3, <1>4 DEF MailTypeOK, OneMore
<1>6. Accounted'
  <2>1. /\ \A n \in Mail \ {m} : Trying(n)' = Trying(n)
        /\ Cardinality(Trying(m))' = Cardinality(Trying(m)) - 1
        /\ Cardinality(Trying(m)) >= 1
    BY <1>0, <1>1, <1>2, TryingStops
  <2>2. Queued(m) \in Nat /\ Cardinality(Trying(m)) \in Nat /\ sent[m] \in Nat /\ doubts[m] \in Nat
    BY <1>0, CountsAreNat
  <2>3. PICK s \in Nat, q \in Nat, t \in Nat, d \in Nat :
             s = sent[m] + 1 /\ q = Queued(m) /\ t = Cardinality(Trying(m)) - 1 /\ d = doubts[m]
    BY <2>1, <2>2
  <2>4. sent'[m] = s /\ Queued(m)' = q /\ Cardinality(Trying(m))' = t /\ doubts'[m] = d
    BY <1>0, <1>3, <2>1, <2>3 DEF OneMore, MailTypeOK, Queued
  <2>5. s + q + t + doubts[m] <= sent[m] + Queued(m) + Cardinality(Trying(m)) + d
    BY <2>2, <2>3
  <2>6. \A n \in Mail \ {m} : /\ sent'[n] = sent[n] /\ doubts'[n] = doubts[n] /\ Queued(n)' = Queued(n)
                             /\ Cardinality(Trying(n))' = Cardinality(Trying(n))
    BY <1>0, <1>3, <2>1 DEF OneMore, MailTypeOK, Queued
  <2>7. QED
    BY <1>0, <1>3, <2>4, <2>5, <2>6, Balanced
<1>7. RetriesFailed' /\ GivenUpAfterRetries'
  BY <1>0, <1>2, <1>3, <1>4 DEF RetriesFailed, GivenUpAfterRetries
<1>8. QED
  BY <1>5, <1>6, <1>7 DEF MailInv

\* An attempt raises: it is still being tried, and a mail that went out all the
\* same is a doubt.
LEMMA SendRaisesKeeps == ASSUME MailInv, NEW p \in Process, SendRaises(p) PROVE MailInv'
<1>0. MailTypeOK /\ Accounted /\ RetriesFailed /\ GivenUpAfterRetries /\ run[p].pc = "send"
  BY DEF MailInv, SendRaises
<1>1. PICK m \in Mail : m = run[p].mail
  BY <1>0, AtWork
<1>2. PICK next \in Running :
         /\ run' = [run EXCEPT ![p] = next]
         /\ next.pc = "retry" /\ next.mail = run[p].mail /\ next.retries = run[p].retries
  BY <1>0, StepMoves DEF SendRaises
<1>3. /\ \/ sent' = sent /\ doubts' = doubts
         \/ sent' = OneMore(sent, m) /\ doubts' = OneMore(doubts, m)
      /\ asked' = asked /\ queue' = queue /\ deaths' = deaths
      /\ failed' = OneMore(failed, m) /\ gaveUp' = gaveUp /\ killed' = killed
  BY <1>1 DEF SendRaises
<1>4. run' \in [Process -> Running \cup {Idle}]
  BY <1>0, <1>2, ProcessMoves
<1>5. MailTypeOK'
  BY <1>0, <1>3, <1>4 DEF MailTypeOK, OneMore
<1>6. \A n \in Mail : Trying(n)' = Trying(n) /\ Queued(n)' = Queued(n)
  <2>1. \A n \in Mail : Trying(n)' = IF next.pc \in {"send", "retry"} /\ next.mail = n
                                     THEN Trying(n) \cup {p} ELSE Trying(n) \ {p}
    BY <1>0, <1>2, ProcessMoves
  <2>2. \A n \in Mail : p \in Trying(n) <=> m = n
    BY <1>0, <1>1 DEF Trying
  <2>3. \A n \in Mail : Trying(n)' = IF m = n THEN Trying(n) \cup {p} ELSE Trying(n) \ {p}
    BY <1>1, <1>2, <2>1
  <2>4. ASSUME NEW n \in Mail PROVE Trying(n)' = Trying(n)
    BY <2>2, <2>3
  <2>5. QED
    BY <1>3, <2>4 DEF Queued
<1>7. Accounted'
  <2>1. Queued(m) \in Nat /\ Cardinality(Trying(m)) \in Nat /\ sent[m] \in Nat /\ doubts[m] \in Nat
    BY <1>0, CountsAreNat
  <2>2. \/ sent'[m] = sent[m] /\ doubts'[m] = doubts[m]
        \/ sent'[m] = sent[m] + 1 /\ doubts'[m] = doubts[m] + 1
    BY <1>0, <1>3 DEF OneMore, MailTypeOK
  <2>3. PICK s \in Nat, q \in Nat, t \in Nat, d \in Nat :
             s = sent'[m] /\ q = Queued(m) /\ t = Cardinality(Trying(m)) /\ d = doubts'[m]
    BY <2>1, <2>2
  <2>4. sent'[m] = s /\ Queued(m)' = q /\ Cardinality(Trying(m))' = t /\ doubts'[m] = d
    BY <1>6, <2>3
  <2>5. s + q + t + doubts[m] <= sent[m] + Queued(m) + Cardinality(Trying(m)) + d
    BY <2>1, <2>2, <2>3
  <2>6. \A n \in Mail \ {m} : /\ sent'[n] = sent[n] /\ doubts'[n] = doubts[n] /\ Queued(n)' = Queued(n)
                             /\ Cardinality(Trying(n))' = Cardinality(Trying(n))
    BY <1>0, <1>3, <1>6 DEF OneMore, MailTypeOK
  <2>7. QED
    BY <1>0, <1>3, <2>4, <2>5, <2>6, Balanced
<1>8. RetriesFailed'
  <2>1. failed' \in [Mail -> Nat] /\ \A n \in Mail : failed'[n] >= failed[n]
    BY <1>0, <1>3 DEF OneMore, MailTypeOK
  <2>2. failed'[m] = failed[m] + 1 /\ failed[m] \in Nat /\ next.retries \in Nat /\ next.mail = m
    BY <1>0, <1>1, <1>2, <1>3 DEF OneMore, MailTypeOK, Running, Retries
  <2>3. failed[m] >= next.retries
    BY <1>0, <1>1, <1>2 DEF RetriesFailed
  <2>4. failed'[next.mail] >= next.retries /\ failed'[next.mail] > next.retries
    BY <2>2, <2>3
  <2>5. \A n \in Mail, j \in Retries : queue'[n][j] > 0 => queue[n][j] > 0 \/ failed'[n] >= j
    BY <1>3
  <2>6. QED
    BY <1>0, <1>2, <2>1, <2>4, <2>5, FailuresBack
<1>9. GivenUpAfterRetries'
  BY <1>0, <1>3, BoundsAssumption DEF GivenUpAfterRetries, MailTypeOK, OneMore
<1>10. QED
  BY <1>5, <1>7, <1>8, <1>9 DEF MailInv

\* A new message stands for the one being tried, or the mail is given up: the
\* last of so many attempts, each of which failed.
LEMMA RetryKeeps == ASSUME MailInv, NEW p \in Process, Retry(p) PROVE MailInv'
<1>0. MailTypeOK /\ Accounted /\ RetriesFailed /\ GivenUpAfterRetries /\ run[p].pc = "retry"
  BY DEF MailInv, Retry
<1>1. PICK m \in Mail, k \in Retries : m = run[p].mail /\ k = run[p].retries
  BY <1>0, AtWork
<1>2. PICK next \in Running :
         /\ run' = [run EXCEPT ![p] = next]
         /\ next.pc = "ack" /\ next.mail = run[p].mail /\ next.retries = run[p].retries
  BY <1>0, StepMoves DEF Retry
<1>3. /\ sent' = sent /\ asked' = asked /\ deaths' = deaths
      /\ failed' = failed /\ doubts' = doubts /\ killed' = killed
  BY DEF Retry
<1>4. \/ k < max_retries /\ queue' = [queue EXCEPT ![m][k + 1] = @ + 1] /\ gaveUp' = gaveUp
      \/ ~ (k < max_retries) /\ gaveUp' = gaveUp \cup {m} /\ queue' = queue
  BY <1>1 DEF Retry
<1>5. run' \in [Process -> Running \cup {Idle}]
  BY <1>0, <1>2, ProcessMoves
<1>6. /\ \A n \in Mail \ {m} : Trying(n)' = Trying(n)
      /\ Cardinality(Trying(m))' = Cardinality(Trying(m)) - 1
      /\ Cardinality(Trying(m)) >= 1
  BY <1>0, <1>1, <1>2, TryingStops
<1>7. Queued(m) \in Nat /\ Cardinality(Trying(m)) \in Nat /\ sent[m] \in Nat /\ doubts[m] \in Nat
  BY <1>0, CountsAreNat
<1>8. failed[m] > k /\ failed[m] \in Nat /\ k \in Nat /\ max_retries \in Nat
  BY <1>0, <1>1, BoundsAssumption DEF RetriesFailed, MailTypeOK, Retries
<1>9. failed'[next.mail] >= next.retries
  BY <1>1, <1>2, <1>3, <1>8
<1>10. failed' \in [Mail -> Nat] /\ \A n \in Mail : failed'[n] >= failed[n]
  BY <1>0, <1>3 DEF MailTypeOK
<1>11. CASE k < max_retries
  <2>1. k + 1 \in Retries /\ queue[m][k + 1] \in Nat
    BY <1>0, <1>8, <1>11 DEF Retries, MailTypeOK
  <2>2. PICK v \in Nat : v = queue[m][k + 1] + 1
    BY <2>1
  <2>3. queue' = [queue EXCEPT ![m][k + 1] = v] /\ gaveUp' = gaveUp
    BY <1>4, <1>11, <2>2
  <2>4. MailTypeOK'
    BY <1>0, <1>3, <1>5, <2>1, <2>3 DEF MailTypeOK
  <2>5. Queued(m)' = Queued(m) + 1
    <3>1. Queued(m)' = Queued(m) + (v - queue[m][k + 1])
      BY <1>0, <2>1, <2>3, QueuedChanges
    <3>2. v - queue[m][k + 1] = 1
      BY <2>1, <2>2
    <3>3. QED
      BY <3>1, <3>2
  <2>6. \A n \in Mail \ {m} : Queued(n)' = Queued(n)
    BY <1>0, <2>1, <2>3, QueuedChanges
  <2>7. Accounted'
    <3>1. PICK s \in Nat, q \in Nat, t \in Nat, d \in Nat :
               s = sent[m] /\ q = Queued(m) + 1 /\ t = Cardinality(Trying(m)) - 1 /\ d = doubts[m]
      BY <1>6, <1>7
    <3>2. sent'[m] = s /\ Queued(m)' = q /\ Cardinality(Trying(m))' = t /\ doubts'[m] = d
      BY <1>3, <1>6, <2>5, <3>1
    <3>3. s + q + t + doubts[m] <= sent[m] + Queued(m) + Cardinality(Trying(m)) + d
      BY <1>7, <3>1
    <3>4. \A n \in Mail \ {m} : /\ sent'[n] = sent[n] /\ doubts'[n] = doubts[n] /\ Queued(n)' = Queued(n)
                               /\ Cardinality(Trying(n))' = Cardinality(Trying(n))
      BY <1>3, <1>6, <2>6
    <3>5. QED
      BY <1>0, <1>3, <3>2, <3>3, <3>4, Balanced
  <2>8. \A n \in Mail, j \in Retries : queue'[n][j] > 0 => queue[n][j] > 0 \/ failed'[n] >= j
    <3>1. failed'[m] >= k + 1
      BY <1>3, <1>8
    <3>2. QED
      BY <1>0, <2>1, <2>3, <3>1 DEF MailTypeOK
  <2>9. RetriesFailed'
    BY <1>0, <1>2, <1>9, <1>10, <2>8, FailuresBack
  <2>10. GivenUpAfterRetries'
    BY <1>0, <1>3, <2>3 DEF GivenUpAfterRetries
  <2>11. QED
    BY <2>4, <2>7, <2>9, <2>10 DEF MailInv
<1>12. CASE ~ (k < max_retries)
  <2>1. gaveUp' = gaveUp \cup {m} /\ queue' = queue
    BY <1>4, <1>12
  <2>2. MailTypeOK'
    BY <1>0, <1>3, <1>5, <2>1 DEF MailTypeOK
  <2>3. Accounted'
    <3>1. PICK s \in Nat, q \in Nat, t \in Nat, d \in Nat :
               s = sent[m] /\ q = Queued(m) /\ t = Cardinality(Trying(m)) - 1 /\ d = doubts[m]
      BY <1>6, <1>7
    <3>2. sent'[m] = s /\ Queued(m)' = q /\ Cardinality(Trying(m))' = t /\ doubts'[m] = d
      BY <1>3, <1>6, <2>1, <3>1 DEF Queued
    <3>3. s + q + t + doubts[m] <= sent[m] + Queued(m) + Cardinality(Trying(m)) + d
      BY <1>7, <3>1
    <3>4. \A n \in Mail \ {m} : /\ sent'[n] = sent[n] /\ doubts'[n] = doubts[n] /\ Queued(n)' = Queued(n)
                               /\ Cardinality(Trying(n))' = Cardinality(Trying(n))
      BY <1>3, <1>6, <2>1 DEF Queued
    <3>5. QED
      BY <1>0, <1>3, <3>2, <3>3, <3>4, Balanced
  <2>4. \A n \in Mail, j \in Retries : queue'[n][j] > 0 => queue[n][j] > 0 \/ failed'[n] >= j
    BY <2>1
  <2>5. RetriesFailed'
    BY <1>0, <1>2, <1>9, <1>10, <2>4, FailuresBack
  <2>6. failed'[m] > max_retries
    BY <1>3, <1>8, <1>12
  <2>7. GivenUpAfterRetries'
    BY <1>0, <1>3, <2>1, <2>6 DEF GivenUpAfterRetries
  <2>8. QED
    BY <2>2, <2>3, <2>5, <2>7 DEF MailInv
<1>13. QED
  BY <1>11, <1>12

\* A process lets its message go, and no other comes for it: the message is
\* rejected, acknowledged, or lost with the process.
LEMMA LettingGo ==
  ASSUME MailInv, NEW p \in Process, run[p].pc # "idle", run' = [run EXCEPT ![p] = Idle],
         deaths' \in 0 .. MaxDeaths, killed' \in SUBSET Mail,
         UNCHANGED <<asked, queue, sent, failed, doubts, gaveUp>>
  PROVE  MailInv'
<1>0. /\ MailTypeOK /\ Accounted /\ RetriesFailed /\ GivenUpAfterRetries
      /\ asked' = asked /\ queue' = queue /\ sent' = sent /\ failed' = failed /\ doubts' = doubts
      /\ gaveUp' = gaveUp
  BY DEF MailInv
<1>1. PICK m \in Mail : m = run[p].mail
  BY <1>0, AtWork
<1>2. PICK next \in Running \cup {Idle} : next = Idle
  OBVIOUS
<1>3. run' = [run EXCEPT ![p] = next] /\ next.pc = "idle"
  BY <1>2 DEF Idle
<1>4. run' \in [Process -> Running \cup {Idle}]
  BY <1>0, <1>3, ProcessMoves
<1>5. MailTypeOK'
  BY <1>0, <1>4 DEF MailTypeOK
<1>6. /\ \A n \in Mail \ {m} : Trying(n)' = Trying(n)
      /\ run[p].pc = "ack" => Trying(m)' = Trying(m)
      /\ run[p].pc # "ack" => /\ Cardinality(Trying(m))' = Cardinality(Trying(m)) - 1
                              /\ Cardinality(Trying(m)) >= 1
  BY <1>0, <1>1, <1>3, TryingStops
<1>7. Queued(m) \in Nat /\ Cardinality(Trying(m)) \in Nat /\ sent[m] \in Nat /\ doubts[m] \in Nat
  BY <1>0, CountsAreNat
<1>8. Cardinality(Trying(m))' \in Nat /\ Cardinality(Trying(m))' <= Cardinality(Trying(m))
  BY <1>6, <1>7
<1>9. Accounted'
  <2>1. PICK s \in Nat, q \in Nat, t \in Nat, d \in Nat :
             s = sent[m] /\ q = Queued(m) /\ t = Cardinality(Trying(m))' /\ d = doubts[m]
    BY <1>7, <1>8
  <2>2. sent'[m] = s /\ Queued(m)' = q /\ Cardinality(Trying(m))' = t /\ doubts'[m] = d
    BY <1>0, <2>1 DEF Queued
  <2>3. s + q + t + doubts[m] <= sent[m] + Queued(m) + Cardinality(Trying(m)) + d
    BY <1>7, <1>8, <2>1
  <2>4. \A n \in Mail \ {m} : /\ sent'[n] = sent[n] /\ doubts'[n] = doubts[n] /\ Queued(n)' = Queued(n)
                             /\ Cardinality(Trying(n))' = Cardinality(Trying(n))
    BY <1>0, <1>6 DEF Queued
  <2>5. QED
    BY <1>0, <2>2, <2>3, <2>4, Balanced
<1>10. RetriesFailed'
  <2>1. failed' \in [Mail -> Nat] /\ \A n \in Mail : failed'[n] >= failed[n]
    BY <1>0 DEF MailTypeOK
  <2>2. \A n \in Mail, j \in Retries : queue'[n][j] > 0 => queue[n][j] > 0 \/ failed'[n] >= j
    BY <1>0
  <2>3. QED
    BY <1>0, <1>3, <2>1, <2>2, FailuresBack
<1>11. GivenUpAfterRetries'
  BY <1>0 DEF GivenUpAfterRetries
<1>12. QED
  BY <1>5, <1>9, <1>10, <1>11 DEF MailInv

\* The worker dies: its message waits again.  When it had been dealt with, that
\* is a doubt; otherwise it was being tried.
LEMMA WorkerDiesKeeps == ASSUME MailInv, NEW p \in Process, WorkerDies(p) PROVE MailInv'
<1>0. MailTypeOK /\ Accounted /\ RetriesFailed /\ GivenUpAfterRetries /\ run[p] # Idle
  BY DEF MailInv, WorkerDies
<1>1. PICK m \in Mail, k \in Retries : m = run[p].mail /\ k = run[p].retries
  BY <1>0, AtWork
<1>2. PICK next \in Running \cup {Idle} : next = Idle
  OBVIOUS
<1>3. queue[m][k] \in Nat /\ run[p].pc # "idle"
  BY <1>0, AtWork DEF MailTypeOK
<1>4. PICK v \in Nat : v = queue[m][k] + 1
  BY <1>3
<1>5. /\ run' = [run EXCEPT ![p] = next] /\ next.pc = "idle"
      /\ queue' = [queue EXCEPT ![m][k] = v]
      /\ doubts' = (IF run[p].pc = "ack" THEN OneMore(doubts, m) ELSE doubts)
      /\ asked' = asked /\ sent' = sent /\ failed' = failed /\ gaveUp' = gaveUp /\ killed' = killed
      /\ deaths' = deaths + 1 /\ deaths < MaxDeaths
  BY <1>1, <1>2, <1>4 DEF WorkerDies, Idle
<1>6. run' \in [Process -> Running \cup {Idle}]
  BY <1>0, <1>5, ProcessMoves
<1>7. MailTypeOK'
  <2>1. deaths' \in 0 .. MaxDeaths
    BY <1>0, <1>5, BoundsAssumption DEF MailTypeOK
  <2>2. queue' \in [Mail -> [Retries -> Nat]]
    BY <1>0, <1>5 DEF MailTypeOK
  <2>3. doubts' \in [Mail -> Nat]
    BY <1>0, <1>5 DEF MailTypeOK, OneMore
  <2>4. QED
    BY <1>0, <1>5, <1>6, <2>1, <2>2, <2>3 DEF MailTypeOK
<1>8. /\ \A n \in Mail \ {m} : Trying(n)' = Trying(n)
      /\ run[p].pc = "ack" => Trying(m)' = Trying(m)
      /\ run[p].pc # "ack" => /\ Cardinality(Trying(m))' = Cardinality(Trying(m)) - 1
                              /\ Cardinality(Trying(m)) >= 1
  BY <1>0, <1>1, <1>3, <1>5, TryingStops
<1>9. Queued(m) \in Nat /\ Cardinality(Trying(m)) \in Nat /\ sent[m] \in Nat /\ doubts[m] \in Nat
  BY <1>0, CountsAreNat
<1>10. Queued(m)' = Queued(m) + 1
  <2>1. Queued(m)' = Queued(m) + (v - queue[m][k])
    BY <1>0, <1>5, QueuedChanges
  <2>2. v - queue[m][k] = 1
    BY <1>3, <1>4
  <2>3. QED
    BY <2>1, <2>2
<1>11. \A n \in Mail \ {m} : Queued(n)' = Queued(n)
  BY <1>0, <1>5, QueuedChanges
<1>12. \/ Cardinality(Trying(m))' = Cardinality(Trying(m)) /\ doubts'[m] = doubts[m] + 1
       \/ /\ Cardinality(Trying(m))' = Cardinality(Trying(m)) - 1 /\ Cardinality(Trying(m)) >= 1
          /\ doubts'[m] = doubts[m]
  <2>1. CASE run[p].pc = "ack"
    BY <1>0, <1>5, <1>8, <2>1 DEF OneMore, MailTypeOK
  <2>2. CASE run[p].pc # "ack"
    BY <1>5, <1>8, <2>2
  <2>3. QED
    BY <2>1, <2>2
<1>13. Accounted'
  <2>1. PICK s \in Nat, q \in Nat, t \in Nat, d \in Nat :
             /\ s = sent[m] /\ q = Queued(m) + 1
             /\ t = Cardinality(Trying(m))' /\ d = doubts'[m]
    BY <1>9, <1>12
  <2>2. sent'[m] = s /\ Queued(m)' = q /\ Cardinality(Trying(m))' = t /\ doubts'[m] = d
    BY <1>5, <1>10, <2>1
  <2>3. s + q + t + doubts[m] <= sent[m] + Queued(m) + Cardinality(Trying(m)) + d
    BY <1>9, <1>12, <2>1
  <2>4. \A n \in Mail \ {m} : doubts'[n] = doubts[n]
    BY <1>0, <1>5 DEF OneMore, MailTypeOK
  <2>5. \A n \in Mail \ {m} : /\ sent'[n] = sent[n] /\ doubts'[n] = doubts[n] /\ Queued(n)' = Queued(n)
                             /\ Cardinality(Trying(n))' = Cardinality(Trying(n))
    BY <1>5, <1>8, <1>11, <2>4
  <2>6. QED
    BY <1>0, <1>5, <2>2, <2>3, <2>5, Balanced
<1>14. RetriesFailed'
  <2>1. failed' \in [Mail -> Nat] /\ \A n \in Mail : failed'[n] >= failed[n]
    BY <1>0, <1>5 DEF MailTypeOK
  <2>2. failed'[m] >= k
    BY <1>0, <1>1, <1>3, <1>5 DEF RetriesFailed
  <2>3. \A n \in Mail, j \in Retries : queue'[n][j] > 0 => queue[n][j] > 0 \/ failed'[n] >= j
    BY <1>0, <1>5, <2>2 DEF MailTypeOK
  <2>4. QED
    BY <1>0, <1>5, <2>1, <2>3, FailuresBack
<1>15. GivenUpAfterRetries'
  BY <1>0, <1>5 DEF GivenUpAfterRetries
<1>16. QED
  BY <1>7, <1>13, <1>14, <1>15 DEF MailInv

\* Every step keeps the invariant.
LEMMA MailInvNext == MailInv /\ [MailNext]_mailVars => MailInv'
<1> SUFFICES ASSUME MailInv, [MailNext]_mailVars PROVE MailInv'
  OBVIOUS
<1>0. MailTypeOK
  BY DEF MailInv
<1>1. ASSUME NEW m \in Mail, Delay(m) PROVE MailInv'
  BY <1>1, DelayKeeps
<1>2. ASSUME NEW p \in Process, NEW m \in Mail, NEW k \in Retries, Take(p, m, k) PROVE MailInv'
  BY <1>2, TakeKeeps
<1>3. ASSUME NEW p \in Process, SendOk(p) PROVE MailInv'
  BY <1>3, SendOkKeeps
<1>4. ASSUME NEW p \in Process, SendRaises(p) PROVE MailInv'
  BY <1>4, SendRaisesKeeps
<1>5. ASSUME NEW p \in Process, Retry(p) PROVE MailInv'
  BY <1>5, RetryKeeps
<1>6. ASSUME NEW p \in Process, RetryRejected(p) PROVE MailInv'
  <2>1. run[p].pc # "idle" /\ killed' \in SUBSET Mail /\ deaths' \in 0 .. MaxDeaths
    <3>1. run[p].pc = "retry"
      BY <1>6 DEF RetryRejected
    <3>2. run[p].mail \in Mail
      BY <1>0, <3>1, AtWork
    <3>3. QED
      BY <1>0, <1>6, <3>1, <3>2 DEF RetryRejected, MailTypeOK
  <2>2. QED
    BY <1>6, <2>1, LettingGo DEF RetryRejected
<1>7. ASSUME NEW p \in Process, Ack(p) PROVE MailInv'
  <2>1. run[p].pc # "idle" /\ killed' \in SUBSET Mail /\ deaths' \in 0 .. MaxDeaths
    BY <1>0, <1>7 DEF Ack, MailTypeOK, history
  <2>2. QED
    BY <1>7, <2>1, LettingGo DEF Ack, history
<1>8. ASSUME NEW p \in Process, WorkerDies(p) PROVE MailInv'
  BY <1>8, WorkerDiesKeeps
<1>9. ASSUME NEW p \in Process, ProcessDies(p) PROVE MailInv'
  <2>1. run[p] # Idle
    BY <1>9 DEF ProcessDies
  <2>2. run[p].pc # "idle" /\ run[p].mail \in Mail
    BY <1>0, <2>1, AtWork
  <2>3. killed' \in SUBSET Mail /\ deaths' \in 0 .. MaxDeaths
    BY <1>0, <1>9, <2>2, BoundsAssumption DEF ProcessDies, MailTypeOK
  <2>4. QED
    BY <1>9, <2>2, <2>3, LettingGo DEF ProcessDies
<1>10. CASE UNCHANGED mailVars
  <2>1. /\ asked' = asked /\ queue' = queue /\ run' = run /\ deaths' = deaths /\ sent' = sent
        /\ failed' = failed /\ doubts' = doubts /\ gaveUp' = gaveUp /\ killed' = killed
    BY <1>10 DEF mailVars, history
  <2>2. QED
    BY <2>1 DEF MailInv, MailTypeOK, Accounted, Queued, Trying, RetriesFailed, GivenUpAfterRetries
<1>11. QED
  BY <1>1, <1>2, <1>3, <1>4, <1>5, <1>6, <1>7, <1>8, <1>9, <1>10
  DEF MailNext, TakeSome, Attempt

\* The invariant holds in every behaviour of the mail tasks.
THEOREM MailInvariance == MailSpec => []MailInv
<1>1. QED
  BY MailInvInit, MailInvNext, PTL DEF MailSpec

\* The mail tasks keep their types, whatever dies.
THEOREM MailTypeCorrect == MailSpec => []MailTypeOK
<1>1. MailInv => MailTypeOK
  BY DEF MailInv
<1>2. QED
  BY <1>1, MailInvariance, PTL

\* However often tasks fail, are retried or are run again after a worker died, a
\* mail goes out once, and once more only for a doubt (task_acks_late).
THEOREM MailsAreAccounted == MailSpec => []ExtraMailsExplained
<1>1. MailInv => ExtraMailsExplained
  <2>1. SUFFICES ASSUME MailInv, NEW m \in Mail PROVE sent[m] <= 1 + doubts[m]
    BY DEF ExtraMailsExplained
  <2>2. Queued(m) \in Nat /\ Cardinality(Trying(m)) \in Nat /\ sent[m] \in Nat /\ doubts[m] \in Nat
    BY <2>1, CountsAreNat DEF MailInv
  <2>3. sent[m] + Queued(m) + Cardinality(Trying(m)) <= doubts[m] + (IF m \in asked THEN 1 ELSE 0)
    BY <2>1 DEF Accounted, MailInv
  <2>4. QED
    BY <2>2, <2>3
<1>2. QED
  BY <1>1, MailInvariance, PTL

\* A mail is given up only after max_retries retries that failed, and the first
\* attempt (self.retry).
THEOREM RetriesAreExhausted == MailSpec => []GivenUpAfterRetries
<1>1. MailInv => GivenUpAfterRetries
  BY DEF MailInv
<1>2. QED
  BY <1>1, MailInvariance, PTL
=============================================================================
