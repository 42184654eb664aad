--------------------------- MODULE Requests_proofs ---------------------------
(***************************************************************************)
(* TLAPS proofs about RateLimiter, for any clients, number of concurrent   *)
(* requests, window, limit and number of resent commands, and about        *)
(* Requests, for any requests that may arrive.  The path of a request      *)
(* implements RateLimiter, so what is proved about the limiter by itself   *)
(* holds of the API server that uses it.                                   *)
(***************************************************************************)
EXTENDS Requests, FiniteSetTheorems, SequenceTheorems, TLAPS

USE DEF redisKey

-----------------------------------------------------------------------------
(***************************************************************************)
(* The life of a counter                                                   *)
(***************************************************************************)
\* A counter lives for more than half of the window.
LEMMA LifetimeBounds ==
    /\ Lifetime \in Nat /\ Lifetime >= 1
    /\ 2 * Lifetime >= Window
<1>0. Window \in Nat /\ Window >= 1 /\ Second \in Nat /\ Second >= 1
  BY LimiterAssumptions
<1>1. CASE Window < Second
  <2>1. Lifetime = Second
    BY <1>0, <1>1 DEF Lifetime, formatSec
  <2>. QED BY <1>0, <1>1, <2>1
<1>2. CASE Window >= Second
  <2>. DEFINE q == Window \div Second
  <2>1. Lifetime = q * Second
    BY <1>0, <1>2 DEF Lifetime, formatSec
  <2>2. q \in Nat /\ q * Second <= Window /\ Window < q * Second + Second
    BY <1>0, SMTT(30)
  <2>. HIDE DEF q
  <2>3. q # 0
    BY <1>0, <1>2, <2>2
  <2>4. q * Second \in Nat /\ q * Second >= Second
    BY <1>0, <2>2, <2>3, SMTT(30)
  <2>. QED BY <1>0, <2>1, <2>2, <2>4
<1>. QED BY <1>0, <1>1, <1>2

\* A window of less than a second, or of whole seconds, is covered by the
\* life of one counter.
LEMMA WholeSeconds ==
    ASSUME Window < Second \/ Window % Second = 0
    PROVE  Lives = 1
<1>0. Window \in Nat /\ Window >= 1 /\ Second \in Nat /\ Second >= 1
  BY LimiterAssumptions
<1>1. CASE Window < Second
  BY <1>0, <1>1 DEF Lives, Lifetime, formatSec
<1>2. CASE ~(Window < Second) /\ Window % Second = 0
  <2>1. (Window \div Second) * Second = Window
    BY <1>0, <1>2, SMTT(30)
  <2>. QED BY <1>0, <1>2, <2>1 DEF Lives, Lifetime, formatSec
<1>. QED BY <1>1, <1>2

-----------------------------------------------------------------------------
(***************************************************************************)
(* The inductive invariant                                                 *)
(***************************************************************************)
\* Nobody has named a window that has not begun.
NoneAhead == /\ \A r \in Requests : win[r] <= bucket
             /\ \A k \in Keys, b \in Buckets : b > bucket => count[k][b] = 0

\* A counter of the current window that has an expiry is there until Lifetime
\* has passed since it started.
Outlives == /\ \A k \in Keys, b \in Buckets : count[k][b] = 0 => ttl[k][b] = 0
            /\ \A k \in Keys : count[k][bucket] # 0 =>
                  /\ start[k][bucket] >= left
                  /\ ttl[k][bucket] # 0 => ttl[k][bucket] + start[k][bucket] - left >= Lifetime

\* The counter r was counted by is the one there is, with count c and start
\* s, and has not gone back below what r was told; or it started Lifetime
\* before the one there is or, without any, before now.
Stands(r, c, s) == IF c = 0 THEN born[r] - left >= Lifetime
                   ELSE \/ born[r] = s /\ got[r] <= c
                        \/ born[r] - s >= Lifetime

Counted ==
    \A r \in Requests : born[r] # 0 =>
       /\ stage[r] \notin {"new", "incr"}
       /\ got[r] >= 1
       /\ win[r] = bucket => Stands(r, count[key[r]][bucket], start[key[r]][bucket])

\* No two requests were told the same number by the same counter.
Distinct ==
    \A q, r \in Requests :
       born[r] # 0 /\ born[q] = born[r] /\ key[q] = key[r] /\ win[q] = win[r] /\ got[q] = got[r]
          => q = r

\* The counters of one window start at least Lifetime apart.
Apart ==
    \A q, r \in Requests :
       born[q] # 0 /\ born[q] < born[r] /\ key[q] = key[r] /\ win[q] = win[r]
          => born[r] - born[q] >= Lifetime

WithinLimit == \A r \in Requests : stage[r] = "allowed" => got[r] <= Limit

LimiterInv == TypeOK /\ NoneAhead /\ Outlives /\ Counted /\ Distinct /\ Apart /\ WithinLimit

\* There are no counters at first.
LEMMA InitLimiter == Init => LimiterInv
<1>. SUFFICES ASSUME Init PROVE LimiterInv
  OBVIOUS
<1>. USE LimiterAssumptions, LifetimeBounds DEF Init
<1>1. TypeOK
  <2>1. (CHOOSE c \in Clients : TRUE) \in Clients
    OBVIOUS
  <2>. QED BY <2>1 DEF TypeOK, Buckets, Stages
<1>2. NoneAhead
  BY <1>1 DEF NoneAhead, TypeOK
<1>3. Outlives
  BY <1>1 DEF Outlives, TypeOK
<1>4. Counted /\ Distinct /\ Apart /\ WithinLimit
  BY DEF Counted, Distinct, Apart, WithinLimit
<1>. QED BY <1>1, <1>2, <1>3, <1>4 DEF LimiterInv

-----------------------------------------------------------------------------
(***************************************************************************)
(* The steps                                                               *)
(***************************************************************************)
\* What incrementing does to the counters.
LEMMA IncrementEffect ==
    ASSUME TypeOK, NEW r \in Requests, Increment(r)
    PROVE  /\ count' \in [Keys -> [Buckets -> Nat]]
           /\ count'[key[r]][win[r]] = count[key[r]][win[r]] + 1
           /\ \A k \in Keys, b \in Buckets :
                 k # key[r] \/ b # win[r] => count'[k][b] = count[k][b]
BY DEF TypeOK, Increment

\* And to their starts.
LEMMA StartEffect ==
    ASSUME TypeOK, NEW r \in Requests, Increment(r)
    PROVE  /\ start' \in [Keys -> [Buckets -> 0..Window]]
           /\ start'[key[r]][win[r]] =
                 IF win[r] = bucket /\ count[key[r]][win[r]] = 0 THEN left
                 ELSE start[key[r]][win[r]]
           /\ \A k \in Keys, b \in Buckets :
                 k # key[r] \/ b # win[r] => start'[k][b] = start[k][b]
<1>1. /\ key[r] \in Keys /\ win[r] \in Buckets
      /\ left \in 0..Window
      /\ start \in [Keys -> [Buckets -> 0..Window]]
  BY LimiterAssumptions DEF TypeOK
<1>2. start' = [start EXCEPT ![key[r]][win[r]] =
                   IF win[r] = bucket /\ count[key[r]][win[r]] = 0 THEN left ELSE @]
  BY DEF Increment
<1>. QED BY <1>1, <1>2

\* EXPIRE changes the time to live of one counter, if it is there.
LEMMA SetExpiryEffect ==
    ASSUME TypeOK, NEW r \in Requests, SetExpiry(r)
    PROVE  /\ ttl' \in [Keys -> [Buckets -> 0..Lifetime]]
           /\ ttl'[key[r]][win[r]] = IF count[key[r]][win[r]] = 0 THEN 0 ELSE Lifetime
           /\ \A k \in Keys, b \in Buckets :
                 k # key[r] \/ b # win[r] => ttl'[k][b] = ttl[k][b]
BY LimiterAssumptions, LifetimeBounds DEF TypeOK, SetExpiry

\* The ranges of what the steps compare.
LEMMA Ranges ==
    ASSUME TypeOK
    PROVE  /\ bucket \in Nat /\ bucket \in Buckets /\ left \in Nat /\ left >= 1 /\ left <= Window
           /\ Window \in Nat /\ Lifetime \in Nat /\ Lifetime >= 1
           /\ \A k \in Keys, b \in Buckets : /\ count[k][b] \in Nat
                                             /\ ttl[k][b] \in Nat
                                             /\ start[k][b] \in Nat
                                             /\ b \in Nat
           /\ \A r \in Requests : /\ key[r] \in Keys /\ win[r] \in Buckets /\ win[r] \in Nat
                                  /\ got[r] \in Nat /\ born[r] \in Nat
<1>1. bucket \in Nat /\ bucket \in Buckets /\ left \in Nat /\ left >= 1 /\ left <= Window
  BY LimiterAssumptions DEF TypeOK, Buckets
<1>2. \A b \in Buckets : b \in Nat
  BY LimiterAssumptions DEF Buckets
<1>3. \A k \in Keys, b \in Buckets : count[k][b] \in Nat
  BY DEF TypeOK
<1>4. \A k \in Keys, b \in Buckets : ttl[k][b] \in 0..Lifetime /\ start[k][b] \in 0..Window
  BY DEF TypeOK
<1>5. \A r \in Requests : /\ key[r] \in Keys /\ win[r] \in Buckets
                          /\ got[r] \in Nat /\ born[r] \in 0..Window
  BY DEF TypeOK
<1>6. Window \in Nat /\ Lifetime \in Nat /\ Lifetime >= 1
  BY LimiterAssumptions, LifetimeBounds
<1>7. \A k \in Keys, b \in Buckets : ttl[k][b] \in Nat /\ start[k][b] \in Nat
  BY <1>4, <1>6
<1>8. \A r \in Requests : win[r] \in Nat /\ born[r] \in Nat
  BY <1>2, <1>5, <1>6
<1>. QED BY <1>1, <1>2, <1>3, <1>5, <1>6, <1>7, <1>8

\* Incrementing neither fills a future window nor shortens a life, and what
\* was told stays true of the counters.
LEMMA IncrementKeeps ==
    ASSUME LimiterInv, NEW r \in Requests, Increment(r),
           UNCHANGED <<bucket, left, ttl, win>>
    PROVE  /\ NoneAhead' /\ Outlives'
           /\ \A q \in Requests : born[q] # 0 /\ win[q] = bucket =>
                 Stands(q, count'[key[q]][bucket], start'[key[q]][bucket])
<1>1. TypeOK
  BY DEF LimiterInv
<1>r. /\ bucket \in Nat /\ bucket \in Buckets /\ left \in Nat /\ left >= 1
      /\ Lifetime \in Nat /\ Lifetime >= 1
      /\ \A k \in Keys, b \in Buckets : /\ count[k][b] \in Nat
                                        /\ ttl[k][b] \in Nat
                                        /\ start[k][b] \in Nat
                                        /\ b \in Nat
      /\ \A q \in Requests : /\ key[q] \in Keys /\ win[q] \in Buckets /\ win[q] \in Nat
                             /\ got[q] \in Nat /\ born[q] \in Nat
  BY <1>1, Ranges
<1>p. \A k \in Keys, b \in Buckets :
         count'[k][b] = IF k = key[r] /\ b = win[r] THEN count[k][b] + 1 ELSE count[k][b]
  BY <1>1, IncrementEffect
<1>s. \A k \in Keys :
         start'[k][bucket] = IF k = key[r] /\ win[r] = bucket /\ count[k][bucket] = 0 THEN left
                             ELSE start[k][bucket]
  BY <1>1, <1>r, StartEffect
<1>5. NoneAhead'
  BY <1>r, <1>p DEF LimiterInv, NoneAhead
<1>6. Outlives'
  <2>1. \A k \in Keys, b \in Buckets : count'[k][b] = 0 => ttl[k][b] = 0
    BY <1>r, <1>p DEF LimiterInv, Outlives
  <2>2. ASSUME NEW k \in Keys, count'[k][bucket] # 0
        PROVE  /\ start'[k][bucket] >= left
               /\ ttl[k][bucket] # 0 => ttl[k][bucket] + start'[k][bucket] - left >= Lifetime
    <3>1. CASE count[k][bucket] = 0
      <4>1. k = key[r] /\ bucket = win[r] /\ ttl[k][bucket] = 0
        BY <1>r, <1>p, <2>2, <3>1 DEF LimiterInv, Outlives
      <4>. QED BY <1>r, <1>s, <3>1, <4>1
    <3>2. CASE count[k][bucket] # 0
      BY <1>s, <3>2 DEF LimiterInv, Outlives
    <3>. QED BY <3>1, <3>2
  <2>. QED BY <2>1, <2>2 DEF Outlives
<1>7. ASSUME NEW q \in Requests, born[q] # 0, win[q] = bucket
      PROVE  Stands(q, count'[key[q]][bucket], start'[key[q]][bucket])
  <2>1. Stands(q, count[key[q]][bucket], start[key[q]][bucket])
    BY <1>7 DEF LimiterInv, Counted
  <2>2. CASE key[q] = key[r] /\ win[r] = bucket
    <3>1. count'[key[q]][bucket] = count[key[q]][bucket] + 1
      BY <1>r, <1>p, <2>2
    <3>2. start'[key[q]][bucket] = IF count[key[q]][bucket] = 0 THEN left ELSE start[key[q]][bucket]
      BY <1>r, <1>s, <2>2
    <3>. QED BY <1>r, <2>1, <3>1, <3>2 DEF Stands
  <2>3. CASE ~(key[q] = key[r] /\ win[r] = bucket)
    <3>1. /\ count'[key[q]][bucket] = count[key[q]][bucket]
          /\ start'[key[q]][bucket] = start[key[q]][bucket]
      BY <1>r, <1>p, <1>s, <2>3
    <3>. QED BY <2>1, <3>1
  <2>. QED BY <2>2, <2>3
<1>. QED BY <1>5, <1>6, <1>7

\* A request that reads the clock names a window that has begun.
LEMMA BeginStep ==
    ASSUME LimiterInv, NEW r \in Requests, NEW c \in Clients, Begin(r, c)
    PROVE  LimiterInv'
<1>. USE DEF Begin, sanitizeRateLimitKey, Goto, clock, store
<1>1. TypeOK'
  BY LimiterAssumptions DEF LimiterInv, TypeOK, Stages
<1>2. NoneAhead' /\ Outlives'
  BY DEF LimiterInv, NoneAhead, Outlives, TypeOK, Buckets
<1>3. born[r] = 0
  BY DEF LimiterInv, Counted
<1>o. \A q \in Requests : born[q] # 0 => /\ stage'[q] = stage[q] /\ key'[q] = key[q]
                                        /\ win'[q] = win[q] /\ q # r
  BY <1>3 DEF LimiterInv, TypeOK
<1>u. UNCHANGED <<bucket, left, count, start, born, got>>
  OBVIOUS
<1>b. \A q \in Requests : born[q] \in Nat
  BY Ranges DEF LimiterInv
<1>4. Counted'
  BY <1>o, <1>u DEF LimiterInv, Counted, Stands
<1>5. Distinct' /\ Apart'
  BY <1>o, <1>u, <1>b DEF LimiterInv, Distinct, Apart
<1>6. WithinLimit'
  BY DEF LimiterInv, WithinLimit, TypeOK
<1>. QED BY <1>1, <1>2, <1>4, <1>5, <1>6 DEF LimiterInv

\* The request that increments in time is told a number nobody else was told
\* by that counter, and a counter it makes starts long after the one before.
LEMMA IncrStep ==
    ASSUME LimiterInv, NEW r \in Requests, Incr(r)
    PROVE  LimiterInv'
<1>. DEFINE n == count[key[r]][win[r]] + 1
            s == start'[key[r]][win[r]]
<1>0. TypeOK /\ key[r] \in Keys /\ win[r] \in Buckets /\ n \in Nat /\ n >= 1
  BY DEF LimiterInv, TypeOK
<1>1. /\ stage[r] = "incr"
      /\ Increment(r)
      /\ got' = [got EXCEPT ![r] = n]
      /\ stage' = [stage EXCEPT ![r] = IF n = 1 THEN "expire" ELSE Verdict(n)]
      /\ born' = [born EXCEPT ![r] = IF win[r] = bucket THEN s ELSE 0]
      /\ UNCHANGED <<bucket, left, ttl, key, win, tries>>
  BY DEF Incr, Goto, clock
<1>2. count' \in [Keys -> [Buckets -> Nat]] /\ count'[key[r]][win[r]] = n
  BY <1>0, <1>1, IncrementEffect
<1>s. /\ start' \in [Keys -> [Buckets -> 0..Window]]
      /\ win[r] = bucket => s = IF n = 1 THEN left ELSE start[key[r]][win[r]]
  <2>1. count[key[r]][win[r]] \in Nat
    BY <1>0, Ranges
  <2>2. n = 1 <=> count[key[r]][win[r]] = 0
    BY <2>1
  <2>. HIDE DEF n
  <2>. QED BY <1>0, <1>1, <2>2, StartEffect
<1>t. s \in 0..Window
  BY <1>0, <1>s
<1>n. count[key[r]][win[r]] = n - 1
  BY <1>0, Ranges
<1>. HIDE DEF n, s
<1>3. TypeOK'
  BY <1>0, <1>1, <1>2, <1>s, <1>t, LimiterAssumptions DEF TypeOK, Stages, Verdict
<1>4. /\ NoneAhead' /\ Outlives'
      /\ \A q \in Requests : born[q] # 0 /\ win[q] = bucket =>
            Stands(q, count'[key[q]][bucket], start'[key[q]][bucket])
  BY <1>1, IncrementKeeps
<1>5. born[r] = 0
  BY <1>1 DEF LimiterInv, Counted
<1>r. /\ bucket \in Nat /\ left \in Nat /\ left >= 1 /\ Lifetime \in Nat /\ Lifetime >= 1
      /\ start[key[r]][win[r]] \in Nat /\ s \in Nat
      /\ \A q \in Requests : got[q] \in Nat /\ born[q] \in Nat
  BY <1>0, <1>t, Ranges
<1>o. \A q \in Requests \ {r} : born'[q] = born[q] /\ got'[q] = got[q] /\ stage'[q] = stage[q]
  BY <1>0, <1>1 DEF TypeOK
<1>m. born'[r] = (IF win[r] = bucket THEN s ELSE 0) /\ got'[r] = n
  BY <1>0, <1>1 DEF TypeOK
<1>6. Counted'
  <2>. SUFFICES ASSUME NEW q \in Requests, born'[q] # 0
                PROVE  /\ stage'[q] \notin {"new", "incr"}
                       /\ got'[q] >= 1
                       /\ win'[q] = bucket' =>
                             Stands(q, count[key[q]][bucket], start[key[q]][bucket])'
    BY DEF Counted
  <2>1. CASE q = r
    <3>1. stage'[r] \notin {"new", "incr"}
      BY <1>0, <1>1 DEF TypeOK, Verdict
    <3>2. win[r] = bucket /\ born'[r] = s
      BY <1>m, <2>1
    <3>3. Stands(r, count[key[r]][bucket], start[key[r]][bucket])'
      BY <1>0, <1>1, <1>2, <1>m, <3>2 DEF Stands, s
    <3>. QED BY <1>0, <1>m, <2>1, <3>1, <3>3
  <2>2. CASE q # r
    <3>1. born[q] # 0 /\ born'[q] = born[q] /\ got'[q] = got[q] /\ stage'[q] = stage[q]
      BY <1>o, <2>2
    <3>2. stage[q] \notin {"new", "incr"} /\ got[q] >= 1
      BY <3>1 DEF LimiterInv, Counted
    <3>3. win[q] = bucket => Stands(q, count'[key[q]][bucket], start'[key[q]][bucket])
      BY <1>4, <3>1
    <3>. QED BY <1>1, <3>1, <3>2, <3>3 DEF Stands
  <2>. QED BY <2>1, <2>2
\* The others of that counter were told less; the counters before are old.
<1>7. ASSUME NEW q \in Requests \ {r}, born[q] # 0, win[r] = bucket, key[q] = key[r], win[q] = win[r]
      PROVE  (born[q] = s /\ got[q] < n) \/ born[q] - s >= Lifetime
  <2>1. Stands(q, n - 1, start[key[r]][win[r]])
    BY <1>7, <1>n DEF LimiterInv, Counted
  <2>2. s = IF n = 1 THEN left ELSE start[key[r]][win[r]]
    BY <1>7, <1>s
  <2>. QED BY <1>0, <1>r, <2>1, <2>2 DEF Stands
<1>8. Distinct'
  <2>. SUFFICES ASSUME NEW p \in Requests, NEW q \in Requests, p # q, born'[p] # 0,
                       born'[q] = born'[p], key[p] = key[q], win[p] = win[q]
                PROVE  got'[p] # got'[q]
    BY <1>1 DEF Distinct
  <2>4. CASE p = r
    BY <1>0, <1>r, <1>o, <1>m, <1>7, <2>4
  <2>5. CASE q = r
    BY <1>0, <1>r, <1>o, <1>m, <1>7, <2>5
  <2>6. CASE p # r /\ q # r
    BY <1>o, <2>6 DEF LimiterInv, Distinct
  <2>. QED BY <2>4, <2>5, <2>6
<1>9. Apart'
  <2>. SUFFICES ASSUME NEW p \in Requests, NEW q \in Requests, born'[p] # 0, born'[p] < born'[q],
                       key[p] = key[q], win[p] = win[q]
                PROVE  born'[q] - born'[p] >= Lifetime
    BY <1>1 DEF Apart
  <2>1. p # q
    BY <1>r, <1>o, <1>m
  <2>4. CASE p = r
    BY <1>r, <1>o, <1>m, <1>7, <2>1, <2>4
  <2>5. CASE q = r
    BY <1>r, <1>o, <1>m, <1>7, <2>1, <2>5
  <2>6. CASE p # r /\ q # r
    BY <1>o, <2>6 DEF LimiterInv, Apart
  <2>. QED BY <2>4, <2>5, <2>6
<1>10. WithinLimit'
  BY <1>0, <1>1, LimiterAssumptions DEF LimiterInv, WithinLimit, TypeOK, Verdict
<1>. QED BY <1>3, <1>4, <1>6, <1>8, <1>9, <1>10 DEF LimiterInv

\* An increment nobody is told of.
LEMMA UntoldStep ==
    ASSUME LimiterInv, NEW r \in Requests, Increment(r) \/ UNCHANGED <<count, start>>,
           stage[r] = "incr",
           tries' \in [Requests -> 0..MaxRetries],
           stage' \in {stage, [stage EXCEPT ![r] = "unavailable"]},
           UNCHANGED <<bucket, left, ttl, key, win, got, born>>
    PROVE  LimiterInv'
<1>0. TypeOK
  BY DEF LimiterInv
<1>1. count' \in [Keys -> [Buckets -> Nat]] /\ start' \in [Keys -> [Buckets -> 0..Window]]
  <2>1. CASE Increment(r)
    BY <1>0, <2>1, IncrementEffect, StartEffect
  <2>2. CASE UNCHANGED <<count, start>>
    BY <1>0, <2>2 DEF TypeOK
  <2>. QED BY <2>1, <2>2
<1>2. TypeOK'
  BY <1>0, <1>1 DEF TypeOK, Stages
<1>3. /\ NoneAhead' /\ Outlives'
      /\ \A q \in Requests : born[q] # 0 /\ win[q] = bucket =>
            Stands(q, count'[key[q]][bucket], start'[key[q]][bucket])
  <2>1. CASE Increment(r)
    BY <2>1, IncrementKeeps
  <2>2. CASE UNCHANGED <<count, start>>
    BY <2>2 DEF LimiterInv, NoneAhead, Outlives, Counted
  <2>. QED BY <2>1, <2>2
<1>4. Counted'
  <2>. SUFFICES ASSUME NEW q \in Requests, born[q] # 0
                PROVE  /\ stage'[q] \notin {"new", "incr"}
                       /\ got[q] >= 1
                       /\ win[q] = bucket =>
                             Stands(q, count'[key[q]][bucket], start'[key[q]][bucket])
    BY DEF Counted, Stands
  <2>1. stage[q] \notin {"new", "incr"} /\ got[q] >= 1
    BY DEF LimiterInv, Counted
  <2>2. q # r /\ stage'[q] = stage[q]
    BY <1>0, <2>1 DEF TypeOK
  <2>. QED BY <1>3, <2>1, <2>2
<1>5. Distinct' /\ Apart'
  BY DEF LimiterInv, Distinct, Apart
<1>6. WithinLimit'
  BY <1>0 DEF LimiterInv, WithinLimit, TypeOK
<1>. QED BY <1>2, <1>3, <1>4, <1>5, <1>6 DEF LimiterInv

\* EXPIRE, carried out or not, keeps the counters and what was told.
LEMMA ExpiryStep ==
    ASSUME LimiterInv, NEW r \in Requests, Expire(r) \/ ExpireFails(r)
    PROVE  LimiterInv'
<1>0. TypeOK /\ stage[r] = "expire" /\ got[r] \in Nat
  BY DEF LimiterInv, TypeOK, Expire, ExpireFails
<1>1. /\ SetExpiry(r) \/ UNCHANGED ttl
      /\ stage' \in {[stage EXCEPT ![r] = Verdict(got[r])], [stage EXCEPT ![r] = "unavailable"]}
      /\ UNCHANGED <<bucket, left, count, start, key, win, got, tries, born>>
  BY DEF Expire, ExpireFails, Goto, clock
<1>2. ttl' \in [Keys -> [Buckets -> 0..Lifetime]]
  BY <1>0, <1>1, SetExpiryEffect DEF TypeOK
<1>3. TypeOK'
  BY <1>0, <1>1, <1>2 DEF TypeOK, Stages, Verdict
<1>4. Outlives'
  <2>1. CASE SetExpiry(r)
    <3>1. /\ ttl'[key[r]][win[r]] = IF count[key[r]][win[r]] = 0 THEN 0 ELSE Lifetime
          /\ \A k \in Keys, b \in Buckets :
                k # key[r] \/ b # win[r] => ttl'[k][b] = ttl[k][b]
      BY <1>0, <2>1, SetExpiryEffect
    <3>2. /\ bucket \in Buckets /\ left \in Nat /\ Lifetime \in Nat
          /\ \A k \in Keys : start[k][bucket] \in Nat
      BY <1>0, Ranges
    <3>3. \A k \in Keys : ttl'[k][bucket] = ttl[k][bucket] \/ ttl'[k][bucket] \in {0, Lifetime}
      BY <3>1, <3>2
    <3>4. \A k \in Keys, b \in Buckets : count[k][b] = 0 => ttl'[k][b] = 0
      BY <3>1 DEF LimiterInv, Outlives
    <3>. QED BY <1>1, <3>2, <3>3, <3>4 DEF LimiterInv, Outlives
  <2>2. CASE UNCHANGED ttl
    BY <1>1, <2>2 DEF LimiterInv, Outlives
  <2>. QED BY <1>1, <2>1, <2>2
<1>5. NoneAhead' /\ Distinct' /\ Apart'
  BY <1>1 DEF LimiterInv, NoneAhead, Distinct, Apart
<1>6. Counted' /\ WithinLimit'
  <2>1. /\ stage'[r] \notin {"new", "incr"}
        /\ stage'[r] = "allowed" => got[r] <= Limit
        /\ \A q \in Requests \ {r} : stage'[q] = stage[q]
    BY <1>0, <1>1 DEF TypeOK, Verdict
  <2>. QED BY <1>1, <2>1 DEF LimiterInv, Counted, Stands, WithinLimit
<1>. QED BY <1>3, <1>4, <1>5, <1>6 DEF LimiterInv

\* Time takes a counter of the window that goes on only after its Lifetime.
LEMMA TickStep ==
    ASSUME LimiterInv, Tick
    PROVE  LimiterInv'
<1>0. TypeOK /\ bucket \in Nat /\ left \in Nat /\ Window \in Nat /\ MaxBucket \in Nat
  <2>1. TypeOK
    BY DEF LimiterInv
  <2>. QED BY <2>1, Ranges, LimiterAssumptions
<1>1. /\ UNCHANGED <<stage, key, win, got, tries, born, start>>
      /\ count' = [k \in Keys |-> [b \in Buckets |-> IF ttl[k][b] = 1 THEN 0 ELSE count[k][b]]]
      /\ ttl' = [k \in Keys |-> [b \in Buckets |-> IF ttl[k][b] = 0 THEN 0 ELSE ttl[k][b] - 1]]
  BY DEF Tick, AgeCounters, req
<1>2. \/ left > 1 /\ left' = left - 1 /\ bucket' = bucket
      \/ left = 1 /\ bucket < MaxBucket /\ left' = Window /\ bucket' = bucket + 1
  BY DEF Tick
<1>r. /\ bucket \in Buckets /\ left >= 1 /\ Lifetime \in Nat /\ Lifetime >= 1
      /\ \A k \in Keys, b \in Buckets : start[k][b] \in Nat /\ b \in Nat
      /\ \A r \in Requests : /\ key[r] \in Keys /\ win[r] \in Nat
                             /\ got[r] \in Nat /\ born[r] \in Nat
  BY <1>0, Ranges
<1>3. \A k \in Keys, b \in Buckets :
         /\ ttl[k][b] \in 0..Lifetime /\ count[k][b] \in Nat
         /\ ttl'[k][b] = IF ttl[k][b] = 0 THEN 0 ELSE ttl[k][b] - 1
         /\ count'[k][b] = IF ttl[k][b] = 1 THEN 0 ELSE count[k][b]
  BY <1>0, <1>1 DEF TypeOK
<1>4. bucket' \in Buckets /\ left' \in 1..Window /\ bucket' >= bucket
  BY <1>0, <1>2, LimiterAssumptions DEF TypeOK, Buckets
<1>5. TypeOK'
  <2>1. ttl' \in [Keys -> [Buckets -> 0..Lifetime]] /\ count' \in [Keys -> [Buckets -> Nat]]
    <3>1. ASSUME NEW k \in Keys, NEW b \in Buckets
          PROVE  /\ (IF ttl[k][b] = 0 THEN 0 ELSE ttl[k][b] - 1) \in 0..Lifetime
                 /\ (IF ttl[k][b] = 1 THEN 0 ELSE count[k][b]) \in Nat
      BY <1>r, <1>3
    <3>. QED BY <1>1, <3>1
  <2>. QED BY <1>0, <1>1, <1>4, <2>1 DEF TypeOK
<1>6. NoneAhead'
  BY <1>0, <1>1, <1>2, <1>3, <1>r DEF LimiterInv, NoneAhead
<1>7. Outlives'
  <2>1. \A k \in Keys, b \in Buckets : count'[k][b] = 0 => ttl'[k][b] = 0
    BY <1>r, <1>3 DEF LimiterInv, Outlives
  <2>2. CASE left > 1 /\ left' = left - 1 /\ bucket' = bucket
    <3>1. ASSUME NEW k \in Keys, count'[k][bucket] # 0
          PROVE  /\ start[k][bucket] >= left'
                 /\ ttl'[k][bucket] # 0 => ttl'[k][bucket] + start[k][bucket] - left' >= Lifetime
      <4>1. /\ count[k][bucket] # 0
            /\ start[k][bucket] >= left
            /\ ttl[k][bucket] # 0 => ttl[k][bucket] + start[k][bucket] - left >= Lifetime
        BY <1>r, <1>3, <3>1 DEF LimiterInv, Outlives
      <4>. QED BY <1>0, <1>r, <1>3, <2>2, <4>1
    <3>. QED BY <1>1, <2>1, <2>2, <3>1 DEF Outlives
  <2>3. CASE bucket' = bucket + 1
    <3>1. bucket' > bucket
      BY <1>0, <2>3
    <3>2. \A k \in Keys : count[k][bucket'] = 0
      BY <1>4, <3>1 DEF LimiterInv, NoneAhead
    <3>3. \A k \in Keys : count'[k][bucket'] = 0
      BY <1>3, <1>4, <3>2
    <3>. QED BY <2>1, <3>3 DEF Outlives
  <2>. QED BY <1>2, <2>2, <2>3
<1>8. Counted'
  <2>1. CASE bucket' = bucket /\ left > 1 /\ left' = left - 1
    <3>1. ASSUME NEW r \in Requests, born[r] # 0, win[r] = bucket
          PROVE  Stands(r, count[key[r]][bucket], start[key[r]][bucket])'
      <4>. DEFINE k == key[r]
      <4>1. Stands(r, count[k][bucket], start[k][bucket])
        BY <3>1 DEF LimiterInv, Counted
      <4>2. /\ k \in Keys /\ count[k][bucket] \in Nat
            /\ count'[k][bucket] = IF ttl[k][bucket] = 1 THEN 0 ELSE count[k][bucket]
            /\ start[k][bucket] \in Nat /\ born[r] \in Nat /\ got[r] \in Nat
        BY <1>r, <1>3
      <4>3. ttl[k][bucket] = 1 => /\ count[k][bucket] # 0
                                  /\ start[k][bucket] - left' >= Lifetime
        <5>1. ttl[k][bucket] = 1 => count[k][bucket] # 0
          BY <1>r, <4>2 DEF LimiterInv, Outlives
        <5>. QED BY <1>0, <1>r, <2>1, <4>2, <5>1 DEF LimiterInv, Outlives
      <4>4. SUFFICES IF count'[k][bucket] = 0 THEN born[r] - left' >= Lifetime
                     ELSE \/ born[r] = start[k][bucket] /\ got[r] <= count'[k][bucket]
                          \/ born[r] - start[k][bucket] >= Lifetime
        BY <1>1, <2>1 DEF Stands
      <4>. HIDE DEF k
      <4>5. CASE count[k][bucket] = 0
        BY <1>0, <1>r, <2>1, <4>1, <4>2, <4>3, <4>5 DEF Stands
      <4>6. CASE count[k][bucket] # 0 /\ ttl[k][bucket] = 1
        <5>1. born[r] - start[k][bucket] >= 0
          BY <1>r, <4>1, <4>2, <4>6 DEF Stands
        <5>. QED BY <1>0, <1>r, <2>1, <4>2, <4>3, <4>6, <5>1
      <4>7. CASE count[k][bucket] # 0 /\ ttl[k][bucket] # 1
        BY <4>1, <4>2, <4>7 DEF Stands
      <4>. QED BY <4>5, <4>6, <4>7
    <3>. QED BY <1>1, <2>1, <3>1 DEF LimiterInv, Counted
  <2>2. CASE bucket' = bucket + 1
    <3>1. \A r \in Requests : win[r] # bucket'
      <4>1. \A r \in Requests : win[r] \in Nat /\ win[r] <= bucket
        BY <1>r DEF LimiterInv, NoneAhead
      <4>. QED BY <1>0, <2>2, <4>1
    <3>. QED BY <1>1, <3>1 DEF LimiterInv, Counted
  <2>. QED BY <1>2, <2>1, <2>2
<1>9. Distinct' /\ Apart' /\ WithinLimit'
  BY <1>1 DEF LimiterInv, Distinct, Apart, WithinLimit
<1>. QED BY <1>5, <1>6, <1>7, <1>8, <1>9 DEF LimiterInv

\* Every step of the limiter keeps LimiterInv.
LEMMA NextLimiter == LimiterInv /\ [Next]_vars => LimiterInv'
<1>. SUFFICES ASSUME LimiterInv, [Next]_vars PROVE LimiterInv'
  OBVIOUS
<1>1. ASSUME NEW r \in Requests, NEW c \in Clients, Begin(r, c) PROVE LimiterInv'
  BY <1>1, BeginStep
<1>2. ASSUME NEW r \in Requests, Incr(r) PROVE LimiterInv'
  BY <1>2, IncrStep
<1>3. ASSUME NEW r \in Requests, IncrResent(r) PROVE LimiterInv'
  <2>1. tries' \in [Requests -> 0..MaxRetries]
    BY <1>3, LimiterAssumptions DEF IncrResent, LimiterInv, TypeOK
  <2>. QED BY <1>3, <2>1, UntoldStep DEF IncrResent, clock
<1>4. ASSUME NEW r \in Requests, IncrFails(r) PROVE LimiterInv'
  <2>1. tries' \in [Requests -> 0..MaxRetries]
    BY <1>4 DEF IncrFails, LimiterInv, TypeOK
  <2>. QED BY <1>4, <2>1, UntoldStep DEF IncrFails, Goto, clock
<1>5. ASSUME NEW r \in Requests, Expire(r) \/ ExpireFails(r) PROVE LimiterInv'
  BY <1>5, ExpiryStep
<1>6. CASE Tick
  BY <1>6, TickStep
<1>7. CASE UNCHANGED vars
  BY <1>7 DEF vars, clock, store, req, LimiterInv, TypeOK, NoneAhead, Outlives, Counted, Stands,
     Distinct, Apart, WithinLimit
<1>. QED BY <1>1, <1>2, <1>3, <1>4, <1>5, <1>6, <1>7 DEF Next

-----------------------------------------------------------------------------
(***************************************************************************)
(* The theorems                                                            *)
(***************************************************************************)
\* Distinct numbers up to Limit: the requests that one counter lets through
\* inject into 1..Limit.
LEMMA OneCounterBounds ==
    ASSUME LimiterInv, NEW k \in Keys, NEW b \in Buckets, NEW s
    PROVE  LET P == {q \in Passed(k, b) : born[q] = s}
           IN  IsFiniteSet(P) /\ Cardinality(P) <= Limit /\ Cardinality(P) \in Nat
<1>. DEFINE P == {q \in Passed(k, b) : born[q] = s}
            f == [r \in P |-> got[r]]
<1>1. \A r \in P : r \in Requests /\ got[r] \in 1..Limit
  BY LimiterAssumptions DEF Passed, LimiterInv, TypeOK, Counted, WithinLimit
<1>2. \A q, r \in P : got[q] = got[r] => q = r
  BY DEF Passed, LimiterInv, Distinct
<1>3. f \in Injection(P, 1..Limit)
  BY <1>1, <1>2 DEF Injection, IsInjective
<1>4. IsFiniteSet(1..Limit) /\ Cardinality(1..Limit) = Limit
  BY LimiterAssumptions, FS_Interval
<1>5. P \subseteq Requests
  BY <1>1
<1>. HIDE DEF f, P
<1>6. IsFiniteSet(P) /\ Cardinality(P) <= Limit
  BY <1>3, <1>4, FS_Injection
<1>7. Cardinality(P) \in Nat
  BY <1>6, FS_CardinalityType
<1>. QED BY <1>6, <1>7 DEF P

\* Two counters fit into a window at most, and one if it lives as long.
LEMMA DistinctBounds == LimiterInv => AtMostLimitPerWindow
<1>. SUFFICES ASSUME LimiterInv, NEW k \in Keys, NEW b \in Buckets
              PROVE  /\ Cardinality(Passed(k, b)) <= Limit * Lives
                     /\ \A r \in Passed(k, b) :
                          /\ Cardinality({q \in Passed(k, b) : born[q] = born[r]}) <= Limit
                          /\ \A q \in Passed(k, b) :
                                born[q] < born[r] => born[r] - born[q] >= Lifetime
  BY DEF AtMostLimitPerWindow
<1>. DEFINE P(s) == {q \in Passed(k, b) : born[q] = s}
<1>0. /\ Limit \in Nat /\ Limit >= 1 /\ Window \in Nat /\ Window >= 1
      /\ Lifetime \in Nat /\ Lifetime >= 1 /\ 2 * Lifetime >= Window
  BY LimiterAssumptions, LifetimeBounds
<1>1. ASSUME NEW s PROVE IsFiniteSet(P(s)) /\ Cardinality(P(s)) <= Limit /\ Cardinality(P(s)) \in Nat
  BY OneCounterBounds
<1>2. \A q, r \in Passed(k, b) : born[q] < born[r] => born[r] - born[q] >= Lifetime
  BY DEF Passed, LimiterInv, Apart
<1>3. \A r \in Passed(k, b) : born[r] \in 1..Window
  BY <1>0 DEF Passed, LimiterInv, TypeOK
<1>4. Limit * Lives = IF Lifetime >= Window THEN Limit ELSE 2 * Limit
  BY <1>0 DEF Lives
<1>5. Cardinality(Passed(k, b)) <= Limit * Lives
  <2>1. CASE Passed(k, b) = {}
    BY <1>0, <1>4, <2>1, FS_EmptySet
  <2>2. CASE \E r \in Passed(k, b) : \A q \in Passed(k, b) : born[q] = born[r]
    <3>1. PICK r \in Passed(k, b) : \A q \in Passed(k, b) : born[q] = born[r]
      BY <2>2
    <3>2. Passed(k, b) = P(born[r])
      BY <3>1
    <3>. HIDE DEF P
    <3>. QED BY <1>0, <1>1, <1>4, <3>2
  <2>3. CASE \E p, r \in Passed(k, b) : born[p] # born[r]
    <3>1. PICK p \in Passed(k, b), r \in Passed(k, b) : born[p] # born[r]
      BY <2>3
    <3>2. ~(Lifetime >= Window)
      BY <1>0, <1>2, <1>3, <3>1
    <3>3. \A q \in Passed(k, b) : born[q] = born[p] \/ born[q] = born[r]
      <4>. SUFFICES ASSUME NEW q \in Passed(k, b), born[q] # born[p], born[q] # born[r]
                    PROVE  FALSE
        OBVIOUS
      <4>1. /\ born[p] \in 1..Window /\ born[q] \in 1..Window /\ born[r] \in 1..Window
        BY <1>3
      <4>2. /\ born[p] - born[q] >= Lifetime \/ born[q] - born[p] >= Lifetime
            /\ born[r] - born[q] >= Lifetime \/ born[q] - born[r] >= Lifetime
            /\ born[p] - born[r] >= Lifetime \/ born[r] - born[p] >= Lifetime
        BY <1>0, <1>2, <3>1, <4>1
      <4>. QED BY <1>0, <4>1, <4>2
    <3>4. Passed(k, b) = P(born[p]) \cup P(born[r])
      BY <3>3
    <3>. HIDE DEF P
    <3>5. Cardinality(P(born[p]) \cup P(born[r])) <= Cardinality(P(born[p])) + Cardinality(P(born[r]))
      <4>1. P(born[p]) \cap P(born[r]) \subseteq P(born[p])
        OBVIOUS
      <4>2. Cardinality(P(born[p]) \cap P(born[r])) \in Nat
        BY <1>1, <4>1, FS_Subset, FS_CardinalityType
      <4>3. Cardinality(P(born[p]) \cup P(born[r])) =
               Cardinality(P(born[p])) + Cardinality(P(born[r]))
                  - Cardinality(P(born[p]) \cap P(born[r]))
        BY <1>1, FS_Union
      <4>. QED BY <1>1, <4>2, <4>3
    <3>6. Cardinality(P(born[p]) \cup P(born[r])) \in Nat
      BY <1>1, FS_Union, FS_CardinalityType
    <3>. QED BY <1>0, <1>1, <1>4, <3>2, <3>4, <3>5, <3>6
  <2>. QED BY <2>1, <2>2, <2>3
<1>6. \A r \in Passed(k, b) : Cardinality({q \in Passed(k, b) : born[q] = born[r]}) <= Limit
  BY <1>1
<1>. QED BY <1>2, <1>5, <1>6

\* A window lets through at most Limit requests of a key that reach its
\* counter in time, whatever fails, is sent again or is delayed, and twice as
\* many if EXPIRE, in whole seconds, cannot name the window.
THEOREM WindowLimit == Spec => []AtMostLimitPerWindow
BY InitLimiter, NextLimiter, DistinctBounds, PTL DEF Spec

\* The types of the limiter's state hold throughout.
THEOREM LimiterTypes == Spec => []TypeOK
<1>1. LimiterInv => TypeOK
  BY DEF LimiterInv
<1>. QED BY <1>1, InitLimiter, NextLimiter, PTL DEF Spec

-----------------------------------------------------------------------------
(***************************************************************************)
(* Who is refused                                                          *)
(***************************************************************************)
\* A counter counts only increments that were sent for it, and so does the
\* number a request was told, even when the counter expired meanwhile.
SentInv ==
    /\ \A k \in Keys, b \in Buckets : count[k][b] <= Cardinality(Sends(k, b))
    /\ \A r \in Requests :
          stage[r] \in {"expire", "allowed", "exceeded"} =>
             got[r] <= Cardinality(Sends(key[r], win[r]))
    /\ \A r \in Requests : stage[r] = "exceeded" => got[r] > Limit

\* The increments that were sent are finitely many.
LEMMA SendsCounted ==
    ASSUME NEW k, NEW b
    PROVE  IsFiniteSet(Sends(k, b)) /\ Cardinality(Sends(k, b)) \in Nat
<1>1. IsFiniteSet(1..MaxRetries + 1)
    BY LimiterAssumptions, FS_Interval
<1>2. IsFiniteSet(Requests \X (1..MaxRetries + 1))
    BY <1>1, LimiterAssumptions, FS_Product
<1>3. Sends(k, b) \in SUBSET (Requests \X (1..MaxRetries + 1))
    BY DEF Sends
<1> QED
    BY <1>2, <1>3, FS_Subset, FS_CardinalityType

\* What is sent stays sent, and one more makes the number greater.
LEMMA SendsGrow ==
    ASSUME NEW k, NEW b, Sends(k, b) \subseteq Sends(k, b)'
    PROVE  /\ Cardinality(Sends(k, b)) \in Nat /\ Cardinality(Sends(k, b)') \in Nat
           /\ Cardinality(Sends(k, b)) <= Cardinality(Sends(k, b)')
           /\ Sends(k, b) # Sends(k, b)' =>
                 Cardinality(Sends(k, b)) + 1 <= Cardinality(Sends(k, b)')
<1> DEFINE All == Requests \X (1..MaxRetries + 1)
<1>1. IsFiniteSet(1..MaxRetries + 1)
    BY LimiterAssumptions, FS_Interval
<1>2. IsFiniteSet(All)
    BY <1>1, LimiterAssumptions, FS_Product
<1>3. Sends(k, b)' \in SUBSET All
    BY DEF Sends
<1>4. IsFiniteSet(Sends(k, b)')
    BY <1>2, <1>3, FS_Subset
<1>5. /\ IsFiniteSet(Sends(k, b))
      /\ Cardinality(Sends(k, b)) <= Cardinality(Sends(k, b)')
      /\ Sends(k, b) # Sends(k, b)' => Cardinality(Sends(k, b)) # Cardinality(Sends(k, b)')
    BY <1>4, FS_Subset
<1>6. Cardinality(Sends(k, b)) \in Nat /\ Cardinality(Sends(k, b)') \in Nat
    BY <1>4, <1>5, FS_CardinalityType
<1> QED
    BY <1>5, <1>6

\* The invariant survives a step that forgets nothing that was sent, counts no
\* more than it sends, and tells a request no more than the counter.
LEMMA SentKept ==
    ASSUME TypeOK, TypeOK', SentInv,
           \A k \in Keys, b \in Buckets :
              /\ Sends(k, b) \subseteq Sends(k, b)'
              /\ \/ count'[k][b] <= count[k][b]
                 \/ count'[k][b] = count[k][b] + 1 /\ Sends(k, b) # Sends(k, b)',
           \A r \in Requests : stage'[r] \in {"expire", "allowed", "exceeded"} =>
              /\ stage'[r] = "exceeded" => got'[r] > Limit
              /\ \/ /\ stage[r] \in {"expire", "allowed", "exceeded"}
                    /\ got'[r] = got[r] /\ key'[r] = key[r] /\ win'[r] = win[r]
                 \/ got'[r] = count'[key'[r]][win'[r]]
    PROVE  SentInv'
<1>1. ASSUME NEW k \in Keys, NEW b \in Buckets
      PROVE  /\ Cardinality(Sends(k, b)) \in Nat /\ Cardinality(Sends(k, b)') \in Nat
             /\ Cardinality(Sends(k, b)) <= Cardinality(Sends(k, b)')
             /\ count'[k][b] <= Cardinality(Sends(k, b)')
    <2>1. count[k][b] \in Nat /\ count'[k][b] \in Nat
        BY DEF TypeOK
    <2>2. count[k][b] <= Cardinality(Sends(k, b))
        BY DEF SentInv
    <2> QED
        BY <2>1, <2>2, SendsGrow
<1>2. ASSUME NEW r \in Requests, stage'[r] \in {"expire", "allowed", "exceeded"}
      PROVE  got'[r] <= Cardinality(Sends(key[r], win[r])')
    <2>1. /\ key[r] \in Keys /\ win[r] \in Buckets /\ got[r] \in Nat
          /\ key'[r] \in Keys /\ win'[r] \in Buckets /\ got'[r] \in Nat
        BY DEF TypeOK
    <2>2. CASE got'[r] = count'[key'[r]][win'[r]]
        BY <1>1, <2>1, <2>2
    <2>3. CASE /\ stage[r] \in {"expire", "allowed", "exceeded"}
               /\ got'[r] = got[r] /\ key'[r] = key[r] /\ win'[r] = win[r]
        <3>1. got[r] <= Cardinality(Sends(key[r], win[r]))
            BY <2>3 DEF SentInv
        <3> QED
            BY <1>1, <2>1, <2>3, <3>1
    <2> QED
        BY <1>2, <2>2, <2>3
<1> QED
    BY <1>1, <1>2 DEF SentInv

\* One more was sent by r for the counter it names.
LEMMA OneMoreSent ==
    ASSUME TypeOK, TypeOK', NEW r \in Requests, stage[r] = "incr", UNCHANGED <<key, win>>,
           \/ tries' = tries /\ stage'[r] # "incr" /\ stage'[r] # "new"
           \/ tries' = [tries EXCEPT ![r] = @ + 1] /\ stage' = stage,
           \A q \in Requests \ {r} : stage'[q] = stage[q]
    PROVE  /\ \A k \in Keys, b \in Buckets : Sends(k, b) \subseteq Sends(k, b)'
           /\ Sends(key[r], win[r]) # Sends(key[r], win[r])'
<1>1. \A q \in Requests : tries[q] \in 0..MaxRetries /\ tries'[q] \in 0..MaxRetries
    BY DEF TypeOK
<1>2. \A q \in Requests \ {r} : tries'[q] = tries[q]
    BY DEF TypeOK
<1>3. tries'[r] + (IF stage'[r] = "incr" THEN 0 ELSE 1) = tries[r] + 1
    BY <1>1 DEF TypeOK
<1>4. ASSUME NEW k \in Keys, NEW b \in Buckets PROVE Sends(k, b) \subseteq Sends(k, b)'
    <2> SUFFICES ASSUME NEW q \in Requests, NEW i \in 1..MaxRetries + 1, <<q, i>> \in Sends(k, b)
                 PROVE  <<q, i>> \in Sends(k, b)'
        BY DEF Sends
    <2>1. /\ stage[q] # "new" /\ key[q] = k /\ win[q] = b
          /\ i <= tries[q] + (IF stage[q] = "incr" THEN 0 ELSE 1)
        BY DEF Sends
    <2>2. /\ stage'[q] # "new" /\ key'[q] = k /\ win'[q] = b
          /\ i <= tries'[q] + (IF stage'[q] = "incr" THEN 0 ELSE 1)
        BY <1>1, <1>2, <1>3, <2>1, LimiterAssumptions
    <2> QED
        BY <2>2 DEF Sends
<1>5. <<r, tries[r] + 1>> \in Sends(key[r], win[r])'
    BY <1>1, <1>3, LimiterAssumptions DEF Sends
<1>6. <<r, tries[r] + 1>> \notin Sends(key[r], win[r])
    BY <1>1 DEF Sends
<1> QED
    BY <1>4, <1>5, <1>6

\* Every step of the limiter keeps SentInv.
LEMMA SentStep ==
    ASSUME LimiterInv, LimiterInv', SentInv, [Next]_vars
    PROVE  SentInv'
<1>0. TypeOK /\ TypeOK'
    BY DEF LimiterInv
<1>t. \A k \in Keys, b \in Buckets : count[k][b] \in Nat /\ count'[k][b] \in Nat
    BY <1>0 DEF TypeOK
<1>g. \A r \in Requests : got[r] \in Nat /\ key[r] \in Keys /\ win[r] \in Buckets
    BY <1>0 DEF TypeOK
<1>x. \A r \in Requests : stage[r] = "exceeded" => got[r] > Limit
    BY DEF SentInv
<1>1. ASSUME NEW r \in Requests, NEW c \in Clients, Begin(r, c) PROVE SentInv'
    <2>1. /\ stage[r] = "new" /\ stage' = [stage EXCEPT ![r] = "incr"]
          /\ key' = [key EXCEPT ![r] = KeyOf[c]] /\ win' = [win EXCEPT ![r] = bucket]
          /\ UNCHANGED <<count, got, tries>>
        BY <1>1 DEF Begin, Goto, sanitizeRateLimitKey, store
    <2>2. \A q \in Requests \ {r} : stage'[q] = stage[q] /\ key'[q] = key[q] /\ win'[q] = win[q]
        BY <1>0, <2>1 DEF TypeOK
    <2>3. stage'[r] = "incr"
        BY <1>0, <2>1 DEF TypeOK
    <2>4. \A k \in Keys, b \in Buckets : Sends(k, b) \subseteq Sends(k, b)'
        BY <2>1, <2>2 DEF Sends
    <2> QED
        BY <1>0, <1>t, <1>x, <2>1, <2>2, <2>3, <2>4, SentKept
<1>2. ASSUME NEW r \in Requests, Incr(r) PROVE SentInv'
    <2> DEFINE n == count[key[r]][win[r]] + 1
    <2>1. /\ stage[r] = "incr" /\ got' = [got EXCEPT ![r] = n]
          /\ stage' = [stage EXCEPT ![r] = IF n = 1 THEN "expire" ELSE Verdict(n)]
          /\ UNCHANGED <<key, win, tries>> /\ Increment(r)
        BY <1>2 DEF Incr, Goto
    <2>2. \A q \in Requests \ {r} : stage'[q] = stage[q] /\ got'[q] = got[q]
        BY <1>0, <2>1 DEF TypeOK
    <2>3. /\ got'[r] = n /\ stage'[r] \in {"expire", "allowed", "exceeded"}
          /\ stage'[r] = "exceeded" => n > Limit
        BY <1>0, <1>t, <1>g, <2>1, LimiterAssumptions DEF TypeOK, Verdict
    <2>4. /\ count'[key[r]][win[r]] = n
          /\ \A k \in Keys, b \in Buckets :
                k # key[r] \/ b # win[r] => count'[k][b] = count[k][b]
        BY <1>0, <2>1, IncrementEffect
    <2>5. /\ \A k \in Keys, b \in Buckets : Sends(k, b) \subseteq Sends(k, b)'
          /\ Sends(key[r], win[r]) # Sends(key[r], win[r])'
        BY <1>0, <2>1, <2>2, <2>3, OneMoreSent
    <2>6. \A k \in Keys, b \in Buckets :
             \/ count'[k][b] <= count[k][b]
             \/ count'[k][b] = count[k][b] + 1 /\ Sends(k, b) # Sends(k, b)'
        BY <1>t, <2>1, <2>4, <2>5
    <2>7. \A q \in Requests : stage'[q] \in {"expire", "allowed", "exceeded"} =>
             /\ stage'[q] = "exceeded" => got'[q] > Limit
             /\ \/ /\ stage[q] \in {"expire", "allowed", "exceeded"}
                   /\ got'[q] = got[q] /\ key'[q] = key[q] /\ win'[q] = win[q]
                \/ got'[q] = count'[key'[q]][win'[q]]
        BY <1>x, <2>1, <2>2, <2>3, <2>4
    <2> QED
        BY <1>0, <2>5, <2>6, <2>7, SentKept
<1>3. ASSUME NEW r \in Requests, IncrResent(r) \/ IncrFails(r) PROVE SentInv'
    <2>1. /\ stage[r] = "incr" /\ UNCHANGED <<key, win, got>>
          /\ Increment(r) \/ UNCHANGED <<count, start>>
          /\ \/ tries' = tries /\ stage' = [stage EXCEPT ![r] = "unavailable"]
             \/ tries' = [tries EXCEPT ![r] = @ + 1] /\ stage' = stage
        BY <1>3 DEF IncrResent, IncrFails, Goto
    <2>2. \A q \in Requests \ {r} : stage'[q] = stage[q]
        BY <1>0, <2>1 DEF TypeOK
    <2>3. stage'[r] \in {"incr", "unavailable"}
        BY <1>0, <2>1 DEF TypeOK
    <2>4. /\ \A k \in Keys, b \in Buckets : Sends(k, b) \subseteq Sends(k, b)'
          /\ Sends(key[r], win[r]) # Sends(key[r], win[r])'
        <3>1. \/ tries' = tries /\ stage'[r] # "incr" /\ stage'[r] # "new"
              \/ tries' = [tries EXCEPT ![r] = @ + 1] /\ stage' = stage
            BY <1>0, <2>1 DEF TypeOK
        <3> QED
            BY <1>0, <2>1, <2>2, <3>1, OneMoreSent
    <2>5. \A k \in Keys, b \in Buckets :
             \/ count'[k][b] <= count[k][b]
             \/ count'[k][b] = count[k][b] + 1 /\ Sends(k, b) # Sends(k, b)'
        <3>1. CASE UNCHANGED <<count, start>>
            BY <1>t, <3>1
        <3>2. CASE Increment(r)
            <4>1. /\ count'[key[r]][win[r]] = count[key[r]][win[r]] + 1
                  /\ \A k \in Keys, b \in Buckets :
                        k # key[r] \/ b # win[r] => count'[k][b] = count[k][b]
                BY <1>0, <3>2, IncrementEffect
            <4> QED
                BY <1>t, <2>1, <2>4, <4>1
        <3> QED
            BY <2>1, <3>1, <3>2
    <2>6. \A q \in Requests : stage'[q] \in {"expire", "allowed", "exceeded"} =>
             /\ stage'[q] = "exceeded" => got'[q] > Limit
             /\ stage[q] \in {"expire", "allowed", "exceeded"}
             /\ got'[q] = got[q] /\ key'[q] = key[q] /\ win'[q] = win[q]
        BY <1>x, <2>1, <2>2, <2>3
    <2> QED
        BY <1>0, <2>4, <2>5, <2>6, SentKept
<1>4. ASSUME NEW r \in Requests, Expire(r) \/ ExpireFails(r) PROVE SentInv'
    <2>1. /\ stage[r] = "expire" /\ UNCHANGED <<count, key, win, got, tries>>
          /\ stage' \in {[stage EXCEPT ![r] = Verdict(got[r])], [stage EXCEPT ![r] = "unavailable"]}
        BY <1>4 DEF Expire, ExpireFails, Goto
    <2>2. \A q \in Requests \ {r} : stage'[q] = stage[q]
        BY <1>0, <2>1 DEF TypeOK
    <2>3. /\ stage'[r] \in {"allowed", "exceeded", "unavailable"}
          /\ stage'[r] = "exceeded" => got[r] > Limit
        BY <1>0, <1>g, <2>1, LimiterAssumptions DEF TypeOK, Verdict
    <2>4. \A k \in Keys, b \in Buckets : Sends(k, b) \subseteq Sends(k, b)'
        BY <2>1, <2>2, <2>3 DEF Sends
    <2> QED
        BY <1>0, <1>t, <1>x, <2>1, <2>2, <2>3, <2>4, SentKept
<1>5. CASE Tick
    <2>1. /\ UNCHANGED <<stage, key, win, got, tries>>
          /\ count' = [k \in Keys |-> [b \in Buckets |->
                         IF ttl[k][b] = 1 THEN 0 ELSE count[k][b]]]
        BY <1>5 DEF Tick, AgeCounters, req
    <2>2. \A k \in Keys, b \in Buckets : count'[k][b] <= count[k][b]
        BY <1>t, <2>1
    <2>3. \A k \in Keys, b \in Buckets : Sends(k, b) \subseteq Sends(k, b)'
        BY <2>1 DEF Sends
    <2> QED
        BY <1>0, <1>x, <2>1, <2>2, <2>3, SentKept
<1>6. CASE UNCHANGED vars
    BY <1>6 DEF vars, store, req, SentInv, Sends
<1> QED
    BY <1>1, <1>2, <1>3, <1>4, <1>5, <1>6 DEF Next

\* A request is refused only if more than Limit increments were sent for its
\* key in its own window, whatever other windows have left behind.
THEOREM RefusedWhenFull == Spec => []RefusedOnlyWhenFull
<1>1. Init => LimiterInv /\ SentInv
    <2> SUFFICES ASSUME Init PROVE SentInv
        BY InitLimiter
    <2>1. \A k \in Keys, b \in Buckets : count[k][b] = 0 /\ Sends(k, b) = {}
        BY DEF Init, Sends
    <2>2. Cardinality({}) = 0
        BY FS_EmptySet
    <2>3. \A k \in Keys, b \in Buckets : count[k][b] <= Cardinality(Sends(k, b))
        BY <2>1, <2>2
    <2>4. \A r \in Requests : stage[r] = "new"
        BY DEF Init
    <2> QED
        BY <2>3, <2>4 DEF SentInv
<1>2. LimiterInv /\ SentInv /\ [Next]_vars => (LimiterInv /\ SentInv)'
    BY NextLimiter, SentStep
<1>3. LimiterInv /\ SentInv => RefusedOnlyWhenFull
    <2> SUFFICES ASSUME LimiterInv, SentInv, NEW r \in Requests, stage[r] = "exceeded"
                 PROVE  Cardinality(Sends(key[r], win[r])) > Limit
        BY DEF RefusedOnlyWhenFull
    <2>1. got[r] \in Nat /\ got[r] > Limit /\ got[r] <= Cardinality(Sends(key[r], win[r]))
        BY DEF LimiterInv, TypeOK, SentInv
    <2>2. Cardinality(Sends(key[r], win[r])) \in Nat
        BY SendsCounted
    <2> QED
        BY <2>1, <2>2, LimiterAssumptions
<1> QED
    BY <1>1, <1>2, <1>3, PTL DEF Spec

-----------------------------------------------------------------------------
(***************************************************************************)
(* The limiter on the path of a request                                    *)
(***************************************************************************)
\* A request that has arrived is one of those that may.
ArrivedInv ==
    /\ DOMAIN in = Requests
    /\ DOMAIN at = Requests
    /\ \A r \in Requests : /\ in[r] \in Arriving[r] \cup {Absent}
                           /\ at[r] # "idle" => in[r] \in Arriving[r]

-----------------------------------------------------------------------------
\* No request has arrived at first.
LEMMA InitArrived == ServerInit => ArrivedInv
BY DEF ServerInit, ArrivedInv

\* Arrive is the only step that sets the request; every other step is taken by
\* a request that arrived before, and only moves it.
LEMMA StepArrived == ArrivedInv /\ [ServerNext]_<<vars, serverVars>> => ArrivedInv'
<1> SUFFICES ASSUME ArrivedInv, [ServerNext]_<<vars, serverVars>> PROVE ArrivedInv'
    OBVIOUS
<1>1. ASSUME NEW r \in Requests, NEW q \in Arriving[r], Arrive(r, q) PROVE ArrivedInv'
    <2>1. in' = [in EXCEPT ![r] = q]
        BY <1>1 DEF Arrive
    <2>2. \E s : at' = [at EXCEPT ![r] = s]
        <3>1. CASE CORSAnswer(q) # 0
            BY <1>1, <3>1 DEF Arrive, Answered, Go
        <3>2. CASE CORSAnswer(q) = 0 /\ q.route = "/healthz"
            BY <1>1, <3>2 DEF Arrive, Answered, Go
        <3>3. CASE CORSAnswer(q) = 0 /\ q.route = "/unmounted"
            BY <1>1, <3>3 DEF Arrive, Answered, Go
        <3>4. CASE ~(CORSAnswer(q) # 0) /\ q.route \notin {"/healthz", "/unmounted"}
            BY <1>1, <3>4 DEF Arrive, Go
        <3> QED
            BY <3>1, <3>2, <3>3, <3>4
    <2> QED
        BY <2>1, <2>2 DEF ArrivedInv
<1>2. ASSUME NEW r \in Requests, at[r] # "idle", UNCHANGED in,
             \/ \E s : at' = [at EXCEPT ![r] = s]
             \/ UNCHANGED at
      PROVE  ArrivedInv'
    BY <1>2 DEF ArrivedInv
<1>3. ASSUME NEW r \in Requests, Ready(r) \/ Scrape(r) PROVE ArrivedInv'
    BY <1>2, <1>3 DEF Ready, Scrape, Answered, Go
<1>4. ASSUME NEW r \in Requests, Allow(r) PROVE ArrivedInv'
    <2>1. at[r] = "limit" /\ UNCHANGED in /\ AfterAllow(r, stage'[r])
        BY <1>4 DEF Allow
    <2>2. (\E s : at' = [at EXCEPT ![r] = s]) \/ UNCHANGED at
        <3>1. CASE stage'[r] = "allowed"
            BY <2>1, <3>1 DEF AfterAllow, Go
        <3>2. CASE stage'[r] \in {"exceeded", "unavailable"}
            BY <2>1, <3>2 DEF AfterAllow, EndRPC, Go
        <3>3. CASE stage'[r] \notin {"allowed", "exceeded", "unavailable"}
            BY <2>1, <3>3 DEF AfterAllow
        <3> QED
            BY <3>1, <3>2, <3>3
    <2> QED
        BY <1>2, <2>1, <2>2
<1>5. ASSUME NEW r \in Requests, Authenticate(r) \/ Handle(r) \/ Panic(r) PROVE ArrivedInv'
    BY <1>2, <1>5 DEF Authenticate, Handle, Panic, EndRPC, Go
<1>6. ASSUME NEW r \in Requests,
             RPCCount(r) \/ RPCTimer(r) \/ HTTPCount(r) \/ HTTPTimer(r)
      PROVE  ArrivedInv'
    BY <1>2, <1>6 DEF RPCCount, RPCTimer, HTTPCount, HTTPTimer, Answered, Go
<1>7. CASE UNCHANGED serverVars
    BY <1>7 DEF serverVars, progress, ArrivedInv
<1> QED
    BY <1>1, <1>3, <1>4, <1>5, <1>6, <1>7 DEF ServerNext, Serve

\* Outside Allow the limiter stands still; Allow takes its steps, for a client.
LEMMA ServerStepIsLimiterStep ==
    ArrivedInv /\ [ServerNext]_<<vars, serverVars>> => [Next]_vars
<1> SUFFICES ASSUME ArrivedInv, [ServerNext]_<<vars, serverVars>> PROVE [Next]_vars
    OBVIOUS
<1>1. ASSUME NEW r \in Requests, Allow(r) PROVE Next
    <2>1. Client(in[r]) \in Clients
        BY <1>1, ClientsAssumption DEF Allow, ArrivedInv
    <2> QED
        BY <1>1, <2>1 DEF Allow, Next
<1>2. ASSUME NEW r \in Requests, Serve(r), ~Allow(r) PROVE UNCHANGED vars
    BY <1>2 DEF Serve, Arrive, Ready, Scrape, Authenticate, Handle, Panic,
                RPCCount, RPCTimer, HTTPCount, HTTPTimer
<1>3. CASE Tick
    BY <1>3 DEF Next
<1>4. CASE UNCHANGED <<vars, serverVars>>
    BY <1>4
<1> QED
    BY <1>1, <1>2, <1>3, <1>4 DEF ServerNext

-----------------------------------------------------------------------------
\* The API server, with whatever comes before and after the interceptor of
\* api/ratelimit.go, uses the limiter as RateLimiter says it is used.
THEOREM ServerUsesLimiter == ServerSpec => Spec
<1>1. ServerInit => Init
    BY DEF ServerInit
<1>2. ServerSpec => []ArrivedInv
    BY InitArrived, StepArrived, PTL DEF ServerSpec
<1> QED
    BY <1>1, <1>2, ServerStepIsLimiterStep, PTL DEF ServerSpec, Spec

\* So the bound of AtMostLimitPerWindow, Limit for every counter there is time
\* for in the window, holds on the way to the handlers of the limited
\* procedures.
THEOREM ServerKeepsLimit == ServerSpec => []AtMostLimitPerWindow
BY ServerUsesLimiter, WindowLimit, PTL

\* With a window of whole seconds, as the default is, or of less than one, no
\* window lets more requests of a key through than Limit.
THEOREM WholeSecondsKeepLimit ==
    ASSUME Window < Second \/ Window % Second = 0
    PROVE  ServerSpec => [](\A k \in Keys, b \in Buckets : Cardinality(Passed(k, b)) <= Limit)
<1>1. Limit * Lives = Limit
    BY WholeSeconds, LimiterAssumptions
<1>2. AtMostLimitPerWindow => \A k \in Keys, b \in Buckets : Cardinality(Passed(k, b)) <= Limit
    BY <1>1 DEF AtMostLimitPerWindow
<1> QED
    BY <1>2, ServerKeepsLimit, PTL

-----------------------------------------------------------------------------
(***************************************************************************)
(* Codes and statuses                                                      *)
(***************************************************************************)
Statuses == {0, 204} \cup {HTTPStatus(c) : c \in Codes}

\* The codes, one by one.
LEMMA CodeList ==
    Codes = {"none", "ok", "resource_exhausted", "internal", "panic", "invalid_argument",
             "unauthenticated", "permission_denied", "already_exists", "not_found",
             "failed_precondition", "unavailable"}
<1>1. DOMAIN Sentinels = 1..7
    BY DEF Sentinels
<1>2. {Sentinels[i][2] : i \in 1..7} =
         {"invalid_argument", "unauthenticated", "permission_denied", "already_exists",
          "not_found", "failed_precondition", "unavailable"}
    BY DEF Sentinels
<1> QED
    BY <1>1, <1>2 DEF Codes

\* Every error has a code of an error.
LEMMA ErrorCodes == ASSUME NEW err PROVE connectCode(err) \in Codes \ {"none", "ok", "panic"}
<1> DEFINE hits == {i \in DOMAIN Sentinels : Sentinels[i][1] \in err}
<1>1. DOMAIN Sentinels = 1..7
    BY DEF Sentinels
<1>2. CASE hits = {}
    BY <1>2, CodeList DEF connectCode
<1>3. CASE hits # {}
    <2>1. hits \subseteq 1..7
        BY <1>1
    <2>2. \E x \in hits : \A y \in hits : x <= y
        BY <1>3, <2>1
    <2>3. Min(hits) \in 1..7
        BY <2>1, <2>2 DEF Min
    <2>4. connectCode(err) = Sentinels[Min(hits)][2]
        BY <1>3 DEF connectCode
    <2>5. \A i \in 1..7 : Sentinels[i][2] \in Codes \ {"none", "ok", "panic"}
        BY CodeList DEF Sentinels
    <2> QED
        BY <2>3, <2>4, <2>5
<1> QED
    BY <1>2, <1>3

\* The statuses, one by one.
LEMMA StatusList ==
    /\ {200, 403, 404, 500, 503} \subseteq Statuses
    /\ \A c \in Codes : HTTPStatus(c) \in Statuses \ {0}
    /\ \A q, c : c \in Codes => ResponseStatus(q, c) \in Statuses \ {0}
<1>1. \A c \in Codes : HTTPStatus(c) \in Statuses
    BY DEF Statuses
<1>2. HTTPStatus("ok") = 200 /\ HTTPStatus("permission_denied") = 403
      /\ HTTPStatus("not_found") = 404 /\ HTTPStatus("panic") = 500
      /\ HTTPStatus("unavailable") = 503
    BY DEF HTTPStatus
<1>3. \A c \in Codes : HTTPStatus(c) # 0
    BY CodeList DEF HTTPStatus
<1>4. /\ {200, 403, 404, 500, 503} \subseteq Statuses
      /\ \A c \in Codes : HTTPStatus(c) \in Statuses \ {0}
    BY <1>1, <1>2, <1>3, CodeList
<1>5. \A q, c : c \in Codes => ResponseStatus(q, c) \in Statuses \ {0}
    BY <1>4 DEF ResponseStatus
<1> QED
    BY <1>4, <1>5

-----------------------------------------------------------------------------
(***************************************************************************)
(* The path of a request                                                   *)
(***************************************************************************)
\* The steps before anything was answered, logged or counted.
Early == {"idle", "ready", "scrape", "limit", "auth", "handle"}

FormInv ==
    /\ DOMAIN in = Requests /\ DOMAIN logged = Requests
    /\ at \in [Requests -> Steps]
    /\ code \in [Requests -> Codes]
    /\ status \in [Requests -> Statuses]
    /\ user \in [Requests -> Sessions \cup {Absent}]
    /\ ran \subseteq Requests

\* Where a request is tells how it has ended so far and what was logged of it.
\* The line of an RPC of q has its code c, and the status n is for that.
RPCLine(d, q, c, n) == d.entry.line = "rpc" /\ d.entry.code = c /\ n = ResponseStatus(q, c)

\* How far r has come: what was answered and logged at every step.
PathOf(r) ==
    /\ at[r] \in Early =>
          code[r] = "none" /\ status[r] = 0 /\ logged[r] = <<>> /\ r \notin ran
    /\ at[r] \in {"rpcCount", "rpcTimer"} =>
          code[r] \notin {"none", "panic"} /\ status[r] = 0 /\ logged[r] = <<>>
    /\ at[r] \in {"httpCount", "httpTimer"} =>
          /\ code[r] # "panic" /\ status[r] # 0
          /\ code[r] = "none" => logged[r] = <<>>
          /\ code[r] # "none" => \E d : logged[r] = <<d>> /\ RPCLine(d, in[r], code[r], status[r])
    /\ at[r] = "done" => status[r] # 0
    /\ at[r] = "done" =>
          \/ /\ code[r] = "panic" /\ status[r] = 500
             /\ \E e : logged[r] = <<e>> /\ e.entry.line = "panic"
          \/ /\ code[r] = "none"
             /\ \E e : logged[r] = <<e>> /\ e.entry.line = "http" /\ e.entry.status = status[r]
          \/ /\ code[r] \notin {"none", "panic"}
             /\ \E d, e : /\ logged[r] = <<d, e>>
                          /\ RPCLine(d, in[r], code[r], status[r])
                          /\ e.entry.line = "http" /\ e.entry.status = status[r]

\* What stands between a request and its handler.
ClearedOf(r) ==
    /\ at[r] \in {"limit", "auth", "handle"} \/ r \in ran => CORSAnswer(in[r]) = 0
    /\ at[r] = "limit" => in[r].route \in LimitedProcedures
    /\ at[r] = "auth" => in[r].route \in ProtectedProcedures
    /\ at[r] = "handle" \/ r \in ran =>
          /\ in[r].route \in LimitedProcedures => stage[r] = "allowed"
          /\ in[r].route \in ProtectedProcedures => user[r] = in[r].token /\ user[r] # Absent

ServerInv == /\ LimiterInv /\ ArrivedInv /\ FormInv
             /\ \A r \in Requests : PathOf(r) /\ ClearedOf(r)

\* A step of r leaves the others where they are.
Frame(r) == \A q \in Requests \ {r} :
               /\ in'[q] = in[q] /\ at'[q] = at[q] /\ code'[q] = code[q]
               /\ status'[q] = status[q] /\ user'[q] = user[q] /\ logged'[q] = logged[q]
               /\ q \in ran' <=> q \in ran
               /\ stage'[q] = stage[q]

\* A step of one request keeps what is known about the others.
LEMMA FrameKeeps ==
    ASSUME ServerInv, NEW r \in Requests, Frame(r), NEW q \in Requests \ {r}
    PROVE  PathOf(q)' /\ ClearedOf(q)'
<1>1. PathOf(q) /\ ClearedOf(q)
    BY DEF ServerInv
<1>2. PathOf(q)'
    BY <1>1 DEF Frame, PathOf
<1>3. ClearedOf(q)'
    BY <1>1 DEF Frame, ClearedOf
<1> QED
    BY <1>2, <1>3

\* A step that ends in an answer by itself, before any RPC.
LEMMA AnsweredEffect ==
    ASSUME FormInv, NEW r \in Requests, NEW n \in Statuses, n # 0, Answered(r, n),
           status[r] = 0
    PROVE  /\ at' = [at EXCEPT ![r] = "httpCount"]
           /\ status' = [status EXCEPT ![r] = n]
           /\ UNCHANGED code
BY DEF FormInv, Answered, WriteHeader, Go

\* A request that arrives is routed, refused or answered by CORS.
LEMMA ArriveStep ==
    ASSUME ServerInv, NEW r \in Requests, NEW q \in Arriving[r], Arrive(r, q)
    PROVE  FormInv' /\ Frame(r) /\ PathOf(r)' /\ ClearedOf(r)'
<1>1. /\ at[r] = "idle" /\ in' = [in EXCEPT ![r] = q]
      /\ UNCHANGED <<stage, user, ran, logged>>
    BY DEF Arrive, vars, req
<1>2. code[r] = "none" /\ status[r] = 0 /\ logged[r] = <<>> /\ r \notin ran
    BY <1>1 DEF ServerInv, PathOf, Early
<1>3. FormInv
    BY DEF ServerInv
<1>4. q.route \in {"/healthz", "/readyz", "/metrics", "/unmounted"}
                     \cup PublicProcedures \cup ProtectedProcedures
    BY ArrivingAssumption
<1>5. \/ \E n \in Statuses \ {0} : Answered(r, n)
      \/ /\ at' = [at EXCEPT ![r] = Route(q.route)] /\ UNCHANGED <<code, status>>
         /\ CORSAnswer(q) = 0 /\ q.route \notin {"/healthz", "/unmounted"}
    <2>1. CASE CORSAnswer(q) # 0
        <3>1. CORSAnswer(q) \in Statuses
            BY StatusList DEF CORSAnswer, Statuses
        <3> QED
            BY <2>1, <3>1 DEF Arrive
    <2>2. CASE CORSAnswer(q) = 0 /\ q.route = "/healthz"
        BY <2>2, StatusList DEF Arrive
    <2>3. CASE CORSAnswer(q) = 0 /\ q.route = "/unmounted"
        BY <2>3, StatusList DEF Arrive
    <2>4. CASE CORSAnswer(q) = 0 /\ q.route \notin {"/healthz", "/unmounted"}
        BY <2>4 DEF Arrive, Go
    <2> QED
        BY <2>1, <2>2, <2>3, <2>4
<1>6. CASE \E n \in Statuses \ {0} : Answered(r, n)
    <2>1. PICK n \in Statuses \ {0} : Answered(r, n)
        BY <1>6
    <2>2. /\ at' = [at EXCEPT ![r] = "httpCount"] /\ status' = [status EXCEPT ![r] = n]
          /\ UNCHANGED code
        BY <1>2, <1>3, <2>1, AnsweredEffect
    <2>3. FormInv' /\ Frame(r)
        BY <1>1, <1>3, <2>2 DEF FormInv, Frame, Steps
    <2>4. PathOf(r)'
        BY <1>1, <1>2, <1>3, <2>2 DEF FormInv, PathOf, Early
    <2>5. ClearedOf(r)'
        BY <1>1, <1>2, <1>3, <2>2 DEF FormInv, ClearedOf
    <2> QED
        BY <2>3, <2>4, <2>5
<1>7. CASE /\ at' = [at EXCEPT ![r] = Route(q.route)] /\ UNCHANGED <<code, status>>
           /\ CORSAnswer(q) = 0 /\ q.route \notin {"/healthz", "/unmounted"}
    <2>1. /\ Route(q.route) \in {"ready", "scrape", "limit", "auth", "handle"}
          /\ Route(q.route) = "limit" => q.route \in LimitedProcedures
          /\ Route(q.route) = "auth" => q.route \in ProtectedProcedures
          /\ Route(q.route) = "handle" => q.route = "Ping"
        BY <1>4, <1>7 DEF Route, LimitedProcedures, PublicProcedures, ProtectedProcedures
    <2>2. FormInv' /\ Frame(r)
        BY <1>1, <1>3, <1>7, <2>1 DEF FormInv, Frame, Steps
    <2>3. at'[r] = Route(q.route) /\ in'[r] = q
        BY <1>1, <1>3, <1>7 DEF FormInv
    <2>4. PathOf(r)'
        BY <1>1, <1>2, <1>7, <2>1, <2>3 DEF PathOf, Early
    <2>5. ClearedOf(r)'
        BY <1>1, <1>2, <1>7, <2>1, <2>3 DEF ClearedOf, LimitedProcedures, ProtectedProcedures
    <2> QED
        BY <2>2, <2>4, <2>5
<1> QED
    BY <1>5, <1>6, <1>7

\* The endpoints that are no RPCs.
LEMMA ProbeStep ==
    ASSUME ServerInv, NEW r \in Requests, Ready(r) \/ Scrape(r)
    PROVE  FormInv' /\ Frame(r) /\ PathOf(r)' /\ ClearedOf(r)'
<1>1. /\ at[r] \in {"ready", "scrape"}
      /\ Answered(r, 200) \/ Answered(r, 503)
      /\ UNCHANGED <<stage, in, user, ran, logged>>
    BY DEF Ready, Scrape, vars, req
<1>2. code[r] = "none" /\ status[r] = 0 /\ logged[r] = <<>> /\ r \notin ran
    BY <1>1 DEF ServerInv, PathOf, Early
<1>3. FormInv
    BY DEF ServerInv
<1>4. PICK n \in Statuses \ {0} : Answered(r, n)
    BY <1>1, StatusList
<1>5. /\ at' = [at EXCEPT ![r] = "httpCount"] /\ status' = [status EXCEPT ![r] = n]
      /\ UNCHANGED code
    BY <1>2, <1>3, <1>4, AnsweredEffect
<1>6. FormInv' /\ Frame(r)
    BY <1>1, <1>3, <1>5 DEF FormInv, Frame, Steps
<1>7. PathOf(r)'
    BY <1>1, <1>2, <1>3, <1>5 DEF FormInv, PathOf, Early
<1>8. ClearedOf(r)'
    BY <1>1, <1>2, <1>3, <1>5 DEF FormInv, ClearedOf
<1> QED
    BY <1>6, <1>7, <1>8

\* The limiter moves the request only by its verdict.
LEMMA AllowStep ==
    ASSUME ServerInv, NEW r \in Requests, Allow(r)
    PROVE  FormInv' /\ Frame(r) /\ PathOf(r)' /\ ClearedOf(r)'
<1>1. /\ at[r] = "limit" /\ AfterAllow(r, stage'[r])
      /\ UNCHANGED <<in, user, ran, logged>>
    BY DEF Allow
<1>2. code[r] = "none" /\ status[r] = 0 /\ logged[r] = <<>> /\ r \notin ran
    BY <1>1 DEF ServerInv, PathOf, Early
<1>3. FormInv /\ CORSAnswer(in[r]) = 0 /\ in[r].route \in LimitedProcedures
    BY <1>1 DEF ServerInv, ClearedOf
<1>4. \A q \in Requests \ {r} : stage'[q] = stage[q]
    <2>1. stage' = stage \/ \E s : stage' = [stage EXCEPT ![r] = s]
        BY DEF Allow, Begin, Incr, IncrResent, IncrFails, Expire, ExpireFails, Goto
    <2> QED
        BY <2>1 DEF ServerInv, LimiterInv, TypeOK
<1>5. \/ /\ at' = [at EXCEPT ![r] = "handle"] /\ stage'[r] = "allowed"
         /\ UNCHANGED <<code, status>>
      \/ /\ at' = [at EXCEPT ![r] = "rpcCount"] /\ UNCHANGED status
         /\ \E c \in Codes \ {"none", "panic"} : code' = [code EXCEPT ![r] = c]
      \/ UNCHANGED <<at, code, status>>
    <2>1. CASE stage'[r] = "allowed"
        BY <1>1, <2>1 DEF AfterAllow, Go
    <2>2. CASE stage'[r] = "exceeded"
        BY <1>1, <2>2, CodeList DEF AfterAllow, EndRPC, Go
    <2>3. CASE stage'[r] = "unavailable"
        BY <1>1, <2>3, CodeList DEF AfterAllow, EndRPC, Go
    <2>4. CASE stage'[r] \notin {"allowed", "exceeded", "unavailable"}
        BY <1>1, <2>4 DEF AfterAllow
    <2> QED
        BY <2>1, <2>2, <2>3, <2>4
<1>6. FormInv' /\ Frame(r)
    BY <1>1, <1>3, <1>4, <1>5 DEF FormInv, Frame, Steps
<1>7. PathOf(r)'
    BY <1>1, <1>2, <1>3, <1>5 DEF FormInv, PathOf, Early
<1>8. ClearedOf(r)'
    BY <1>1, <1>2, <1>3, <1>5 DEF FormInv, ClearedOf, LimitedProcedures, ProtectedProcedures
<1> QED
    BY <1>6, <1>7, <1>8

\* The auth interceptor lets a request through only with the user of its token.
LEMMA AuthenticateStep ==
    ASSUME ServerInv, NEW r \in Requests, Authenticate(r)
    PROVE  FormInv' /\ Frame(r) /\ PathOf(r)' /\ ClearedOf(r)'
<1>1. at[r] = "auth" /\ UNCHANGED <<stage, in, ran, logged>>
    BY DEF Authenticate, vars, req
<1>2. code[r] = "none" /\ status[r] = 0 /\ logged[r] = <<>> /\ r \notin ran
    BY <1>1 DEF ServerInv, PathOf, Early
<1>3. FormInv /\ CORSAnswer(in[r]) = 0 /\ in[r].route \in ProtectedProcedures
    BY <1>1 DEF ServerInv, ClearedOf
<1>4. in[r].token \in Sessions \cup {Absent}
    BY <1>1, ArrivingAssumption DEF ServerInv, ArrivedInv
<1>5. \/ /\ at' = [at EXCEPT ![r] = "handle"] /\ user' = [user EXCEPT ![r] = in[r].token]
         /\ in[r].token # Absent /\ UNCHANGED <<code, status>>
      \/ /\ at' = [at EXCEPT ![r] = "rpcCount"] /\ UNCHANGED <<status, user>>
         /\ \E c \in Codes \ {"none", "panic"} : code' = [code EXCEPT ![r] = c]
    BY ErrorCodes DEF Authenticate, EndRPC, Go
<1>6. FormInv' /\ Frame(r)
    BY <1>1, <1>3, <1>4, <1>5 DEF FormInv, Frame, Steps
<1>7. PathOf(r)'
    BY <1>1, <1>2, <1>3, <1>5 DEF FormInv, PathOf, Early
<1>8. ClearedOf(r)'
    BY <1>1, <1>2, <1>3, <1>5 DEF FormInv, ClearedOf, LimitedProcedures, ProtectedProcedures
<1> QED
    BY <1>6, <1>7, <1>8

\* A handler ends with one of its errors or none.
LEMMA HandleStep ==
    ASSUME ServerInv, NEW r \in Requests, Handle(r)
    PROVE  FormInv' /\ Frame(r) /\ PathOf(r)' /\ ClearedOf(r)'
<1>1. at[r] = "handle" /\ ran' = ran \cup {r} /\ UNCHANGED <<stage, in, user, logged>>
    BY DEF Handle, vars, req
<1>2. FormInv /\ status[r] = 0 /\ logged[r] = <<>> /\ ClearedOf(r)
    BY <1>1 DEF ServerInv, PathOf, Early
<1>3. /\ at' = [at EXCEPT ![r] = "rpcCount"] /\ UNCHANGED status
      /\ \E c \in Codes \ {"none", "panic"} : code' = [code EXCEPT ![r] = c]
    BY ErrorCodes, CodeList DEF Handle, EndRPC, Go
<1>4. FormInv' /\ Frame(r)
    BY <1>1, <1>2, <1>3 DEF FormInv, Frame, Steps
<1>5. PathOf(r)'
    BY <1>1, <1>2, <1>3 DEF FormInv, PathOf, Early
<1>6. ClearedOf(r)'
    BY <1>1, <1>2, <1>3 DEF FormInv, ClearedOf
<1> QED
    BY <1>4, <1>5, <1>6

\* A panic is answered and logged by RecoveryMiddleware.
LEMMA PanicStep ==
    ASSUME ServerInv, NEW r \in Requests, Panic(r)
    PROVE  FormInv' /\ Frame(r) /\ PathOf(r)' /\ ClearedOf(r)'
<1>1. at[r] = "handle" /\ ran' = ran \cup {r} /\ UNCHANGED <<stage, in, user>>
    BY DEF Panic, vars, req
<1>2. FormInv /\ status[r] = 0 /\ logged[r] = <<>> /\ ClearedOf(r)
    BY <1>1 DEF ServerInv, PathOf, Early
<1> DEFINE e == [id |-> normalizeRequestID(r), entry |-> [line |-> "panic"]]
<1>3. /\ at' = [at EXCEPT ![r] = "done"] /\ code' = [code EXCEPT ![r] = "panic"]
      /\ status' = [status EXCEPT ![r] = 500]
      /\ logged' = [logged EXCEPT ![r] = <<e>>]
    BY <1>2 DEF Panic, WriteHeader, Log, Go, FormInv
<1>4. e.entry.line = "panic"
    OBVIOUS
<1> HIDE DEF e
<1>5. FormInv' /\ Frame(r)
    BY <1>1, <1>2, <1>3, StatusList, CodeList DEF FormInv, Frame, Steps
<1>6. PathOf(r)'
    <2>1. at'[r] = "done" /\ code'[r] = "panic" /\ status'[r] = 500 /\ logged'[r] = <<e>>
        BY <1>2, <1>3 DEF FormInv
    <2> QED
        BY <1>4, <2>1 DEF PathOf, Early
<1>7. ClearedOf(r)'
    BY <1>1, <1>2, <1>3 DEF FormInv, ClearedOf
<1> QED
    BY <1>5, <1>6, <1>7

\* A request that is counted goes on to its timer.
LEMMA CountStep ==
    ASSUME ServerInv, NEW r \in Requests, RPCCount(r) \/ HTTPCount(r)
    PROVE  FormInv' /\ Frame(r) /\ PathOf(r)' /\ ClearedOf(r)'
<1>1. /\ \/ at[r] = "rpcCount" /\ at' = [at EXCEPT ![r] = "rpcTimer"]
         \/ at[r] = "httpCount" /\ at' = [at EXCEPT ![r] = "httpTimer"]
      /\ UNCHANGED <<stage, in, code, status, user, ran, logged>>
    BY DEF RPCCount, HTTPCount, Go, vars, req
<1>2. FormInv /\ PathOf(r) /\ ClearedOf(r)
    BY DEF ServerInv
<1>3. FormInv' /\ Frame(r)
    BY <1>1, <1>2 DEF FormInv, Frame, Steps
<1>4. PathOf(r)'
    BY <1>1, <1>2 DEF FormInv, PathOf, Early
<1>5. ClearedOf(r)'
    BY <1>1, <1>2 DEF FormInv, ClearedOf
<1> QED
    BY <1>3, <1>4, <1>5

\* The RPC is logged with the code that the status is for.
LEMMA RPCTimerStep ==
    ASSUME ServerInv, NEW r \in Requests, RPCTimer(r)
    PROVE  FormInv' /\ Frame(r) /\ PathOf(r)' /\ ClearedOf(r)'
<1>1. at[r] = "rpcTimer" /\ UNCHANGED <<stage, in, user, ran>>
    BY DEF RPCTimer, vars, req
<1>2. /\ FormInv /\ status[r] = 0 /\ logged[r] = <<>> /\ ClearedOf(r)
      /\ code[r] \in Codes \ {"none", "panic"}
    BY <1>1 DEF ServerInv, PathOf, FormInv
<1> DEFINE d == [id |-> normalizeRequestID(r), entry |-> [line |-> "rpc", code |-> code[r]]]
<1>3. RPCLine(d, in[r], code[r], ResponseStatus(in[r], code[r]))
    BY DEF RPCLine
<1>4. logged' = [logged EXCEPT ![r] = <<d>>]
    BY <1>2 DEF RPCTimer, Log, FormInv
<1>5. /\ at' = [at EXCEPT ![r] = "httpCount"] /\ UNCHANGED code
      /\ status' = [status EXCEPT ![r] = ResponseStatus(in[r], code[r])]
    BY <1>2, StatusList, AnsweredEffect DEF RPCTimer
<1>6. ResponseStatus(in[r], code[r]) \in Statuses \ {0}
    BY <1>2, StatusList
<1> HIDE DEF d
<1>7. FormInv' /\ Frame(r)
    BY <1>1, <1>2, <1>4, <1>5, <1>6 DEF FormInv, Frame, Steps
<1>8. PathOf(r)'
    <2>1. at'[r] = "httpCount" /\ status'[r] = ResponseStatus(in[r], code[r]) /\ logged'[r] = <<d>>
        BY <1>2, <1>4, <1>5 DEF FormInv
    <2> QED
        BY <1>1, <1>2, <1>3, <1>5, <1>6, <2>1 DEF PathOf, Early
<1>9. ClearedOf(r)'
    BY <1>1, <1>2, <1>5 DEF FormInv, ClearedOf
<1> QED
    BY <1>7, <1>8, <1>9

\* The first line of a log.
LEMMA AppendFirst == ASSUME NEW e PROVE Append(<<>>, e) = <<e>>
OBVIOUS

\* The second line of a log.
LEMMA AppendSecond == ASSUME NEW d, NEW e PROVE Append(<<d>>, e) = <<d, e>>
<1> DEFINE S == {d, e}
<1>1. <<d>> \in Seq(S) /\ <<d, e>> \in Seq(S) /\ e \in S /\ Len(<<d>>) = 1 /\ Len(<<d, e>>) = 2
    OBVIOUS
<1>2. Append(<<d>>, e) \in Seq(S) /\ Len(Append(<<d>>, e)) = 2
    BY <1>1, AppendProperties
<1>3. Append(<<d>>, e)[1] = d /\ Append(<<d>>, e)[2] = e
    BY <1>1, AppendProperties
<1>4. <<d, e>>[1] = d /\ <<d, e>>[2] = e
    OBVIOUS
<1> HIDE DEF S
<1>5. \A i \in 1..2 : Append(<<d>>, e)[i] = <<d, e>>[i]
    BY <1>3, <1>4
<1> QED
    BY <1>1, <1>2, <1>5, SeqEqual

\* The last step of a request writes the line with its status.
LEMMA HTTPTimerStep ==
    ASSUME ServerInv, NEW r \in Requests, HTTPTimer(r)
    PROVE  FormInv' /\ Frame(r) /\ PathOf(r)' /\ ClearedOf(r)'
<1> DEFINE e == [id |-> normalizeRequestID(r), entry |-> [line |-> "http", status |-> status[r]]]
<1>1. /\ at[r] = "httpTimer" /\ at' = [at EXCEPT ![r] = "done"]
      /\ UNCHANGED <<stage, in, code, status, user, ran>>
      /\ logged' = [logged EXCEPT ![r] = Append(@, e)]
    BY DEF HTTPTimer, Log, Go, vars, req
<1>2. /\ FormInv /\ code[r] # "panic" /\ status[r] # 0 /\ ClearedOf(r)
      /\ code[r] = "none" => logged[r] = <<>>
      /\ code[r] # "none" => \E d : logged[r] = <<d>> /\ RPCLine(d, in[r], code[r], status[r])
    BY <1>1 DEF ServerInv, PathOf
<1>3. e.entry.line = "http" /\ e.entry.status = status[r]
    OBVIOUS
<1> HIDE DEF e
<1>4. FormInv' /\ Frame(r)
    BY <1>1, <1>2 DEF FormInv, Frame, Steps
<1>5. PathOf(r)'
    <2>1. at'[r] = "done" /\ logged'[r] = Append(logged[r], e)
        BY <1>1, <1>2 DEF FormInv
    <2>2. CASE code[r] = "none"
        <3>1. logged'[r] = <<e>>
            BY <1>2, <2>1, <2>2, AppendFirst
        <3>2. \E x : logged'[r] = <<x>> /\ x.entry.line = "http" /\ x.entry.status = status[r]
            BY <1>3, <3>1
        <3> QED
            BY <1>1, <1>2, <2>1, <2>2, <3>2 DEF PathOf, Early
    <2>3. CASE code[r] # "none"
        <3>1. PICK d : logged[r] = <<d>> /\ RPCLine(d, in[r], code[r], status[r])
            BY <1>2, <2>3
        <3>2. logged'[r] = <<d, e>>
            BY <2>1, <3>1, AppendSecond
        <3>3. \E x, y : /\ logged'[r] = <<x, y>> /\ RPCLine(x, in[r], code[r], status[r])
                        /\ y.entry.line = "http" /\ y.entry.status = status[r]
            BY <1>3, <3>1, <3>2
        <3> QED
            BY <1>1, <1>2, <2>1, <2>3, <3>3 DEF PathOf, Early
    <2> QED
        BY <2>2, <2>3
<1>6. ClearedOf(r)'
    BY <1>1, <1>2 DEF FormInv, ClearedOf
<1> QED
    BY <1>4, <1>5, <1>6

\* No request is on its way at first.
LEMMA InitServer == ServerInit => ServerInv
<1> SUFFICES ASSUME ServerInit PROVE ServerInv
    OBVIOUS
<1>1. LimiterInv /\ ArrivedInv
    BY InitLimiter, InitArrived DEF ServerInit
<1>2. FormInv
    BY CodeList DEF ServerInit, FormInv, Steps, Statuses
<1>3. \A r \in Requests : PathOf(r)
    BY DEF ServerInit, PathOf, Early
<1>4. \A r \in Requests : ClearedOf(r)
    BY DEF ServerInit, ClearedOf
<1> QED
    BY <1>1, <1>2, <1>3, <1>4 DEF ServerInv

\* Every step of a request keeps what ServerInv says of it, and leaves the
\* others where they are.
LEMMA ServeStep ==
    ASSUME ServerInv, NEW r \in Requests, Serve(r)
    PROVE  FormInv' /\ Frame(r) /\ PathOf(r)' /\ ClearedOf(r)'
BY ArriveStep, ProbeStep, AllowStep, AuthenticateStep, HandleStep, PanicStep, CountStep,
   RPCTimerStep, HTTPTimerStep DEF Serve

\* Every step of the server keeps ServerInv.
LEMMA NextServer == ServerInv /\ [ServerNext]_<<vars, serverVars>> => ServerInv'
<1> SUFFICES ASSUME ServerInv, [ServerNext]_<<vars, serverVars>> PROVE ServerInv'
    OBVIOUS
<1>1. LimiterInv' /\ ArrivedInv'
    BY NextLimiter, ServerStepIsLimiterStep, StepArrived DEF ServerInv
<1>2. ASSUME NEW r \in Requests, Serve(r) PROVE ServerInv'
    <2>1. FormInv' /\ Frame(r) /\ PathOf(r)' /\ ClearedOf(r)'
        BY <1>2, ServeStep
    <2>2. \A q \in Requests : PathOf(q)' /\ ClearedOf(q)'
        BY <2>1, FrameKeeps
    <2> QED
        BY <1>1, <2>1, <2>2 DEF ServerInv
<1>3. CASE UNCHANGED <<serverVars, stage>>
    <2>1. UNCHANGED <<in, at, code, status, user, ran, logged, stage>>
        BY <1>3 DEF serverVars, progress
    <2>2. FormInv'
        BY <2>1 DEF ServerInv, FormInv
    <2>3. \A q \in Requests : PathOf(q)'
        BY <2>1 DEF ServerInv, PathOf
    <2>4. \A q \in Requests : ClearedOf(q)'
        BY <2>1 DEF ServerInv, ClearedOf
    <2> QED
        BY <1>1, <2>2, <2>3, <2>4 DEF ServerInv
<1>4. CASE Tick /\ UNCHANGED serverVars
    BY <1>3, <1>4 DEF Tick, req
<1>5. CASE UNCHANGED <<vars, serverVars>>
    BY <1>3, <1>5 DEF vars, req
<1> QED
    BY <1>2, <1>4, <1>5 DEF ServerNext

\* ServerInv is an invariant of the server.
LEMMA ServerInvariance == ServerSpec => []ServerInv
BY InitServer, NextServer, PTL DEF ServerSpec

\* CORS, the limiter and authentication stand before every handler: whatever
\* requests arrive and however they interleave and fail, none enters its
\* handler without the consent of those that apply to it.
THEOREM HandlersAreGuarded == ServerSpec => []OnlyClearedRun
<1>1. ServerInv => OnlyClearedRun
    BY DEF ServerInv, FormInv, ClearedOf, OnlyClearedRun, LimiterInv, WithinLimit
<1> QED
    BY <1>1, ServerInvariance, PTL

\* The log tells of every request that did not panic what its client was told,
\* in whichever protocol.
THEOREM LogIsTruthful == ServerSpec => []LogMatchesAnswer
<1>1. ServerInv => LogMatchesAnswer
    <2> SUFFICES ASSUME ServerInv, NEW r \in Requests, at[r] = "done", code[r] # "panic"
                 PROVE  LET last == logged[r][Len(logged[r])].entry
                            first == logged[r][1].entry
                        IN  /\ last.line = "http" /\ last.status = status[r] /\ status[r] # 0
                            /\ code[r] # "none" =>
                                  /\ first.line = "rpc"
                                  /\ first.code = code[r]
                                  /\ status[r] = ResponseStatus(in[r], first.code)
        BY DEF LogMatchesAnswer
    <2>1. PathOf(r)
        BY DEF ServerInv
    <2>2. status[r] # 0
        BY <2>1 DEF PathOf
    <2>3. CASE code[r] = "none"
        <3>1. PICK e : logged[r] = <<e>> /\ e.entry.line = "http" /\ e.entry.status = status[r]
            BY <2>1, <2>3 DEF PathOf
        <3> QED
            BY <2>2, <2>3, <3>1
    <2>4. CASE code[r] \notin {"none", "panic"}
        <3>1. PICK d, e : /\ logged[r] = <<d, e>> /\ RPCLine(d, in[r], code[r], status[r])
                          /\ e.entry.line = "http" /\ e.entry.status = status[r]
            BY <2>1, <2>4 DEF PathOf
        <3>2. Len(<<d, e>>) = 2 /\ <<d, e>>[1] = d /\ <<d, e>>[2] = e
            OBVIOUS
        <3> QED
            BY <2>2, <2>4, <3>1, <3>2 DEF RPCLine
    <2> QED
        BY <2>3, <2>4
<1> QED
    BY <1>1, ServerInvariance, PTL

-----------------------------------------------------------------------------
(***************************************************************************)
(* The metrics                                                             *)
(***************************************************************************)
\* The requests that were counted, and timed, under a label.
Recorded(label, rpcSteps, httpSteps) ==
    {r \in Requests :
       \/ label = RPCLabels(r) /\ code[r] \notin {"none", "panic"} /\ at[r] \in rpcSteps
       \/ label = HTTPLabels(r) /\ code[r] # "panic" /\ at[r] \in httpSteps}

InCounters(label) ==
    Recorded(label, {"rpcTimer", "httpCount", "httpTimer", "done"}, {"httpTimer", "done"})

InTimers(label) == Recorded(label, {"httpCount", "httpTimer", "done"}, {"done"})

\* The metrics are exactly the numbers of those requests.
MetricsInv ==
    /\ counters \in [DOMAIN counters -> Nat \ {0}]
    /\ timers \in [DOMAIN timers -> Nat \ {0}]
    /\ \A l : Count(counters, l) = Cardinality(InCounters(l))
    /\ \A l : Count(timers, l) = Cardinality(InTimers(l))

\* The labels of an RPC and those of an HTTP request have different names.
LEMMA LabelsDiffer == ASSUME NEW q, NEW r PROVE RPCLabels(q) # HTTPLabels(r)
<1>1. "procedure" \in DOMAIN RPCLabels(q) /\ "procedure" \notin DOMAIN HTTPLabels(r)
    BY DEF RPCLabels, HTTPLabels
<1> QED
    BY <1>1

\* Incrementing a label changes that label only.
LEMMA OneMoreCount ==
    ASSUME NEW m, m \in [DOMAIN m -> Nat \ {0}], NEW label
    PROVE  /\ OneMore(m, label) \in [DOMAIN OneMore(m, label) -> Nat \ {0}]
           /\ \A l : Count(OneMore(m, label), l) = Count(m, l) + IF l = label THEN 1 ELSE 0
<1>1. \A l : Count(m, l) \in Nat /\ (l \in DOMAIN m => Count(m, l) # 0)
    BY DEF Count
<1>2. DOMAIN OneMore(m, label) = DOMAIN m \cup {label}
    BY DEF OneMore
<1>3. \A l \in DOMAIN m \cup {label} :
         OneMore(m, label)[l] = Count(m, l) + IF l = label THEN 1 ELSE 0
    BY DEF OneMore
<1>4. \A l \in DOMAIN m \cup {label} : OneMore(m, label)[l] \in Nat \ {0}
    BY <1>1, <1>3
<1>5. OneMore(m, label) = [l \in DOMAIN m \cup {label} |-> OneMore(m, label)[l]]
    BY DEF OneMore
<1>6. OneMore(m, label) \in [DOMAIN OneMore(m, label) -> Nat \ {0}]
    BY <1>2, <1>4, <1>5
<1>7. ASSUME NEW l
      PROVE  Count(OneMore(m, label), l) = Count(m, l) + IF l = label THEN 1 ELSE 0
    <2>1. CASE l \in DOMAIN m \cup {label}
        BY <1>2, <1>3, <2>1 DEF Count
    <2>2. CASE l \notin DOMAIN m \cup {label}
        BY <1>2, <2>2 DEF Count
    <2> QED
        BY <2>1, <2>2
<1> QED
    BY <1>6, <1>7

\* One more request that is recorded under a label is one more in its cardinality.
LEMMA OneMoreRecorded ==
    ASSUME NEW S \in SUBSET Requests, NEW r \in Requests, r \notin S
    PROVE  Cardinality(S \cup {r}) = Cardinality(S) + 1
<1>1. IsFiniteSet(S)
    BY LimiterAssumptions, FS_Subset
<1> QED
    BY <1>1, FS_AddElement

\* What the others have recorded does not change.
LEMMA FrameRecorded ==
    ASSUME NEW r \in Requests, Frame(r), NEW l, NEW q \in Requests \ {r}
    PROVE  /\ q \in InCounters(l)' <=> q \in InCounters(l)
           /\ q \in InTimers(l)' <=> q \in InTimers(l)
<1>1. RPCLabels(q)' = RPCLabels(q) /\ HTTPLabels(q)' = HTTPLabels(q)
    BY DEF Frame, RPCLabels, HTTPLabels
<1>2. at'[q] = at[q] /\ code'[q] = code[q]
    BY DEF Frame
<1> QED
    BY <1>1, <1>2 DEF InCounters, InTimers, Recorded

\* A step before anything is recorded, or a panic.
LEMMA SilentStep ==
    ASSUME MetricsInv, NEW r \in Requests, Frame(r), UNCHANGED <<counters, timers>>,
           at[r] \in Early,
           \/ at'[r] \in Early \cup {"rpcCount"}
           \/ at'[r] = "httpCount" /\ code'[r] = "none"
           \/ code'[r] = "panic"
    PROVE  MetricsInv'
<1>1. ASSUME NEW l PROVE InCounters(l)' = InCounters(l) /\ InTimers(l)' = InTimers(l)
    <2>1. r \notin InCounters(l) /\ r \notin InTimers(l)
        BY DEF InCounters, InTimers, Recorded, Early
    <2>2. r \notin InCounters(l)' /\ r \notin InTimers(l)'
        BY DEF InCounters, InTimers, Recorded, Early
    <2>3. /\ InCounters(l) \subseteq Requests /\ InTimers(l) \subseteq Requests
          /\ InCounters(l)' \subseteq Requests /\ InTimers(l)' \subseteq Requests
        BY DEF InCounters, InTimers, Recorded
    <2> QED
        BY <2>1, <2>2, <2>3, FrameRecorded
<1> QED
    BY <1>1 DEF MetricsInv

\* One request more is counted under a label.
LEMMA CountedStep ==
    ASSUME MetricsInv, NEW r \in Requests, Frame(r), NEW label,
           counters' = OneMore(counters, label), UNCHANGED timers,
           \A l : /\ r \in InTimers(l)' <=> r \in InTimers(l)
                  /\ r \in InCounters(l)' <=> r \in InCounters(l) \/ l = label,
           r \notin InCounters(label)
    PROVE  MetricsInv'
<1>1. ASSUME NEW l
      PROVE  /\ InCounters(l)' = IF l = label THEN InCounters(l) \cup {r} ELSE InCounters(l)
             /\ InTimers(l)' = InTimers(l)
             /\ InCounters(l) \in SUBSET Requests
    <2>1. /\ InCounters(l) \subseteq Requests /\ InTimers(l) \subseteq Requests
          /\ InCounters(l)' \subseteq Requests /\ InTimers(l)' \subseteq Requests
        BY DEF InCounters, InTimers, Recorded
    <2> QED
        BY <2>1, FrameRecorded
<1>2. /\ OneMore(counters, label) \in [DOMAIN OneMore(counters, label) -> Nat \ {0}]
      /\ \A l : Count(counters', l) = Count(counters, l) + IF l = label THEN 1 ELSE 0
    BY OneMoreCount DEF MetricsInv
<1>3. ASSUME NEW l PROVE Count(counters', l) = Cardinality(InCounters(l)')
    <2>1. Count(counters, l) = Cardinality(InCounters(l))
        BY DEF MetricsInv
    <2>2. CASE l = label
        BY <1>1, <1>2, <2>1, <2>2, OneMoreRecorded
    <2>3. CASE l # label
        <3>1. Count(counters, l) \in Nat
            BY DEF MetricsInv, Count
        <3> QED
            BY <1>1, <1>2, <2>1, <2>3, <3>1
    <2> QED
        BY <2>2, <2>3
<1> QED
    BY <1>1, <1>2, <1>3 DEF MetricsInv

\* One request more is timed under a label.
LEMMA TimedStep ==
    ASSUME MetricsInv, NEW r \in Requests, Frame(r), NEW label,
           timers' = OneMore(timers, label), UNCHANGED counters,
           \A l : /\ r \in InCounters(l)' <=> r \in InCounters(l)
                  /\ r \in InTimers(l)' <=> r \in InTimers(l) \/ l = label,
           r \notin InTimers(label)
    PROVE  MetricsInv'
<1>1. ASSUME NEW l
      PROVE  /\ InTimers(l)' = IF l = label THEN InTimers(l) \cup {r} ELSE InTimers(l)
             /\ InCounters(l)' = InCounters(l)
             /\ InTimers(l) \in SUBSET Requests
    <2>1. /\ InCounters(l) \subseteq Requests /\ InTimers(l) \subseteq Requests
          /\ InCounters(l)' \subseteq Requests /\ InTimers(l)' \subseteq Requests
        BY DEF InCounters, InTimers, Recorded
    <2> QED
        BY <2>1, FrameRecorded
<1>2. /\ OneMore(timers, label) \in [DOMAIN OneMore(timers, label) -> Nat \ {0}]
      /\ \A l : Count(timers', l) = Count(timers, l) + IF l = label THEN 1 ELSE 0
    BY OneMoreCount DEF MetricsInv
<1>3. ASSUME NEW l PROVE Count(timers', l) = Cardinality(InTimers(l)')
    <2>1. Count(timers, l) = Cardinality(InTimers(l))
        BY DEF MetricsInv
    <2>2. CASE l = label
        BY <1>1, <1>2, <2>1, <2>2, OneMoreRecorded
    <2>3. CASE l # label
        <3>1. Count(timers, l) \in Nat
            BY DEF MetricsInv, Count
        <3> QED
            BY <1>1, <1>2, <2>1, <2>3, <3>1
    <2> QED
        BY <2>2, <2>3
<1> QED
    BY <1>1, <1>2, <1>3 DEF MetricsInv

\* A step before the counting records nothing, and nothing of its request was
\* recorded.
LEMMA EarlyStep ==
    ASSUME ServerInv, NEW r \in Requests,
           \/ \E q \in Arriving[r] : Arrive(r, q)
           \/ Ready(r) \/ Scrape(r) \/ Allow(r) \/ Authenticate(r) \/ Handle(r) \/ Panic(r)
    PROVE  /\ UNCHANGED <<counters, timers>> /\ at[r] \in Early
           /\ \/ at'[r] \in Early \cup {"rpcCount"}
              \/ at'[r] = "httpCount" /\ code'[r] = "none"
              \/ code'[r] = "panic"
<1>0. FormInv /\ FormInv'
    BY ServeStep DEF ServerInv, Serve
<1>1. UNCHANGED <<counters, timers>> /\ at[r] \in Early
    BY DEF Arrive, Ready, Scrape, Allow, Authenticate, Handle, Panic, metrics, Early
<1>2. code[r] = "none"
    BY <1>1 DEF ServerInv, PathOf
<1>3. ASSUME NEW n, Answered(r, n) PROVE at'[r] = "httpCount" /\ code'[r] = "none"
    BY <1>0, <1>2, <1>3 DEF Answered, Go, FormInv
<1>4. ASSUME NEW c, EndRPC(r, c) PROVE at'[r] = "rpcCount"
    BY <1>0, <1>4 DEF EndRPC, Go, FormInv
<1>5. ASSUME NEW s, Go(r, s) PROVE at'[r] = s
    BY <1>0, <1>5 DEF Go, FormInv
<1>6. ASSUME NEW q \in Arriving[r], Arrive(r, q)
      PROVE  at'[r] \in Early \/ (at'[r] = "httpCount" /\ code'[r] = "none")
    <2>1. CASE CORSAnswer(q) # 0
        BY <1>3, <1>6, <2>1 DEF Arrive
    <2>2. CASE CORSAnswer(q) = 0 /\ q.route = "/healthz"
        BY <1>3, <1>6, <2>2 DEF Arrive
    <2>3. CASE CORSAnswer(q) = 0 /\ q.route = "/unmounted"
        BY <1>3, <1>6, <2>3 DEF Arrive
    <2>4. CASE CORSAnswer(q) = 0 /\ q.route \notin {"/healthz", "/unmounted"}
        <3>1. at'[r] = Route(q.route)
            BY <1>5, <1>6, <2>4 DEF Arrive
        <3>2. q.route \in {"/healthz", "/readyz", "/metrics", "/unmounted"}
                            \cup PublicProcedures \cup ProtectedProcedures
            BY ArrivingAssumption
        <3>3. Route(q.route) \in Early
            BY <2>4, <3>2 DEF Route, Early, LimitedProcedures, PublicProcedures, ProtectedProcedures
        <3> QED
            BY <3>1, <3>3
    <2> QED
        BY <2>1, <2>2, <2>3, <2>4
<1>7. ASSUME Allow(r) PROVE at'[r] \in Early \cup {"rpcCount"}
    <2>1. AfterAllow(r, stage'[r]) /\ at[r] = "limit"
        BY <1>7 DEF Allow
    <2>2. CASE stage'[r] = "allowed"
        BY <1>5, <2>1, <2>2 DEF AfterAllow, Early
    <2>3. CASE stage'[r] = "exceeded"
        BY <1>4, <2>1, <2>3 DEF AfterAllow
    <2>4. CASE stage'[r] = "unavailable"
        BY <1>4, <2>1, <2>4 DEF AfterAllow
    <2>5. CASE stage'[r] \notin {"allowed", "exceeded", "unavailable"}
        BY <2>1, <2>5 DEF AfterAllow, Early
    <2> QED
        BY <2>2, <2>3, <2>4, <2>5
<1>8. ASSUME Panic(r) PROVE code'[r] = "panic"
    BY <1>0, <1>8 DEF Panic, FormInv
<1>9. ASSUME Authenticate(r) \/ Handle(r) PROVE at'[r] \in Early \cup {"rpcCount"}
    BY <1>4, <1>5, <1>9 DEF Authenticate, Handle, Early
<1>10. ASSUME Ready(r) \/ Scrape(r) PROVE at'[r] = "httpCount" /\ code'[r] = "none"
    BY <1>3, <1>10 DEF Ready, Scrape
<1> QED
    BY <1>1, <1>6, <1>7, <1>8, <1>9, <1>10

\* A step that records one request under one label keeps MetricsInv.
LEMMA RecordStep ==
    ASSUME ServerInv, MetricsInv, NEW r \in Requests, Frame(r),
           RPCCount(r) \/ RPCTimer(r) \/ HTTPCount(r) \/ HTTPTimer(r)
    PROVE  MetricsInv'
<1>0. FormInv /\ PathOf(r)
    BY DEF ServerInv
<1>1. UNCHANGED <<in, code>> /\ RPCLabels(r)' = RPCLabels(r)
    BY DEF RPCCount, RPCTimer, HTTPCount, HTTPTimer, Answered, RPCLabels
<1>2. \A l : l = RPCLabels(r) => l # HTTPLabels(r) /\ l # HTTPLabels(r)'
    <2>1. RPCLabels(r)' # HTTPLabels(r)'
        <3>1. "procedure" \in DOMAIN RPCLabels(r)' /\ "procedure" \notin DOMAIN HTTPLabels(r)'
            BY DEF RPCLabels, HTTPLabels
        <3> QED
            BY <3>1
    <2> QED
        BY <1>1, <2>1, LabelsDiffer
<1>3. CASE RPCCount(r)
    <2>1. /\ at[r] = "rpcCount" /\ at'[r] = "rpcTimer" /\ code[r] \notin {"none", "panic"}
          /\ counters' = OneMore(counters, RPCLabels(r)) /\ UNCHANGED timers
        BY <1>0, <1>3 DEF RPCCount, Inc, Go, FormInv, PathOf
    <2> QED
        BY <1>1, <2>1, CountedStep DEF InCounters, InTimers, Recorded
<1>4. CASE RPCTimer(r)
    <2>1. /\ at[r] = "rpcTimer" /\ at'[r] = "httpCount" /\ code[r] \notin {"none", "panic"}
          /\ timers' = OneMore(timers, RPCLabels(r)) /\ UNCHANGED counters
        BY <1>0, <1>4 DEF RPCTimer, ObserveDuration, Answered, Go, FormInv, PathOf
    <2> QED
        BY <1>1, <2>1, TimedStep DEF InCounters, InTimers, Recorded
<1>5. CASE HTTPCount(r)
    <2>1. /\ at[r] = "httpCount" /\ at'[r] = "httpTimer" /\ code[r] # "panic"
          /\ counters' = OneMore(counters, HTTPLabels(r)) /\ UNCHANGED timers
          /\ HTTPLabels(r)' = HTTPLabels(r)
        BY <1>0, <1>5 DEF HTTPCount, Inc, Go, FormInv, PathOf, HTTPLabels
    <2> QED
        BY <1>1, <1>2, <2>1, CountedStep DEF InCounters, InTimers, Recorded
<1>6. CASE HTTPTimer(r)
    <2>1. /\ at[r] = "httpTimer" /\ at'[r] = "done" /\ code[r] # "panic"
          /\ timers' = OneMore(timers, HTTPLabels(r)) /\ UNCHANGED counters
          /\ HTTPLabels(r)' = HTTPLabels(r)
        BY <1>0, <1>6 DEF HTTPTimer, ObserveDuration, Go, FormInv, PathOf, HTTPLabels
    <2> QED
        BY <1>1, <1>2, <2>1, TimedStep DEF InCounters, InTimers, Recorded
<1> QED
    BY <1>3, <1>4, <1>5, <1>6

\* Every step keeps the metrics exact.
LEMMA NextMetrics ==
    ServerInv /\ MetricsInv /\ [ServerNext]_<<vars, serverVars>> => MetricsInv'
<1> SUFFICES ASSUME ServerInv, MetricsInv, [ServerNext]_<<vars, serverVars>> PROVE MetricsInv'
    OBVIOUS
<1>1. ASSUME NEW r \in Requests, Serve(r) PROVE MetricsInv'
    <2>1. Frame(r)
        BY <1>1, ServeStep
    <2>2. CASE RPCCount(r) \/ RPCTimer(r) \/ HTTPCount(r) \/ HTTPTimer(r)
        BY <2>1, <2>2, RecordStep
    <2>3. CASE ~ (RPCCount(r) \/ RPCTimer(r) \/ HTTPCount(r) \/ HTTPTimer(r))
        <3>1. /\ UNCHANGED <<counters, timers>> /\ at[r] \in Early
              /\ \/ at'[r] \in Early \cup {"rpcCount"}
                 \/ at'[r] = "httpCount" /\ code'[r] = "none"
                 \/ code'[r] = "panic"
            BY <1>1, <2>3, EarlyStep DEF Serve
        <3> QED
            BY <2>1, <3>1, SilentStep
    <2> QED
        BY <2>2, <2>3
<1>2. CASE UNCHANGED serverVars
    BY <1>2 DEF serverVars, progress, metrics, MetricsInv, InCounters, InTimers, Recorded,
                RPCLabels, HTTPLabels
<1> QED
    BY <1>1, <1>2 DEF ServerNext

\* ServerInv and MetricsInv are invariants of the server.
LEMMA MetricsInvariance == ServerSpec => [](ServerInv /\ MetricsInv)
<1>1. ServerInit => MetricsInv
    <2> SUFFICES ASSUME ServerInit PROVE MetricsInv
        OBVIOUS
    <2>1. counters = <<>> /\ timers = <<>> /\ \A r \in Requests : at[r] = "idle"
        BY DEF ServerInit
    <2>2. \A l : InCounters(l) = {} /\ InTimers(l) = {}
        BY <2>1 DEF InCounters, InTimers, Recorded
    <2>3. \A l : Count(<<>>, l) = 0
        BY DEF Count
    <2>4. <<>> \in [DOMAIN <<>> -> Nat \ {0}]
        OBVIOUS
    <2> QED
        BY <2>1, <2>2, <2>3, <2>4, FS_EmptySet DEF MetricsInv
<1> QED
    BY <1>1, InitServer, NextServer, NextMetrics, PTL DEF ServerSpec

\* The metrics, scraped at any moment, agree with what the clients were told
\* whose requests did not panic, for any number of concurrent requests and
\* errors.  A request that panicked is answered 500 and counted nowhere.
THEOREM MetricsAreTruthful == ServerSpec => []MetricsMatchAnswers
<1>1. ServerInv /\ MetricsInv => MetricsMatchAnswers
    <2> SUFFICES ASSUME ServerInv, MetricsInv, NEW label
                 PROVE  /\ Count(timers, label) <= Count(counters, label)
                        /\ Cardinality(Over(label)) <= Count(timers, label)
                        /\ Count(counters, label) <= Cardinality(Over(label) \cup OnTheWay(label))
        BY DEF MetricsMatchAnswers
    <2>1. /\ Count(counters, label) = Cardinality(InCounters(label))
          /\ Count(timers, label) = Cardinality(InTimers(label))
        BY DEF MetricsInv
    <2>2. /\ InTimers(label) \subseteq InCounters(label)
          /\ InCounters(label) \subseteq Requests
        BY DEF InTimers, InCounters, Recorded
    <2>3. InCounters(label) \subseteq Over(label) \cup OnTheWay(label)
        BY DEF InCounters, Recorded, Over, OnTheWay, Labelled, LabelsOf, Steps
    <2>4. Over(label) \cup OnTheWay(label) \subseteq Requests
        BY DEF Over, OnTheWay, Labelled
    <2>5. Over(label) \subseteq InTimers(label)
        BY DEF Over, Labelled, LabelsOf, InTimers, Recorded
    <2>6. IsFiniteSet(Requests)
        BY LimiterAssumptions
    <2>7. IsFiniteSet(InCounters(label)) /\ IsFiniteSet(InTimers(label))
          /\ IsFiniteSet(Over(label) \cup OnTheWay(label))
        BY <2>2, <2>4, <2>6, FS_Subset
    <2> QED
        BY <2>1, <2>2, <2>3, <2>5, <2>7, FS_Subset
<1> QED
    BY <1>1, MetricsInvariance, PTL

\* Every reachable state of the API server is well typed: in particular every
\* answer has a status and every error a code that the protocol knows.
THEOREM PipelineTypes == ServerSpec => []PipelineTypeOK
<1>1. ServerInv /\ MetricsInv => PipelineTypeOK
    <2> SUFFICES ASSUME ServerInv, MetricsInv PROVE PipelineTypeOK
        OBVIOUS
    <2>1. \A r \in Requests : Len(logged[r]) <= 2
        <3> SUFFICES ASSUME NEW r \in Requests PROVE Len(logged[r]) <= 2
            OBVIOUS
        <3>1. PathOf(r) /\ at[r] \in Steps
            BY DEF ServerInv, FormInv
        <3>2. logged[r] = <<>> \/ (\E d : logged[r] = <<d>>) \/ (\E d, e : logged[r] = <<d, e>>)
            BY <3>1 DEF PathOf, Steps, Early
        <3>3. CASE logged[r] = <<>>
            BY <3>3
        <3>5. CASE \E d : logged[r] = <<d>>
            BY <3>5
        <3>4. CASE \E d, e : logged[r] = <<d, e>>
            BY <3>4
        <3> QED
            BY <3>2, <3>3, <3>4, <3>5
    <2>2. \A r \in Requests : in[r] \in Arriving[r] \cup {Absent}
        BY DEF ServerInv, ArrivedInv
    <2> QED
        BY <2>1, <2>2 DEF ServerInv, LimiterInv, FormInv, MetricsInv, PipelineTypeOK, Statuses
<1> QED
    BY <1>1, MetricsInvariance, PTL
==============================================================================
