---------------------------- MODULE RateLimiter ----------------------------
(***************************************************************************)
(* The fixed-window limiter of the public RPCs: the interceptor of         *)
(* api/ratelimit.go and RateLimiter.Allow of store/redis/rate_limit.go.    *)
(*                                                                         *)
(* A request reads the clock to name its counter, increments the counter   *)
(* and, if it is the first one to do so, gives it an expiry.  These are    *)
(* three steps: other requests, time and failures come between them.  The  *)
(* Redis client sends a command again when the reply is lost, so that one  *)
(* request may increment more than once.                                   *)
(***************************************************************************)
EXTENDS Integers, FiniteSetsExt

CONSTANTS
    Clients,        \* procedure and caller, as KeyFunc finds them
    Keys,           \* the keys they are sanitised to
    KeyOf,          \* KeyOf[c]: the key of c; two clients may have the same
    Requests,       \* one call of a limited procedure each
    Window,         \* length of the window, in units of time
    Second,         \* length of a second, in the same units
    Limit,          \* requests let through per window
    MaxRetries,     \* how often the client resends a command
    MaxBucket       \* bound: windows 0..MaxBucket

ASSUME LimiterAssumptions == /\ Clients # {}
                             /\ KeyOf \in [Clients -> Keys]
                             /\ IsFiniteSet(Requests)
                             /\ Window \in Nat \ {0}
                             /\ Second \in Nat \ {0}
                             /\ Limit \in Nat \ {0}
                             /\ MaxRetries \in Nat
                             /\ MaxBucket \in Nat

VARIABLES
    bucket,         \* the current window: the time divided by Window
    left,           \* time left until the next window
    count,          \* count[k][b]: the counter, 0 if there is none
    ttl,            \* ttl[k][b]: what it has to live, 0 for no expiry
    stage,          \* stage[r]: the next step of r, or how it ended
    key,            \* key[r] and win[r]: the counter r names when it begins
    win,
    got,            \* got[r]: the count INCR returned
    tries,          \* tries[r]: how often INCR was resent
    start,          \* history: start[k][b]: left, when the counter came to be
    born            \* history: born[r]: start of the counter that r reached
                    \* within the window it read, 0 if it came too late

store == <<count, ttl, start>>
clock == <<bucket, left>>
req == <<stage, key, win, got, tries, born>>
vars == <<clock, store, req>>

Buckets == 0..MaxBucket
Stages == {"new", "incr", "expire", "allowed", "exceeded", "unavailable"}

\* The Redis client sends EXPIRE in whole seconds, and one at least.
formatSec(d) == IF d < Second THEN 1 ELSE d \div Second

\* What a counter gets to live.
Lifetime == formatSec(Window) * Second

TypeOK ==
    /\ bucket \in Buckets
    /\ left \in 1..Window
    /\ count \in [Keys -> [Buckets -> Nat]]
    /\ ttl \in [Keys -> [Buckets -> 0..Lifetime]]
    /\ stage \in [Requests -> Stages]
    /\ key \in [Requests -> Keys]
    /\ win \in [Requests -> Buckets]
    /\ got \in [Requests -> Nat]
    /\ tries \in [Requests -> 0..MaxRetries]
    /\ start \in [Keys -> [Buckets -> 0..Window]]
    /\ born \in [Requests -> 0..Window]

Init ==
    /\ bucket = 0
    /\ left = Window
    /\ count = [k \in Keys |-> [b \in Buckets |-> 0]]
    /\ ttl = [k \in Keys |-> [b \in Buckets |-> 0]]
    /\ stage = [r \in Requests |-> "new"]
    /\ key = [r \in Requests |-> KeyOf[CHOOSE c \in Clients : TRUE]]
    /\ win = [r \in Requests |-> 0]
    /\ got = [r \in Requests |-> 0]
    /\ tries = [r \in Requests |-> 0]
    /\ start = [k \in Keys |-> [b \in Buckets |-> 0]]
    /\ born = [r \in Requests |-> 0]

-----------------------------------------------------------------------------
Goto(r, s) == stage' = [stage EXCEPT ![r] = s]

\* Mutant: the window is missing from the name of the counter.
redisKey_NoWindow(b) == 0

\* The counter of window b has a name of its own.
redisKey(b) == b

\* INCR makes a counter that is not there, and that is when it starts.
Increment(r) ==
    /\ count' = [count EXCEPT ![key[r]][redisKey(win[r])] = @ + 1]
    /\ start' = [start EXCEPT ![key[r]][win[r]] =
                    IF win[r] = bucket /\ count[key[r]][redisKey(win[r])] = 0 THEN left ELSE @]

\* The answer of Allow, as the interceptor passes it on.
Verdict(n) == IF n <= Limit THEN "allowed" ELSE "exceeded"

\* Lower case, and one character for every separator: callers may collide.
sanitizeRateLimitKey(c) == KeyOf[c]

\* The counter is named after the client and the window it is.
Begin(r, c) ==
    /\ stage[r] = "new"
    /\ key' = [key EXCEPT ![r] = sanitizeRateLimitKey(c)]
    /\ win' = [win EXCEPT ![r] = bucket]
    /\ Goto(r, "incr")
    /\ UNCHANGED <<clock, store, got, tries, born>>

\* INCR.  The one that finds no counter goes on to give it an expiry.
Incr(r) ==
    /\ stage[r] = "incr"
    /\ Increment(r)
    /\ LET n == count[key[r]][redisKey(win[r])] + 1
       IN  /\ got' = [got EXCEPT ![r] = n]
           /\ Goto(r, IF n = 1 THEN "expire" ELSE Verdict(n))
    /\ born' = [born EXCEPT ![r] = IF win[r] = bucket THEN start'[key[r]][win[r]] ELSE 0]
    /\ UNCHANGED <<clock, ttl, key, win, tries>>

\* INCR is carried out, its reply is lost, and the client sends it again.
IncrResent(r) ==
    /\ stage[r] = "incr"
    /\ tries[r] < MaxRetries
    /\ Increment(r)
    /\ tries' = [tries EXCEPT ![r] = @ + 1]
    /\ UNCHANGED <<clock, ttl, stage, key, win, got, born>>

\* INCR fails, carried out or not, and with it the request.
IncrFails(r) ==
    /\ stage[r] = "incr"
    /\ Increment(r) \/ UNCHANGED <<count, start>>
    /\ Goto(r, "unavailable")
    /\ UNCHANGED <<clock, ttl, key, win, got, tries, born>>

\* Mutant: the window is given in the wrong unit of time.
SetExpiry_Unit(r) == ttl' = [ttl EXCEPT ![key[r]][win[r]] = 1]

\* EXPIRE changes nothing if the counter is gone.
SetExpiry(r) == ttl' = [ttl EXCEPT ![key[r]][redisKey(win[r])] =
                           IF count[key[r]][redisKey(win[r])] = 0 THEN 0 ELSE Lifetime]

\* EXPIRE, from the first request of a counter only.
Expire(r) ==
    /\ stage[r] = "expire"
    /\ SetExpiry(r)
    /\ Goto(r, Verdict(got[r]))
    /\ UNCHANGED <<clock, count, start, key, win, got, tries, born>>

\* EXPIRE fails, carried out or not, and with it the request.
ExpireFails(r) ==
    /\ stage[r] = "expire"
    /\ SetExpiry(r) \/ UNCHANGED ttl
    /\ Goto(r, "unavailable")
    /\ UNCHANGED <<clock, count, start, key, win, got, tries, born>>

-----------------------------------------------------------------------------
\* Counters whose time is over are gone.
AgeCounters ==
    /\ count' = [k \in Keys |-> [b \in Buckets |-> IF ttl[k][b] = 1 THEN 0 ELSE count[k][b]]]
    /\ ttl' = [k \in Keys |-> [b \in Buckets |-> IF ttl[k][b] = 0 THEN 0 ELSE ttl[k][b] - 1]]
    /\ UNCHANGED start

\* A unit of time passes, possibly into the next window.
Tick ==
    /\ AgeCounters
    /\ \/ left > 1 /\ left' = left - 1 /\ UNCHANGED bucket
       \/ left = 1 /\ bucket < MaxBucket /\ left' = Window /\ bucket' = bucket + 1
    /\ UNCHANGED req

Next ==
    \/ \E r \in Requests :
          \/ \E c \in Clients : Begin(r, c)
          \/ Incr(r)
          \/ IncrResent(r)
          \/ IncrFails(r)
          \/ Expire(r)
          \/ ExpireFails(r)
    \/ Tick

Spec == Init /\ [][Next]_vars

-----------------------------------------------------------------------------
(***************************************************************************)
(* Properties                                                              *)
(***************************************************************************)
\* The requests of window b that were let through and came within it.
Passed(k, b) == {r \in Requests : /\ stage[r] = "allowed"
                                  /\ born[r] # 0
                                  /\ key[r] = k
                                  /\ win[r] = b}

\* A counter that lives as long as the window is the only one of it.  A
\* window that is more than a second and not a number of seconds may see two.
Lives == IF Lifetime >= Window THEN 1 ELSE 2

\* A window lets through no more requests of a key than the limit, however
\* the commands of concurrent requests interleave, fail or are sent again,
\* unless the seconds that EXPIRE is sent in cut the life of the counter
\* short of the window: then one more counter of the window may let through
\* as many, once the first has had its time.
AtMostLimitPerWindow ==
    \A k \in Keys, b \in Buckets :
       /\ Cardinality(Passed(k, b)) <= Limit * Lives
       /\ \A r \in Passed(k, b) :
             /\ Cardinality({q \in Passed(k, b) : born[q] = born[r]}) <= Limit
             /\ \A q \in Passed(k, b) : born[q] < born[r] => born[r] - born[q] >= Lifetime

\* The times INCR was sent for a counter: the i-th one of every request that
\* names it.
Sends(k, b) ==
    LET Naming == {q \in Requests : stage[q] # "new" /\ key[q] = k /\ win[q] = b}
        Sent(q) == tries[q] + IF stage[q] = "incr" THEN 0 ELSE 1
    IN  {s \in Naming \X (1..MaxRetries + 1) : s[2] <= Sent(s[1])}

\* A request is refused only if more than the limit were sent for its key in
\* its own window.  A counter of an earlier window refuses nobody, not even
\* one whose EXPIRE failed, so that it has no expiry and stays.
RefusedOnlyWhenFull == \A r \in Requests :
    stage[r] = "exceeded" => Cardinality(Sends(key[r], win[r])) > Limit

=============================================================================
