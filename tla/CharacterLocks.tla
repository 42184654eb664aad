--------------------------- MODULE CharacterLocks ---------------------------
(***************************************************************************)
(* The character-lock store of internal/store/redis/character_locks.go:    *)
(* one Redis string per character that names the game server owning the    *)
(* character, with an expiry.  The operators of this module are the        *)
(* commands the store sends; each is one atomic step of Redis.  The        *)
(* modules that EXTEND it decide who calls them and what a caller learns.  *)
(*                                                                         *)
(* Time is not a clock: a key carries the time it still has to live, in    *)
(* units of the model's Tick, and AgeLocks lets one unit pass.             *)
(***************************************************************************)
EXTENDS Domain

CONSTANTS
    NoServer,       \* the owner of a character nobody has locked
    LockTTL         \* the store's default time to live of a lock

ASSUME LockAssumptions == /\ NoServer \notin Servers
                          /\ LockTTL \in Nat \ {0}

VARIABLE lock       \* lock[c]: the value and the remaining TTL of c's key

-----------------------------------------------------------------------------
Free == [owner |-> NoServer, ttl |-> 0]

\* Every lock expires: none is held with ttl 0, which SETNX takes for no expiry.
LockRecords == {Free} \cup [owner : Servers, ttl : Nat \ {0}]

LocksTypeOK == lock \in [Characters -> LockRecords]

LocksInit == lock = [c \in Characters |-> Free]

-----------------------------------------------------------------------------
\* Mutant: the lock is set without an expiry.
effectiveTTL_None(requested) == 0

\* Mutant: a negative request reaches Redis.
effectiveTTL_Raw(requested) == requested

\* The requested TTL, or the store's default.
effectiveTTL(requested) == IF requested <= 0 THEN LockTTL ELSE requested

SetLock(c, s, requested) ==
    lock' = [lock EXCEPT ![c] = [owner |-> s, ttl |-> effectiveTTL(requested)]]

\* Mutant: the owner may take its own lock again.
AcquireCharacterLock_Reentrant(c, s, requested) ==
    /\ lock[c].owner \in {NoServer, s}
    /\ SetLock(c, s, requested)

\* SETNX by s on the key of c, when it sets the key and when it does not.
\* A lock the caller itself holds refuses the caller too.
AcquireCharacterLock(c, s, requested) ==
    /\ lock[c] = Free
    /\ SetLock(c, s, requested)

AcquireRefused(c) ==
    /\ lock[c] # Free
    /\ UNCHANGED lock

\* Mutant: PEXPIRE without the comparison of owners.
RenewCharacterLock_Any(c, s, requested) ==
    /\ lock[c] # Free
    /\ lock' = [lock EXCEPT ![c].ttl = effectiveTTL(requested)]

\* The renew script: PEXPIRE if the caller is still the owner.
RenewCharacterLock(c, s, requested) ==
    /\ lock[c].owner = s
    /\ SetLock(c, s, requested)

RenewRefused(c, s) ==
    /\ lock[c].owner # s
    /\ UNCHANGED lock

\* Mutant: a plain DEL.
ReleaseCharacterLock_Any(c, s) == lock' = [lock EXCEPT ![c] = Free]

\* The release script: DEL if the caller is still the owner, else nothing.
ReleaseCharacterLock(c, s) ==
    lock' = IF lock[c].owner = s THEN [lock EXCEPT ![c] = Free] ELSE lock

\* Redis lets one unit of time pass and drops the keys whose time is over.
AgeLocks ==
    lock' = [c \in Characters |->
               CASE lock[c].ttl = 0 -> lock[c]
                 [] lock[c].ttl = 1 -> Free
                 [] OTHER           -> [lock[c] EXCEPT !.ttl = @ - 1]]
=============================================================================
