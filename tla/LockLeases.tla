----------------------------- MODULE LockLeases -----------------------------
(***************************************************************************)
(* The contract of the character-lock store towards a game server that     *)
(* would use all of it: acquire, renew at intervals, release, look up the  *)
(* owner.  The game server of this repository never renews (JoinHandoff    *)
(* shows what follows); this module shows that the store itself is a sound *)
(* lease, so that a heartbeat that renewed would be enough.                *)
(*                                                                         *)
(* lease[s][c] is the time for which s, counting from the last reply that  *)
(* said yes, may act on c.  A caller that gets an error, or a no, stops    *)
(* relying on the lock, although the command may have been executed.  A    *)
(* caller may die at any moment; nobody releases its locks.                *)
(***************************************************************************)
EXTENDS CharacterLocks

CONSTANT Requested  \* the TTLs callers ask for; 0 or less stands for the default

ASSUME RequestedAssumption == Requested \subseteq Int

VARIABLES
    lease,
    dead            \* the servers that crashed

leaseVars == <<lock, lease, dead>>

-----------------------------------------------------------------------------
LeaseTypeOK == /\ LocksTypeOK
               /\ lease \in [Servers -> [Characters -> Nat]]
               /\ dead \subseteq Servers

LeaseInit == /\ LocksInit
             /\ lease = [s \in Servers |-> [c \in Characters |-> 0]]
             /\ dead = {}

SetLease(s, c, ttl) == lease' = [lease EXCEPT ![s][c] = ttl]

Acquire(s, c, r) ==
    \/ AcquireCharacterLock(c, s, r) /\ SetLease(s, c, effectiveTTL(r))
    \/ AcquireRefused(c) /\ UNCHANGED lease
    \/ AcquireCharacterLock(c, s, r) /\ UNCHANGED lease      \* the reply is lost

Renew(s, c, r) ==
    \/ RenewCharacterLock(c, s, r) /\ SetLease(s, c, effectiveTTL(r))
    \/ RenewRefused(c, s) /\ SetLease(s, c, 0)
    \/ RenewCharacterLock(c, s, r) /\ SetLease(s, c, 0)      \* the reply is lost

Release(s, c) ==
    /\ ReleaseCharacterLock(c, s) \/ UNCHANGED lock
    /\ SetLease(s, c, 0)

LeaseCrash(s) ==
    /\ dead' = dead \cup {s}
    /\ lease' = [lease EXCEPT ![s] = [c \in Characters |-> 0]]
    /\ UNCHANGED lock

LeaseTick ==
    /\ AgeLocks
    /\ lease' = [s \in Servers |-> [c \in Characters |->
                   IF lease[s][c] = 0 THEN 0 ELSE lease[s][c] - 1]]
    /\ UNCHANGED dead

Call(s) == /\ \E c \in Characters : \/ \E r \in Requested : Acquire(s, c, r) \/ Renew(s, c, r)
                                     \/ Release(s, c)
           /\ UNCHANGED dead

LeaseNext == \/ \E s \in Servers \ dead : Call(s) \/ LeaseCrash(s)
             \/ LeaseTick

LeaseSpec == LeaseInit /\ [][LeaseNext]_leaseVars

\* Time passes in Redis, whatever the servers do.
LeaseFairSpec == LeaseSpec /\ WF_leaseVars(LeaseTick)

-----------------------------------------------------------------------------
(***************************************************************************)
(* Properties                                                              *)
(***************************************************************************)
\* GET of the key, as GetCharacterLockOwner returns it.
GetCharacterLockOwner(c) == lock[c].owner

\* A server whose lease runs is the owner Redis names, and Redis will name it
\* at least until the lease ends, whatever the other servers acquire, renew
\* or release late.  So two leases on one character never overlap.
LeaseIsSound ==
    \A s \in Servers, c \in Characters :
       lease[s][c] > 0 => GetCharacterLockOwner(c) = s /\ lock[c].ttl >= lease[s][c]

\* The lock of a server that crashed does not stay for ever, although nobody
\* releases it and other servers keep asking for it: effectiveTTL gives every
\* lock an expiry, and no refused SETNX or renewal of another server extends it.
DeadServersLoseLocks ==
    \A s \in Servers, c \in Characters :
       s \in dead /\ GetCharacterLockOwner(c) = s ~> GetCharacterLockOwner(c) # s

=============================================================================
