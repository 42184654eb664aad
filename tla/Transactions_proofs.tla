------------------------ MODULE Transactions_proofs ------------------------
(***************************************************************************)
(* Proofs about Transactions, for any number of calls and connections.     *)
(*                                                                         *)
(* What a call may claim when it returns depends on what Postgres has been *)
(* asked to do by then: IInv ties the place of every call to the state of  *)
(* its transaction, and keeps both while other calls, callers, the network *)
(* and Postgres go on.                                                     *)
(***************************************************************************)
EXTENDS Transactions, FiniteSetTheorems, TLAPS

Types ==
    /\ pc \in [Calls -> {"idle", "acquire", "work", "commit", "reply", "rollback", "returned"}]
    /\ work \in [Calls -> {"none", "nil", "error", "panic"}]
    /\ result \in [Calls -> {"none", "nil", "error", "panic"}]
    /\ dropped \subseteq Calls
    /\ cancelled \subseteq Calls
    /\ lost \subseteq Calls
    /\ late \subseteq Calls
    /\ tx \in [Calls -> {"none", "open", "committing", "committed", "aborted"}]

\* The connections in use.
PoolInv == /\ held \subseteq Calls
           /\ IsFiniteSet(held)
           /\ Cardinality(held) <= MaxConns

\* Where a call is, and what its transaction is then.
PlaceInv(t) ==
    /\ pc[t] \in {"idle", "acquire"} => work[t] = "none" /\ tx[t] = "none"
    /\ pc[t] = "work" => work[t] = "none" /\ tx[t] = "open"
    /\ pc[t] = "commit" => work[t] = "nil" /\ tx[t] = "open"
    /\ pc[t] = "reply" => work[t] = "nil" /\ tx[t] \in {"committing", "committed", "aborted"}
    /\ pc[t] = "rollback" => work[t] \in {"error", "panic"} /\ tx[t] = "open"
    /\ pc[t] # "returned" => result[t] = "none" /\ t \notin dropped

\* What a call that returned may claim.
ClaimInv(t) ==
    /\ result[t] = "nil" => tx[t] = "committed"
    /\ work[t] \in {"none", "error", "panic"} => tx[t] \notin {"committing", "committed"}
    /\ result[t] = "error" /\ t \notin dropped => tx[t] \in {"none", "aborted"}
    /\ work[t] \in {"error", "panic"} /\ t \in dropped => t \in lost \cup late

IInv == Types /\ \A t \in Calls : PlaceInv(t) /\ ClaimInv(t)

-----------------------------------------------------------------------------
\* No connection is in use at first.
LEMMA InitPool == Init => PoolInv
BY FS_EmptySet, ConnsAssumption DEF Init, PoolInv

\* BeginTx takes a connection only if there is one; everything else gives one
\* back or leaves them alone.
LEMMA PoolStep == PoolInv /\ [Next]_vars => PoolInv'
<1> SUFFICES ASSUME PoolInv, [Next]_vars PROVE PoolInv'
    OBVIOUS
<1>1. ASSUME UNCHANGED held PROVE PoolInv'
    BY <1>1 DEF PoolInv
<1>2. ASSUME NEW t \in Calls, held' = held \ {t} PROVE PoolInv'
    <2>1. /\ IsFiniteSet(held \ {t})
          /\ Cardinality(held \ {t}) \in Nat
          /\ Cardinality(held \ {t}) <= Cardinality(held)
          /\ Cardinality(held) \in Nat
        BY FS_RemoveElement, FS_CardinalityType, FS_Subset DEF PoolInv
    <2>2. Cardinality(held \ {t}) <= MaxConns
        BY <2>1, ConnsAssumption DEF PoolInv
    <2> QED
        BY <1>2, <2>1, <2>2 DEF PoolInv
<1>3. ASSUME NEW t \in Calls, HasRoom, held' = held \cup {t} PROVE PoolInv'
    <2>1. /\ IsFiniteSet(held \cup {t})
          /\ Cardinality(held) \in Nat
          /\ Cardinality(held \cup {t}) = IF t \in held THEN Cardinality(held)
                                          ELSE Cardinality(held) + 1
        BY FS_AddElement, FS_CardinalityType DEF PoolInv
    <2>2. Cardinality(held \cup {t}) <= MaxConns
        BY <1>3, <2>1, ConnsAssumption DEF PoolInv, HasRoom
    <2> QED
        BY <1>3, <2>1, <2>2 DEF PoolInv
<1>4. ASSUME NEW t \in Calls, BeginTx(t) PROVE PoolInv'
    BY <1>1, <1>3, <1>4 DEF BeginTx
<1>5. ASSUME NEW t \in Calls,
             \/ Commit(t) \/ CommitReply(t) \/ CommitFails(t)
             \/ Rollback(t) \/ RollbackTimesOut(t)
      PROVE  PoolInv'
    BY <1>1, <1>2, <1>5 DEF Commit, CommitReply, CommitFails, Rollback, RollbackTimesOut,
                            RolledBack, Release
<1>6. ASSUME NEW t \in Calls,
             InTx(t) \/ Work(t) \/ Cancel(t) \/ ConnectionBreaks(t) \/ Postgres(t)
      PROVE  PoolInv'
    BY <1>1, <1>6 DEF InTx, Work, Cancel, ConnectionBreaks, Postgres
<1>7. CASE UNCHANGED vars
    BY <1>1, <1>7 DEF vars
<1> QED
    BY <1>4, <1>5, <1>6, <1>7 DEF Next, Step

-----------------------------------------------------------------------------
\* No call has begun at first.
LEMMA InitIInv == Init => IInv
BY DEF Init, IInv, Types, PlaceInv, ClaimInv

\* One action of call t at a time; the other calls keep what they have.
LEMMA StepIInv == IInv /\ [Next]_vars => IInv'
<1> SUFFICES ASSUME IInv, [Next]_vars PROVE IInv'
    OBVIOUS
<1> USE DEF IInv, Types, PlaceInv, ClaimInv, Returns, Release
<1>1. ASSUME NEW t \in Calls, InTx(t) PROVE IInv'
    BY <1>1 DEF InTx
<1>2. ASSUME NEW t \in Calls, BeginTx(t) PROVE IInv'
    BY <1>2 DEF BeginTx
<1>3. ASSUME NEW t \in Calls, Work(t) PROVE IInv'
    <2>1. PICK outcome \in {"nil", "error", "panic"} :
              WorkEnds(t, outcome, IF outcome = "nil" THEN "commit" ELSE "rollback")
        BY <1>3 DEF Work
    <2>2. lost \subseteq lost' /\ lost' \subseteq Calls
        BY <1>3 DEF Work
    <2>3. UNCHANGED <<result, held, dropped, cancelled, late, tx>> /\ pc[t] = "work"
        BY <1>3 DEF Work
    <2> QED
        BY <2>1, <2>2, <2>3 DEF WorkEnds
<1>4. ASSUME NEW t \in Calls, Commit(t) PROVE IInv'
    BY <1>4 DEF Commit
<1>5. ASSUME NEW t \in Calls, CommitReply(t) PROVE IInv'
    BY <1>5 DEF CommitReply
<1>6. ASSUME NEW t \in Calls, CommitFails(t) PROVE IInv'
    BY <1>6 DEF CommitFails
<1>7. ASSUME NEW t \in Calls, Rollback(t) \/ RollbackTimesOut(t) PROVE IInv'
    <2>1. CASE Rollback(t)
        BY <2>1 DEF Rollback, RolledBack
    <2>2. CASE RollbackTimesOut(t)
        BY <2>2 DEF RollbackTimesOut, RolledBack
    <2> QED
        BY <1>7, <2>1, <2>2
<1>8. ASSUME NEW t \in Calls, Cancel(t) \/ ConnectionBreaks(t) PROVE IInv'
    BY <1>8 DEF Cancel, ConnectionBreaks
<1>9. ASSUME NEW t \in Calls, Postgres(t) PROVE IInv'
    BY <1>9 DEF Postgres
<1>10. CASE UNCHANGED vars
    BY <1>10 DEF vars
<1> QED
    BY <1>1, <1>2, <1>3, <1>4, <1>5, <1>6, <1>7, <1>8, <1>9, <1>10 DEF Next, Step

-----------------------------------------------------------------------------
\* IInv and PoolInv are invariants of the calls.
LEMMA Invariance == Spec => [](IInv /\ PoolInv)
BY InitPool, PoolStep, InitIInv, StepIInv, PTL DEF Spec

\* Every reachable state is well typed; in particular InTx never has more
\* connections than applyPoolConfig allows.
THEOREM TransactionTypes == Spec => []TypeOK
<1>1. IInv /\ PoolInv => TypeOK
    BY DEF IInv, PoolInv, Types, TypeOK
<1> QED
    BY <1>1, Invariance, PTL

\* InTx returns nil only for a transaction that Postgres committed.  What a
\* failed or panicked function did never takes effect, and an error of Commit
\* leaves one only if the connection was closed before the answer.
THEOREM CallersCanTrustInTx == Spec => []ResultsAreTrue
<1>1. IInv => ResultsAreTrue
    BY DEF IInv, ClaimInv, ResultsAreTrue
<1> QED
    BY <1>1, Invariance, PTL

\* The rollback of RunAndCommit costs the pool no connection that works and
\* answers within RollbackTimeout, whether or not the caller has cancelled.
THEOREM RollbackIsClean == Spec => []RollbackKeepsConnection
<1>1. IInv => RollbackKeepsConnection
    BY DEF IInv, ClaimInv, RollbackKeepsConnection
<1> QED
    BY <1>1, Invariance, PTL
=============================================================================
