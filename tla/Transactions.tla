---------------------------- MODULE Transactions ----------------------------
(***************************************************************************)
(* InTx and RunAndCommit of internal/db/tx.go: calls that each run a       *)
(* function inside a transaction, on connections of one pool.  Stores do   *)
(* not use them yet.                                                       *)
(*                                                                         *)
(* Beside the calls run Postgres, the network, and the callers that cancel *)
(* their contexts.  Of pgx: Commit and Rollback give the connection back   *)
(* whatever happens; a statement whose context ends, or whose connection   *)
(* breaks, fails and closes the connection; then Postgres aborts what was  *)
(* open, but a COMMIT that is on its way is carried out all the same.      *)
(***************************************************************************)
EXTENDS Naturals, FiniteSets

CONSTANTS
    Calls,          \* calls of InTx
    MaxConns        \* connections of the pool

ASSUME ConnsAssumption == MaxConns \in Nat \ {0}

VARIABLES
    pc,             \* pc[t]: where call t is
    work,           \* work[t]: what its function did
    result,         \* result[t]: what it returned
    held,           \* calls that have a connection
    dropped,        \* calls whose connection was closed, not given back
    cancelled,      \* calls whose context is done
    lost,           \* calls whose connection broke
    late,           \* calls whose rollback took longer than RollbackTimeout
    tx              \* tx[t]: the transaction, in Postgres

vars == <<pc, work, result, held, dropped, cancelled, lost, late, tx>>

TypeOK ==
    /\ pc \in [Calls -> {"idle", "acquire", "work", "commit", "reply", "rollback", "returned"}]
    /\ work \in [Calls -> {"none", "nil", "error", "panic"}]
    /\ result \in [Calls -> {"none", "nil", "error", "panic"}]
    /\ held \subseteq Calls /\ Cardinality(held) <= MaxConns
    /\ dropped \subseteq Calls
    /\ cancelled \subseteq Calls
    /\ lost \subseteq Calls
    /\ late \subseteq Calls
    /\ tx \in [Calls -> {"none", "open", "committing", "committed", "aborted"}]

Init ==
    /\ pc = [t \in Calls |-> "idle"]
    /\ work = [t \in Calls |-> "none"]
    /\ result = [t \in Calls |-> "none"]
    /\ held = {}
    /\ dropped = {}
    /\ cancelled = {}
    /\ lost = {}
    /\ late = {}
    /\ tx = [t \in Calls |-> "none"]

-----------------------------------------------------------------------------
(***************************************************************************)
(* A call                                                                  *)
(***************************************************************************)
Returns(t, r) == /\ pc' = [pc EXCEPT ![t] = "returned"]
                 /\ result' = [result EXCEPT ![t] = r]

\* The connection goes back to the pool, closed if it is of no more use.
Release(t, closed) == /\ held' = held \ {t}
                      /\ dropped' = IF closed THEN dropped \cup {t} ELSE dropped

\* A nil pool or a nil function is an error.
InTx(t) ==
    /\ pc[t] = "idle"
    /\ \/ pc' = [pc EXCEPT ![t] = "acquire"] /\ UNCHANGED result
       \/ Returns(t, "error")
    /\ UNCHANGED <<work, held, dropped, cancelled, lost, late, tx>>

\* Mutant: the pool has a connection more than configured.
HasRoom_OneMore == Cardinality(held) <= MaxConns

HasRoom == Cardinality(held) < MaxConns

\* BeginTx waits for a connection; getting one and BEGIN may fail.
BeginTx(t) ==
    /\ pc[t] = "acquire"
    /\ \/ /\ HasRoom /\ t \notin cancelled
          /\ pc' = [pc EXCEPT ![t] = "work"]
          /\ held' = held \cup {t}
          /\ tx' = [tx EXCEPT ![t] = "open"]
          /\ UNCHANGED result
       \/ /\ HasRoom \/ t \in cancelled
          /\ Returns(t, "error")
          /\ UNCHANGED <<held, tx>>
    /\ UNCHANGED <<work, dropped, cancelled, lost, late>>

WorkEnds(t, outcome, next) == /\ work' = [work EXCEPT ![t] = outcome]
                              /\ pc' = [pc EXCEPT ![t] = next]

\* Mutant: rollback is not deferred, and a panic passes it by.
Work_PanicEscapes(t) ==
    /\ pc[t] = "work"
    /\ \E outcome \in {"nil", "error", "panic"} :
         WorkEnds(t, outcome, CASE outcome = "nil" -> "commit"
                                [] outcome = "error" -> "rollback"
                                [] outcome = "panic" -> "returned")
    /\ \/ UNCHANGED lost
       \/ t \in cancelled /\ lost' = lost \cup {t} /\ work'[t] # "nil"
    /\ UNCHANGED <<result, held, dropped, cancelled, late, tx>>

\* The function ends: the deferred rollback runs unless it returns nil.  A
\* context that ends during one of its statements takes the connection along.
Work(t) ==
    /\ pc[t] = "work"
    /\ \E outcome \in {"nil", "error", "panic"} :
         WorkEnds(t, outcome, IF outcome = "nil" THEN "commit" ELSE "rollback")
    /\ \/ UNCHANGED lost
       \/ t \in cancelled /\ lost' = lost \cup {t} /\ work'[t] # "nil"
    /\ UNCHANGED <<result, held, dropped, cancelled, late, tx>>

\* tx.Commit(ctx): COMMIT is sent if the context and the connection allow it.
\* If not, the connection is closed, and the deferred rollback finds the
\* transaction closed.
Commit(t) ==
    /\ pc[t] = "commit"
    /\ \/ /\ t \notin cancelled \cup lost
          /\ pc' = [pc EXCEPT ![t] = "reply"]
          /\ tx' = [tx EXCEPT ![t] = "committing"]
          /\ UNCHANGED <<result, held, dropped>>
       \/ /\ t \in cancelled \cup lost
          /\ Returns(t, "error")
          /\ Release(t, TRUE)
          /\ UNCHANGED tx
    /\ UNCHANGED <<work, cancelled, lost, late>>

\* Postgres says that it committed, or that it could not.
CommitReply(t) ==
    /\ pc[t] = "reply"
    /\ t \notin lost
    /\ tx[t] \in {"committed", "aborted"}
    /\ Returns(t, IF tx[t] = "committed" THEN "nil" ELSE "error")
    /\ Release(t, FALSE)
    /\ UNCHANGED <<work, cancelled, lost, late, tx>>

\* Mutant: the error of Commit is dropped.
CommitFails_Unnoticed(t) ==
    /\ pc[t] = "reply"
    /\ t \in cancelled \cup lost
    /\ Returns(t, "nil")
    /\ Release(t, TRUE)
    /\ UNCHANGED <<work, cancelled, lost, late, tx>>

\* No answer comes, or the caller does not wait for it.
CommitFails(t) ==
    /\ pc[t] = "reply"
    /\ t \in cancelled \cup lost
    /\ Returns(t, "error")
    /\ Release(t, TRUE)
    /\ UNCHANGED <<work, cancelled, lost, late, tx>>

RolledBack(t, closed) == /\ pc[t] = "rollback"
                         /\ Returns(t, work[t])
                         /\ Release(t, closed)
                         /\ tx' = IF closed THEN tx ELSE [tx EXCEPT ![t] = "aborted"]
                         /\ UNCHANGED <<work, cancelled, lost>>

\* Mutant: the rollback is given the caller's context.
Rollback_CallersContext(t) == RolledBack(t, t \in lost \cup cancelled) /\ UNCHANGED late

\* The deferred rollback has a context of its own, and its error is ignored:
\* the call returns the error of the function, or the panic goes on.
Rollback(t) == RolledBack(t, t \in lost) /\ UNCHANGED late

\* That context ends after RollbackTimeout, before Postgres has answered.
RollbackTimesOut(t) == RolledBack(t, TRUE) /\ late' = late \cup {t}

-----------------------------------------------------------------------------
(***************************************************************************)
(* Callers, network, Postgres                                              *)
(***************************************************************************)
Cancel(t) ==
    /\ pc[t] \notin {"idle", "returned"}
    /\ cancelled' = cancelled \cup {t}
    /\ UNCHANGED <<pc, work, result, held, dropped, lost, late, tx>>

ConnectionBreaks(t) ==
    /\ t \in held
    /\ lost' = lost \cup {t}
    /\ UNCHANGED <<pc, work, result, held, dropped, cancelled, late, tx>>

\* A COMMIT may be refused: a deferred constraint, a serialization failure.
Postgres(t) ==
    /\ \/ /\ tx[t] = "committing"
          /\ \E s \in {"committed", "aborted"} : tx' = [tx EXCEPT ![t] = s]
       \/ /\ tx[t] = "open" /\ t \in dropped
          /\ tx' = [tx EXCEPT ![t] = "aborted"]
    /\ UNCHANGED <<pc, work, result, held, dropped, cancelled, lost, late>>

-----------------------------------------------------------------------------
Step(t) == \/ BeginTx(t) \/ Work(t) \/ Commit(t) \/ CommitReply(t) \/ CommitFails(t)
           \/ Rollback(t) \/ RollbackTimesOut(t)

Next == \E t \in Calls : InTx(t) \/ Step(t) \/ Cancel(t) \/ ConnectionBreaks(t) \/ Postgres(t)

Spec == Init /\ [][Next]_vars

\* A goroutine runs while it can, the functions end, and Postgres does what it
\* is asked.  Nobody needs to cancel, and no connection needs to break.
FairSpec == Spec /\ \A t \in Calls : WF_vars(Step(t)) /\ WF_vars(Postgres(t))

-----------------------------------------------------------------------------
(***************************************************************************)
(* Properties                                                              *)
(***************************************************************************)
\* A caller can trust what InTx returns.  After nil the transaction was
\* committed.  "The transaction [...] rolls back on any error" of InTx's
\* comment holds as far as RunAndCommit can have it: what a function that
\* failed or panicked did never takes effect, and after an error of Commit
\* nothing does unless the answer to a COMMIT that was sent went astray.
ResultsAreTrue ==
    \A t \in Calls :
        /\ result[t] = "nil" => tx[t] = "committed"
        /\ work[t] \in {"none", "error", "panic"} => tx[t] \notin {"committing", "committed"}
        /\ result[t] = "error" /\ t \notin dropped => tx[t] \in {"none", "aborted"}

\* RunAndCommit rolls back with "a detached context so the rollback is not
\* cancelled by the caller's context": however callers cancel, a call whose
\* function failed costs the pool its connection only if that had broken, or
\* if Postgres had not rolled back within RollbackTimeout.
RollbackKeepsConnection ==
    \A t \in Calls :
        work[t] \in {"error", "panic"} /\ t \in dropped => t \in lost \cup late

\* Every call of InTx returns and gives back its connection, so that those
\* that wait for one get it, and no transaction stays open in Postgres:
\* whatever the functions, the callers and the network do.
EveryCallEnds ==
    \A t \in Calls : pc[t] = "acquire" ~> /\ pc[t] = "returned" /\ t \notin held
                                          /\ tx[t] \in {"none", "committed", "aborted"}
=============================================================================
