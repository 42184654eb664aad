-------------------------- MODULE MCServerProcess --------------------------
(***************************************************************************)
(* Model checking of ServerProcess.  A start environment differs from a    *)
(* good one in any one variable, or in any choice of the faults below.     *)
(***************************************************************************)
EXTENDS ServerProcess

GoodEnv == [k \in Names |-> Repaired(k)]

Settings == {Unset, Empty, Blank, Text("other"), Text("a:b"), Text(","), Text(":99999")}
                \cup {Number(n) : n \in {-1, 0, 1, 50, MaxInt32 + 1, 70000}}

SingleFaults == {[GoodEnv EXCEPT ![k] = v] : k \in Names, v \in Settings}

\* Two forbidden variables, two that do not parse, and four that are not
\* valid, one of which only once another has its default again.
Faults == [POSTGRES_URL |-> Text("other"), REDIS_ADDR |-> Text("other"),
           REDIS_DB |-> Text("other"), POSTGRES_MAX_CONNS |-> Number(MaxInt32 + 1),
           POSTGRES_MIN_CONNS |-> Number(50), APP_ENV |-> Text("other"),
           POSTGRES_SSLMODE |-> Blank, REDIS_PORT |-> Number(0)]

SeveralFaults == {[k \in Names |-> IF k \in F THEN Faults[k] ELSE GoodEnv[k]] :
                    F \in SUBSET DOMAIN Faults}

StartEnvs == SingleFaults \cup SeveralFaults
=============================================================================
