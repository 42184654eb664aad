--------------------------- MODULE ServerProcess ---------------------------
(***************************************************************************)
(* The life of a server process, API or game: NewRuntimeWithDeps and Close *)
(* of internal/app/runtime.go, RunAPI and RunGame, Server.Run of           *)
(* internal/api/server.go and GameServer.Run of internal/game/server.go.   *)
(*                                                                         *)
(* The main goroutine loads the configuration (Config) and acquires the    *)
(* signal context, the Postgres pool, the Redis client and, in a game      *)
(* server, the ENet host, serves, and releases them.  Beside it run the    *)
(* goroutine that listens for HTTP, the HTTP requests, and the operating   *)
(* system that sends the signal.  The heartbeat is in ServerRegistry.  An  *)
(* operator starts a process again whose configuration was refused, with   *)
(* the variables the error names put right.                                *)
(***************************************************************************)
EXTENDS Config, Sequences

CONSTANTS
    Requests,       \* HTTP requests that clients may make
    Envs            \* environments a process may first be started with

ASSUME EnvsAssumption ==
    \A e \in Envs : DOMAIN e = Names /\ \A k \in Names : IsSetting(e[k])

VARIABLES
    service,        \* api or game
    pc,             \* where the main goroutine is
    env,            \* the environment; NoEnv once it is of no more interest
    refused,        \* how many starts were refused for the configuration
    unfit,          \* accepted variables that a constructor does not accept
    ctx,            \* the context that SIGINT and SIGTERM cancel
    pool,           \* the Postgres pool
    redis,          \* the Redis client
    host,           \* the ENet library and its host
    listener,       \* the goroutine that runs ListenAndServe
    errCh,          \* what it sent and nobody received, of capacity 1
    closing,        \* http.Server.Shutdown was called
    forced,         \* HTTP requests were abandoned
    rpc             \* rpc[r]: none, running, query (it holds a connection), ended

configVars == <<env, refused, unfit>>
resources == <<ctx, pool, redis, host>>
serverVars == <<listener, errCh, closing, forced, rpc>>
vars == <<service, pc, configVars, resources, serverVars>>

NoEnv == <<>>

-----------------------------------------------------------------------------
(***************************************************************************)
(* State                                                                   *)
(***************************************************************************)
TypeOK ==
    /\ service \in {"api", "game"}
    /\ pc \in {"config", "refused", "postgres", "redis", "wire", "serve", "register", "loop",
               "shutdown", "drain", "destroy", "deregister",
               "closeRedis", "closePool", "stop", "exited"}
    /\ env # NoEnv => DOMAIN env = Names
    /\ refused \in Nat
    /\ unfit \subseteq Names
    /\ ctx \in {"none", "live", "done"}
    /\ pool \in {"none", "open", "closing", "closed"}
    /\ redis \in {"none", "open", "closed"}
    /\ host \in {"none", "open", "destroyed", "abandoned"}
    /\ listener \in {"off", "starting", "serving", "ended"}
    /\ errCh \in Seq({"nil", "error"}) /\ Len(errCh) <= 1
    /\ closing \in BOOLEAN
    /\ forced \in BOOLEAN
    /\ rpc \in [Requests -> {"none", "running", "query", "ended"}]

Init ==
    /\ service \in {"api", "game"}
    /\ pc = "config"
    /\ env \in Envs
    /\ refused = 0
    /\ unfit = {}
    /\ ctx = "none"
    /\ pool = "none"
    /\ redis = "none"
    /\ host = "none"
    /\ listener = "off"
    /\ errCh = <<>>
    /\ closing = FALSE
    /\ forced = FALSE
    /\ rpc = [r \in Requests |-> "none"]

Active(r) == rpc[r] \in {"running", "query"}

-----------------------------------------------------------------------------
(***************************************************************************)
(* The main goroutine: start                                               *)
(***************************************************************************)
\* The logger and the context are made right after the configuration.
LoadConfig ==
    /\ pc = "config"
    /\ IF LoadErrors(env) = {}
       THEN /\ pc' = "postgres"
            /\ ctx' = "live"
            /\ unfit' = WireErrors(service, Values(env))
                           \cup {k \in {"GAME_ENET_ADDR"} : /\ service = "game"
                                                            /\ splitHostPortFails(Values(env)[k])}
            /\ env' = NoEnv
            /\ UNCHANGED refused
       ELSE /\ pc' = "refused"
            /\ refused' = refused + 1
            /\ UNCHANGED <<ctx, unfit, env>>
    /\ UNCHANGED <<service, pool, redis, host, serverVars>>

\* A value that is known to be good: the default, where there is one.
Repaired(k) == IF k \in Texts /\ DefaultText[k] = "" THEN Text("given") ELSE Unset

\* The operator puts right what the error names, and nothing else.
Repair ==
    /\ pc = "refused"
    /\ env' = [k \in Names |-> IF k \in LoadErrors(env) THEN Repaired(k) ELSE env[k]]
    /\ pc' = "config"
    /\ UNCHANGED <<service, refused, unfit, resources, serverVars>>

\* On failure: stop().  A pool that does not answer a ping is closed.
NewPostgres ==
    /\ pc = "postgres"
    /\ \/ pc' = "redis" /\ pool' = "open" /\ UNCHANGED ctx
       \/ pc' = "exited" /\ ctx' = "done" /\ UNCHANGED pool
    /\ UNCHANGED <<service, configVars, redis, host, serverVars>>

RedisConnected == /\ pc' = "wire"
                  /\ redis' = "open"
                  /\ UNCHANGED <<ctx, pool>>

\* Mutant: the pool is forgotten.
NewRedis_KeepsPool ==
    /\ pc = "redis"
    /\ RedisConnected \/ (pc' = "exited" /\ ctx' = "done" /\ UNCHANGED <<pool, redis>>)
    /\ UNCHANGED <<service, configVars, host, serverVars>>

\* On failure: db.Close(pool), stop().
NewRedis ==
    /\ pc = "redis"
    /\ \/ RedisConnected
       \/ pc' = "exited" /\ pool' = "closed" /\ ctx' = "done" /\ UNCHANGED redis
    /\ UNCHANGED <<service, configVars, host, serverVars>>

\* The wiring fails: only the deferred Close runs.
WiringFails == /\ pc' = "closeRedis"
               /\ UNCHANGED <<host, listener>>

\* On success Run starts the goroutine that listens.
NewAPIServer ==
    /\ pc = "wire"
    /\ service = "api"
    /\ IF unfit # {} THEN WiringFails
       ELSE pc' = "serve" /\ listener' = "starting" /\ UNCHANGED host
    /\ UNCHANGED <<service, configVars, ctx, pool, redis, errCh, closing, forced, rpc>>

\* The host may fail to bind; ENet is deinitialised then.  On success Run
\* starts the health server first.
NewGameServer ==
    /\ pc = "wire"
    /\ service = "game"
    /\ \/ WiringFails
       \/ unfit = {} /\ pc' = "register" /\ host' = "open" /\ listener' = "starting"
    /\ UNCHANGED <<service, configVars, ctx, pool, redis, errCh, closing, forced, rpc>>

\* The registration that must succeed (ServerRegistry has its commands).  If
\* it fails, Run returns as it is: the host and the health server stay.
registerGameServer ==
    /\ pc = "register"
    /\ \/ pc' = "loop" /\ UNCHANGED <<host, forced>>
       \/ pc' = "closeRedis" /\ host' = "abandoned" /\ forced' = TRUE
    /\ UNCHANGED <<service, configVars, ctx, pool, redis, listener, errCh, closing, rpc>>

-----------------------------------------------------------------------------
(***************************************************************************)
(* The listening goroutine, the requests and the signal                    *)
(***************************************************************************)
\* Mutant: no return after the error is sent.
ListenerEnds_SendsTwice(outcome) ==
    /\ listener' = "ended"
    /\ errCh' = IF service = "api" THEN errCh \o <<outcome, "nil">> ELSE errCh

\* ListenAndServe ends.  The API server is told, ErrServerClosed as nil; the
\* game server only logs it.
ListenerEnds(outcome) ==
    /\ listener' = "ended"
    /\ errCh' = IF service = "api" THEN Append(errCh, outcome) ELSE errCh

beside == <<service, pc, configVars, resources, closing, forced>>

\* A server that is shutting down does not start to listen; the address may
\* be in use.
Listen ==
    /\ listener = "starting"
    /\ \/ closing /\ ListenerEnds("nil")
       \/ ~closing /\ listener' = "serving" /\ UNCHANGED errCh
       \/ ~closing /\ ListenerEnds("error")
    /\ UNCHANGED <<beside, rpc>>

\* Accept fails for good.
ServeFails ==
    /\ listener = "serving"
    /\ ListenerEnds("error")
    /\ UNCHANGED <<beside, rpc>>

Moves(r, from, to) == /\ rpc[r] = from
                      /\ rpc' = [rpc EXCEPT ![r] = to]
                      /\ UNCHANGED <<beside, listener, errCh>>

Accept(r) == listener = "serving" /\ Moves(r, "none", "running")

\* A handler, or a readiness check, takes a connection for one statement.
BeginQuery(r) == pool = "open" /\ Moves(r, "running", "query")

EndQuery(r) == Moves(r, "query", "running")

EndRequest(r) == Moves(r, "running", "ended")

\* SIGINT or SIGTERM.
Signal ==
    /\ ctx = "live"
    /\ ctx' = "done"
    /\ UNCHANGED <<service, pc, configVars, pool, redis, host, serverVars>>

-----------------------------------------------------------------------------
(***************************************************************************)
(* The main goroutine: the end of Run                                      *)
(***************************************************************************)
\* The API server's select and the game loop see that the context is done.
\* Shutdown closes the listener at once.
BeginShutdown ==
    /\ pc \in {"serve", "loop"}
    /\ ctx = "done"
    /\ pc' = "shutdown"
    /\ closing' = TRUE
    /\ IF listener = "serving" THEN ListenerEnds("nil") ELSE UNCHANGED <<listener, errCh>>
    /\ UNCHANGED <<service, configVars, resources, forced, rpc>>

\* select: the listener ended by itself.  Run returns as it is.
ListenerEnded ==
    /\ pc = "serve"
    /\ errCh # <<>>
    /\ pc' = "closeRedis"
    /\ errCh' = Tail(errCh)
    /\ forced' = TRUE
    /\ UNCHANGED <<service, configVars, resources, listener, closing, rpc>>

\* The API server's Run returns; the game server has more to undo.
AfterShutdown == IF service = "api" THEN "closeRedis" ELSE "drain"

\* Mutant: Shutdown's wait for the handlers is left out.
ShutdownCompletes_AtOnce ==
    /\ pc = "shutdown"
    /\ pc' = AfterShutdown
    /\ UNCHANGED <<service, configVars, resources, serverVars>>

\* Shutdown returns when no request is active.
ShutdownCompletes ==
    /\ pc = "shutdown"
    /\ \A r \in Requests : ~Active(r)
    /\ pc' = AfterShutdown
    /\ UNCHANGED <<service, configVars, resources, serverVars>>

\* Mutant: Shutdown is given a context without a deadline.
ShutdownTimeout_Never == FALSE /\ UNCHANGED vars

\* shutdownCtx expires before that.  The API server calls Close and returns an
\* error, the game server logs it: in both the handlers run on.
ShutdownTimeout ==
    /\ pc = "shutdown"
    /\ \E r \in Requests : Active(r)
    /\ pc' = AfterShutdown
    /\ forced' = TRUE
    /\ UNCHANGED <<service, configVars, resources, listener, errCh, closing, rpc>>

\* Disconnect the peers and release their locks, as far as Redis lets it
\* (JoinHandoff has the commands).
Drain ==
    /\ pc = "drain"
    /\ pc' = "destroy"
    /\ UNCHANGED <<service, configVars, resources, serverVars>>

\* host.Destroy, enet.Deinitialize.
Destroy ==
    /\ pc = "destroy"
    /\ pc' = "deregister"
    /\ host' = "destroyed"
    /\ UNCHANGED <<service, configVars, ctx, pool, redis, serverVars>>

\* DeregisterGameServer (ServerRegistry has the commands); a failure is logged.
Deregister ==
    /\ pc = "deregister"
    /\ pc' = "closeRedis"
    /\ UNCHANGED <<service, configVars, resources, serverVars>>

-----------------------------------------------------------------------------
(***************************************************************************)
(* The main goroutine: Runtime.Close                                       *)
(***************************************************************************)
CloseRedis ==
    /\ pc = "closeRedis"
    /\ pc' = "closePool"
    /\ redis' = "closed"
    /\ pool' = "closing"
    /\ UNCHANGED <<service, configVars, ctx, host, serverVars>>

\* The pool gives out no connection and waits for those in use.
ClosePool ==
    /\ pc = "closePool"
    /\ \A r \in Requests : rpc[r] # "query"
    /\ pc' = "stop"
    /\ pool' = "closed"
    /\ UNCHANGED <<service, configVars, ctx, redis, host, serverVars>>

Stop ==
    /\ pc = "stop"
    /\ pc' = "exited"
    /\ ctx' = "done"
    /\ UNCHANGED <<service, configVars, pool, redis, host, serverVars>>

-----------------------------------------------------------------------------
Main == \/ LoadConfig \/ NewPostgres \/ NewRedis \/ NewAPIServer \/ NewGameServer
        \/ registerGameServer \/ BeginShutdown \/ ListenerEnded
        \/ ShutdownCompletes \/ ShutdownTimeout \/ Drain \/ Destroy \/ Deregister
        \/ CloseRedis \/ ClosePool \/ Stop

\* What the process does until it exits.
Next ==
    \/ Main
    \/ Repair
    \/ pc # "exited" /\ (Listen \/ ServeFails \/ Signal)
    \/ \E r \in Requests : pc # "exited" /\ (\/ Accept(r) \/ BeginQuery(r)
                                             \/ EndQuery(r) \/ EndRequest(r))

Spec == Init /\ [][Next]_vars

\* The main goroutine runs while it can, and Postgres answers a statement.
\* Nothing makes a handler end, the listener start or the operator act.
FairSpec == /\ Spec
            /\ WF_vars(Main)
            /\ \A r \in Requests : WF_vars(EndQuery(r))

-----------------------------------------------------------------------------
(***************************************************************************)
(* Properties                                                              *)
(***************************************************************************)
\* Wherever the start failed and however serving ended, an exiting process
\* has closed the stores it opened and its context (NewRuntimeWithDeps: "On any
\* failure, previously acquired resources are released before returning").
\* A game server that came to its shutdown has destroyed its ENet host too; one
\* that could not register has not: Run returns, the host is left to the system.
NothingLeaks ==
    pc = "exited" => /\ pool \in {"none", "closed"}
                     /\ redis \in {"none", "closed"}
                     /\ ctx # "live"
                     /\ host # "open"
                     /\ closing => host # "abandoned"

\* A request that neither Run has abandoned finds both stores open, whenever
\* the signal comes and even while the listener is starting.
StoresOutliveRequests ==
    \A r \in Requests : Active(r) /\ ~forced => pool = "open" /\ redis = "open"

\* A process that got the signal, and an API server whose listener ended,
\* exits: also when the signal comes during the start, when handlers do not
\* end (shutdownCtx) and when abandoned ones still hold connections (Close).
EndsWhenTold == (ctx = "done" \/ errCh # <<>>) ~> pc = "exited"

\* validate lets "callers see the full picture in a single error rather than
\* discovering problems one at a time", and so does parseValues: an operator
\* who repairs what the error names starts at most four times in vain, once
\* for each stage of LoadWithSource.
RepairsSuffice == refused <= 4
=============================================================================
