------------------------ MODULE ServerProcess_proofs ------------------------
(***************************************************************************)
(* Proofs about the life of a server process and its configuration, for    *)
(* any HTTP requests and any environments to start with.                   *)
(***************************************************************************)
EXTENDS ServerProcess, TLAPS

\* What the main goroutine holds at each place.
Starting == {"config", "refused", "postgres", "redis", "wire"}
Serving == {"serve", "register", "loop", "shutdown"}
Undoing == {"drain", "destroy", "deregister"}
Closing == {"closeRedis", "closePool", "stop", "exited"}

\* The pool and the client: open from the connection to Close.
StoresInv ==
    /\ pc \in {"config", "refused", "postgres"} => pool = "none" /\ redis = "none"
    /\ pc = "redis" => pool = "open" /\ redis = "none"
    /\ pc \in {"wire", "closeRedis"} \cup Serving \cup Undoing => pool = "open" /\ redis = "open"
    /\ pc = "closePool" => redis = "closed"
    /\ pc = "stop" => pool = "closed" /\ redis = "closed"
    /\ pc = "exited" => pool \in {"none", "closed"} /\ redis \in {"none", "closed"}

\* The host: a game server's, from its wiring to Destroy.  It is left behind
\* only where Run returns without a shutdown.
HostInv ==
    /\ pc = "serve" => service = "api"
    /\ pc \in {"register", "loop"} \cup Undoing => service = "game"
    /\ pc \in Starting \/ service = "api" => host = "none"
    /\ pc \in {"deregister"} \cup Closing => host # "open"
    /\ pc \in Starting \cup {"register"} => ~closing
    /\ host = "abandoned" => pc \in Closing /\ ~closing

\* The context: made with the configuration, done when the process exits.
ContextInv ==
    /\ pc \in {"config", "refused"} => ctx = "none"
    /\ pc = "exited" => ctx = "done"

\* What the listening goroutine has sent, and when it cannot serve.
ListenerInv ==
    /\ listener # "ended" => errCh = <<>>
    /\ closing => listener # "serving"
    /\ pc \in Starting => listener = "off"
    /\ listener = "off" => \A r \in Requests : rpc[r] = "none"
    /\ pc = "shutdown" => closing

\* Past the shutdown of the HTTP server no request is active or can become
\* so, unless requests were abandoned.
QuietInv ==
    pc \in Undoing \cup Closing /\ ~forced =>
        /\ closing \/ listener = "off"
        /\ \A r \in Requests : ~Active(r)

ProcessInv == TypeOK /\ StoresInv /\ HostInv /\ ContextInv /\ ListenerInv /\ QuietInv

-----------------------------------------------------------------------------
\* A process that starts has acquired nothing.
LEMMA ProcessInit == Init => ProcessInv
<1>. SUFFICES ASSUME Init PROVE ProcessInv
  OBVIOUS
<1>1. TypeOK
  <2>1. env # NoEnv => DOMAIN env = Names
    BY EnvsAssumption DEF Init
  <2>2. errCh \in Seq({"nil", "error"}) /\ Len(errCh) <= 1
    BY DEF Init
  <2>. QED BY <2>1, <2>2 DEF Init, TypeOK
<1>2. StoresInv /\ HostInv /\ ContextInv /\ ListenerInv /\ QuietInv
  BY DEF Init, StoresInv, HostInv, ContextInv, ListenerInv, QuietInv,
         Starting, Serving, Undoing, Closing
<1>. QED BY <1>1, <1>2 DEF ProcessInv

\* A listener that ends has sent nothing before, and sends one outcome.
LEMMA ListenerEndsOnce ==
    ASSUME TypeOK, ListenerInv, listener # "ended", NEW o \in {"nil", "error"}, ListenerEnds(o)
    PROVE  errCh' \in Seq({"nil", "error"}) /\ Len(errCh') <= 1
<1>1. errCh = <<>>
  BY DEF ListenerInv
<1>2. errCh' \in {<<>>, Append(<<>>, o)}
  BY <1>1 DEF ListenerEnds
<1>3. <<>> \in Seq({"nil", "error"}) /\ Len(<<>>) = 0
  OBVIOUS
<1>4. Append(<<>>, o) \in Seq({"nil", "error"}) /\ Len(Append(<<>>, o)) = 1
  BY <1>3
<1>5. CASE errCh' = <<>>
  BY <1>3, <1>5
<1>6. CASE errCh' = Append(<<>>, o)
  BY <1>4, <1>6
<1>. QED BY <1>2, <1>5, <1>6

\* The channel of capacity 1 never has to take a second outcome.
LEMMA ChannelStep ==
    ASSUME TypeOK, ListenerInv, Next
    PROVE  errCh' \in Seq({"nil", "error"}) /\ Len(errCh') <= 1
<1>. USE DEF configVars, resources, serverVars, beside
<1>0. errCh \in Seq({"nil", "error"}) /\ Len(errCh) <= 1
  BY DEF TypeOK
<1>1. CASE BeginShutdown
  BY <1>0, <1>1, ListenerEndsOnce DEF BeginShutdown
<1>2. CASE ListenerEnded
  BY <1>0, <1>2 DEF ListenerEnded
<1>3. CASE Listen \/ ServeFails
  BY <1>0, <1>3, ListenerEndsOnce DEF Listen, ServeFails
<1>4. CASE UNCHANGED errCh
  BY <1>0, <1>4
<1>5. CASE Repair \/ Signal \/ \E r \in Requests : Accept(r) \/ BeginQuery(r) \/ EndQuery(r) \/ EndRequest(r)
  BY <1>4, <1>5 DEF Repair, Signal, Accept, BeginQuery, EndQuery, EndRequest, Moves
<1>6. CASE Main
  BY <1>1, <1>2, <1>4, <1>6
  DEF Main, LoadConfig, NewPostgres, NewRedis, NewAPIServer, NewGameServer, registerGameServer,
      ShutdownCompletes, ShutdownTimeout, Drain, Destroy, Deregister, CloseRedis, ClosePool, Stop
<1>. QED BY <1>3, <1>5, <1>6 DEF Next

\* A request goes a step.
LEMMA RequestStep ==
    ASSUME ProcessInv, NEW r \in Requests, pc # "exited",
           Accept(r) \/ BeginQuery(r) \/ EndQuery(r) \/ EndRequest(r)
    PROVE  /\ rpc' \in [Requests -> {"none", "running", "query", "ended"}]
           /\ (StoresInv /\ HostInv /\ ContextInv /\ ListenerInv /\ QuietInv)'
<1>. USE DEF configVars, resources, serverVars, beside
<1>1. /\ UNCHANGED <<service, pc, pool, redis, host, ctx, listener, errCh, closing, forced>>
      /\ \E to \in {"running", "query", "ended"} : rpc' = [rpc EXCEPT ![r] = to]
      /\ rpc[r] = "none" => listener = "serving"
      /\ rpc[r] = "none" \/ Active(r)
  BY DEF Accept, BeginQuery, EndQuery, EndRequest, Moves, Active
<1>2. rpc' \in [Requests -> {"none", "running", "query", "ended"}]
  BY <1>1 DEF ProcessInv, TypeOK
<1>3. \A q \in Requests : q # r => rpc'[q] = rpc[q]
  BY <1>1 DEF ProcessInv, TypeOK
<1>4. listener # "off"
  BY <1>1 DEF ProcessInv, ListenerInv, Active
<1>5. (StoresInv /\ HostInv /\ ContextInv)'
  BY <1>1 DEF ProcessInv, StoresInv, HostInv, ContextInv
<1>6. ListenerInv'
  BY <1>1, <1>4 DEF ProcessInv, ListenerInv
<1>7. QuietInv'
  BY <1>1, <1>4 DEF ProcessInv, ListenerInv, QuietInv
<1>. QED BY <1>2, <1>5, <1>6, <1>7

\* The listener, or the signal.
LEMMA BesideStep ==
    ASSUME ProcessInv, pc # "exited", Listen \/ ServeFails \/ Signal
    PROVE  (StoresInv /\ HostInv /\ ContextInv /\ ListenerInv /\ QuietInv)'
<1>. USE DEF configVars, resources, serverVars, beside
<1>1. /\ UNCHANGED <<service, pc, pool, redis, host, closing, forced, rpc>>
      /\ ctx' = ctx \/ (ctx = "live" /\ ctx' = "done")
      /\ \/ UNCHANGED <<listener, errCh>>
         \/ listener \in {"starting", "serving"} /\ listener' = "ended"
         \/ listener = "starting" /\ ~closing /\ listener' = "serving" /\ errCh' = errCh
  BY DEF Listen, ServeFails, Signal, ListenerEnds
<1>2. (StoresInv /\ HostInv)'
  BY <1>1 DEF ProcessInv, StoresInv, HostInv
<1>3. ContextInv'
  BY <1>1 DEF ProcessInv, ContextInv
<1>4. ListenerInv'
  BY <1>1 DEF ProcessInv, ListenerInv
<1>5. QuietInv'
  BY <1>1 DEF ProcessInv, QuietInv, Active
<1>. QED BY <1>2, <1>3, <1>4, <1>5

\* A step of the main goroutine, or of the operator: what it holds.
LEMMA MainStep ==
    ASSUME ProcessInv, Main \/ Repair
    PROVE  (StoresInv /\ HostInv /\ ContextInv)'
<1>. USE DEF configVars, resources, serverVars
<1>0. TypeOK /\ StoresInv /\ HostInv /\ ContextInv
  BY DEF ProcessInv
<1>. USE DEF StoresInv, HostInv, ContextInv, Starting, Serving, Undoing, Closing
<1>1. CASE LoadConfig \/ Repair
  BY <1>0, <1>1 DEF LoadConfig, Repair
<1>2. CASE NewPostgres \/ NewRedis
  BY <1>0, <1>2 DEF NewPostgres, NewRedis, RedisConnected
<1>3. CASE NewAPIServer \/ NewGameServer \/ registerGameServer
  BY <1>0, <1>3 DEF NewAPIServer, NewGameServer, registerGameServer, WiringFails
<1>4. CASE BeginShutdown \/ ListenerEnded
  BY <1>0, <1>4 DEF BeginShutdown, ListenerEnded
<1>5. CASE ShutdownCompletes \/ ShutdownTimeout
  BY <1>0, <1>5 DEF ShutdownCompletes, ShutdownTimeout, AfterShutdown, TypeOK
<1>6. CASE Drain \/ Destroy \/ Deregister
  BY <1>0, <1>6 DEF Drain, Destroy, Deregister
<1>7. CASE CloseRedis \/ ClosePool \/ Stop
  BY <1>0, <1>7 DEF CloseRedis, ClosePool, Stop
<1>. QED BY <1>1, <1>2, <1>3, <1>4, <1>5, <1>6, <1>7 DEF Main

\* And what the listener and the requests can do after it.
LEMMA MainBesides ==
    ASSUME ProcessInv, Main \/ Repair
    PROVE  (ListenerInv /\ QuietInv)'
<1>. USE DEF configVars, resources, serverVars
<1>0. TypeOK /\ ListenerInv /\ QuietInv
  BY DEF ProcessInv
<1>. USE DEF ListenerInv, QuietInv, Active, Starting, Undoing, Closing
<1>1. CASE LoadConfig \/ Repair
  BY <1>0, <1>1 DEF LoadConfig, Repair
<1>2. CASE NewPostgres \/ NewRedis
  BY <1>0, <1>2 DEF NewPostgres, NewRedis, RedisConnected
<1>3. CASE NewAPIServer \/ NewGameServer \/ registerGameServer
  BY <1>0, <1>3 DEF NewAPIServer, NewGameServer, registerGameServer, WiringFails
<1>4. CASE BeginShutdown
  BY <1>0, <1>4 DEF BeginShutdown, ListenerEnds
<1>5. CASE ListenerEnded
  BY <1>0, <1>5 DEF ListenerEnded
<1>6. CASE ShutdownCompletes \/ ShutdownTimeout
  BY <1>0, <1>6 DEF ShutdownCompletes, ShutdownTimeout, AfterShutdown
<1>7. CASE Drain \/ Destroy \/ Deregister
  BY <1>0, <1>7 DEF Drain, Destroy, Deregister
<1>8. CASE CloseRedis \/ ClosePool \/ Stop
  BY <1>0, <1>8 DEF CloseRedis, ClosePool, Stop
<1>. QED BY <1>1, <1>2, <1>3, <1>4, <1>5, <1>6, <1>7, <1>8 DEF Main

\* The variables, by name.
LEMMA TheTexts ==
    Texts = {"APP_NAME", "APP_ENV", "LOG_LEVEL", "LOG_FORMAT", "API_HTTP_ADDR",
             "API_ALLOWED_ORIGINS", "GAME_ENET_ADDR", "GAME_HTTP_ADDR", "POSTGRES_HOST",
             "POSTGRES_USER", "POSTGRES_PASSWORD", "POSTGRES_DB", "POSTGRES_SSLMODE",
             "REDIS_HOST", "REDIS_PASSWORD"}
BY DEF Texts, DefaultText

\* The variables with numbers, one by one.
LEMMA TheNumbers ==
    Numbers = {"SHUTDOWN_TIMEOUT", "AUTH_RATE_LIMIT_WINDOW", "AUTH_RATE_LIMIT_BURST",
               "POSTGRES_PORT", "POSTGRES_MAX_CONNS", "POSTGRES_MIN_CONNS",
               "POSTGRES_MAX_CONN_LIFETIME", "POSTGRES_MAX_CONN_IDLE_TIME",
               "POSTGRES_HEALTH_CHECK_PERIOD", "REDIS_PORT", "REDIS_DB", "REDIS_DIAL_TIMEOUT",
               "REDIS_READ_TIMEOUT", "REDIS_WRITE_TIMEOUT", "REDIS_POOL_SIZE",
               "REDIS_MIN_IDLE_CONNS"}
BY DEF Numbers, DefaultNumber

\* Types.
LEMMA ProcessTypes ==
    ASSUME ProcessInv, Next PROVE TypeOK'
<1>. USE DEF configVars, resources, serverVars, beside
<1>0. TypeOK /\ ListenerInv
  BY DEF ProcessInv
<1>1. errCh' \in Seq({"nil", "error"}) /\ Len(errCh') <= 1
  BY <1>0, ChannelStep
<1>2. rpc' \in [Requests -> {"none", "running", "query", "ended"}]
  <2>1. CASE rpc' = rpc
    BY <1>0, <2>1 DEF TypeOK
  <2>2. CASE \E r \in Requests : pc # "exited" /\ (Accept(r) \/ BeginQuery(r) \/ EndQuery(r) \/ EndRequest(r))
    BY <2>2, RequestStep
  <2>3. CASE Main
    BY <2>1, <2>3
    DEF Main, LoadConfig, NewPostgres, NewRedis, NewAPIServer, NewGameServer, registerGameServer,
        BeginShutdown, ListenerEnded, ShutdownCompletes, ShutdownTimeout, Drain, Destroy,
        Deregister, CloseRedis, ClosePool, Stop
  <2>4. CASE Repair \/ Listen \/ ServeFails \/ Signal
    BY <2>1, <2>4 DEF Repair, Listen, ServeFails, Signal
  <2>. QED BY <2>2, <2>3, <2>4 DEF Next
<1>3. env' # NoEnv => DOMAIN env' = Names
  <2>0. env # NoEnv => DOMAIN env = Names
    BY <1>0 DEF TypeOK
  <2>1. CASE env' = env \/ env' = NoEnv
    BY <2>0, <2>1
  <2>2. CASE Repair
    BY <2>2 DEF Repair
  <2>3. CASE Main
    BY <2>1, <2>3
    DEF Main, LoadConfig, NewPostgres, NewRedis, NewAPIServer, NewGameServer, registerGameServer,
        BeginShutdown, ListenerEnded, ShutdownCompletes, ShutdownTimeout, Drain, Destroy,
        Deregister, CloseRedis, ClosePool, Stop
  <2>4. CASE Listen \/ ServeFails \/ Signal
    BY <2>1, <2>4 DEF Listen, ServeFails, Signal
  <2>5. CASE \E r \in Requests : Accept(r) \/ BeginQuery(r) \/ EndQuery(r) \/ EndRequest(r)
    BY <2>1, <2>5 DEF Accept, BeginQuery, EndQuery, EndRequest, Moves
  <2>. QED BY <2>2, <2>3, <2>4, <2>5 DEF Next
<1>4. unfit' \subseteq Names
  <2>0. unfit \subseteq Names
    BY <1>0 DEF TypeOK
  <2>1. CASE unfit' = unfit
    BY <2>0, <2>1
  <2>2. CASE LoadConfig
    <3>1. WireErrors(service, Values(env)) \subseteq Names /\ "GAME_ENET_ADDR" \in Names
      BY TheTexts, TheNumbers DEF WireErrors, KeyBuilderErrors, APIErrors, GameErrors, Names
    <3>. QED BY <2>1, <2>2, <3>1 DEF LoadConfig
  <2>3. CASE Main /\ ~LoadConfig
    BY <2>1, <2>3
    DEF Main, NewPostgres, NewRedis, NewAPIServer, NewGameServer, registerGameServer,
        BeginShutdown, ListenerEnded, ShutdownCompletes, ShutdownTimeout, Drain, Destroy,
        Deregister, CloseRedis, ClosePool, Stop
  <2>4. CASE Repair \/ Listen \/ ServeFails \/ Signal
    BY <2>1, <2>4 DEF Repair, Listen, ServeFails, Signal
  <2>5. CASE \E r \in Requests : Accept(r) \/ BeginQuery(r) \/ EndQuery(r) \/ EndRequest(r)
    BY <2>1, <2>5 DEF Accept, BeginQuery, EndQuery, EndRequest, Moves
  <2>. QED BY <2>2, <2>3, <2>4, <2>5 DEF Next
<1>5. /\ service' \in {"api", "game"}
      /\ pc' \in {"config", "refused", "postgres", "redis", "wire", "serve", "register", "loop",
                  "shutdown", "drain", "destroy", "deregister",
                  "closeRedis", "closePool", "stop", "exited"}
      /\ refused' \in Nat
      /\ ctx' \in {"none", "live", "done"}
      /\ pool' \in {"none", "open", "closing", "closed"}
      /\ redis' \in {"none", "open", "closed"}
      /\ host' \in {"none", "open", "destroyed", "abandoned"}
      /\ listener' \in {"off", "starting", "serving", "ended"}
      /\ closing' \in BOOLEAN
      /\ forced' \in BOOLEAN
  <2>0. TypeOK
    BY <1>0
  <2>. USE DEF TypeOK
  <2>1. CASE LoadConfig \/ Repair \/ NewPostgres \/ NewRedis
    BY <2>0, <2>1 DEF LoadConfig, Repair, NewPostgres, NewRedis, RedisConnected
  <2>2. CASE NewAPIServer \/ NewGameServer \/ registerGameServer
    BY <2>0, <2>2 DEF NewAPIServer, NewGameServer, registerGameServer, WiringFails
  <2>3. CASE BeginShutdown \/ ListenerEnded \/ ShutdownCompletes \/ ShutdownTimeout
    BY <2>0, <2>3 DEF BeginShutdown, ListenerEnds, ListenerEnded, ShutdownCompletes,
                      ShutdownTimeout, AfterShutdown
  <2>4. CASE Drain \/ Destroy \/ Deregister \/ CloseRedis \/ ClosePool \/ Stop
    BY <2>0, <2>4 DEF Drain, Destroy, Deregister, CloseRedis, ClosePool, Stop
  <2>5. CASE Listen \/ ServeFails \/ Signal
    BY <2>0, <2>5 DEF Listen, ServeFails, Signal, ListenerEnds
  <2>6. CASE \E r \in Requests : Accept(r) \/ BeginQuery(r) \/ EndQuery(r) \/ EndRequest(r)
    BY <2>0, <2>6 DEF Accept, BeginQuery, EndQuery, EndRequest, Moves
  <2>. QED BY <2>1, <2>2, <2>3, <2>4, <2>5, <2>6 DEF Next, Main
<1>. QED BY <1>1, <1>2, <1>3, <1>4, <1>5 DEF TypeOK

\* ProcessInv is an invariant of the process.
LEMMA ProcessInvariant == Spec => []ProcessInv
<1>1. ProcessInv /\ [Next]_vars => ProcessInv'
  <2>. SUFFICES ASSUME ProcessInv, [Next]_vars PROVE ProcessInv'
    OBVIOUS
  <2>1. CASE Main \/ Repair
    BY <2>1, ProcessTypes, MainStep, MainBesides DEF Next, ProcessInv
  <2>2. CASE pc # "exited" /\ (Listen \/ ServeFails \/ Signal)
    BY <2>2, ProcessTypes, BesideStep DEF Next, ProcessInv
  <2>3. CASE \E r \in Requests : pc # "exited" /\ (\/ Accept(r) \/ BeginQuery(r)
                                                   \/ EndQuery(r) \/ EndRequest(r))
    BY <2>3, ProcessTypes, RequestStep DEF Next, ProcessInv
  <2>4. CASE UNCHANGED vars
    BY <2>4 DEF vars, configVars, resources, serverVars, ProcessInv, TypeOK, StoresInv, HostInv,
                ContextInv, ListenerInv, QuietInv, Active
  <2>. QED BY <2>1, <2>2, <2>3, <2>4 DEF Next
<1>. QED BY <1>1, ProcessInit, PTL DEF Spec

\* The process is well typed; in particular the goroutine that listens never
\* blocks on the channel that Run reads.
THEOREM ProcessIsTyped == Spec => []TypeOK
BY ProcessInvariant, PTL DEF ProcessInv

\* A process that exits has closed its stores and its context, from whichever
\* failure of the start or end of Run it comes; and its ENet host if it came to
\* the shutdown of Run, which a failed registration does not.
THEOREM EverythingIsReleased == Spec => []NothingLeaks
<1>1. ProcessInv => NothingLeaks
  BY DEF ProcessInv, StoresInv, HostInv, ContextInv, Closing, NothingLeaks
<1>. QED BY <1>1, ProcessInvariant, PTL

\* The stores are open under every request that Run has not abandoned.
THEOREM RequestsHaveStores == Spec => []StoresOutliveRequests
<1>1. ProcessInv => StoresOutliveRequests
  BY DEF ProcessInv, TypeOK, StoresInv, ListenerInv, QuietInv, StoresOutliveRequests, Active,
         Starting, Serving, Undoing, Closing
<1>. QED BY <1>1, ProcessInvariant, PTL

-----------------------------------------------------------------------------
(***************************************************************************)
(* The configuration is refused at most four times                         *)
(***************************************************************************)
\* The variables of an environment that are derived from others, but set.
Derived(e) == {k \in Forbidden : e[k].is \in {"text", "number"}}

\* The first n of the four stages of LoadWithSource have no complaint about e.
Cleared(e, n) ==
    /\ n >= 1 => "POSTGRES_URL" \notin Derived(e)
    /\ n >= 2 => Derived(e) = {}
    /\ n >= 3 => parseErrors(e) = {}
    /\ n >= 4 => validate(Values(e)) = {}

\* What a text is worth once it is repaired.
Good(k) == IF DefaultText[k] = "" THEN "given" ELSE DefaultText[k]

\* e, with what the error of LoadWithSource names put right.
Mended(e) == [k \in Names |-> IF k \in LoadErrors(e) THEN Repaired(k) ELSE e[k]]

\* Texts, numbers and derived variables have different names.
LEMMA NamesDiffer ==
    /\ Texts \cap Numbers = {}
    /\ Forbidden \cap (Texts \cup Numbers) = {}
    /\ Int32s \subseteq Numbers
BY TheTexts, TheNumbers DEF Forbidden, Int32s

\* The stages complain one after the other.
LEMMA Stages ==
    ASSUME NEW e
    PROVE  /\ "POSTGRES_URL" \in Derived(e) => LoadErrors(e) = {"POSTGRES_URL"}
           /\ Derived(e) = {"REDIS_ADDR"} => LoadErrors(e) = {"REDIS_ADDR"}
           /\ Derived(e) = {} /\ parseErrors(e) # {} => LoadErrors(e) = parseErrors(e)
           /\ Derived(e) = {} /\ parseErrors(e) = {} => LoadErrors(e) = validate(Values(e))
           /\ \/ "POSTGRES_URL" \in Derived(e)
              \/ Derived(e) = {"REDIS_ADDR"}
              \/ Derived(e) = {}
<1>. DEFINE set == {k \in Forbidden : e[k].is \in {"text", "number"}}
<1>1. LoadErrors(e) = CASE "POSTGRES_URL" \in set -> {"POSTGRES_URL"}
                        [] set = {"REDIS_ADDR"} -> set
                        [] set = {} /\ parseErrors(e) # {} -> parseErrors(e)
                        [] OTHER -> validate(Values(e))
  BY DEF LoadErrors
<1>2. set = Derived(e)
  BY DEF Derived
<1>3. \/ "POSTGRES_URL" \in set
      \/ set = {"REDIS_ADDR"}
      \/ set = {}
  BY DEF Forbidden
<1>. HIDE DEF set
<1>. QED BY <1>1, <1>2, <1>3

\* A repaired variable is set to something that is no mistake to set.
LEMMA RepairedIs ==
    ASSUME NEW k
    PROVE  /\ IsSetting(Repaired(k))
           /\ ~(k \in Texts /\ DefaultText[k] = "") => Repaired(k).is = "unset"
           /\ k \in Texts /\ DefaultText[k] = "" =>
                 Repaired(k).is = "text" /\ Repaired(k).text = "given"
BY DEF Repaired, IsSetting, Text, Unset

\* A mended environment is worth what it was, but for the repairs.
LEMMA MendedValues ==
    ASSUME NEW e, NEW k \in Texts \cup Numbers
    PROVE  /\ k \notin LoadErrors(e) => Values(Mended(e))[k] = Values(e)[k]
           /\ k \in LoadErrors(e) /\ k \in Texts => Values(Mended(e))[k] = Good(k)
           /\ k \in LoadErrors(e) /\ k \in Numbers => Values(Mended(e))[k] = DefaultNumber[k]
<1>. DEFINE f == Mended(e)
<1>1. f[k] = IF k \in LoadErrors(e) THEN Repaired(k) ELSE e[k]
  BY DEF Mended, Names
<1>2. /\ Values(f)[k] = IF k \in Texts THEN stringEnv(f, k) ELSE intEnv(f, k)
      /\ Values(e)[k] = IF k \in Texts THEN stringEnv(e, k) ELSE intEnv(e, k)
  BY DEF Values
<1>. HIDE DEF f
<1>3. CASE k \in LoadErrors(e) /\ k \in Texts
  <2>1. k \notin Numbers
    BY <1>3, NamesDiffer
  <2>2. stringEnv(f, k) = IF DefaultText[k] = "" THEN "given" ELSE DefaultText[k]
    <3>1. CASE DefaultText[k] = ""
      <4>1. f[k].is = "text" /\ f[k].text = "given"
        BY <1>1, <1>3, <3>1, RepairedIs
      <4>. QED BY <3>1, <4>1 DEF stringEnv
    <3>2. CASE DefaultText[k] # ""
      <4>1. f[k].is = "unset"
        BY <1>1, <1>3, <3>2, RepairedIs
      <4>. QED BY <3>2, <4>1 DEF stringEnv
    <3>. QED BY <3>1, <3>2
  <2>. QED BY <1>2, <1>3, <2>1, <2>2 DEF Good, f
<1>4. CASE k \in LoadErrors(e) /\ k \notin Texts
  <2>1. intEnv(f, k) = DefaultNumber[k]
    BY <1>1, <1>4, RepairedIs DEF intEnv
  <2>. QED BY <1>2, <1>4, <2>1 DEF f
<1>5. CASE k \notin LoadErrors(e)
  <2>1. stringEnv(f, k) = stringEnv(e, k) /\ intEnv(f, k) = intEnv(e, k)
    BY <1>1, <1>5 DEF stringEnv, intEnv
  <2>. QED BY <1>2, <1>5, <2>1 DEF f
<1>. QED BY <1>3, <1>4, <1>5

-----------------------------------------------------------------------------
\* The default texts, and the text for what has none, are valid.
LEMMA GoodTexts ==
    /\ \A k \in {"APP_ENV", "LOG_LEVEL", "LOG_FORMAT", "POSTGRES_SSLMODE"} : Good(k) \in OneOf[k]
    /\ \A k \in {"APP_NAME", "API_HTTP_ADDR", "GAME_ENET_ADDR", "GAME_HTTP_ADDR",
                 "POSTGRES_HOST", "POSTGRES_USER", "POSTGRES_PASSWORD", "POSTGRES_DB",
                 "REDIS_HOST"} : Good(k) # ""
    /\ Good("API_ALLOWED_ORIGINS") \notin {"", ","}
<1>1. /\ Good("APP_ENV") = "local" /\ Good("LOG_LEVEL") = "info" /\ Good("LOG_FORMAT") = "text"
      /\ Good("POSTGRES_SSLMODE") = "disable"
  BY DEF Good, DefaultText
<1>2. /\ Good("APP_NAME") = "rpg-backend" /\ Good("API_HTTP_ADDR") = ":8080"
      /\ Good("GAME_ENET_ADDR") = ":7777" /\ Good("GAME_HTTP_ADDR") = ":8081"
      /\ Good("POSTGRES_HOST") = "localhost" /\ Good("POSTGRES_USER") = "given"
      /\ Good("POSTGRES_PASSWORD") = "given" /\ Good("POSTGRES_DB") = "given"
      /\ Good("REDIS_HOST") = "localhost" /\ Good("API_ALLOWED_ORIGINS") = "http://localhost:3000"
  BY DEF Good, DefaultText
<1>3. \A k \in {"APP_ENV", "LOG_LEVEL", "LOG_FORMAT", "POSTGRES_SSLMODE"} : Good(k) \in OneOf[k]
  BY <1>1 DEF OneOf
<1>. QED BY <1>2, <1>3

\* Numbers are integers, however they are set.
LEMMA NumbersAreInts ==
    ASSUME NEW e, \A k \in Names : IsSetting(e[k])
    PROVE  \A k \in Numbers : Values(e)[k] \in Int /\ DefaultNumber[k] \in Int
<1>1. \A k \in Numbers : DefaultNumber[k] \in Int
  BY TheNumbers DEF DefaultNumber
<1>2. \A k \in Numbers : k \notin Texts /\ k \in Names
  BY NamesDiffer DEF Names
<1>3. \A k \in Numbers : intEnv(e, k) \in Int
  BY <1>1, <1>2 DEF intEnv, IsSetting
<1>. QED BY <1>1, <1>2, <1>3 DEF Values

-----------------------------------------------------------------------------
\* What validate asks of one value.
BadChoice(k, v) == v \notin OneOf[k]
Missing(v) == v = ""
NoItems(v) == csvEnv(v) = {}
NotPositive(v) == v <= 0
Negative(v) == v < 0
BadPort(v) == v \notin 1..65535

\* And of a pool: the least number of connections does not exceed the most.
BadPool(most, least) == most < least

\* The variables that are asked each of these.
Choices == {"APP_ENV", "LOG_LEVEL", "LOG_FORMAT", "POSTGRES_SSLMODE"}
Required == {"APP_NAME", "API_HTTP_ADDR", "GAME_ENET_ADDR", "GAME_HTTP_ADDR", "POSTGRES_HOST",
             "POSTGRES_USER", "POSTGRES_PASSWORD", "POSTGRES_DB", "REDIS_HOST"}
Lists == {"API_ALLOWED_ORIGINS"}
Positives == {"SHUTDOWN_TIMEOUT", "AUTH_RATE_LIMIT_WINDOW", "AUTH_RATE_LIMIT_BURST",
              "POSTGRES_MAX_CONNS", "POSTGRES_HEALTH_CHECK_PERIOD", "REDIS_POOL_SIZE",
              "REDIS_DIAL_TIMEOUT", "REDIS_READ_TIMEOUT", "REDIS_WRITE_TIMEOUT"}
AtLeastZero == {"POSTGRES_MIN_CONNS", "POSTGRES_MAX_CONN_LIFETIME", "POSTGRES_MAX_CONN_IDLE_TIME",
              "REDIS_DB", "REDIS_MIN_IDLE_CONNS"}
Ports == {"POSTGRES_PORT", "REDIS_PORT"}

\* Variable k fails by its own value, or by the size of the pool it is part of.
FailsAlone(c, k) ==
    \/ k \in Choices /\ BadChoice(k, c[k])
    \/ k \in Required /\ Missing(c[k])
    \/ k \in Lists /\ NoItems(c[k])
    \/ k \in Positives /\ NotPositive(c[k])
    \/ k \in AtLeastZero /\ Negative(c[k])
    \/ k \in Ports /\ BadPort(c[k])

FailsInPool(c, k) ==
    \/ /\ k \in {"POSTGRES_MAX_CONNS", "POSTGRES_MIN_CONNS"}
       /\ BadPool(c["POSTGRES_MAX_CONNS"], c["POSTGRES_MIN_CONNS"])
    \/ /\ k \in {"REDIS_POOL_SIZE", "REDIS_MIN_IDLE_CONNS"}
       /\ BadPool(c["REDIS_POOL_SIZE"], c["REDIS_MIN_IDLE_CONNS"])

\* What a variable is worth once it is repaired.
Default(k) == IF k \in Texts THEN Good(k) ELSE DefaultNumber[k]

\* Violations, check by check.
LEMMA ViolationsSplit ==
    ASSUME NEW c, NEW A, NEW B, NEW C, NEW D
    PROVE  Violations(c, A, B, C, D) =
              {k \in A : BadChoice(k, c[k])} \cup {k \in B : Missing(c[k])}
                  \cup {k \in C : NotPositive(c[k])} \cup {k \in D : Negative(c[k])}
<1>. DEFINE V == {k \in A : c[k] \notin OneOf[k]}
           M == {k \in B : c[k] = ""}
           P == {k \in C : c[k] <= 0}
           N == {k \in D : c[k] < 0}
<1>1. Violations(c, A, B, C, D) = V \cup M \cup P \cup N
  BY DEF Violations
<1>2. V = {k \in A : BadChoice(k, c[k])}
  BY DEF BadChoice
<1>3. M = {k \in B : Missing(c[k])}
  BY DEF Missing
<1>4. P = {k \in C : NotPositive(c[k])}
  BY DEF NotPositive
<1>5. N = {k \in D : Negative(c[k])}
  BY DEF Negative
<1>. HIDE DEF V, M, P, N
<1>. QED BY <1>1, <1>2, <1>3, <1>4, <1>5

\* PortErrors, by what it asks of the port.
LEMMA PortsSplit ==
    ASSUME NEW c, NEW k
    PROVE  PortErrors(c, k) = IF BadPort(c[k]) THEN {k} ELSE {}
<1>. DEFINE range == 1..65535
<1>1. PortErrors(c, k) = IF c[k] \in range THEN {} ELSE {k}
  BY DEF PortErrors
<1>2. BadPort(c[k]) <=> c[k] \notin range
  BY DEF BadPort
<1>. HIDE DEF range
<1>. QED BY <1>1, <1>2

\* The three sections of validate, one variable at a time.
LEMMA SectionsAre ==
    ASSUME NEW c, NEW k
    PROVE  k \in validate(c) <=> FailsAlone(c, k) \/ FailsInPool(c, k)
<1>1. TopErrors(c) =
         Violations(c, {"APP_ENV", "LOG_LEVEL", "LOG_FORMAT"},
                    {"APP_NAME", "API_HTTP_ADDR", "GAME_ENET_ADDR", "GAME_HTTP_ADDR"},
                    {"SHUTDOWN_TIMEOUT", "AUTH_RATE_LIMIT_WINDOW", "AUTH_RATE_LIMIT_BURST"}, {})
             \cup {x \in Lists : NoItems(c[x])}
  BY DEF TopErrors, Lists, NoItems
<1>2. PostgresErrors(c) =
         Violations(c, {"POSTGRES_SSLMODE"},
                    {"POSTGRES_HOST", "POSTGRES_USER", "POSTGRES_PASSWORD", "POSTGRES_DB"},
                    {"POSTGRES_MAX_CONNS", "POSTGRES_HEALTH_CHECK_PERIOD"},
                    {"POSTGRES_MIN_CONNS", "POSTGRES_MAX_CONN_LIFETIME",
                     "POSTGRES_MAX_CONN_IDLE_TIME"})
             \cup PortErrors(c, "POSTGRES_PORT")
             \cup (IF BadPool(c["POSTGRES_MAX_CONNS"], c["POSTGRES_MIN_CONNS"])
                   THEN {"POSTGRES_MAX_CONNS", "POSTGRES_MIN_CONNS"} ELSE {})
  BY DEF PostgresErrors, BadPool, Int32s
<1>3. RedisErrors(c) =
         Violations(c, {}, {"REDIS_HOST"},
                    {"REDIS_POOL_SIZE", "REDIS_DIAL_TIMEOUT", "REDIS_READ_TIMEOUT",
                     "REDIS_WRITE_TIMEOUT"},
                    {"REDIS_DB", "REDIS_MIN_IDLE_CONNS"})
             \cup PortErrors(c, "REDIS_PORT")
             \cup (IF BadPool(c["REDIS_POOL_SIZE"], c["REDIS_MIN_IDLE_CONNS"])
                   THEN {"REDIS_MIN_IDLE_CONNS", "REDIS_POOL_SIZE"} ELSE {})
  BY DEF RedisErrors, BadPool
<1>4. k \in validate(c) <=> k \in TopErrors(c) \/ k \in PostgresErrors(c) \/ k \in RedisErrors(c)
  BY DEF validate
<1>5. k \in TopErrors(c) <=>
         \/ k \in {"APP_ENV", "LOG_LEVEL", "LOG_FORMAT"} /\ BadChoice(k, c[k])
         \/ k \in {"APP_NAME", "API_HTTP_ADDR", "GAME_ENET_ADDR", "GAME_HTTP_ADDR"} /\ Missing(c[k])
         \/ /\ k \in {"SHUTDOWN_TIMEOUT", "AUTH_RATE_LIMIT_WINDOW", "AUTH_RATE_LIMIT_BURST"}
            /\ NotPositive(c[k])
         \/ k \in Lists /\ NoItems(c[k])
  BY <1>1, ViolationsSplit
<1>6. k \in PostgresErrors(c) <=>
         \/ k \in {"POSTGRES_SSLMODE"} /\ BadChoice(k, c[k])
         \/ /\ k \in {"POSTGRES_HOST", "POSTGRES_USER", "POSTGRES_PASSWORD", "POSTGRES_DB"}
            /\ Missing(c[k])
         \/ k \in {"POSTGRES_MAX_CONNS", "POSTGRES_HEALTH_CHECK_PERIOD"} /\ NotPositive(c[k])
         \/ /\ k \in {"POSTGRES_MIN_CONNS", "POSTGRES_MAX_CONN_LIFETIME",
                      "POSTGRES_MAX_CONN_IDLE_TIME"}
            /\ Negative(c[k])
         \/ k \in {"POSTGRES_PORT"} /\ BadPort(c[k])
         \/ /\ k \in {"POSTGRES_MAX_CONNS", "POSTGRES_MIN_CONNS"}
            /\ BadPool(c["POSTGRES_MAX_CONNS"], c["POSTGRES_MIN_CONNS"])
  BY <1>2, ViolationsSplit, PortsSplit
<1>7. k \in RedisErrors(c) <=>
         \/ k \in {"REDIS_HOST"} /\ Missing(c[k])
         \/ /\ k \in {"REDIS_POOL_SIZE", "REDIS_DIAL_TIMEOUT", "REDIS_READ_TIMEOUT",
                      "REDIS_WRITE_TIMEOUT"}
            /\ NotPositive(c[k])
         \/ k \in {"REDIS_DB", "REDIS_MIN_IDLE_CONNS"} /\ Negative(c[k])
         \/ k \in {"REDIS_PORT"} /\ BadPort(c[k])
         \/ /\ k \in {"REDIS_POOL_SIZE", "REDIS_MIN_IDLE_CONNS"}
            /\ BadPool(c["REDIS_POOL_SIZE"], c["REDIS_MIN_IDLE_CONNS"])
  BY <1>3, ViolationsSplit, PortsSplit
<1>. QED BY <1>4, <1>5, <1>6, <1>7
         DEF FailsAlone, FailsInPool, Choices, Required, Lists, Positives, AtLeastZero, Ports

-----------------------------------------------------------------------------
\* The default numbers that must be positive are.
LEMMA GoodPositives == \A k \in Positives : DefaultNumber[k] \in Nat \ {0}
BY DEF DefaultNumber, Positives

\* Those that must not be negative are not.
LEMMA GoodNaturals == \A k \in AtLeastZero : DefaultNumber[k] \in Nat
BY DEF DefaultNumber, AtLeastZero

\* The default ports are ports.
LEMMA GoodPorts == \A k \in Ports : ~BadPort(DefaultNumber[k])
<1>1. DefaultNumber["POSTGRES_PORT"] = 5432 /\ DefaultNumber["REDIS_PORT"] = 6379
  BY DEF DefaultNumber
<1>2. ~BadPort(5432) /\ ~BadPort(6379)
  BY DEF BadPort
<1>. QED BY <1>1, <1>2 DEF Ports

\* The default sizes of the pools.
LEMMA GoodPools ==
    /\ DefaultNumber["POSTGRES_MAX_CONNS"] = 10 /\ DefaultNumber["POSTGRES_MIN_CONNS"] = 1
    /\ DefaultNumber["REDIS_POOL_SIZE"] = 10 /\ DefaultNumber["REDIS_MIN_IDLE_CONNS"] = 1
BY DEF DefaultNumber

\* The defaults pass, each for itself.
LEMMA DefaultsPass ==
    ASSUME NEW d, NEW k, k \in Texts \cup Numbers => d[k] = Default(k)
    PROVE  ~FailsAlone(d, k)
<1>0. Choices \cup Required \cup Lists \subseteq Texts
  BY TheTexts DEF Choices, Required, Lists
<1>1. Positives \cup AtLeastZero \cup Ports \subseteq Numbers
  BY TheNumbers DEF Positives, AtLeastZero, Ports
<1>2. k \in Choices => ~BadChoice(k, Good(k))
  BY GoodTexts DEF Choices, BadChoice
<1>3. k \in Required => ~Missing(Good(k))
  BY GoodTexts DEF Required, Missing
<1>4. k \in Lists => ~NoItems(Good(k))
  BY GoodTexts DEF Lists, NoItems, csvEnv
<1>5. k \in Positives => ~NotPositive(DefaultNumber[k])
  BY GoodPositives DEF NotPositive
<1>6. k \in AtLeastZero => ~Negative(DefaultNumber[k])
  BY GoodNaturals DEF Negative
<1>7. k \in Ports => ~BadPort(DefaultNumber[k])
  BY GoodPorts
<1>8. k \in Texts => d[k] = Good(k)
  BY DEF Default
<1>9. k \in Numbers => d[k] = DefaultNumber[k]
  BY NamesDiffer DEF Default
<1>. QED BY <1>0, <1>1, <1>2, <1>3, <1>4, <1>5, <1>6, <1>7, <1>8, <1>9 DEF FailsAlone

\* A pool of which the parts that fail are repaired, both if they do not fit.
LEMMA PoolMended ==
    ASSUME NEW most \in Int, NEW least \in Int, NEW most1, NEW least1,
           most1 = IF NotPositive(most) \/ BadPool(most, least) THEN 10 ELSE most,
           least1 = IF Negative(least) \/ BadPool(most, least) THEN 1 ELSE least
    PROVE  ~BadPool(most1, least1)
BY DEF NotPositive, Negative, BadPool

\* Repairing what validate names leaves it nothing to name: none of its checks
\* hides another, and no repair breaks what was right.
LEMMA OneRepairIsEnough ==
    ASSUME NEW c, NEW d,
           \A k \in Numbers : c[k] \in Int,
           \A k \in Texts \cup Numbers : d[k] = IF k \in validate(c) THEN Default(k) ELSE c[k]
    PROVE  validate(d) = {}
<1>1. \A k \in Choices \cup Required \cup Lists \cup Positives \cup AtLeastZero \cup Ports :
         k \in Texts \cup Numbers
  BY TheTexts, TheNumbers DEF Choices, Required, Lists, Positives, AtLeastZero, Ports
<1>2. ASSUME NEW k PROVE ~FailsAlone(d, k)
  <2>1. CASE k \in validate(c)
    BY <2>1, DefaultsPass
  <2>2. CASE k \notin validate(c) /\ k \in Texts \cup Numbers
    <3>1. d[k] = c[k] /\ ~FailsAlone(c, k)
      BY <2>2, SectionsAre
    <3>. QED BY <3>1 DEF FailsAlone
  <2>3. CASE k \notin Texts \cup Numbers
    BY <1>1, <2>3 DEF FailsAlone
  <2>. QED BY <2>1, <2>2, <2>3
<1>3. ASSUME NEW most, NEW least,
             \/ most = "POSTGRES_MAX_CONNS" /\ least = "POSTGRES_MIN_CONNS"
             \/ most = "REDIS_POOL_SIZE" /\ least = "REDIS_MIN_IDLE_CONNS"
      PROVE  ~BadPool(d[most], d[least])
  <2>1. most \in Numbers /\ least \in Numbers
    BY <1>3, TheNumbers
  <2>2. Default(most) = 10 /\ Default(least) = 1
    <3>1. DefaultNumber[most] = 10 /\ DefaultNumber[least] = 1
      BY <1>3, GoodPools
    <3>2. most \notin Texts /\ least \notin Texts
      BY <2>1, NamesDiffer
    <3>. QED BY <3>1, <3>2 DEF Default
  <2>3. most \in validate(c) <=> NotPositive(c[most]) \/ BadPool(c[most], c[least])
    BY <1>3, SectionsAre
    DEF FailsAlone, FailsInPool, Choices, Required, Lists, Positives, AtLeastZero, Ports
  <2>4. least \in validate(c) <=> Negative(c[least]) \/ BadPool(c[most], c[least])
    BY <1>3, SectionsAre
    DEF FailsAlone, FailsInPool, Choices, Required, Lists, Positives, AtLeastZero, Ports
  <2>5. d[most] = IF NotPositive(c[most]) \/ BadPool(c[most], c[least]) THEN 10 ELSE c[most]
    BY <2>1, <2>2, <2>3
  <2>6. d[least] = IF Negative(c[least]) \/ BadPool(c[most], c[least]) THEN 1 ELSE c[least]
    BY <2>1, <2>2, <2>4
  <2>7. c[most] \in Int /\ c[least] \in Int
    BY <2>1
  <2>. QED BY <2>5, <2>6, <2>7, PoolMended
<1>4. ASSUME NEW k PROVE ~FailsInPool(d, k)
  BY <1>3 DEF FailsInPool
<1>. QED BY <1>2, <1>4, SectionsAre

-----------------------------------------------------------------------------
\* What is repaired is no more complained about.
LEMMA DerivedMended ==
    ASSUME NEW e
    PROVE  Derived(Mended(e)) = Derived(e) \ LoadErrors(e)
<1>1. ASSUME NEW k \in Forbidden
      PROVE  /\ k \in LoadErrors(e) => Mended(e)[k].is = "unset"
             /\ k \notin LoadErrors(e) => Mended(e)[k] = e[k]
  <2>1. Mended(e)[k] = IF k \in LoadErrors(e) THEN Repaired(k) ELSE e[k]
    BY DEF Mended, Names
  <2>2. k \notin Texts
    BY NamesDiffer
  <2>. QED BY <2>1, <2>2, RepairedIs
<1>. QED BY <1>1 DEF Derived

\* The numbers that must fit in 32 bits.
Fits(v) == v \in (-MaxInt32 - 1)..MaxInt32

\* The defaults fit in 32 bits.
LEMMA DefaultsFit == \A k \in Int32s : Fits(DefaultNumber[k])
<1>1. Fits(10) /\ Fits(1)
  BY ConfigAssumptions DEF Fits
<1>. QED BY <1>1, GoodPools DEF Int32s

\* A number that is repaired parses, and the others parse as before.
LEMMA ParseMended ==
    ASSUME NEW e
    PROVE  parseErrors(Mended(e)) \subseteq parseErrors(e) \ LoadErrors(e)
<1>. DEFINE f == Mended(e)
<1>1. ASSUME NEW k \in Numbers
      PROVE  /\ k \in LoadErrors(e) => f[k].is = "unset"
             /\ k \notin LoadErrors(e) => f[k] = e[k]
  <2>1. f[k] = IF k \in LoadErrors(e) THEN Repaired(k) ELSE e[k]
    BY DEF Mended, Names
  <2>2. k \notin Texts
    BY NamesDiffer
  <2>. QED BY <2>1, <2>2, RepairedIs
<1>. HIDE DEF f
<1>2. ASSUME NEW k \in Numbers
      PROVE  /\ k \in LoadErrors(e) => intEnv(f, k) = DefaultNumber[k]
             /\ k \notin LoadErrors(e) => intEnv(f, k) = intEnv(e, k)
  BY <1>1 DEF intEnv
<1>3. ASSUME NEW x
      PROVE  parseErrors(x) = {k \in Numbers : x[k].is = "text"}
                                  \cup {k \in Int32s : ~Fits(intEnv(x, k))}
  BY DEF parseErrors, Fits
<1>4. ASSUME NEW k \in parseErrors(f) PROVE k \in parseErrors(e) \ LoadErrors(e)
  <2>1. k \in Numbers
    BY <1>3, <1>4, NamesDiffer
  <2>2. CASE k \in LoadErrors(e)
    BY <1>1, <1>2, <1>3, <1>4, <2>1, <2>2, DefaultsFit
  <2>3. CASE k \notin LoadErrors(e)
    BY <1>1, <1>2, <1>3, <1>4, <2>1, <2>3
  <2>. QED BY <2>2, <2>3
<1>. QED BY <1>4 DEF f

\* One repair clears one more stage.
LEMMA RepairClears ==
    ASSUME NEW e, NEW n \in 0..3, \A k \in Names : IsSetting(e[k]), Cleared(e, n)
    PROVE  Cleared(Mended(e), n + 1) /\ \A k \in Names : IsSetting(Mended(e)[k])
<1>. DEFINE f == Mended(e)
<1>1. Derived(f) = Derived(e) \ LoadErrors(e) /\ parseErrors(f) \subseteq parseErrors(e) \ LoadErrors(e)
  BY DerivedMended, ParseMended
<1>2. \A k \in Names : IsSetting(f[k])
  BY RepairedIs DEF Mended
<1>. HIDE DEF f
<1>3. CASE "POSTGRES_URL" \in Derived(e)
  <2>1. "POSTGRES_URL" \notin Derived(f)
    BY <1>1, <1>3, Stages
  <2>2. n = 0
    BY <1>3 DEF Cleared
  <2>. QED BY <1>2, <2>1, <2>2 DEF Cleared, f
<1>4. CASE Derived(e) = {"REDIS_ADDR"}
  <2>1. Derived(f) = {}
    BY <1>1, <1>4, Stages
  <2>2. n <= 1
    BY <1>4 DEF Cleared
  <2>. QED BY <1>2, <2>1, <2>2 DEF Cleared, f
<1>5. CASE Derived(e) = {} /\ parseErrors(e) # {}
  <2>1. Derived(f) = {} /\ parseErrors(f) = {}
    BY <1>1, <1>5, Stages
  <2>2. n <= 2
    BY <1>5 DEF Cleared
  <2>. QED BY <1>2, <2>1, <2>2 DEF Cleared, f
<1>6. CASE Derived(e) = {} /\ parseErrors(e) = {}
  <2>1. Derived(f) = {} /\ parseErrors(f) = {} /\ LoadErrors(e) = validate(Values(e))
    BY <1>1, <1>6, Stages
  <2>2. \A k \in Numbers : Values(e)[k] \in Int
    BY NumbersAreInts
  <2>3. ASSUME NEW k \in Texts \cup Numbers
        PROVE  Values(f)[k] = IF k \in validate(Values(e)) THEN Default(k) ELSE Values(e)[k]
    BY <2>1, MendedValues, NamesDiffer DEF Default, f
  <2>4. validate(Values(f)) = {}
    BY <2>2, <2>3, OneRepairIsEnough
  <2>. QED BY <1>2, <2>1, <2>4 DEF Cleared, f
<1>. QED BY <1>3, <1>4, <1>5, <1>6, Stages

\* A cleared environment is loaded.
LEMMA ClearedLoads ==
    ASSUME NEW e, Cleared(e, 4)
    PROVE  LoadErrors(e) = {}
BY Stages DEF Cleared

\* Each refusal cleared a stage: the invariant of the configuration.
RepairInv ==
    /\ refused \in 0..4
    /\ pc = "config" => Cleared(env, refused) /\ \A k \in Names : IsSetting(env[k])
    /\ pc = "refused" => /\ refused # 0
                         /\ Cleared(env, refused - 1)
                         /\ \A k \in Names : IsSetting(env[k])

\* No stage is cleared at first.
LEMMA RepairInit == Init => RepairInv
BY EnvsAssumption DEF Init, RepairInv, Cleared

\* A refusal keeps what is cleared, and a repair clears one more stage.
LEMMA RepairStep == RepairInv /\ [Next]_vars => RepairInv'
<1>. SUFFICES ASSUME RepairInv, [Next]_vars PROVE RepairInv'
  OBVIOUS
<1>1. CASE LoadConfig
  <2>1. CASE LoadErrors(env) = {}
    BY <1>1, <2>1 DEF LoadConfig, RepairInv
  <2>2. CASE LoadErrors(env) # {}
    <3>1. refused # 4
      BY <1>1, <2>2, ClearedLoads DEF LoadConfig, RepairInv
    <3>2. refused + 1 \in 0..4 /\ refused + 1 # 0 /\ (refused + 1) - 1 = refused
      BY <3>1 DEF RepairInv
    <3>3. pc' = "refused" /\ refused' = refused + 1 /\ env' = env
      BY <1>1, <2>2 DEF LoadConfig
    <3>4. Cleared(env, refused) /\ \A k \in Names : IsSetting(env[k])
      BY <1>1 DEF LoadConfig, RepairInv
    <3>. QED BY <3>2, <3>3, <3>4 DEF RepairInv
  <2>. QED BY <2>1, <2>2
<1>2. CASE Repair
  <2>1. env' = Mended(env) /\ pc' = "config" /\ refused' = refused
    BY <1>2 DEF Repair, Mended
  <2>2. refused - 1 \in 0..3 /\ (refused - 1) + 1 = refused
    BY <1>2 DEF Repair, RepairInv
  <2>3. Cleared(env, refused - 1) /\ \A k \in Names : IsSetting(env[k])
    BY <1>2 DEF Repair, RepairInv
  <2>4. Cleared(Mended(env), (refused - 1) + 1) /\ \A k \in Names : IsSetting(Mended(env)[k])
    BY <2>2, <2>3, RepairClears
  <2>. QED BY <2>1, <2>2, <2>4 DEF RepairInv
<1>3. CASE pc' \notin {"config", "refused"} /\ refused' = refused
  BY <1>3 DEF RepairInv
<1>4. CASE pc' = pc /\ env' = env /\ refused' = refused
  BY <1>4 DEF RepairInv
<1>5. CASE Main /\ ~LoadConfig
  BY <1>3, <1>5
  DEF Main, NewPostgres, NewRedis, RedisConnected, NewAPIServer, NewGameServer, WiringFails,
      registerGameServer, BeginShutdown, ListenerEnded, ShutdownCompletes, ShutdownTimeout,
      AfterShutdown, Drain, Destroy, Deregister, CloseRedis, ClosePool, Stop, configVars
<1>6. CASE Listen \/ ServeFails \/ Signal
  BY <1>4, <1>6 DEF Listen, ServeFails, Signal, configVars, beside
<1>7. CASE \E r \in Requests : Accept(r) \/ BeginQuery(r) \/ EndQuery(r) \/ EndRequest(r)
  BY <1>4, <1>7 DEF Accept, BeginQuery, EndQuery, EndRequest, Moves, configVars, beside
<1>8. CASE UNCHANGED vars
  BY <1>4, <1>8 DEF vars, configVars
<1>. QED BY <1>1, <1>2, <1>5, <1>6, <1>7, <1>8 DEF Next

\* An operator who repairs what each error names starts at most four times in
\* vain, from any environment: a stage names all that is wrong with it, and the
\* repairs do not upset each other.
THEOREM FourStartsSuffice == Spec => []RepairsSuffice
<1>1. RepairInv => RepairsSuffice
  BY DEF RepairInv, RepairsSuffice
<1>. QED BY <1>1, RepairInit, RepairStep, PTL DEF Spec
==============================================================================
