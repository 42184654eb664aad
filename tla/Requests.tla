------------------------------ MODULE Requests ------------------------------
(***************************************************************************)
(* The path of an HTTP request through the API server: the middleware that *)
(* StandardMiddleware and newAPIServerOptions put around the routes, the   *)
(* interceptors of the RPCs, the handlers, and on the way back the metrics *)
(* and the log.  RateLimiter is the limiter on that path; its Requests are *)
(* the requests of this module, and those that are not limited never begin *)
(* there.                                                                  *)
(*                                                                         *)
(* A request is served by a goroutine of its own.  What it does between    *)
(* two touches of shared state (Redis, the metrics) is one step.  A        *)
(* handler may panic: the panic unwinds everything up to                   *)
(* RecoveryMiddleware, and nothing on that way is deferred.                *)
(***************************************************************************)
EXTENDS RateLimiter, Sequences

CONSTANTS
    Arriving,       \* Arriving[r]: the requests r may turn out to be
    AllowedOrigins, \* configured origins; one of them may be "*"
    Sessions,       \* session tokens
    Absent          \* a header that was not sent

VARIABLES
    in,             \* in[r]: the request as it arrived, or Absent
    at,             \* at[r]: the next step of its goroutine
    code,           \* code[r]: how its RPC ended, "none" so far
    status,         \* status[r]: the status written to the client, 0 so far
    user,           \* user[r]: the session whose user was attached, or Absent
    ran,            \* the requests whose handler was entered
    logged,         \* logged[r]: the lines written about r
    counters,       \* Metrics.counters, and the counts of Metrics.timers:
    timers          \* maps from the labels recorded so far to numbers

metrics == <<counters, timers>>
progress == <<at, code, status, user, ran, logged>>
serverVars == <<in, progress, metrics>>

-----------------------------------------------------------------------------
(***************************************************************************)
(* Routes and errors                                                       *)
(***************************************************************************)
\* Ping, Register and Login need no session.
PublicProcedures == {"Ping", "Register", "Login"}

\* cfg.Procedures by default.
LimitedProcedures == {"Register", "Login"}

ProtectedProcedures == {"Logout", "CreateCharacter", "ListCharacters",
                        "ListGameServers", "IssueJoinToken"}

\* The sentinels of domain/errors.go in the order connectCodeAndMessage asks
\* for them, with the code each stands for.
Sentinels == << <<"ErrInvalidArgument", "invalid_argument">>,
                <<"ErrUnauthenticated", "unauthenticated">>,
                <<"ErrPermissionDenied", "permission_denied">>,
                <<"ErrAlreadyExists", "already_exists">>,
                <<"ErrNotFound", "not_found">>,
                <<"ErrConflict", "failed_precondition">>,
                <<"ErrUnavailable", "unavailable">> >>

\* An error is the set of sentinels it wraps; the first one asked for decides.
connectCode(err) ==
    LET hits == {i \in DOMAIN Sentinels : Sentinels[i][1] \in err}
    IN  IF hits = {} THEN "internal" ELSE Sentinels[Min(hits)][2]

\* A Redis command failed.
redisUnavailable == {"ErrUnavailable"}

\* The errors of a handler, in its own code or in the service it calls.
PingErrors == {}
ListGameServersErrors == {redisUnavailable, {"ErrInternal"}}
IssueJoinTokenErrors == {{"ErrInvalidArgument"}, {"ErrNotFound"}, {"ErrPermissionDenied"},
                         redisUnavailable, {}}
RegisterErrors == {{"ErrInvalidArgument"}, {"ErrAlreadyExists"}, redisUnavailable, {}}
LoginErrors == {{"ErrInvalidArgument"}, {"ErrUnauthenticated"}, redisUnavailable, {}}
LogoutErrors == {redisUnavailable}
CreateCharacterErrors == {{"ErrInvalidArgument"}, {"ErrAlreadyExists"}, {}}
ListCharactersErrors == {{"ErrInvalidArgument"}, {}}

HandlerErrors == [Ping |-> PingErrors, Register |-> RegisterErrors, Login |-> LoginErrors,
                  Logout |-> LogoutErrors, CreateCharacter |-> CreateCharacterErrors,
                  ListCharacters |-> ListCharactersErrors,
                  ListGameServers |-> ListGameServersErrors,
                  IssueJoinToken |-> IssueJoinTokenErrors]

\* The status of the Connect protocol for the code of a unary RPC.
HTTPStatus(c) == CASE c = "ok" -> 200
                   [] c \in {"invalid_argument", "failed_precondition"} -> 400
                   [] c = "unauthenticated" -> 401
                   [] c = "permission_denied" -> 403
                   [] c = "not_found" -> 404
                   [] c = "already_exists" -> 409
                   [] c = "resource_exhausted" -> 429
                   [] c = "unavailable" -> 503
                   [] OTHER -> 500

\* Connect, gRPC and gRPC-Web are served by the same handlers.
Protocols == {"connect", "grpc", "grpc-web"}

\* gRPC and gRPC-Web answer 200 and put the code into the trailers.
ResponseStatus(q, c) == IF q.protocol = "connect" THEN HTTPStatus(c) ELSE 200

-----------------------------------------------------------------------------
(***************************************************************************)
(* State                                                                   *)
(***************************************************************************)
Steps == {"idle", "ready", "scrape", "limit", "auth", "handle",
          "rpcCount", "rpcTimer", "httpCount", "httpTimer", "done"}

Codes == {"none", "ok", "resource_exhausted", "internal", "panic"}
            \cup {Sentinels[i][2] : i \in DOMAIN Sentinels}

PipelineTypeOK ==
    /\ TypeOK
    /\ \A r \in Requests : in[r] \in Arriving[r] \cup {Absent}
    /\ at \in [Requests -> Steps]
    /\ code \in [Requests -> Codes]
    /\ status \in [Requests -> {0, 204} \cup {HTTPStatus(c) : c \in Codes}]
    /\ user \in [Requests -> Sessions \cup {Absent}]
    /\ ran \subseteq Requests
    /\ \A r \in Requests : Len(logged[r]) <= 2
    /\ counters \in [DOMAIN counters -> Nat \ {0}]
    /\ timers \in [DOMAIN timers -> Nat \ {0}]

ServerInit ==
    /\ Init
    /\ in = [r \in Requests |-> Absent]
    /\ at = [r \in Requests |-> "idle"]
    /\ code = [r \in Requests |-> "none"]
    /\ status = [r \in Requests |-> 0]
    /\ user = [r \in Requests |-> Absent]
    /\ ran = {}
    /\ logged = [r \in Requests |-> <<>>]
    /\ counters = <<>>
    /\ timers = <<>>

Go(r, s) == at' = [at EXCEPT ![r] = s]

\* The first status that is written is the one the client gets.
WriteHeader(r, n) == status' = [status EXCEPT ![r] = IF @ = 0 THEN n ELSE @]

\* The route, or a middleware before it, has written its answer.
Answered(r, n) == /\ WriteHeader(r, n)
                  /\ Go(r, "httpCount")
                  /\ UNCHANGED code

\* The interceptors inside the metrics return.
EndRPC(r, c) == /\ code' = [code EXCEPT ![r] = c]
                /\ Go(r, "rpcCount")
                /\ UNCHANGED status

\* The ID the client sent, or a new one.
normalizeRequestID(r) == IF in[r].id = Absent THEN <<"uuid", r>> ELSE <<"given", in[r].id>>

Log(r, entry) ==
    logged' = [logged EXCEPT ![r] = Append(@, [id |-> normalizeRequestID(r), entry |-> entry])]

-----------------------------------------------------------------------------
(***************************************************************************)
(* The way in                                                              *)
(***************************************************************************)
isOriginAllowed(origin) == "*" \in AllowedOrigins \/ origin \in AllowedOrigins

\* CORSMiddleware answers by itself, or 0.
CORSAnswer(q) == CASE q.origin # Absent /\ ~isOriginAllowed(q.origin) -> 403
                   [] q.method = "OPTIONS" -> 204
                   [] OTHER -> 0

\* The first step of the handler a path is routed to.
Route(path) == CASE path = "/readyz" -> "ready"
                 [] path = "/metrics" -> "scrape"
                 [] path \in LimitedProcedures -> "limit"
                 [] path \in PublicProcedures \ LimitedProcedures -> "handle"
                 [] path \in ProtectedProcedures -> "auth"

\* From WithRequestID to the route.
Arrive(r, q) ==
    /\ at[r] = "idle"
    /\ in' = [in EXCEPT ![r] = q]
    /\ LET cors == CORSAnswer(q)
       IN  CASE cors # 0 -> Answered(r, cors)
             [] cors = 0 /\ q.route = "/healthz" -> Answered(r, 200)
             [] cors = 0 /\ q.route = "/unmounted" -> Answered(r, 404)
             [] OTHER -> Go(r, Route(q.route)) /\ UNCHANGED <<code, status>>
    /\ UNCHANGED <<vars, user, ran, logged, metrics>>

\* Both stores are pinged, within a timeout.
Ready(r) ==
    /\ at[r] = "ready"
    /\ \/ Answered(r, 200)
       \/ Answered(r, 503)
    /\ UNCHANGED <<vars, in, user, ran, logged, metrics>>

\* Render holds the mutex: it reads the counters and timers of one moment.
Scrape(r) ==
    /\ at[r] = "scrape"
    /\ Answered(r, 200)
    /\ UNCHANGED <<vars, in, user, ran, logged, metrics>>

\* The address a proxy reports; "" where a header names none.
defaultRateLimitKey(q) ==
    CASE q.forwarded \notin {Absent, ""} -> q.forwarded
      [] q.forwarded \in {Absent, ""} /\ q.forwardedFor # Absent -> q.forwardedFor
      [] OTHER -> IF q.realIP # Absent THEN q.realIP ELSE "anonymous"

Client(q) == LET caller == defaultRateLimitKey(q)
             IN  <<q.route, IF caller = "" THEN "unknown" ELSE caller>>

\* Clients has everybody who may call.
ASSUME ClientsAssumption == \A r \in Requests : \A q \in Arriving[r] : Client(q) \in Clients

\* A request is for one of the routes, and its token is one or missing.
ASSUME ArrivingAssumption ==
    \A r \in Requests : \A q \in Arriving[r] :
       /\ q.route \in {"/healthz", "/readyz", "/metrics", "/unmounted"}
                        \cup PublicProcedures \cup ProtectedProcedures
       /\ q.token \in Sessions \cup {Absent}
       /\ q.protocol \in Protocols

\* Mutant: a limiter that fails lets the request through.
AfterAllow_Open(r, verdict) ==
    CASE verdict \in {"allowed", "unavailable"} -> Go(r, "handle") /\ UNCHANGED <<code, status>>
      [] verdict = "exceeded" -> EndRPC(r, "resource_exhausted")
      [] OTHER -> UNCHANGED <<at, code, status>>

\* Mutant: the verdict itself is the code.
AfterAllow_Raw(r, verdict) ==
    CASE verdict = "allowed" -> Go(r, "handle") /\ UNCHANGED <<code, status>>
      [] verdict \in {"exceeded", "unavailable"} -> EndRPC(r, verdict)
      [] OTHER -> UNCHANGED <<at, code, status>>

\* What the interceptor does with the answer of Allow.
AfterAllow(r, verdict) ==
    CASE verdict = "allowed" -> Go(r, "handle") /\ UNCHANGED <<code, status>>
      [] verdict = "exceeded" -> EndRPC(r, "resource_exhausted")
      [] verdict = "unavailable" -> EndRPC(r, "unavailable")
      [] OTHER -> UNCHANGED <<at, code, status>>

\* A step of RateLimiter.Allow, for the caller of r.
Allow(r) ==
    /\ at[r] = "limit"
    /\ \/ Begin(r, Client(in[r]))
       \/ Incr(r) \/ IncrResent(r) \/ IncrFails(r)
       \/ Expire(r) \/ ExpireFails(r)
    /\ AfterAllow(r, stage'[r])
    /\ UNCHANGED <<in, user, ran, logged, metrics>>

\* The auth interceptor.  GET of the session finds it (UserSessions says
\* when), does not find it, or fails.
Authenticate(r) ==
    /\ at[r] = "auth"
    /\ \/ /\ in[r].token # Absent
          /\ user' = [user EXCEPT ![r] = in[r].token]
          /\ Go(r, "handle")
          /\ UNCHANGED <<code, status>>
       \/ EndRPC(r, connectCode({"ErrUnauthenticated"})) /\ UNCHANGED user
       \/ in[r].token # Absent /\ EndRPC(r, connectCode(redisUnavailable)) /\ UNCHANGED user
    /\ UNCHANGED <<vars, in, ran, logged, metrics>>

-----------------------------------------------------------------------------
(***************************************************************************)
(* The handler and the way back                                            *)
(***************************************************************************)
Handle(r) ==
    /\ at[r] = "handle"
    /\ ran' = ran \cup {r}
    /\ \/ EndRPC(r, "ok")
       \/ \E err \in HandlerErrors[in[r].route] : EndRPC(r, connectCode(err))
    /\ UNCHANGED <<vars, in, user, logged, metrics>>

\* connect.CodeOf(nil) is CodeUnknown, so successes have that label.
CodeLabel(c) == IF c = "ok" THEN "unknown" ELSE c

RPCLabels(r) == [procedure |-> in[r].route, code |-> CodeLabel(code[r])]

HTTPLabels(r) == [method |-> in[r].method, path |-> in[r].route, status |-> status[r]]

\* A label that was never recorded counts as 0.
Count(m, label) == IF label \in DOMAIN m THEN m[label] ELSE 0

OneMore(m, label) ==
    [l \in DOMAIN m \cup {label} |-> Count(m, l) + IF l = label THEN 1 ELSE 0]

Inc(label) == counters' = OneMore(counters, label)

ObserveDuration(label) == timers' = OneMore(timers, label)

\* Mutant: the HTTP metrics are deferred; the recorder has seen no status.
Panic_Deferred(r) ==
    /\ at[r] = "handle"
    /\ ran' = ran \cup {r}
    /\ code' = [code EXCEPT ![r] = "panic"]
    /\ Inc([HTTPLabels(r) EXCEPT !.status = 200])
    /\ ObserveDuration([HTTPLabels(r) EXCEPT !.status = 200])
    /\ WriteHeader(r, 500)
    /\ Log(r, [line |-> "panic"])
    /\ Go(r, "done")
    /\ UNCHANGED <<vars, in, user>>

\* RecoveryMiddleware answers.  Neither the metrics nor the loggers inside it
\* run to their end.
Panic(r) ==
    /\ at[r] = "handle"
    /\ ran' = ran \cup {r}
    /\ code' = [code EXCEPT ![r] = "panic"]
    /\ WriteHeader(r, 500)
    /\ Log(r, [line |-> "panic"])
    /\ Go(r, "done")
    /\ UNCHANGED <<vars, in, user, metrics>>

RPCCount(r) ==
    /\ at[r] = "rpcCount"
    /\ Inc(RPCLabels(r))
    /\ Go(r, "rpcTimer")
    /\ UNCHANGED <<vars, in, code, status, user, ran, logged, timers>>

\* The second half of the metrics, the log of the RPC, and the answer.
RPCTimer(r) ==
    /\ at[r] = "rpcTimer"
    /\ ObserveDuration(RPCLabels(r))
    /\ Log(r, [line |-> "rpc", code |-> code[r]])
    /\ Answered(r, ResponseStatus(in[r], code[r]))
    /\ UNCHANGED <<vars, in, user, ran, counters>>

HTTPCount(r) ==
    /\ at[r] = "httpCount"
    /\ Inc(HTTPLabels(r))
    /\ Go(r, "httpTimer")
    /\ UNCHANGED <<vars, in, code, status, user, ran, logged, timers>>

\* Mutant: the recorder is not handed on.
HTTPTimer_Unrecorded(r) ==
    /\ at[r] = "httpTimer"
    /\ ObserveDuration(HTTPLabels(r))
    /\ Log(r, [line |-> "http", status |-> 200])
    /\ Go(r, "done")
    /\ UNCHANGED <<vars, in, code, status, user, ran, counters>>

HTTPTimer(r) ==
    /\ at[r] = "httpTimer"
    /\ ObserveDuration(HTTPLabels(r))
    /\ Log(r, [line |-> "http", status |-> status[r]])
    /\ Go(r, "done")
    /\ UNCHANGED <<vars, in, code, status, user, ran, counters>>

-----------------------------------------------------------------------------
Serve(r) == \/ \E q \in Arriving[r] : Arrive(r, q)
            \/ Ready(r) \/ Scrape(r)
            \/ Allow(r) \/ Authenticate(r)
            \/ Handle(r) \/ Panic(r)
            \/ RPCCount(r) \/ RPCTimer(r)
            \/ HTTPCount(r) \/ HTTPTimer(r)

ServerNext == \/ \E r \in Requests : Serve(r)
              \/ Tick /\ UNCHANGED serverVars

ServerSpec == ServerInit /\ [][ServerNext]_<<vars, serverVars>>

-----------------------------------------------------------------------------
(***************************************************************************)
(* Properties                                                              *)
(***************************************************************************)
\* A handler is entered only by a request that everything before it has let
\* through: its origin is allowed, it is no preflight, the limiter said yes
\* (and did not merely fail), and its session was found.
OnlyClearedRun ==
    \A r \in ran :
       /\ CORSAnswer(in[r]) = 0
       /\ in[r].route \in LimitedProcedures => stage[r] = "allowed" /\ got[r] <= Limit
       /\ in[r].route \in ProtectedProcedures => user[r] = in[r].token /\ user[r] # Absent

\* A request has an RPC label as well once it has the code of an RPC.
LabelsOf(r) == {HTTPLabels(r)} \cup {l \in {RPCLabels(r)} : code[r] # "none"}

\* The requests that have the label and are over, without a panic, or are
\* still on their way.
Labelled(label, steps) == {r \in Requests : /\ at[r] \in steps
                                            /\ code[r] # "panic"
                                            /\ label \in LabelsOf(r)}

Over(label) == Labelled(label, {"done"})

OnTheWay(label) == Labelled(label, Steps \ {"idle", "done"})

\* Whenever the metrics are scraped, they tell what the clients were told
\* whose requests did not panic: under every label the count and the number
\* of durations are the number of requests that were answered so, give or
\* take those still on their way.  A request that panicked is in no count,
\* although its client was answered.  The durations never run ahead of the
\* count, although the two are recorded under separate locks.
MetricsMatchAnswers ==
    \A label \in DOMAIN counters \cup DOMAIN timers
                    \cup UNION {LabelsOf(r) : r \in {q \in Requests : at[q] # "idle"}} :
       /\ Count(timers, label) <= Count(counters, label)
       /\ Cardinality(Over(label)) <= Count(timers, label)
       /\ Count(counters, label) <= Cardinality(Over(label) \cup OnTheWay(label))

\* A request that is over and did not panic was answered; its last line in
\* the log has the status the client got, and the line of its RPC the code
\* that its protocol answers so.  (A request that panicked has neither line,
\* only the one of RecoveryMiddleware, which has no status.)
LogMatchesAnswer ==
    \A r \in Requests : at[r] = "done" /\ code[r] # "panic" =>
       LET last == logged[r][Len(logged[r])].entry
           first == logged[r][1].entry
       IN  /\ last.line = "http" /\ last.status = status[r] /\ status[r] # 0
           /\ code[r] # "none" => /\ first.line = "rpc"
                                 /\ first.code = code[r]
                                 /\ status[r] = ResponseStatus(in[r], first.code)
=============================================================================
