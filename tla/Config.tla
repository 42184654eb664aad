------------------------------- MODULE Config -------------------------------
(***************************************************************************)
(* The configuration: LoadWithSource of internal/config, from an           *)
(* environment to a configuration or to the variables it complains about,  *)
(* and what the constructors of the two servers demand of a configuration  *)
(* that was accepted.                                                      *)
(*                                                                         *)
(* env[k] says how variable k is set.  Numbers stand for integers and for  *)
(* durations in seconds; texts are told apart only where the code does.    *)
(***************************************************************************)
EXTENDS Integers

CONSTANTS
    MaxInt32,       \* math.MaxInt32
    UnfitSegments,  \* texts with a colon or whitespace inside
    UnparsableAddrs \* texts without a port that strconv.ParseUint takes

ASSUME ConfigAssumptions == MaxInt32 \in Nat /\ MaxInt32 > 10    \* the defaults fit

-----------------------------------------------------------------------------
(***************************************************************************)
(* The variables and their defaults                                        *)
(***************************************************************************)
Unset == [is |-> "unset"]
Empty == [is |-> "empty"]
Blank == [is |-> "blank"]
Text(t) == [is |-> "text", text |-> t]
Number(n) == [is |-> "number", number |-> n]

IsSetting(v) == /\ v.is \in {"unset", "empty", "blank", "text", "number"}
                /\ v.is = "number" => v.number \in Int

DefaultText == [APP_NAME |-> "rpg-backend", APP_ENV |-> "local", LOG_LEVEL |-> "info",
                LOG_FORMAT |-> "text", API_HTTP_ADDR |-> ":8080",
                API_ALLOWED_ORIGINS |-> "http://localhost:3000",
                GAME_ENET_ADDR |-> ":7777", GAME_HTTP_ADDR |-> ":8081",
                POSTGRES_HOST |-> "localhost", POSTGRES_USER |-> "",
                POSTGRES_PASSWORD |-> "", POSTGRES_DB |-> "", POSTGRES_SSLMODE |-> "disable",
                REDIS_HOST |-> "localhost", REDIS_PASSWORD |-> ""]

DefaultNumber == [SHUTDOWN_TIMEOUT |-> 10,
                  AUTH_RATE_LIMIT_WINDOW |-> 60, AUTH_RATE_LIMIT_BURST |-> 10,
                  POSTGRES_PORT |-> 5432, POSTGRES_MAX_CONNS |-> 10, POSTGRES_MIN_CONNS |-> 1,
                  POSTGRES_MAX_CONN_LIFETIME |-> 3600, POSTGRES_MAX_CONN_IDLE_TIME |-> 1800,
                  POSTGRES_HEALTH_CHECK_PERIOD |-> 60,
                  REDIS_PORT |-> 6379, REDIS_DB |-> 0, REDIS_DIAL_TIMEOUT |-> 5,
                  REDIS_READ_TIMEOUT |-> 3, REDIS_WRITE_TIMEOUT |-> 3,
                  REDIS_POOL_SIZE |-> 10, REDIS_MIN_IDLE_CONNS |-> 1]

Texts == DOMAIN DefaultText
Numbers == DOMAIN DefaultNumber
Int32s == {"POSTGRES_MAX_CONNS", "POSTGRES_MIN_CONNS"}

Passwords == {"POSTGRES_PASSWORD", "REDIS_PASSWORD"}

\* Derived from other variables, and refused when set.
Forbidden == {"POSTGRES_URL", "REDIS_ADDR"}

Names == Texts \cup Numbers \cup Forbidden

-----------------------------------------------------------------------------
(***************************************************************************)
(* Parsing                                                                 *)
(***************************************************************************)
\* A text that is set counts even if it is blank; rawEnv does not trim it.
stringEnv(env, k) == CASE env[k].is = "unset" -> DefaultText[k]
                       [] env[k].is = "empty" -> ""
                       [] env[k].is = "blank" -> IF k \in Passwords THEN " " ELSE ""
                       [] env[k].is = "text" -> env[k].text
                       [] env[k].is = "number" -> "digits"

\* A number that is blank is as good as unset.
intEnv(env, k) == IF env[k].is = "number" THEN env[k].number ELSE DefaultNumber[k]

\* Not a number; or one of the two that must fit in 32 bits and does not.
parseErrors(env) ==
    {k \in Numbers : env[k].is = "text"}
        \cup {k \in Int32s : intEnv(env, k) \notin (-MaxInt32 - 1)..MaxInt32}

\* The items of a list that are not blank.
csvEnv(text) == {text} \ {"", ","}

Values(env) == [k \in Texts \cup Numbers |->
                  IF k \in Texts THEN stringEnv(env, k) ELSE intEnv(env, k)]

-----------------------------------------------------------------------------
(***************************************************************************)
(* Validation: the variables of the errors that are joined                 *)
(***************************************************************************)
OneOf == [APP_ENV |-> {"local", "development", "testing", "staging", "production"},
          LOG_LEVEL |-> {"debug", "info", "warn", "error"},
          LOG_FORMAT |-> {"text", "json"},
          POSTGRES_SSLMODE |-> {"disable", "require", "verify-ca", "verify-full"}]

\* validate is given the variables that must not be blank, those that must be
\* positive, and those that must not be negative.
Violations(cfg, choices, required, positive, natural) ==
    {k \in choices : cfg[k] \notin OneOf[k]}
        \cup {k \in required : cfg[k] = ""}
        \cup {k \in positive : cfg[k] <= 0}
        \cup {k \in natural : cfg[k] < 0}

PortErrors(cfg, k) == IF cfg[k] \in 1..65535 THEN {} ELSE {k}

PostgresErrors(cfg) ==
    Violations(cfg, {"POSTGRES_SSLMODE"},
               {"POSTGRES_HOST", "POSTGRES_USER", "POSTGRES_PASSWORD", "POSTGRES_DB"},
               {"POSTGRES_MAX_CONNS", "POSTGRES_HEALTH_CHECK_PERIOD"},
               {"POSTGRES_MIN_CONNS", "POSTGRES_MAX_CONN_LIFETIME", "POSTGRES_MAX_CONN_IDLE_TIME"})
        \cup PortErrors(cfg, "POSTGRES_PORT")
        \cup (IF cfg.POSTGRES_MAX_CONNS < cfg.POSTGRES_MIN_CONNS THEN Int32s ELSE {})

RedisErrors(cfg) ==
    Violations(cfg, {}, {"REDIS_HOST"},
               {"REDIS_POOL_SIZE", "REDIS_DIAL_TIMEOUT", "REDIS_READ_TIMEOUT", "REDIS_WRITE_TIMEOUT"},
               {"REDIS_DB", "REDIS_MIN_IDLE_CONNS"})
        \cup PortErrors(cfg, "REDIS_PORT")
        \cup (IF cfg.REDIS_MIN_IDLE_CONNS > cfg.REDIS_POOL_SIZE
              THEN {"REDIS_MIN_IDLE_CONNS", "REDIS_POOL_SIZE"} ELSE {})

TopErrors(cfg) ==
    Violations(cfg, {"APP_ENV", "LOG_LEVEL", "LOG_FORMAT"},
               {"APP_NAME", "API_HTTP_ADDR", "GAME_ENET_ADDR", "GAME_HTTP_ADDR"},
               {"SHUTDOWN_TIMEOUT", "AUTH_RATE_LIMIT_WINDOW", "AUTH_RATE_LIMIT_BURST"}, {})
        \cup {k \in {"API_ALLOWED_ORIGINS"} : csvEnv(cfg[k]) = {}}

\* Mutant: it returns at the first section with an error.
validate_First(cfg) == IF TopErrors(cfg) # {} THEN TopErrors(cfg)
                       ELSE IF PostgresErrors(cfg) # {} THEN PostgresErrors(cfg)
                       ELSE RedisErrors(cfg)

validate(cfg) == TopErrors(cfg) \cup PostgresErrors(cfg) \cup RedisErrors(cfg)

\* The variables that the error of LoadWithSource names; none if it succeeds.
\* The four stages report one after the other.
LoadErrors(env) ==
    LET set == {k \in Forbidden : env[k].is \in {"text", "number"}}
    IN  CASE "POSTGRES_URL" \in set -> {"POSTGRES_URL"}
          [] set = {"REDIS_ADDR"} -> set
          [] set = {} /\ parseErrors(env) # {} -> parseErrors(env)
          [] OTHER -> validate(Values(env))

-----------------------------------------------------------------------------
(***************************************************************************)
(* What the constructors demand                                            *)
(***************************************************************************)
validateSegment(segment) == segment \notin UnfitSegments \cup {""}

\* NewKeyBuilder, from both servers.
KeyBuilderErrors(cfg) == {k \in {"APP_NAME", "APP_ENV"} : ~validateSegment(cfg[k])}

\* NewRateLimiter and NewServer.
APIErrors(cfg) == {k \in {"AUTH_RATE_LIMIT_WINDOW", "AUTH_RATE_LIMIT_BURST"} : cfg[k] <= 0}
                      \cup {k \in {"API_HTTP_ADDR"} : cfg[k] = ""}

\* NewGameServer; splitHostPort is asked when ENet is initialised already.
GameErrors(cfg) == {k \in {"GAME_ENET_ADDR", "GAME_HTTP_ADDR"} : cfg[k] = ""}

splitHostPortFails(addr) == addr \in UnparsableAddrs

WireErrors(service, cfg) == KeyBuilderErrors(cfg)
                                \cup IF service = "api" THEN APIErrors(cfg) ELSE GameErrors(cfg)
=============================================================================
