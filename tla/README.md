# A verification project for the authoritative multiplayer RPG backend

TLA+ models of the backend, TLC configurations that check them on small
instances, and TLAPS proofs of the properties that matter most. Every definition
that models code is tied to its lines in `PROJECT.json` under `map`.

## The system

Two programs share a PostgreSQL database and a Redis instance. The **API server**
(`src/cmd/api`) serves ConnectRPC: registration, login, characters, game-server
list, join tokens. The **game server** (`src/cmd/game`) runs an authoritative
simulation for ENet peers. They never call each other: everything passes through
Redis keys with a time to live (TTL).

| Component | State | Operations | Talks to | What is hard | What makes it correct |
|---|---|---|---|---|---|
| Join handoff (`game/join.go`, `service/game.go`, `game/server.go`) | sessions and world of each game server, locks and tokens in Redis | issue a token, join, load, disconnect, shutdown, crash | both stores, Postgres, ENet | steps of several servers between single Redis commands, lost replies, partial failure, expiry in use | a token seats one peer, once, as issued; a character is played once; whoever plays owns the lock |
| Character-lock store (`store/redis/character_locks.go`) | one key per character | SETNX, renew and release scripts, owner lookup | Redis | renewal and release after expiry, retries of SETNX | a caller that keeps to its lease is the owner |
| Join-token store (`store/redis/join_tokens.go`) | one key per token | create, GETDEL | Redis | presented twice, lost reply | consumed at most once |
| Sessions (`store/redis/sessions.go`, `service/auth.go`, `api/auth.go`) | session keys, one index per user | create, look up, delete, delete all of a user | Redis | two keys that expire independently, logout in two commands, retries | the index is complete; a revoked session stays dead, unless its own login was still unanswered and sends its script again |
| Server registry (`store/redis/game_servers.go`) | one record per server, a shared index | register (three commands), heartbeat, deregister, list | Redis | crash between commands, listing that is not atomic, heartbeat against shutdown | live servers are found, dead ones are forgotten |
| Rate limiter (`store/redis/rate_limit.go`, `api/ratelimit.go`) | one counter per key and window | INCR, EXPIRE | Redis | two commands, window boundaries, windows that are not whole seconds, failures | at most `Limit` requests per counter and one counter per window of whole seconds, nobody refused before |
| HTTP middleware, error mapping, logging, metrics (`api/*.go`, `api/handlers`, `observability`) | per-request context, process-wide counters and timers | route, CORS, request ID, interceptors, handlers, recovery | limiter, session store, services | panics that unwind half of the chain, counter and duration under separate locks, a limiter that fails | only cleared requests reach a handler; of requests that did not panic, log and metrics say what the client was told |
| Game loop (`game/server.go`, `simulation.go`, `broadcast.go`, `snapshot.go`, `world.go`, `session.go`) | world, sessions, latest inputs, counters | ENet event, tick, broadcast | ENet | inputs that are lost, repeated or outdated, joins and leaves between ticks, broadcasts that fail | clamped speed, inputs applied once, a snapshot is late only by the broadcasts that failed |
| Accounts and characters (`store/postgres`, `service/auth.go`, `service/character.go`) | tables `users` and `characters` | register, log in, create, list | Postgres | races for a mailbox, statements that commit after their caller gave up, equal timestamps | a session is for whoever knows the password; lists are complete and stable |
| Process life cycle (`app`, `api/server.go`, `game/server.go`) | context, pool, client, ENet host, listener, requests in flight | start, serve, signal, shutdown of either program | operating system, net/http, ENet | failure of one of several steps, signal at any moment, handlers that do not end | stores and context never leak, the ENet host only after a failed registration; no store is closed under a request, the process ends |
| Configuration (`config`) | read once | parse, validate, derive | process start | errors found in stages, values checked again elsewhere | what it accepts can be wired; an operator needs few attempts |
| Transactions (`db/tx.go`) | one transaction per call | begin, work, commit, roll back | Postgres, pool | commits whose answer is lost, panics, cancelled callers, rollbacks that time out | success is committed, failed work has no effect, connections come back |
| Keys, validation, tokens, passwords, generated code | none | – | – | – | partly or not modelled, see below |

The hazards, each at its line and with the properties that would catch it, are in
`PROJECT.json` under `hazards`.

## Modules

| Module | Models | Composed from | Checked by | Proved in |
|---|---|---|---|---|
| `Domain` | the shared sets of users, characters and servers | | | |
| `CharacterLocks` | the lock store, operation by operation | `Domain` | through its users | through its users |
| `LockLeases` | arbitrary callers of the lock store | `CharacterLocks` | `lock_leases` | `JoinHandoff_proofs` |
| `JoinTokens` | the token store | `Domain` | through `JoinHandoff` | through `JoinHandoff` |
| `JoinGrant` | the abstract promise of a token | `Domain` | `handoff_safety` | `JoinHandoff_proofs`, as what the handoff implements |
| `JoinHandoff` | API server, game servers, locks and tokens together | `CharacterLocks`, `JoinTokens`, `JoinGrant` | `handoff_safety`, `handoff_double_load`, `handoff_world_cleanup` | `JoinHandoff_proofs` |
| `UserSessions` | session scripts and the RPCs over them | | `sessions` | `UserSessions_proofs` |
| `ServerRegistry` | registration, heartbeat, shutdown, listing | | `registry`, `registry_index_ttl` | `ServerRegistry_proofs` |
| `RateLimiter` | `Allow`, command by command | | `requests` | `Requests_proofs` |
| `Requests` | the path of a request through the API server, there and back | `RateLimiter` | `requests` | `Requests_proofs` |
| `GameLoop` | `runGameLoop`, event by event | | `game_loop` | `GameLoop_proofs` |
| `Accounts` | the two tables and their RPCs | | `accounts` | `Accounts_proofs` |
| `Config` | `LoadWithSource` and what constructors demand on top, as operators | | `processes` | `ServerProcess_proofs` |
| `ServerProcess` | `RunAPI` and `RunGame`, from configuration to exit | `Config` | `processes` | `ServerProcess_proofs` |
| `Transactions` | `InTx` and `RunAndCommit` on a pool | | `transactions` | `Transactions_proofs` |

`MC*` modules give TLC its instances. An operator whose comment begins with
*Mutant* is a plausible bug in the definition that follows it; no specification
uses it. Replacing the definition by it breaks the property that `PROJECT.json`
names under `mutants`.

### Conventions

* A step of a model is what happens between two points where others may run: for
  Redis and Postgres code, one command or one script. Work of one goroutine
  between two commands belongs to the step of the command before it.
* A command has up to four outcomes: executed and answered; failed without effect;
  executed while the caller sees an error; executed, resent by the client library
  (go-redis resends after a network error) and answered as the second execution
  sees it. For Postgres, which is not resent, a statement may also commit after its
  caller was told of an error.
* TTLs are small numbers that `Tick` (`LeaseTick`) decreases; 0 means that the key is gone.
  One clock stands for Redis and all servers.
* History variables, which no guard reads: `lapsed` (`JoinHandoff`), `lease` and
  `dead` (`LockLeases`, where a dead server calls no more), `revoked` and
  `unanswered` (`UserSessions`), `steady` and the reader's bookkeeping
  (`ServerRegistry`), `start` and `born`, the moment a counter began
  (`RateLimiter`), `quiet`, `missed`, `shownTick`, `heard`, `solo` and `tainted`
  (`GameLoop`), `late` (`Transactions`), `forced` and `refused` (`ServerProcess`).

### How state and actions correspond to the code

**JoinHandoff.** `lock[c]` and `grant[t]`, `tokenTTL[t]` are the Redis keys;
`sess[s]`, `world[s]` are `SessionManager` and `World` of server `s`; `conn[s][p]`
is ENet's state of a peer slot, which is reused after a disconnect. A game server
handles events on one goroutine, so `handler[s]` is the one handler at work:
`HandleJoinRequest` consumes the token, `AcquireLock` is SETNX, `Admit` or
`LoadFails` is `GetCharacterByID` and what follows, `UndoJoin` is the release on
failure. `HandleDisconnect` removes session and entity, `ReleaseOnDisconnect` is
the release script. `BeginShutdown`, `DrainSession`, `FinishShutdown` are
`GameServer.shutdown`. A server ID is a fresh UUID of the process, so a server that
stopped does not come back.

**UserSessions.** `ttl[i]` and `owner[i]` are the session keys, the index of a user
has members and a TTL of its own. `CreateSession`, `DeleteSession` and
`DeleteUserSessions` are the Lua scripts; `OpenSession`, `RetryOpen`,
`Authenticate`, `Serve`, `Logout`, `FinishLogout` and `RevokeUserSessions` are the
RPCs at the granularity of their commands. `Acknowledge` is what the client learns of
a revocation: from then on the session is in `revoked`, and in `unanswered` as well if
its login is between its script and the answer, where go-redis may send the script
again.

**ServerRegistry.** `rec[s]` is the TTL of a server's record, `idx` and `idxTTL` the
shared set. SET, SADD and EXPIRE are three steps of one registration, which is
made by `Run` or by the heartbeat goroutine; `BeginStop`, `Deregister`, `Exit` are
the shutdown, `Crash` may come anywhere. A reader lists with SMEMBERS and one GET
per member; `selectServer` takes the server that was asked for (`GetGameServerByID`) or
else the first one listed.

**RateLimiter.** A request reads the clock (`Begin`), increments (`Incr`,
`IncrResent`, `IncrFails`) and, if it saw 1, sets the expiry (`Expire`,
`ExpireFails`). `KeyOf`, what sanitising makes of a caller, is an arbitrary
function, so several clients may share a key; the counter belongs to a key and a
window (`redisKey`). Time runs in units of which a `Second` has several, because
go-redis sends EXPIRE in whole seconds: `formatSec` drops the rest of the window, and
makes less than a second a whole one. `Lifetime` is the window after that.

**Requests.** A request is one goroutine: `at[r]` is its place on the chain that
`StandardMiddleware` and `newAPIServerOptions` build. `Arrive` is everything from
`WithRequestID` to the router, `Allow` one command of `RateLimiter` with the
interceptor around it, `Authenticate` the auth interceptor, `Handle` a handler by
the errors it may return, `Panic` what `RecoveryMiddleware` catches. On the way back
`RPCCount`, `RPCTimer`, `HTTPCount`, `HTTPTimer` are the four sections under the
mutex of `Metrics`, each with the log line that follows it. `ResponseStatus` is the
HTTP status by protocol: a handler that connect-go mounts serves Connect, where it
follows the code of the RPC, and gRPC and gRPC-Web, where it is 200 whatever the code.
What handlers do to the
stores is in the other modules.

**GameLoop.** One iteration of the loop is an event (`Join`, `Disconnect`,
`ReceiveInput`, `NoEvent`), a tick or none, and a broadcast, one that fails
(`BroadcastFails`: marshalling or sending), a skipped broadcast or none. The counter is
reset whether the snapshot went out or not. A tick drains the sessions one by one (`RunTick` takes them into `todo`,
`DrainInputs` applies the input of one, `EndTick` counts) in any order, because
`SessionManager.All` ranges over a map; nothing else happens in between. Positions are on one axis and in units of the fraction of speed
that one unit of direction gives; `clampFloat` is kept, also in that it lets `NaN`
pass, after which every sum is `NaN`. `Join` and `Disconnect` are
the effects of the handoff on the world.

**Accounts.** `account[r]`, `char[r]` are the rows that request `r` inserted under
a fresh UUID. `Mailbox` and `NameKey` are what the validators and CITEXT make of an
input. `RegisterInsert`, `CreateInsert` are the INSERT statements with their
outcomes, `RegisterLate`, `CreateLate` the commits after the caller gave up.

**ServerProcess.** `pc` is the main goroutine of `RunAPI` or `RunGame`, `listener`
the goroutine that listens for HTTP. `LoadConfig` decides by `Config!LoadErrors`;
`Repair` is an operator who puts right the variables that the error names. `host` is
the ENet library and its host; a game server whose registration fails abandons it.
Shutdown of net/http and Close of the pool are modelled by what the code relies on:
the one waits for active requests, the other for connections in use. The commands of
registration, heartbeat and draining are in `ServerRegistry` and `JoinHandoff`.

**Transactions.** `pc[t]` is the place of a call of `InTx`, `tx[t]` its transaction
in Postgres. `BeginTx`, `Work`, `Commit`, `CommitReply`, `CommitFails`, `Rollback`
and `RollbackTimesOut` (the 5 s of `RollbackTimeout`, after which pgx closes the
connection) are its steps; `Cancel`, `ConnectionBreaks` and `Postgres` happen beside it.

## Runs

| Run | Instance | Shows |
|---|---|---|
| `handoff_safety` | 2 servers with 2 peers each, 2 users with a character each, 2 tokens, TTLs 2 | the handoff implements `JoinGrant`: a token seats one peer, once, on the server, as the user and character it was issued for (`ImplementsJoinGrant`); a character is played twice only after its lock expired in use (`DoubleLoadOnlyAfterLapse`), until then its player's server owns the lock (`HolderOwnsLock`), each player has an entity unless the lock lapsed (`PlayerHasEntity`) |
| `lock_leases` | 3 servers, 2 characters, requested TTLs -1, 0, 1, 3 | leases are sound (`LeaseIsSound`), every lock that is held has time left (`LeaseTypeOK`), and the lock of a server that crashed is gone in the end, whatever the others ask for (`DeadServersLoseLocks`); no late renewal or release of a former owner disturbs the next one |
| `sessions` | 2 users, 3 sessions, 2 RPCs at a time | complete index (`SessionIndexed`), no collateral revocation, and a session that was revoked lives again only if its login was unanswered when the revocation was acknowledged (`RevokedStaysDead`) |
| `registry` | 2 servers, TTL of two heartbeats | live servers visible, dead ones forgotten, the listing selects well: a server that ran throughout is returned if it was asked for, and none before it in the order is passed over |
| `requests` | 2 requests of 12 kinds in 3 protocols, 2 keys, limit 1, 2 windows of 3 units with a second of 2 units, 1 resend per command | at most the limit per counter, at most two counters per window, and a second one only when the life of the first is over (`AtMostLimitPerWindow`); nobody refused in a window that is not full (`RefusedOnlyWhenFull`); only cleared requests reach a handler (`OnlyClearedRun`); metrics and log say what the client was told, of requests that did not panic (`MetricsMatchAnswers`, `LogMatchesAnswer`) |
| `game_loop` | 2 peers, 2 characters, 5 ticks, broadcasts that fail | speed from one snapshot sent to the next (`SnapshotsMoveAtSpeed`), no ghost movement, a snapshot late only by the broadcasts that failed (`NobodyWaits`), and a direction that is not a number spoils only the entity of the peer that sent it (`NaNStaysHome`) |
| `accounts` | 5 RPCs, 2 spellings of one mailbox, 2 passwords, 2 names and a malformed one | a session is for whoever knows the password of the mailbox, lists agree and show what was acknowledged |
| `processes` | both programs, some 650 environments, 2 HTTP requests | stores and context never leak, and the ENet host only after a failed registration (`NothingLeaks`), stores outlive requests, an operator needs at most four repairs (`RepairsSuffice`), a process that is told to end does (`EndsWhenTold`) |
| `transactions` | 3 calls on 2 connections | success means committed, failed work has no effect, a rollback keeps the connection unless that broke or the rollback timed out (`RollbackKeepsConnection`), every call and transaction ends |

Three runs are expected to end in a violation; they are the findings:

| Run | Property | What happens |
|---|---|---|
| `handoff_double_load` | `NoDoubleLoad` | `docs/architecture/security.md` says the lock is renewed by the heartbeat and excludes a double load. Nothing renews it: after 20 s of play another server loads the character. |
| `handoff_world_cleanup` | `WorldEmptiesWithPeers` | A peer that joins a second time replaces its session; the first character's entity stays when the peer leaves. |
| `registry_index_ttl` | `IndexHasTTL` | A registration that ends between SADD and EXPIRE leaves an index without a TTL, against the comment at `game_servers.go:98`. |

Also seen while modelling, and part of the models as the code has it:

* A rate-limit counter whose EXPIRE fails, or whose first INCR is answered only
  after it was resent, keeps no TTL (`rate_limit.go:65`), although
  `docs/architecture/data-storage.md:28` says that all keys should have one. It stays
  in Redis but belongs to one window, so no limit is affected.
* A window that is longer than a second and not of whole seconds outlives its counter:
  `AUTH_RATE_LIMIT_WINDOW=1500ms`, which `config.go:163` accepts, becomes `EXPIRE 1`
  (`rate_limit.go:65`), and the last half second has a counter of its own. Up to twice
  the limit passes, where `docs/configuration.md:23` speaks of "Auth requests allowed
  per window". The run has such a window; for all others `WholeSecondsKeepLimit`.
* A login whose reply is lost is sent again by go-redis (`sessions.go:92`). When a
  revocation of all sessions was acknowledged in between, the session lives again.
* A broadcast that fails is logged and dropped (`game/broadcast.go:39`–`47`) while the
  counter is reset, so players wait `Divisor` ticks more.
* A rollback that takes longer than its own 5 s costs a connection that was good
  (`db/tx.go:79`).
* Requests without a proxy header share one rate-limit key, `anonymous`.
* A request that panicked is answered with 500, but neither counted nor logged by
  `LoggingMiddleware`, which "logs every completed HTTP request"
  (`api/logging.go:43`) and is said to observe the "final status"
  (`api/middleware.go:28`); only `RecoveryMiddleware` logs it. `MetricsMatchAnswers` and `LogMatchesAnswer` are about
  the other requests.
* Successful RPCs are counted with `code="unknown"`, because `connect.CodeOf(nil)`
  is `CodeUnknown` (`observability/rpc.go:23`). `Render` appends `_count` after the
  braces of the labels (`observability/metrics.go:122`); the text is not modelled.
* Parse errors hide validation errors, and forbidden variables are reported one at a
  time (`config/config.go:64`), so that the "full picture in a single error" of the
  comment at line 131 is that of one stage.
* An `APP_NAME` with a colon or whitespace and a `GAME_ENET_ADDR` that does not parse
  pass the validation and are refused by constructors, after both stores are open.
* A game server whose registration fails leaves its ENet host and health server to
  the operating system (`game/server.go:145`).
* `InTx` "rolls back on any error" cannot hold when the answer to COMMIT is lost
  (`db/tx.go:89`); `ResultsAreTrue` says what holds instead.

### Bounds, and why they are enough

* **Two competitors.** Exclusion, ownership and visibility are violated by two
  servers, or two peers, or not at all, and the central properties are proved for
  any number. `lock_leases` has three servers.
* **TTLs.** A TTL of 2 lets time pass within a handler with the key there and gone.
  `V_NoDoubleLoad.cfg` uses lock 1, token 3, the ratio of 20 s to 60 s.
  `ServerTTL = 2` is 10 s in heartbeats of 5 s.
* **Requests.** Two requests race for a limit of 1 and cross a boundary between two
  windows (`MaxBucket = 1`); `MaxRetries = 1` resend per request. `Window = 3` with
  `Second = 2` is a second and a half, the shortest window that outlives its counter. The limit itself is
  proved for any number. The kinds of requests are all routes outside the RPCs, one
  public, one limited and one protected procedure, good and bad origins, a preflight,
  each of the three protocols, and callers named by each header. One of the two is
  always a login, so that there is someone to race with. Requests are made once, so the instance ends:
  `CHECK_DEADLOCK FALSE`.
* **Game loop.** `MaxTick = 5` is two broadcast cycles of `Divisor = 2` and a tick, so
  that two broadcasts in a row may fail and a player still be seen to wait; direction -3
  lies beyond the clamp, the other is `NaN`; `Full = 2` is full speed. A direction within
  the clamp moves less; the proof covers it.
* **Accounts.** Five RPCs are two racing registrations and three logins, or one
  registration, two creations and two lists; one that leaves no trace may be made
  again. `UUIDs` bounds the characters, `MaxClock` the instants. The instance ends
  when all RPCs are answered: `CHECK_DEADLOCK FALSE`.
* **ServerProcess.** An environment is a good one with any one variable set in any
  of 13 ways, or with any subset of eight faults that meet every stage of
  `LoadWithSource`. `MaxInt32` is scaled down to 32767, above every other bound that
  applies to the two variables it limits. The process ends: `CHECK_DEADLOCK FALSE`.
* **Transactions.** With three calls on two connections one waits; a call is made
  once, so the instance ends: `CHECK_DEADLOCK FALSE`.
* **Symmetry** is used over tokens, peers, servers, users, passwords and requests
  where no constant tells them apart, and never in a liveness run.

### Fairness

* `LockLeases!LeaseFairSpec`: weak fairness of `LeaseTick`. Time passes in Redis whatever the
  servers do. No server is assumed to make progress.
* `ServerProcess!FairSpec`: weak fairness of the main goroutine, which the Go
  scheduler gives and which includes the expiry of the shutdown's context; and of
  `EndQuery`, that Postgres answers or the connection breaks. Handlers need not end.
* `Transactions!FairSpec`: weak fairness of each call's steps (the functions that
  are passed to `InTx` end, a rollback ends by its answer or by its timeout) and of Postgres, which finishes a COMMIT and aborts a
  transaction whose connection is gone.

## What is proved

Every invariant, every action property and the refinement that the passing runs
check are theorems, for every value of the constants under the named assumptions of
the modules. The assumptions are: the "no such thing" constants lie outside their
sets, TTLs, windows, limits and speeds are positive, sets that are counted are finite.
Some say more. `ClientsAssumption` and `ArrivingAssumption` (`Requests`): what arrives
is for a route of the server, in one of the three protocols, with a token or none, and
its caller is one of `Clients`. `RegistryAssumptions`: the order of `selectServer` tells servers apart
(`Rank`; it compares IDs). `EnvsAssumption` (`ServerProcess`): a variable of an
environment is unset, empty, blank, a number or another text. `ConfigAssumptions`:
`MaxInt32 > 10`, since the default of 10 connections must fit.

* **`JoinHandoff_proofs`**: `TypeCorrect`, `LockCoversHolder`,
  `NoDoubleLoadWithoutLapse`, `PlayersAreInTheWorld`, `HandoffImplementsGrant`;
  `LeaseTypes`, `LeaseSoundness`. The inductive invariant `HandoffInv` adds to the
  properties what keeps them: `HandlersOK` (a handler that joins works with a token
  that names this server, and only while the loop runs), `DrainsOK` (shutdown visits
  sessions only), and `OnePlayerPerServer`. Ownership alone is not inductive: a join
  between SETNX and load already relies on the lock, and a disconnect releases it, so
  one has to know that no other player of this server does. For the same reason a
  disconnect removes the entity of nobody else. The refinement maps the open tokens of
  `JoinGrant` to those whose key lives or that a handler works on, and its seats to
  the sessions. One fact more is needed, `Consumed`: the key of a token that a handler
  works on is gone, so that letting the peer in closes the token. Every action is then
  a step of `JoinGrant` or leaves its state alone. Of the leases, types and
  the property together are inductive; the types say that a lock that is held has a
  positive TTL, which `effectiveTTL` gives it whatever was asked for.
* **`UserSessions_proofs`**: `SessionTypes`, `IndexComplete`, `RevocationIsFinal`,
  `RevocationIsPrecise`. `SessionInv` adds the bounds of the TTLs, what an RPC in
  progress knows about its session, and that an owner is recorded as long as a
  session lives. A session in `revoked` that is not in `unanswered` is not the target of
  any login in progress, so no script can create it. The action property follows from it: an index lists only sessions of
  its user.
* **`ServerRegistry_proofs`**: `RegistryTypes`, `LiveServersVisible`,
  `DeadServersForgotten`, `SelectionIsSound`. `RegistryInv` follows a registration
  through its three commands (`PromptInv`: what it has done still stands), says that
  record, member and index of a running server outlive its last prompt registration
  together (`AliveInv`, for which the index, shared by all, must never lose time), and
  that a listing has fetched or has still to fetch what was visible throughout
  (`ListInv`). That `selectServer` finds a least element is well-founded induction
  over the ranks.
* **`Requests_proofs`**: about the limiter alone, `LimiterTypes` and `WindowLimit`.
  The limit is a statement about a cardinality. Each request that passed in time
  remembers the count it saw and when its counter began (`born`); the counts of one
  counter are distinct (`Distinct`) and lie in `1..Limit`, so the requests inject into
  `1..Limit`. A counter lives for its `Lifetime` at least (`Outlives`), so two counters of a
  window begin that far apart (`Apart`), and since a window is shorter than two
  lifetimes, it has two of them at most. `WholeSecondsKeepLimit` is the consequence for windows whose
  counter lives as long as they do. About the whole path: `ServerUsesLimiter`
  (`ServerSpec => Spec` of `RateLimiter`) and with it `ServerKeepsLimit`; every step
  outside `Allow` leaves the limiter alone, and a step of `Allow` is one of the
  limiter's. `RefusedWhenFull` needs `SentInv`: a counter is at most the number of
  increments that were sent for it, resent ones included. `HandlersAreGuarded`,
  `LogIsTruthful` and `PipelineTypes` rest on `ServerInv`: the place of a request
  tells how it has ended so far and what was logged (`PathOf`), and what it has passed
  (`ClearedOf`). `MetricsAreTruthful` needs the exact `MetricsInv`: each counter is the
  cardinality of the requests beyond the step that increments it.
* **`GameLoop_proofs`**: `LoopTypes`, `SpeedLimit`, `NaNIsContained`,
  `SnapshotsAreTimely`, `InputsActOnce`. The properties are about what is between two
  snapshots or two ticks; `LoopInv` says what holds within a tick as well. `SpeedInv`
  grants a character whose session is drained one step more than the ticks counted
  (`Moved`, counted from the last snapshot sent: `Age`), `InputInv` places the inputs that wait, `TaintInv` traces a `NaN` that
  waits to its character, and `CountInv` bounds how long a player waits by the count
  of the loop and a cycle for every broadcast that failed.
* **`Accounts_proofs`**: `AccountTypes`, `OwnersOnly`, `ListsShowAcknowledged`,
  `ListsNeverDisagree`. `AccountInv` says that mailboxes are unique, that a row is
  there only after its own registration inserted it (so a late INSERT overwrites
  nothing), that a request past its check has the account it was checked against, and
  that an acknowledged creation has its row. That a list is complete is an argument
  about finite sets: an injective list of as many entries as the user has characters
  hits each of them. That lists agree needs `ListInv`: UUIDs are unique, so the order
  of a list is total, rows do not change, so a list that was shown stays sorted, and
  lists are taken from a growing set, so they are nested.
* **`ServerProcess_proofs`**: `ProcessIsTyped`, `EverythingIsReleased`,
  `RequestsHaveStores`, `FourStartsSuffice`. `ProcessInv` says what is open at each
  place of the main goroutine (`StoresInv`, `HostInv`, `ContextInv`; the host is left behind only where no shutdown
  began), how the listening
  goroutine and its channel stand to it (`ListenerInv`), and that after a shutdown
  that was not forced no request is active (`QuietInv`). `FourStartsSuffice` is about
  the configuration: after n refusals the first n stages of `LoadWithSource` have no
  more complaint (`RepairInv`). A repair never makes an earlier stage complain again
  (`DerivedMended`, `ParseMended`), and one repair clears validation
  (`OneRepairIsEnough`): each check is of one variable, for which the default is good,
  except the two of pool sizes, which name both variables or, when they pass, leave
  bounds that fit the default of the other (`PoolMended`).
* **`Transactions_proofs`**: `TransactionTypes`, `CallersCanTrustInTx`,
  `RollbackIsClean`. What a call may claim depends on what
  Postgres was asked to do: `PlaceInv` ties the place of every call to the state of its
  transaction, `ClaimInv` what a returned call may say. `PoolInv` counts connections.
  A rollback runs under a context of its own, so only a connection that broke (`lost`)
  or a rollback that timed out (`late`) costs the pool one.

Model-checked only: the three liveness properties `DeadServersLoseLocks`,
`EndsWhenTold` and `EveryCallEnds`, because fairness is out of the prover's reach, and
the three violations.

## What is not modelled

* Commands that Redis executes long after the client gave up. An executed command
  whose reply is lost is modelled at the moment of the command.
* Several API servers with different clocks (the rate limiter's window is computed
  from the local clock).
* Conversions of TTLs that no caller reaches: a lock's renewal is sent in milliseconds
  (`character_locks.go:134`), which matters below one of them, and nothing renews; the
  TTL of a server is a constant of 10 s, so whole seconds lose nothing of it
  (`game_servers.go:90`).
* Validation of IDs, formats of keys and payloads, password hashing, random tokens:
  values of the models are valid and distinct. Emails and names are modelled by
  what their validators make of them.
* The isolation level that `InTx` hands on, the pool's statistics, the set-up of the
  logger, the texts of headers, bodies, logs and metrics, and the durations recorded.
* The URL and the address that the configuration builds, and how numbers and
  durations are spelt.
* A bound over two windows: requests that are delayed past the end of the window
  they read are part of `RateLimiter`, but the limit is claimed, as by a fixed window,
  for those that reach the counter in time.
* The velocity that snapshots show for an entity that stands still, which no document
  defines.
* Generated protocol code: it has no state of its own.
* ENet's transport: which events arrive is arbitrary.

## Plan

Done, in this order: `CharacterLocks`, `JoinTokens`, `JoinHandoff` with `JoinGrant`
and proofs; `LockLeases`, `UserSessions`, `RateLimiter` with proofs; `Accounts` with
proofs; `ServerRegistry`, `GameLoop`; `Requests` over `RateLimiter` with the proof that
it implements it; `Config` and `ServerProcess`; `Transactions` with proofs.

Proofs since then: `ServerRegistry`, `GameLoop`, `ServerProcess` with `Config`, all of
`Requests`, the refinement of `JoinGrant`, and the properties of `Accounts` and
`UserSessions` that were left. For the sake of its proof `GameLoop` drains the sessions
one by one, as the code does.

Next:

1. Composition: `Accounts` with `UserSessions` (login opens the session it
   decided on), `ServerRegistry` with `JoinHandoff` (tokens for servers that the
   registry still lists).
2. The safety part of the liveness arguments: that a process that is told to end, and
   a call of `InTx`, come closer to their end with every step of their own.
