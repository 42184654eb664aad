----------------------------- MODULE JoinHandoff -----------------------------
(***************************************************************************)
(* How a player gets from the API server into a game server and out again: *)
(* GameService.IssueJoinToken, the join and disconnect handlers of         *)
(* internal/game/join.go, the ENet events that call them, the shutdown of  *)
(* internal/game/server.go and the crash of a server, over the lock and    *)
(* token stores in Redis.                                                  *)
(*                                                                         *)
(* A game server handles its ENet events on one goroutine, so it works on  *)
(* one handler at a time; handler[s] is how far that handler has got.  A   *)
(* handler stops at each Redis or Postgres command, where other servers,   *)
(* the API server and time may run.  A command may be executed, may fail   *)
(* without effect, or may be executed while its caller sees an error (or,  *)
(* after the client library's retry, a refusal).                           *)
(***************************************************************************)
EXTENDS CharacterLocks, JoinTokens, FiniteSets

CONSTANTS
    Peers,          \* ENet peer slots of a game server; a slot is reused
    OwnerOf,        \* OwnerOf[c]: the user_id of character c in Postgres
    NoSession       \* a peer without a session

Sessions == [user : Users, char : Characters, token : Tokens]

ASSUME HandoffAssumptions == /\ OwnerOf \in [Characters -> Users]
                             /\ NoSession \notin Sessions

VARIABLES
    phase,          \* phase[s]: life cycle of the server process
    conn,           \* conn[s][p]: ENet's state of peer slot p
    sess,           \* sess[s][p]: SessionManager's entry for p
    world,          \* world[s]: the characters that have an entity
    handler,        \* handler[s]: the event handler at work
    drain,          \* drain[s]: the sessions shutdown has yet to visit
    lapsed          \* history: the characters whose lock expired in use

serverVars == <<phase, conn, sess, world, handler, drain>>
vars == <<lock, grant, tokenTTL, serverVars, lapsed>>

-----------------------------------------------------------------------------
(***************************************************************************)
(* State                                                                   *)
(***************************************************************************)
Idle == [stage |-> "idle"]

\* join: the token is consumed, the lock is next.  load: the lock is ours,
\* the character is next.  undo: the load failed, release, then reject.
Joins == [stage : {"join", "load", "undo"}, peer : Peers, token : Tokens]

\* leave: the session and its entity are gone, the lock is to be released.
Leaves == [stage : {"leave"}, char : Characters]

NoPeers == [p \in Peers |-> NoSession]

TypeOK ==
    /\ LocksTypeOK
    /\ TokensTypeOK
    /\ phase \in [Servers -> {"new", "running", "stopping", "stopped"}]
    /\ conn \in [Servers -> [Peers -> {"free", "connected", "closing"}]]
    /\ sess \in [Servers -> [Peers -> Sessions \cup {NoSession}]]
    /\ world \in [Servers -> SUBSET Characters]
    /\ handler \in [Servers -> {Idle} \cup Joins \cup Leaves]
    /\ drain \in [Servers -> SUBSET Peers]
    /\ lapsed \in SUBSET Characters

Init ==
    /\ LocksInit
    /\ TokensInit
    /\ phase = [s \in Servers |-> "new"]
    /\ conn = [s \in Servers |-> [p \in Peers |-> "free"]]
    /\ sess = [s \in Servers |-> NoPeers]
    /\ world = [s \in Servers |-> {}]
    /\ handler = [s \in Servers |-> Idle]
    /\ drain = [s \in Servers |-> {}]
    /\ lapsed = {}

\* The game loop of s is about to take its next event.
Ready(s) == phase[s] = "running" /\ handler[s] = Idle

\* p of s plays: the game loop runs, or shutdown has yet to let p go.
Playing(s, p) == /\ sess[s][p] # NoSession
                 /\ phase[s] = "running" \/ p \in drain[s]

Plays(s, p, c) == Playing(s, p) /\ sess[s][p].char = c

\* s relies on the lock of c: somebody plays c there, or c is being loaded.
Holding(s, c) ==
    \/ \E p \in Peers : Plays(s, p, c)
    \/ handler[s].stage = "load" /\ grant[handler[s].token].char = c

-----------------------------------------------------------------------------
(***************************************************************************)
(* The API server                                                          *)
(***************************************************************************)
\* The character is the caller's; s is the server asked for, or the first
\* one of the registry's list.  The registry may still list a dead server.
IssueJoinToken(t, u, c, s) ==
    /\ OwnerOf[c] = u
    /\ phase[s] # "new"
    /\ CreateJoinToken(t, u, c, s)
    /\ UNCHANGED <<lock, serverVars, lapsed>>

-----------------------------------------------------------------------------
(***************************************************************************)
(* A game server's event loop                                              *)
(***************************************************************************)
Start(s) ==
    /\ phase[s] = "new"
    /\ phase' = [phase EXCEPT ![s] = "running"]
    /\ UNCHANGED <<lock, grant, tokenTTL, conn, sess, world, handler, drain,
                   lapsed>>

\* EventConnect: ENet gives the client a free slot, the server only logs.
Connect(s, p) ==
    /\ Ready(s)
    /\ conn[s][p] = "free"
    /\ conn' = [conn EXCEPT ![s][p] = "connected"]
    /\ UNCHANGED <<lock, grant, tokenTTL, phase, sess, world, handler, drain,
                   lapsed>>

\* sendJoinResponse(peer, false, ...): answer, Disconnect, end the handler.
\* ENet delivers nothing more from p except, later, EventDisconnect.
Reject(s, p) ==
    /\ conn' = [conn EXCEPT ![s][p] = "closing"]
    /\ handler' = [handler EXCEPT ![s] = Idle]

\* HandleJoinRequest up to the lock: a packet that does not unmarshal; a token
\* that is gone, or whose consumption fails; one for another character or
\* another server; or a good one.  Nothing asks whether p already plays.
HandleJoinRequest(s, p, t, c) ==
    /\ Ready(s)
    /\ conn[s][p] = "connected"
    /\ \/ /\ UNCHANGED <<grant, tokenTTL>>       \* malformed, absent, or failed
          /\ Reject(s, p)
       \/ /\ Stored(t)                           \* mismatch, or the reply is lost
          /\ ConsumeJoinToken(t)
          /\ Reject(s, p)
       \/ /\ Stored(t)
          /\ grant[t].char = c
          /\ grant[t].server = s
          /\ ConsumeJoinToken(t)
          /\ handler' = [handler EXCEPT ![s] =
                           [stage |-> "join", peer |-> p, token |-> t]]
          /\ UNCHANGED conn
    /\ UNCHANGED <<lock, phase, sess, world, drain, lapsed>>

\* Mutant: a refusal is taken for a lock.
AcquireLock_Unchecked(s) ==
    /\ handler[s].stage = "join"
    /\ LET c == grant[handler[s].token].char
       IN  AcquireCharacterLock(c, s, LockTTL) \/ AcquireRefused(c)
    /\ handler' = [handler EXCEPT ![s].stage = "load"]
    /\ UNCHANGED <<grant, tokenTTL, phase, conn, sess, world, drain, lapsed>>

\* Mutant: a refused join releases the lock on its way out.
AcquireLock_Cleanup(s) ==
    /\ handler[s].stage = "join"
    /\ LET c == grant[handler[s].token].char
           p == handler[s].peer
       IN  \/ /\ AcquireCharacterLock(c, s, LockTTL)
              /\ handler' = [handler EXCEPT ![s].stage = "load"]
              /\ UNCHANGED conn
           \/ /\ ReleaseCharacterLock(c, s)
              /\ Reject(s, p)
    /\ UNCHANGED <<grant, tokenTTL, phase, sess, world, drain, lapsed>>

\* AcquireCharacterLock, and the handler's three ways on: granted; refused;
\* an error, after which the lock may have been set all the same.
AcquireLock(s) ==
    /\ handler[s].stage = "join"
    /\ LET c == grant[handler[s].token].char
           p == handler[s].peer
       IN  \/ /\ AcquireCharacterLock(c, s, LockTTL)
              /\ handler' = [handler EXCEPT ![s].stage = "load"]
              /\ UNCHANGED conn
           \/ /\ \/ AcquireRefused(c)
                 \/ UNCHANGED lock
                 \/ AcquireCharacterLock(c, s, LockTTL)
              /\ Reject(s, p)
    /\ UNCHANGED <<grant, tokenTTL, phase, sess, world, drain, lapsed>>

\* GetCharacterByID succeeds: AddEntity, sessions.Add (over an older session
\* of the same peer, if there is one) and the answer, without another command.
Admit(s) ==
    /\ handler[s].stage = "load"
    /\ LET t == handler[s].token
           p == handler[s].peer
           c == grant[t].char
       IN  /\ world' = [world EXCEPT ![s] = @ \cup {c}]
           /\ sess' = [sess EXCEPT ![s][p] =
                         [user |-> grant[t].user, char |-> c, token |-> t]]
    /\ handler' = [handler EXCEPT ![s] = Idle]
    /\ UNCHANGED <<lock, grant, tokenTTL, phase, conn, drain, lapsed>>

\* GetCharacterByID fails: the handler will release the lock, then reject.
LoadFails(s) ==
    /\ handler[s].stage = "load"
    /\ handler' = [handler EXCEPT ![s].stage = "undo"]
    /\ UNCHANGED <<lock, grant, tokenTTL, phase, conn, sess, world, drain,
                   lapsed>>

\* ReleaseCharacterLock as its callers see it: they ignore the outcome.
TryRelease(c, s) == ReleaseCharacterLock(c, s) \/ UNCHANGED lock

UndoJoin(s) ==
    /\ handler[s].stage = "undo"
    /\ TryRelease(grant[handler[s].token].char, s)
    /\ Reject(s, handler[s].peer)
    /\ UNCHANGED <<grant, tokenTTL, phase, sess, world, drain, lapsed>>

\* HandleDisconnect on EventDisconnect, up to the release of the lock: the
\* client left, timed out, or the server disconnected it.
HandleDisconnect(s, p) ==
    /\ Ready(s)
    /\ conn[s][p] # "free"
    /\ conn' = [conn EXCEPT ![s][p] = "free"]
    /\ IF sess[s][p] = NoSession
       THEN UNCHANGED <<sess, world, handler>>
       ELSE /\ sess' = [sess EXCEPT ![s][p] = NoSession]
            /\ world' = [world EXCEPT ![s] = @ \ {sess[s][p].char}]
            /\ handler' = [handler EXCEPT ![s] =
                             [stage |-> "leave", char |-> sess[s][p].char]]
    /\ UNCHANGED <<lock, grant, tokenTTL, phase, drain, lapsed>>

ReleaseOnDisconnect(s) ==
    /\ handler[s].stage = "leave"
    /\ TryRelease(handler[s].char, s)
    /\ handler' = [handler EXCEPT ![s] = Idle]
    /\ UNCHANGED <<grant, tokenTTL, phase, conn, sess, world, drain, lapsed>>

-----------------------------------------------------------------------------
(***************************************************************************)
(* Shutdown, crash and time                                                *)
(***************************************************************************)
\* The context is cancelled, the loop returns; shutdown visits a snapshot of
\* the sessions.
BeginShutdown(s) ==
    /\ Ready(s)
    /\ phase' = [phase EXCEPT ![s] = "stopping"]
    /\ drain' = [drain EXCEPT ![s] = {p \in Peers : sess[s][p] # NoSession}]
    /\ UNCHANGED <<lock, grant, tokenTTL, conn, sess, world, handler, lapsed>>

\* One session: Disconnect its peer, release its lock, log an error.
DrainSession(s, p) ==
    /\ phase[s] = "stopping"
    /\ p \in drain[s]
    /\ conn' = [conn EXCEPT ![s][p] = "closing"]
    /\ TryRelease(sess[s][p].char, s)
    /\ drain' = [drain EXCEPT ![s] = @ \ {p}]
    /\ UNCHANGED <<grant, tokenTTL, phase, sess, world, handler, lapsed>>

\* The process ends and its memory with it.
Exit(s) ==
    /\ phase' = [phase EXCEPT ![s] = "stopped"]
    /\ conn' = [conn EXCEPT ![s] = [p \in Peers |-> "free"]]
    /\ sess' = [sess EXCEPT ![s] = NoPeers]
    /\ world' = [world EXCEPT ![s] = {}]
    /\ handler' = [handler EXCEPT ![s] = Idle]
    /\ drain' = [drain EXCEPT ![s] = {}]
    /\ UNCHANGED <<lock, grant, tokenTTL, lapsed>>

FinishShutdown(s) == phase[s] = "stopping" /\ drain[s] = {} /\ Exit(s)

Crash(s) == phase[s] \in {"running", "stopping"} /\ Exit(s)

\* A unit of time passes in Redis.  No server renews a lock, so one that is
\* in use may end here.
Tick ==
    /\ AgeLocks
    /\ AgeTokens
    /\ lapsed' = lapsed \cup {c \in Characters : /\ lock[c].ttl = 1
                                                 /\ \E s \in Servers : Holding(s, c)}
    /\ UNCHANGED <<grant, serverVars>>

-----------------------------------------------------------------------------
Next ==
    \/ \E t \in Tokens, u \in Users, c \in Characters, s \in Servers :
          IssueJoinToken(t, u, c, s)
    \/ \E s \in Servers :
          \/ Start(s)
          \/ AcquireLock(s)
          \/ Admit(s)
          \/ LoadFails(s)
          \/ UndoJoin(s)
          \/ ReleaseOnDisconnect(s)
          \/ BeginShutdown(s)
          \/ FinishShutdown(s)
          \/ Crash(s)
    \/ \E s \in Servers, p \in Peers :
          \/ Connect(s, p)
          \/ HandleDisconnect(s, p)
          \/ DrainSession(s, p)
    \/ \E s \in Servers, p \in Peers, t \in Tokens, c \in Characters :
          HandleJoinRequest(s, p, t, c)
    \/ Tick

Spec == Init /\ [][Next]_vars

-----------------------------------------------------------------------------
(***************************************************************************)
(* Properties                                                              *)
(***************************************************************************)
\* A character is played by two peers, on one server or on two, only if its
\* lock once expired while it was in use: token, lock, load, rejection,
\* disconnect, shutdown and crash never let a second player in by themselves.
DoubleLoadOnlyAfterLapse ==
    \A c \in Characters \ lapsed, s1, s2 \in Servers, p1, p2 \in Peers :
       Plays(s1, p1, c) /\ Plays(s2, p2, c) => s1 = s2 /\ p1 = p2

\* While the lock of a character has not lapsed, the server that loads or
\* plays it is the owner its key names, through every lost reply and failed
\* release.  This is what DoubleLoadOnlyAfterLapse rests on.
HolderOwnsLock ==
    \A c \in Characters \ lapsed, s \in Servers :
       Holding(s, c) => lock[c].owner = s

\* A player has an entity in the world of its server, which DrainInputs moves
\* and the snapshots show: the cleanup after another peer does not take it.
PlayerHasEntity ==
    \A s \in Servers, p \in Peers :
       Playing(s, p) /\ sess[s][p].char \notin lapsed => sess[s][p].char \in world[s]

\* The handoff does what JoinGrant promises.  A token is open while its key
\* lives and while a handler that consumed it can still let the peer in.
OpenTokens ==
    {t \in Tokens : \/ Stored(t)
                    \/ \E s \in Servers : /\ handler[s].stage \in {"join", "load"}
                                          /\ handler[s].token = t}

Seats == [s \in Servers |-> [p \in Peers |->
            IF Playing(s, p) THEN sess[s][p] ELSE NoSession]]

Granted == INSTANCE JoinGrant WITH open <- OpenTokens, seat <- Seats

ImplementsJoinGrant == Granted!Spec

-----------------------------------------------------------------------------
(***************************************************************************)
(* What the repository says and the code does not do                       *)
(***************************************************************************)
\* docs/architecture/security.md: the lock, renewed by the heartbeat,
\* "prevents the same character from loading on two game servers
\* simultaneously".  The heartbeat renews no lock.
NoDoubleLoad ==
    \A c \in Characters, s1, s2 \in Servers, p1, p2 \in Peers :
       Plays(s1, p1, c) /\ Plays(s2, p2, c) => s1 = s2

\* join.go: HandleDisconnect "cleans up when a peer disconnects": when every
\* peer is gone the world is empty.  A second join by a peer replaces its
\* session, and nobody removes the entity of the first.
WorldEmptiesWithPeers ==
    \A s \in Servers :
       Ready(s) /\ (\A p \in Peers : conn[s][p] = "free") => world[s] = {}
=============================================================================
