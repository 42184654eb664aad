------------------------------ MODULE GameLoop ------------------------------
(***************************************************************************)
(* The authoritative loop of one game server: runGameLoop, handleReceive   *)
(* and the simulation, world and broadcaster they drive (internal/game).   *)
(*                                                                         *)
(* An iteration takes one ENet event, then runs a tick if the interval is  *)
(* over, then broadcasts if Divisor ticks have passed.  Input packets      *)
(* travel on the unreliable channel, so that any packet may come at any    *)
(* time, several or none between two ticks.  Both axes are alike and one   *)
(* is modelled; positions are counted in what a full direction moves a     *)
(* character in a tick, directions in parts of a full one.  A float is a   *)
(* number or not a number; an infinite one is clamped like others.         *)
(*                                                                         *)
(* How a join is decided is the subject of JoinHandoff.  Here any peer may *)
(* join with any character, since two sessions can play one character once *)
(* its lock has run out.                                                   *)
(***************************************************************************)
EXTENDS Integers, FiniteSets

CONSTANTS
    Peers,
    Characters,     \* character IDs, which are the entity IDs too
    Nobody,         \* the peer has no session
    Directions,     \* components of the directions in input packets
    NaN,            \* the float that is not a number
    NoDirection,    \* a packet without a direction
    NoInput,        \* LatestInput is nil
    Full,           \* a direction is clamped to -Full..Full
    Divisor,        \* defaultBroadcastTickDivisor
    MaxTick         \* bound on the tick counter

ASSUME LoopAssumptions == /\ IsFiniteSet(Peers)
                          /\ Nobody \notin Characters
                          /\ Directions \subseteq Int \cup {NaN}
                          /\ {NaN, NoDirection, NoInput} \cap Int = {}
                          /\ NaN \notin {NoDirection, NoInput}
                          /\ NoInput # NoDirection
                          /\ Full \in Nat \ {0}
                          /\ Divisor \in Nat \ {0}
                          /\ MaxTick \in Nat

VARIABLES
    pc,             \* what the iteration does next
    sess,           \* sess[p]: the character p plays
    latest,         \* latest[p]: LatestInput of the session of p
    todo,           \* the sessions DrainInputs has still to go through
    world,          \* the characters that have an entity
    pos, vel,       \* position and velocity of the entities
    tick,           \* World.tick
    since,          \* tickSinceBroadcast
    shown,          \* positions in the last snapshot sent
    shownTick,      \* the tick of that snapshot
    quiet,          \* history: ticks since p joined or was sent a snapshot
    missed,         \* history: broadcasts that failed in that time
    heard,          \* history: sessions with an input since the last tick
    solo,           \* history: entities since the last snapshot, with never
                    \* more than one session since then
    tainted         \* history: entities one of whose sessions sent a NaN

worldVars == <<world, pos, vel>>
sessVars == <<sess, latest>>
castVars == <<since, shown, shownTick, quiet, missed>>
history == <<heard, solo, tainted>>
vars == <<pc, sessVars, todo, worldVars, tick, castVars, history>>

Floats == Int \cup {NaN}
Inputs == Directions \cup {NoDirection}
Spawn == 0      \* where a character is loaded
Players(c) == {p \in Peers : sess[p] = c}
Playing == {p \in Peers : sess[p] # Nobody}

TypeOK ==
    /\ pc \in {"service", "simulate", "drain", "broadcast"}
    /\ sess \in [Peers -> Characters \cup {Nobody}]
    /\ latest \in [Peers -> Inputs \cup {NoInput}]
    /\ \A p \in Peers : latest[p] # NoInput => p \in Playing
    /\ todo \in SUBSET Playing
    /\ world \in SUBSET Characters
    /\ pos \in [Characters -> Floats]
    /\ vel \in [Characters -> (-Full..Full) \cup {NaN}]
    /\ tick \in 0..MaxTick
    /\ since \in 0..Divisor
    /\ shown \in [Characters -> Floats]
    /\ shownTick \in 0..tick
    /\ quiet \in [Peers -> Nat]
    /\ missed \in [Peers -> Nat]
    /\ heard \in SUBSET Peers
    /\ solo \in SUBSET Characters
    /\ tainted \in SUBSET Characters

Init ==
    /\ pc = "service"
    /\ sess = [p \in Peers |-> Nobody]
    /\ latest = [p \in Peers |-> NoInput]
    /\ todo = {}
    /\ world = {}
    /\ pos = [c \in Characters |-> Spawn]
    /\ vel = [c \in Characters |-> 0]
    /\ tick = 0
    /\ since = 0
    /\ shown = [c \in Characters |-> Spawn]
    /\ shownTick = 0
    /\ quiet = [p \in Peers |-> 0]
    /\ missed = [p \in Peers |-> 0]
    /\ heard = {}
    /\ solo = {}
    /\ tainted = {}

-----------------------------------------------------------------------------
(***************************************************************************)
(* The event of an iteration: handleENetEvent                              *)
(***************************************************************************)
\* c, if a NaN from another session of it waits for the tick.
FedByOthers(p, c) == {d \in {c} : \E q \in Players(c) \ {p} : latest[q] = NaN}

\* Mutant: a session of the same peer is used again, with its input.
Join_KeepsInput(p, c) ==
    /\ pc = "service"
    /\ pc' = "simulate"
    /\ sess' = [sess EXCEPT ![p] = c]
    /\ world' = world \cup {c}
    /\ pos' = [pos EXCEPT ![c] = Spawn]
    /\ vel' = [vel EXCEPT ![c] = 0]
    /\ quiet' = [quiet EXCEPT ![p] = 0]
    /\ missed' = [missed EXCEPT ![p] = 0]
    /\ heard' = heard \ {p}
    /\ solo' = solo \ {c}
    /\ tainted' = (tainted \ {c}) \cup FedByOthers(p, c)
    /\ UNCHANGED <<latest, todo, tick, since, shown, shownTick>>

\* A successful HandleJoinRequest: AddEntity replaces an entity with the same
\* ID, sessions.Add replaces a session of the same peer.
Join(p, c) ==
    /\ pc = "service"
    /\ pc' = "simulate"
    /\ sess' = [sess EXCEPT ![p] = c]
    /\ latest' = [latest EXCEPT ![p] = NoInput]
    /\ world' = world \cup {c}
    /\ pos' = [pos EXCEPT ![c] = Spawn]
    /\ vel' = [vel EXCEPT ![c] = 0]
    /\ quiet' = [quiet EXCEPT ![p] = 0]
    /\ missed' = [missed EXCEPT ![p] = 0]
    /\ heard' = heard \ {p}
    /\ solo' = solo \ {c}
    /\ tainted' = (tainted \ {c}) \cup FedByOthers(p, c)
    /\ UNCHANGED <<todo, tick, since, shown, shownTick>>

\* HandleDisconnect: a peer without a session is ignored.
Disconnect(p) ==
    /\ pc = "service"
    /\ p \in Playing
    /\ pc' = "simulate"
    /\ sess' = [sess EXCEPT ![p] = Nobody]
    /\ latest' = [latest EXCEPT ![p] = NoInput]
    /\ world' = world \ {sess[p]}
    /\ pos' = [pos EXCEPT ![sess[p]] = Spawn]
    /\ vel' = [vel EXCEPT ![sess[p]] = 0]
    /\ quiet' = [quiet EXCEPT ![p] = 0]
    /\ missed' = [missed EXCEPT ![p] = 0]
    /\ heard' = heard \ {p}
    /\ solo' = solo \ {sess[p]}
    /\ tainted' = tainted \ {sess[p]}
    /\ UNCHANGED <<todo, tick, since, shown, shownTick>>

\* handleReceive on the unreliable channel: the packet replaces one that no
\* tick has consumed.  Without a session it is dropped.
ReceiveInput(p, i) ==
    /\ pc = "service"
    /\ p \in Playing
    /\ pc' = "simulate"
    /\ latest' = [latest EXCEPT ![p] = i]
    /\ heard' = heard \cup {p}
    /\ tainted' = IF i = NaN THEN tainted \cup {sess[p]} ELSE tainted
    /\ UNCHANGED <<sess, todo, worldVars, tick, castVars, solo>>

\* EventNone, EventConnect, or a packet that is dropped.
NoEvent ==
    /\ pc = "service"
    /\ pc' = "simulate"
    /\ UNCHANGED <<sessVars, todo, worldVars, tick, castVars, history>>

-----------------------------------------------------------------------------
(***************************************************************************)
(* The tick                                                                *)
(***************************************************************************)
\* Mutant: no clamp.
clampFloat_Raw(v) == v

\* Both comparisons are false for a NaN.
clampFloat(v) == IF v # NaN /\ v < -Full THEN -Full
                 ELSE IF v # NaN /\ v > Full THEN Full ELSE v

\* A sum with a NaN in it is a NaN.
Add(x, y) == IF NaN \in {x, y} THEN NaN ELSE x + y

\* The tick interval is over: DrainInputs takes the sessions there are.
RunTick ==
    /\ pc = "simulate"
    /\ tick < MaxTick
    /\ pc' = "drain"
    /\ todo' = Playing
    /\ UNCHANGED <<sessVars, worldVars, tick, castVars, history>>

\* Input i moves entity c.  One without a direction is ignored, and so is one
\* for an entity that is gone, or none at all.
ProcessInput(c, i) ==
    IF c \in world /\ i \in Directions
    THEN /\ pos' = [pos EXCEPT ![c] = Add(@, clampFloat(i))]
         /\ vel' = [vel EXCEPT ![c] = clampFloat(i)]
    ELSE UNCHANGED <<pos, vel>>

\* Mutant: an input is not cleared once it is applied.
DrainInputs_Keep(p) ==
    /\ pc = "drain"
    /\ p \in todo
    /\ ProcessInput(sess[p], latest[p])
    /\ todo' = todo \ {p}
    /\ UNCHANGED <<pc, sessVars, world, tick, castVars, history>>

\* DrainInputs goes through the sessions in the order of a map, that is, in
\* any order, and leaves each without an input.
DrainInputs(p) ==
    /\ pc = "drain"
    /\ p \in todo
    /\ ProcessInput(sess[p], latest[p])
    /\ latest' = [latest EXCEPT ![p] = NoInput]
    /\ todo' = todo \ {p}
    /\ UNCHANGED <<pc, sess, world, tick, castVars, history>>

\* IncrementTick, and the tick counts for the next snapshot.
EndTick ==
    /\ pc = "drain"
    /\ todo = {}
    /\ pc' = "broadcast"
    /\ tick' = tick + 1
    /\ since' = since + 1
    /\ quiet' = [p \in Peers |-> IF p \in Playing THEN quiet[p] + 1 ELSE 0]
    /\ heard' = {}
    /\ UNCHANGED <<sessVars, todo, worldVars, shown, shownTick, missed, solo, tainted>>

\* The tick interval is not over.
NoTick ==
    /\ pc = "simulate"
    /\ pc' = "broadcast"
    /\ UNCHANGED <<sessVars, todo, worldVars, tick, castVars, history>>

-----------------------------------------------------------------------------
(***************************************************************************)
(* The snapshot                                                            *)
(***************************************************************************)
\* Mutant: one tick too many.
BroadcastDue_Late == since > Divisor

BroadcastDue == since >= Divisor

\* What BuildSnapshot takes from the world, for every character.
BuildSnapshot == [c \in Characters |-> IF c \in world THEN pos[c] ELSE Spawn]

\* Broadcast to every connected peer.
Broadcast ==
    /\ pc = "broadcast"
    /\ BroadcastDue
    /\ Playing # {}
    /\ pc' = "service"
    /\ since' = 0
    /\ shown' = BuildSnapshot
    /\ shownTick' = tick
    /\ quiet' = [p \in Peers |-> 0]
    /\ missed' = [p \in Peers |-> 0]
    /\ solo' = {c \in world : Cardinality(Players(c)) <= 1}
    /\ UNCHANGED <<sessVars, todo, worldVars, tick, heard, tainted>>

\* The snapshot cannot be marshalled or ENet refuses it, which is logged: the
\* count starts over all the same.
BroadcastFails ==
    /\ pc = "broadcast"
    /\ BroadcastDue
    /\ Playing # {}
    /\ pc' = "service"
    /\ since' = 0
    /\ missed' = [p \in Peers |-> IF p \in Playing THEN missed[p] + 1 ELSE 0]
    /\ UNCHANGED <<sessVars, todo, worldVars, tick, shown, shownTick, quiet, history>>

\* Nobody plays: the count starts over without a snapshot.
SkipBroadcast ==
    /\ pc = "broadcast"
    /\ BroadcastDue
    /\ Playing = {}
    /\ pc' = "service"
    /\ since' = 0
    /\ solo' = {}
    /\ UNCHANGED <<sessVars, todo, worldVars, tick, shown, shownTick, quiet, missed, heard, tainted>>

NoBroadcast ==
    /\ pc = "broadcast"
    /\ ~BroadcastDue
    /\ pc' = "service"
    /\ UNCHANGED <<sessVars, todo, worldVars, tick, castVars, history>>

Next ==
    \/ \E p \in Peers :
          \/ \E c \in Characters : Join(p, c)
          \/ Disconnect(p)
          \/ \E i \in Inputs : ReceiveInput(p, i)
          \/ DrainInputs(p)
    \/ NoEvent
    \/ RunTick
    \/ EndTick
    \/ NoTick
    \/ Broadcast
    \/ BroadcastFails
    \/ SkipBroadcast
    \/ NoBroadcast

Spec == Init /\ [][Next]_vars

-----------------------------------------------------------------------------
(***************************************************************************)
(* Properties                                                              *)
(***************************************************************************)
Distance(a, b) == IF a < b THEN b - a ELSE a - b

\* However many packets a client sends, however they arrive and however many
\* broadcasts fail, what the snapshots show moves by at most one full step for
\* every tick between the two they carry, for a character one session at a
\* time plays whose position is a number.
SnapshotsMoveAtSpeed ==
    pc # "drain" =>
       \A c \in solo :
          pos[c] # NaN => Distance(pos[c], shown[c]) <= (tick - shownTick) * Full

\* clampFloat lets a NaN through, and the position never is a number again;
\* but what a session sent stays with the character it played then: DrainInputs
\* applies nothing of it to another one, or to the same one loaded anew.
NaNStaysHome == \A c \in Characters : NaN \in {pos[c], vel[c]} => c \in tainted

\* A packet moves a character in one tick: in a tick before which no session
\* of the character sent an input, the character stands still.
NoGhostMovement ==
    [][pc = "drain" =>
          \A c \in Characters : pos'[c] # pos[c] => Players(c) \cap heard # {}]_vars

\* A player is left without a snapshot for fewer than Divisor ticks, whenever
\* it joined and whatever the count was then; every broadcast that fails, as
\* it is not repeated before the next one is due, costs it Divisor ticks more.
NobodyWaits ==
    pc = "service" => \A p \in Playing : quiet[p] < Divisor * (missed[p] + 1)
=============================================================================
