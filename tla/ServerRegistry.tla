--------------------------- MODULE ServerRegistry ---------------------------
(***************************************************************************)
(* The registry of game servers: store/redis/game_servers.go, the          *)
(* registration, heartbeat and deregistration of internal/game/server.go   *)
(* and the server selection of service/game.go.                            *)
(*                                                                         *)
(* A server is one key with an expiry; one set key, the index, shared by   *)
(* all servers, lists their IDs and expires as a whole.  To register is    *)
(* three commands (SET, SADD, EXPIRE), which other servers, readers, time  *)
(* and a crash can separate; reg[s] is the next one.  The main goroutine   *)
(* registers once, then the heartbeat goroutine does at every interval,    *)
(* which is the model's unit of time.                                      *)
(***************************************************************************)
EXTENDS Integers, FiniteSets

CONSTANTS
    Servers,        \* server IDs
    Rank,           \* Rank[s]: the place of s in the order of IDs
    NoServer,       \* no server was selected
    ServerTTL       \* time to live of a record and of the index, in heartbeats

ASSUME RegistryAssumptions == /\ NoServer \notin Servers
                              /\ ServerTTL \in Nat \ {0}
                              /\ Rank \in [Servers -> Nat]
                              /\ \A s, t \in Servers : Rank[s] = Rank[t] => s = t

VARIABLES
    rec,            \* rec[s]: what the key of s has to live, 0 if it is gone
    idx,            \* the members of the index
    idxTTL,         \* what the index has to live, 0 for no expiry
    phase,          \* phase[s]: life cycle of the server process
    reg,            \* reg[s]: the next command of a registration in progress
    due,            \* due[s]: the heartbeat ticker has fired
    todo, found,    \* ListGameServers: IDs still to be fetched, and fetched
    listing,        \* a ListGameServers is in progress
    prompt,         \* history: the registration under way began this interval
    age,            \* history: time since s last registered promptly or, once
                    \* its process has ended, since then
    steady          \* history: servers visible ever since the listing began

storeVars == <<rec, idx, idxTTL>>
procVars == <<phase, reg, due>>
listVars == <<todo, found, listing, steady>>
ageVars == <<prompt, age>>
vars == <<storeVars, procVars, listVars, ageVars>>

-----------------------------------------------------------------------------
\* Ages are counted up to this bound, where all of them are too old.
Old == ServerTTL + 1

TypeOK ==
    /\ rec \in [Servers -> 0..ServerTTL]
    /\ idx \in SUBSET Servers
    /\ idxTTL \in 0..ServerTTL
    /\ phase \in [Servers -> {"new", "starting", "running", "stopping", "exiting", "stopped"}]
    /\ reg \in [Servers -> {"none", "set", "sadd", "expire"}]
    /\ due \in [Servers -> BOOLEAN]
    /\ todo \in SUBSET Servers /\ found \in SUBSET Servers /\ steady \in SUBSET Servers
    /\ listing \in BOOLEAN
    /\ prompt \in [Servers -> BOOLEAN]
    /\ age \in [Servers -> 0..Old]

Init ==
    /\ rec = [s \in Servers |-> 0]
    /\ idx = {}
    /\ idxTTL = 0
    /\ phase = [s \in Servers |-> "new"]
    /\ reg = [s \in Servers |-> "none"]
    /\ due = [s \in Servers |-> FALSE]
    /\ todo = {} /\ found = {} /\ steady = {}
    /\ listing = FALSE
    /\ prompt = [s \in Servers |-> FALSE]
    /\ age = [s \in Servers |-> Old]

\* What a reader finds: the ID in the index and the record behind it.
Visible(s) == s \in idx /\ rec[s] > 0

StillSteady == steady' = {s \in steady : Visible(s)'}

-----------------------------------------------------------------------------
(***************************************************************************)
(* RegisterGameServer                                                      *)
(***************************************************************************)
\* A registration has ended, with or without an error.
EndRegistration(s) == /\ reg' = [reg EXCEPT ![s] = "none"]
                      /\ prompt' = [prompt EXCEPT ![s] = FALSE]

\* The process of s ends.
Die(s) == /\ phase' = [phase EXCEPT ![s] = "stopped"]
          /\ EndRegistration(s)
          /\ due' = [due EXCEPT ![s] = FALSE]
          /\ age' = [age EXCEPT ![s] = 0]

\* A command failed.  Run returns if this was the first registration; the
\* heartbeat logs it and waits for the next interval.
RegistrationFails(s) ==
    IF phase[s] = "starting"
    THEN Die(s)
    ELSE EndRegistration(s) /\ UNCHANGED <<phase, due, age>>

\* The next command, unless the context was cancelled meanwhile.
Continue(s, next) ==
    /\ phase[s] \in {"starting", "running"}
    /\ reg' = [reg EXCEPT ![s] = next]
    /\ UNCHANGED <<phase, due, ageVars>>

\* Mutant: the time to live is added twice.
SetRecord_Twice(s) == rec' = [rec EXCEPT ![s] = 2 * ServerTTL]

\* The record is written with its whole time to live.
SetRecord(s) == rec' = [rec EXCEPT ![s] = ServerTTL]

\* Mutant: the index expires after one heartbeat interval.
ExpireIndex_Interval == idxTTL' = IF idx = {} THEN 0 ELSE 1

\* Mutant: the time to live is added twice.
ExpireIndex_Twice == idxTTL' = IF idx = {} THEN 0 ELSE 2 * ServerTTL

\* EXPIRE does nothing, and reports no error, when the index is gone.
ExpireIndex == idxTTL' = IF idx = {} THEN 0 ELSE ServerTTL

RegisterSet(s) ==
    /\ reg[s] = "set"
    /\ \/ /\ SetRecord(s)
          /\ Continue(s, "sadd") \/ RegistrationFails(s)
       \/ UNCHANGED rec /\ RegistrationFails(s)
    /\ UNCHANGED <<idx, idxTTL, todo, found, listing>>
    /\ StillSteady

RegisterSAdd(s) ==
    /\ reg[s] = "sadd"
    /\ \/ /\ idx' = idx \cup {s}
          /\ Continue(s, "expire") \/ RegistrationFails(s)
       \/ UNCHANGED idx /\ RegistrationFails(s)
    /\ UNCHANGED <<rec, idxTTL, todo, found, listing>>
    /\ StillSteady

RegisterExpire(s) ==
    /\ reg[s] = "expire"
    /\ \/ /\ ExpireIndex
          /\ \/ /\ phase' = [phase EXCEPT ![s] = IF @ = "starting" THEN "running" ELSE @]
                /\ EndRegistration(s)
                /\ age' = [age EXCEPT ![s] = IF prompt[s] THEN 0 ELSE @]
                /\ UNCHANGED due
             \/ RegistrationFails(s)
       \/ UNCHANGED idxTTL /\ RegistrationFails(s)
    /\ UNCHANGED <<rec, idx, listVars>>

-----------------------------------------------------------------------------
(***************************************************************************)
(* The server process                                                      *)
(***************************************************************************)
BeginRegistration(s) ==
    /\ reg' = [reg EXCEPT ![s] = "set"]
    /\ prompt' = [prompt EXCEPT ![s] = TRUE]

\* Run: the first registration.
Launch(s) ==
    /\ phase[s] = "new"
    /\ phase' = [phase EXCEPT ![s] = "starting"]
    /\ BeginRegistration(s)
    /\ UNCHANGED <<storeVars, due, listVars, age>>

\* renewHeartbeat: the ticker fired and the context is not cancelled.
Heartbeat(s) ==
    /\ phase[s] = "running"
    /\ due[s]
    /\ reg[s] = "none"
    /\ due' = [due EXCEPT ![s] = FALSE]
    /\ BeginRegistration(s)
    /\ UNCHANGED <<storeVars, phase, listVars, age>>

\* The context is cancelled: the loop returns and shutdown begins.  A command
\* the heartbeat has sent is still under way.
BeginStop(s) ==
    /\ phase[s] = "running"
    /\ phase' = [phase EXCEPT ![s] = "stopping"]
    /\ UNCHANGED <<storeVars, reg, due, listVars, ageVars>>

\* DeregisterGameServer deletes the record; the index keeps the ID.  An error
\* is logged.
Deregister(s) ==
    /\ phase[s] = "stopping"
    /\ phase' = [phase EXCEPT ![s] = "exiting"]
    /\ rec' \in {rec, [rec EXCEPT ![s] = 0]}
    /\ UNCHANGED <<idx, idxTTL, reg, due, todo, found, listing, ageVars>>
    /\ StillSteady

\* Run returns and the process ends, or it is killed at any time.
Exit(s) ==
    /\ phase[s] = "exiting"
    /\ Die(s)
    /\ UNCHANGED <<storeVars, listVars>>

Crash(s) ==
    /\ phase[s] \in {"starting", "running", "stopping"}
    /\ Die(s)
    /\ UNCHANGED <<storeVars, listVars>>

-----------------------------------------------------------------------------
(***************************************************************************)
(* Readers                                                                 *)
(***************************************************************************)
\* ListGameServers: SMEMBERS.
ListBegin ==
    /\ ~listing
    /\ listing' = TRUE
    /\ todo' = idx
    /\ found' = {}
    /\ steady' = {s \in Servers : Visible(s)}
    /\ UNCHANGED <<storeVars, procVars, ageVars>>

\* Mutant: the loop ends at a server that is not found.
ListGet_Break(s) ==
    /\ listing
    /\ s \in todo
    /\ todo' = IF rec[s] > 0 THEN todo \ {s} ELSE {}
    /\ found' = IF rec[s] > 0 THEN found \cup {s} ELSE found
    /\ UNCHANGED <<storeVars, procVars, listing, steady, ageVars>>

\* GET of one listed server; one that is not found is left out.
ListGet(s) ==
    /\ listing
    /\ s \in todo
    /\ todo' = todo \ {s}
    /\ found' = IF rec[s] > 0 THEN found \cup {s} ELSE found
    /\ UNCHANGED <<storeVars, procVars, listing, steady, ageVars>>

\* One GET.
GetGameServerByID(s) == IF rec[s] > 0 THEN s ELSE NoServer

\* IssueJoinToken takes the server the client asked for, or, as the answer S
\* is sorted by ID, the first one listed; it fails if there is none.
selectServer(requested, S) ==
    CASE requested # NoServer -> GetGameServerByID(requested)
      [] requested = NoServer /\ S = {} -> NoServer
      [] OTHER -> CHOOSE s \in S : \A t \in S : Rank[s] <= Rank[t]

ListEnd ==
    /\ listing
    /\ todo = {}
    /\ listing' = FALSE
    /\ found' = {} /\ steady' = {}
    /\ UNCHANGED <<storeVars, procVars, todo, ageVars>>

\* Any command fails: the listing has no answer.
ListFails ==
    /\ listing
    /\ listing' = FALSE
    /\ todo' = {} /\ found' = {} /\ steady' = {}
    /\ UNCHANGED <<storeVars, procVars, ageVars>>

-----------------------------------------------------------------------------
\* One heartbeat interval passes.
Tick ==
    LET Younger(n) == IF n = 0 THEN 0 ELSE n - 1
        Older(n)   == IF n = Old THEN Old ELSE n + 1
    IN  /\ rec' = [s \in Servers |-> Younger(rec[s])]
        /\ idxTTL' = Younger(idxTTL)
        /\ idx' = IF idxTTL = 1 THEN {} ELSE idx
        /\ due' = [s \in Servers |-> phase[s] = "running"]
        /\ prompt' = [s \in Servers |-> FALSE]
        /\ age' = [s \in Servers |-> Older(age[s])]
        /\ UNCHANGED <<phase, reg, todo, found, listing>>
        /\ StillSteady

Next ==
    \/ \E s \in Servers :
          \/ Launch(s)
          \/ RegisterSet(s)
          \/ RegisterSAdd(s)
          \/ RegisterExpire(s)
          \/ Heartbeat(s)
          \/ BeginStop(s)
          \/ Deregister(s)
          \/ Exit(s)
          \/ Crash(s)
          \/ ListGet(s)
    \/ ListBegin
    \/ ListEnd
    \/ ListFails
    \/ Tick

Spec == Init /\ [][Next]_vars

-----------------------------------------------------------------------------
(***************************************************************************)
(* Properties                                                              *)
(***************************************************************************)
\* A running server that registered, without dawdling, less than a time to
\* live ago is visible to readers, whatever the other servers that share the
\* index do, and however they die.
RegisteredIsVisible ==
    \A s \in Servers :
       phase[s] = "running" /\ age[s] < ServerTTL => Visible(s) /\ idxTTL >= ServerTTL - age[s]

\* A server whose process ended is offered to players for at most a time to
\* live more, although a heartbeat under way may write the record again after
\* shutdown deleted it.
DeadIsForgotten ==
    \A s \in Servers : phase[s] = "stopped" /\ rec[s] > 0 => rec[s] + age[s] <= ServerTTL

\* A listing reads the index and then one record after another while servers
\* come and go.  The server selectServer takes from it never comes after one
\* that was visible throughout; in particular it then takes one.  And a client
\* that asks for such a server gets it.
SelectsFirst ==
    listing /\ todo = {} =>
       LET first == selectServer(NoServer, found)
       IN  \A s \in steady : /\ first # NoServer /\ Rank[first] <= Rank[s]
                             /\ selectServer(s, found) = s

-----------------------------------------------------------------------------
(***************************************************************************)
(* What the repository says and the code does not do                       *)
(***************************************************************************)
\* game_servers.go: "The servers index has a TTL and will naturally expire if
\* no servers refresh it".  A server that dies between SADD and EXPIRE, or
\* whose EXPIRE fails, leaves an index without one.
IndexHasTTL ==
    idx # {} /\ (\A s \in Servers : reg[s] = "none") => idxTTL > 0
=============================================================================
