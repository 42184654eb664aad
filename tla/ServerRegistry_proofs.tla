----------------------- MODULE ServerRegistry_proofs -----------------------
(***************************************************************************)
(* TLAPS proofs about ServerRegistry, for any servers, order of their IDs  *)
(* and time to live.                                                       *)
(***************************************************************************)
EXTENDS ServerRegistry, WellFoundedInduction, TLAPS

-----------------------------------------------------------------------------
(***************************************************************************)
(* The inductive invariant                                                 *)
(***************************************************************************)
\* A server that never registered is too old, and one that has not begun or has
\* ended has no registration under way.
LifeInv == \A s \in Servers : /\ phase[s] \in {"new", "starting"} => age[s] = Old
                              /\ phase[s] \in {"new", "stopped"} => reg[s] = "none"

\* What a registration that began this interval has done so far still stands,
\* unless shutdown has deleted the record meanwhile.
PromptInv ==
    \A s \in Servers : prompt[s] /\ phase[s] \in {"starting", "running"} =>
       /\ reg[s] \in {"sadd", "expire"} => rec[s] = ServerTTL
       /\ reg[s] = "expire" => s \in idx

\* A running server's last prompt registration has that much left to live.
AliveInv ==
    \A s \in Servers : phase[s] = "running" /\ age[s] < ServerTTL =>
       /\ s \in idx
       /\ rec[s] >= ServerTTL - age[s]
       /\ idxTTL >= ServerTTL - age[s]

\* A listing has fetched, or has still to fetch, what was visible throughout.
ListInv == /\ \A s \in steady : Visible(s)
           /\ listing => steady \subseteq found \cup todo

RegistryInv == TypeOK /\ LifeInv /\ PromptInv /\ AliveInv /\ DeadIsForgotten /\ ListInv

\* No server is known at first.
LEMMA InitRegistry == Init => RegistryInv
<1> SUFFICES ASSUME Init PROVE RegistryInv
    OBVIOUS
<1>0. ServerTTL \in Nat /\ Old \in 0..Old /\ 0 \in 0..ServerTTL /\ ~ (Old < ServerTTL)
    BY RegistryAssumptions DEF Old
<1>1. TypeOK
    BY <1>0 DEF Init, TypeOK
<1>2. LifeInv /\ PromptInv /\ AliveInv /\ DeadIsForgotten
    BY <1>0 DEF Init, LifeInv, PromptInv, AliveInv, DeadIsForgotten
<1>3. ListInv
    BY DEF Init, ListInv
<1> QED
    BY <1>1, <1>2, <1>3 DEF RegistryInv

-----------------------------------------------------------------------------
(***************************************************************************)
(* The steps                                                               *)
(***************************************************************************)
\* How the process of s may change when a command of its registration fails.
LEMMA FailureEffect ==
    ASSUME TypeOK, NEW s \in Servers, RegistrationFails(s)
    PROVE  /\ reg' = [reg EXCEPT ![s] = "none"]
           /\ prompt' = [prompt EXCEPT ![s] = FALSE]
           /\ due' \in [Servers -> BOOLEAN]
           /\ \/ /\ phase[s] = "starting"
                 /\ phase' = [phase EXCEPT ![s] = "stopped"]
                 /\ age' = [age EXCEPT ![s] = 0]
              \/ /\ phase[s] # "starting"
                 /\ UNCHANGED <<phase, age>>
BY DEF TypeOK, RegistrationFails, Die, EndRegistration

\* A process that ends takes its registration under way with it.
LEMMA DieEffect ==
    ASSUME TypeOK, NEW s \in Servers, Die(s)
    PROVE  /\ reg' = [reg EXCEPT ![s] = "none"]
           /\ prompt' = [prompt EXCEPT ![s] = FALSE]
           /\ due' \in [Servers -> BOOLEAN]
           /\ phase' = [phase EXCEPT ![s] = "stopped"]
           /\ age' = [age EXCEPT ![s] = 0]
BY DEF TypeOK, Die, EndRegistration

\* The part of TypeOK about the server processes.
ProcessTypes ==
    /\ phase \in [Servers -> {"new", "starting", "running", "stopping", "exiting", "stopped"}]
    /\ reg \in [Servers -> {"none", "set", "sadd", "expire"}]
    /\ due \in [Servers -> BOOLEAN]
    /\ prompt \in [Servers -> BOOLEAN]
    /\ age \in [Servers -> 0..Old]

\* A registration, or a process, that ends leaves the process states typed.
LEMMA EndTypes ==
    ASSUME TypeOK, NEW s \in Servers, RegistrationFails(s) \/ Die(s)
    PROVE  ProcessTypes'
<1>1. 0 \in 0..Old
    BY RegistryAssumptions DEF Old
<1>2. /\ reg' \in [Servers -> {"none", "set", "sadd", "expire"}]
      /\ due' \in [Servers -> BOOLEAN]
    BY DieEffect, FailureEffect DEF TypeOK
<1>3. prompt' \in [Servers -> BOOLEAN]
    <2>1. prompt' = [prompt EXCEPT ![s] = FALSE] /\ prompt \in [Servers -> BOOLEAN]
        BY DieEffect, FailureEffect DEF TypeOK
    <2> QED
        BY <2>1
<1>4. phase' \in [Servers -> {"new", "starting", "running", "stopping", "exiting", "stopped"}]
    BY DieEffect, FailureEffect DEF TypeOK
<1>5. age' \in [Servers -> 0..Old]
    <2>1. age \in [Servers -> 0..Old] /\ age' \in {age, [age EXCEPT ![s] = 0]}
        BY DieEffect, FailureEffect DEF TypeOK
    <2> QED
        BY <1>1, <2>1
<1> QED
    BY <1>2, <1>3, <1>4, <1>5 DEF ProcessTypes

\* Start, heartbeat and the begin of a shutdown touch no key.
LEMMA LaunchStep ==
    ASSUME RegistryInv, NEW s \in Servers, Launch(s) \/ Heartbeat(s) \/ BeginStop(s)
    PROVE  RegistryInv'
<1>. USE DEF RegistryInv, Launch, Heartbeat, BeginStop, BeginRegistration,
             storeVars, listVars, ageVars
<1>1. TypeOK'
    BY DEF TypeOK
<1>2. LifeInv' /\ PromptInv' /\ AliveInv' /\ DeadIsForgotten'
    BY DEF TypeOK, LifeInv, PromptInv, AliveInv, DeadIsForgotten
<1>3. ListInv'
    BY DEF ListInv, Visible
<1> QED
    BY <1>1, <1>2, <1>3

\* SET gives the record a full time to live.
LEMMA RegisterSetStep ==
    ASSUME RegistryInv, NEW s \in Servers, RegisterSet(s)
    PROVE  RegistryInv'
<1>0. TypeOK /\ reg[s] = "set" /\ phase[s] # "stopped" /\ ServerTTL \in Nat \ {0}
    BY RegistryAssumptions DEF RegistryInv, LifeInv, RegisterSet
<1>1. /\ rec' \in {rec, [rec EXCEPT ![s] = ServerTTL]}
      /\ UNCHANGED <<idx, idxTTL, todo, found, listing>>
      /\ steady' = {x \in steady : Visible(x)'}
    BY DEF RegisterSet, SetRecord, StillSteady
<1>2. \/ RegistrationFails(s)
      \/ /\ rec' = [rec EXCEPT ![s] = ServerTTL]
         /\ reg' = [reg EXCEPT ![s] = "sadd"]
         /\ UNCHANGED <<phase, due, prompt, age>>
    BY DEF RegisterSet, SetRecord, Continue, ageVars
<1>3. TypeOK'
    <2>1. 0 \in 0..Old /\ 0 \in 0..ServerTTL /\ ServerTTL \in 0..ServerTTL
        BY <1>0 DEF Old
    <2>2. /\ rec' \in [Servers -> 0..ServerTTL] /\ idx' \in SUBSET Servers
          /\ idxTTL' \in 0..ServerTTL /\ steady' \in SUBSET Servers
        BY <1>0, <1>1, <2>1 DEF TypeOK
    <2>3. CASE RegistrationFails(s)
        BY <1>0, <1>1, <2>2, <2>3, EndTypes DEF TypeOK, ProcessTypes
    <2>4. CASE ~ RegistrationFails(s)
        BY <1>0, <1>1, <1>2, <2>1, <2>2, <2>4 DEF TypeOK
    <2> QED
        BY <2>3, <2>4
<1>4. LifeInv'
    BY <1>0, <1>1, <1>2, FailureEffect DEF RegistryInv, TypeOK, LifeInv
<1>5. PromptInv'
    BY <1>0, <1>1, <1>2, FailureEffect DEF RegistryInv, TypeOK, PromptInv
<1>6. AliveInv'
    BY <1>0, <1>1, <1>2, FailureEffect DEF RegistryInv, TypeOK, AliveInv, Old
<1>7. DeadIsForgotten'
    BY <1>0, <1>1, <1>2, FailureEffect DEF RegistryInv, TypeOK, DeadIsForgotten, Old
<1>8. ListInv'
    BY <1>1 DEF RegistryInv, ListInv
<1> QED
    BY <1>3, <1>4, <1>5, <1>6, <1>7, <1>8 DEF RegistryInv

\* SADD puts the server into the index.
LEMMA RegisterSAddStep ==
    ASSUME RegistryInv, NEW s \in Servers, RegisterSAdd(s)
    PROVE  RegistryInv'
<1>0. TypeOK /\ reg[s] = "sadd" /\ phase[s] # "stopped" /\ ServerTTL \in Nat \ {0}
    BY RegistryAssumptions DEF RegistryInv, LifeInv, RegisterSAdd
<1>1. /\ idx' \in {idx, idx \cup {s}}
      /\ UNCHANGED <<rec, idxTTL, todo, found, listing>>
      /\ steady' = {x \in steady : Visible(x)'}
    BY DEF RegisterSAdd, StillSteady
<1>2. \/ RegistrationFails(s)
      \/ /\ idx' = idx \cup {s}
         /\ reg' = [reg EXCEPT ![s] = "expire"]
         /\ UNCHANGED <<phase, due, prompt, age>>
    BY DEF RegisterSAdd, Continue, ageVars
<1>3. TypeOK'
    <2>1. 0 \in 0..Old /\ 0 \in 0..ServerTTL /\ ServerTTL \in 0..ServerTTL
        BY <1>0 DEF Old
    <2>2. /\ rec' \in [Servers -> 0..ServerTTL] /\ idx' \in SUBSET Servers
          /\ idxTTL' \in 0..ServerTTL /\ steady' \in SUBSET Servers
        BY <1>0, <1>1, <2>1 DEF TypeOK
    <2>3. CASE RegistrationFails(s)
        BY <1>0, <1>1, <2>2, <2>3, EndTypes DEF TypeOK, ProcessTypes
    <2>4. CASE ~ RegistrationFails(s)
        BY <1>0, <1>1, <1>2, <2>1, <2>2, <2>4 DEF TypeOK
    <2> QED
        BY <2>3, <2>4
<1>4. LifeInv'
    BY <1>0, <1>1, <1>2, FailureEffect DEF RegistryInv, TypeOK, LifeInv
<1>5. PromptInv'
    BY <1>0, <1>1, <1>2, FailureEffect DEF RegistryInv, TypeOK, PromptInv
<1>6. AliveInv'
    BY <1>0, <1>1, <1>2, FailureEffect DEF RegistryInv, TypeOK, AliveInv, Old
<1>7. DeadIsForgotten'
    BY <1>0, <1>1, <1>2, FailureEffect DEF RegistryInv, TypeOK, DeadIsForgotten, Old
<1>8. ListInv'
    BY <1>1 DEF RegistryInv, ListInv
<1> QED
    BY <1>3, <1>4, <1>5, <1>6, <1>7, <1>8 DEF RegistryInv

\* EXPIRE renews the index for everybody in it.
LEMMA RegisterExpireStep ==
    ASSUME RegistryInv, NEW s \in Servers, RegisterExpire(s)
    PROVE  RegistryInv'
<1>0. TypeOK /\ reg[s] = "expire" /\ phase[s] # "stopped" /\ ServerTTL \in Nat \ {0}
    BY RegistryAssumptions DEF RegistryInv, LifeInv, RegisterExpire
<1>1. /\ idxTTL' \in {idxTTL, IF idx = {} THEN 0 ELSE ServerTTL}
      /\ UNCHANGED <<rec, idx, todo, found, listing, steady>>
    BY DEF RegisterExpire, ExpireIndex, listVars
<1>2. \/ RegistrationFails(s)
      \/ /\ idxTTL' = IF idx = {} THEN 0 ELSE ServerTTL
         /\ phase' = [phase EXCEPT ![s] = IF @ = "starting" THEN "running" ELSE @]
         /\ reg' = [reg EXCEPT ![s] = "none"]
         /\ prompt' = [prompt EXCEPT ![s] = FALSE]
         /\ age' = [age EXCEPT ![s] = IF prompt[s] THEN 0 ELSE @]
         /\ UNCHANGED due
    BY DEF RegisterExpire, ExpireIndex, EndRegistration
<1>3. TypeOK'
    <2>1. 0 \in 0..Old /\ 0 \in 0..ServerTTL /\ ServerTTL \in 0..ServerTTL
        BY <1>0 DEF Old
    <2>2. /\ rec' \in [Servers -> 0..ServerTTL] /\ idx' \in SUBSET Servers
          /\ idxTTL' \in 0..ServerTTL /\ steady' \in SUBSET Servers
        BY <1>0, <1>1, <2>1 DEF TypeOK
    <2>3. CASE RegistrationFails(s)
        BY <1>0, <1>1, <2>2, <2>3, EndTypes DEF TypeOK, ProcessTypes
    <2>4. CASE ~ RegistrationFails(s)
        <3>1. /\ phase' = [phase EXCEPT ![s] = IF @ = "starting" THEN "running" ELSE @]
              /\ reg' = [reg EXCEPT ![s] = "none"]
              /\ prompt' = [prompt EXCEPT ![s] = FALSE]
              /\ age' = [age EXCEPT ![s] = IF prompt[s] THEN 0 ELSE @]
              /\ UNCHANGED due
            BY <1>2, <2>4
        <3>2. prompt' \in [Servers -> BOOLEAN]
            BY <1>0, <3>1 DEF TypeOK
        <3>3. age' \in [Servers -> 0..Old]
            BY <1>0, <2>1, <3>1 DEF TypeOK
        <3>4. phase' \in [Servers -> {"new", "starting", "running", "stopping", "exiting",
                                      "stopped"}]
            BY <1>0, <3>1 DEF TypeOK
        <3> QED
            BY <1>0, <1>1, <2>2, <3>1, <3>2, <3>3, <3>4 DEF TypeOK
    <2> QED
        BY <2>3, <2>4
<1>4. LifeInv'
    <2>1. CASE RegistrationFails(s)
        BY <1>0, <2>1, FailureEffect DEF RegistryInv, TypeOK, LifeInv
    <2>2. CASE ~ RegistrationFails(s)
        <3>1. /\ phase' = [phase EXCEPT ![s] = IF @ = "starting" THEN "running" ELSE @]
              /\ reg' = [reg EXCEPT ![s] = "none"]
              /\ age' = [age EXCEPT ![s] = IF prompt[s] THEN 0 ELSE @]
            BY <1>2, <2>2
        <3>2. phase'[s] \notin {"new", "starting", "stopped"}
            BY <1>0, <3>1 DEF RegistryInv, TypeOK, LifeInv
        <3>3. \A x \in Servers \ {s} : phase'[x] = phase[x] /\ reg'[x] = reg[x] /\ age'[x] = age[x]
            BY <1>0, <3>1 DEF TypeOK
        <3> QED
            BY <3>2, <3>3 DEF RegistryInv, LifeInv
    <2> QED
        BY <2>1, <2>2
<1>5. PromptInv'
    BY <1>0, <1>1, <1>2, FailureEffect DEF RegistryInv, TypeOK, PromptInv
<1>6. AliveInv'
    BY <1>0, <1>1, <1>2, FailureEffect DEF RegistryInv, TypeOK, LifeInv, PromptInv, AliveInv, Old
<1>7. DeadIsForgotten'
    BY <1>0, <1>1, <1>2, FailureEffect DEF RegistryInv, TypeOK, DeadIsForgotten, Old
<1>8. ListInv'
    BY <1>1 DEF RegistryInv, ListInv, Visible
<1> QED
    BY <1>3, <1>4, <1>5, <1>6, <1>7, <1>8 DEF RegistryInv

\* The shutdown deletes the record, or fails to.
LEMMA DeregisterStep ==
    ASSUME RegistryInv, NEW s \in Servers, Deregister(s)
    PROVE  RegistryInv'
<1>0. TypeOK /\ phase[s] = "stopping"
    BY DEF RegistryInv, Deregister
<1>1. /\ phase' = [phase EXCEPT ![s] = "exiting"]
      /\ rec' \in {rec, [rec EXCEPT ![s] = 0]}
      /\ UNCHANGED <<idx, idxTTL, reg, due, todo, found, listing, prompt, age>>
      /\ steady' = {x \in steady : Visible(x)'}
    BY DEF Deregister, StillSteady, ageVars
<1>2. TypeOK'
    BY <1>0, <1>1, RegistryAssumptions DEF TypeOK
<1>3. LifeInv' /\ PromptInv' /\ AliveInv' /\ DeadIsForgotten'
    BY <1>0, <1>1 DEF RegistryInv, TypeOK, LifeInv, PromptInv, AliveInv, DeadIsForgotten
<1>4. ListInv'
    BY <1>1 DEF RegistryInv, ListInv
<1> QED
    BY <1>2, <1>3, <1>4 DEF RegistryInv

\* From now on the record only gets older.
LEMMA DieStep ==
    ASSUME RegistryInv, NEW s \in Servers, Exit(s) \/ Crash(s)
    PROVE  RegistryInv'
<1>0. TypeOK /\ Die(s) /\ UNCHANGED <<rec, idx, idxTTL, todo, found, listing, steady>>
    BY DEF RegistryInv, Exit, Crash, storeVars, listVars
<1>1. TypeOK'
    <2>1. 0 \in 0..Old
        BY RegistryAssumptions DEF Old
    <2> QED
        BY <1>0, EndTypes DEF TypeOK, ProcessTypes
<1>2. LifeInv' /\ PromptInv' /\ AliveInv'
    BY <1>0, DieEffect DEF RegistryInv, TypeOK, LifeInv, PromptInv, AliveInv
<1>3. DeadIsForgotten'
    BY <1>0, DieEffect DEF RegistryInv, TypeOK, DeadIsForgotten
<1>4. ListInv'
    BY <1>0 DEF RegistryInv, ListInv, Visible
<1> QED
    BY <1>1, <1>2, <1>3, <1>4 DEF RegistryInv

\* The reader changes nothing but what it has fetched.
LEMMA ListStep ==
    ASSUME RegistryInv,
           ListBegin \/ ListEnd \/ ListFails \/ \E s \in Servers : ListGet(s)
    PROVE  RegistryInv'
<1>0. UNCHANGED <<rec, idx, idxTTL, phase, reg, due, prompt, age>>
    BY DEF ListBegin, ListEnd, ListFails, ListGet, storeVars, procVars, ageVars
<1>1. TypeOK' /\ ListInv'
    <2>1. CASE ListBegin
        BY <1>0, <2>1 DEF ListBegin, RegistryInv, TypeOK, ListInv, Visible
    <2>2. CASE ListEnd \/ ListFails
        BY <1>0, <2>2 DEF ListEnd, ListFails, RegistryInv, TypeOK, ListInv, Visible
    <2>3. ASSUME NEW s \in Servers, ListGet(s) PROVE TypeOK' /\ ListInv'
        BY <1>0, <2>3 DEF ListGet, RegistryInv, TypeOK, ListInv, Visible
    <2> QED
        BY <2>1, <2>2, <2>3
<1>2. LifeInv' /\ PromptInv' /\ AliveInv' /\ DeadIsForgotten'
    BY <1>0 DEF RegistryInv, LifeInv, PromptInv, AliveInv, DeadIsForgotten
<1> QED
    BY <1>1, <1>2 DEF RegistryInv

\* The record and the index get older together with the registration.
LEMMA TickStep ==
    ASSUME RegistryInv, Tick
    PROVE  RegistryInv'
<1>0. TypeOK /\ ServerTTL \in Nat \ {0}
    BY RegistryAssumptions DEF RegistryInv
<1>1. /\ rec' = [s \in Servers |-> IF rec[s] = 0 THEN 0 ELSE rec[s] - 1]
      /\ idxTTL' = IF idxTTL = 0 THEN 0 ELSE idxTTL - 1
      /\ idx' = IF idxTTL = 1 THEN {} ELSE idx
      /\ due' = [s \in Servers |-> phase[s] = "running"]
      /\ prompt' = [s \in Servers |-> FALSE]
      /\ age' = [s \in Servers |-> IF age[s] = Old THEN Old ELSE age[s] + 1]
      /\ UNCHANGED <<phase, reg, todo, found, listing>>
      /\ steady' = {x \in steady : Visible(x)'}
    BY DEF Tick, StillSteady
<1>2. TypeOK'
    BY <1>0, <1>1 DEF TypeOK, Old
<1>3. LifeInv' /\ PromptInv'
    BY <1>0, <1>1 DEF RegistryInv, TypeOK, LifeInv, PromptInv
<1>4. AliveInv'
    BY <1>0, <1>1 DEF RegistryInv, TypeOK, AliveInv, Old
<1>5. DeadIsForgotten'
    BY <1>0, <1>1 DEF RegistryInv, TypeOK, DeadIsForgotten, Old
<1>6. ListInv'
    BY <1>1 DEF RegistryInv, ListInv
<1> QED
    BY <1>2, <1>3, <1>4, <1>5, <1>6 DEF RegistryInv

\* Every step keeps RegistryInv.
LEMMA NextRegistry == RegistryInv /\ [Next]_vars => RegistryInv'
<1> SUFFICES ASSUME RegistryInv, [Next]_vars PROVE RegistryInv'
    OBVIOUS
<1>1. CASE UNCHANGED vars
    BY <1>1 DEF vars, storeVars, procVars, listVars, ageVars, RegistryInv, TypeOK, LifeInv,
                PromptInv, AliveInv, DeadIsForgotten, ListInv, Visible
<1> QED
    BY <1>1, LaunchStep, RegisterSetStep, RegisterSAddStep, RegisterExpireStep,
       DeregisterStep, DieStep, ListStep, TickStep DEF Next

\* RegistryInv is an invariant of the registry.
LEMMA Invariance == Spec => []RegistryInv
BY InitRegistry, NextRegistry, PTL DEF Spec

-----------------------------------------------------------------------------
(***************************************************************************)
(* The theorems                                                            *)
(***************************************************************************)
\* The state of the registry, the server processes and the reader is always
\* well typed; in particular no key outlives ServerTTL.
THEOREM RegistryTypes == Spec => []TypeOK
<1>1. RegistryInv => TypeOK
    BY DEF RegistryInv
<1> QED
    BY <1>1, Invariance, PTL

\* ListGameServers finds every running server whose last registration was
\* complete less than a time to live ago.
THEOREM LiveServersVisible == Spec => []RegisteredIsVisible
<1>1. RegistryInv => RegisteredIsVisible
    BY RegistryAssumptions DEF RegistryInv, AliveInv, RegisteredIsVisible, Visible, TypeOK
<1> QED
    BY <1>1, Invariance, PTL

\* The record of a server whose process ended is gone after a time to live.
THEOREM DeadServersForgotten == Spec => []DeadIsForgotten
<1>1. RegistryInv => DeadIsForgotten
    BY DEF RegistryInv
<1> QED
    BY <1>1, Invariance, PTL

\* The order of IDs has a first one in every answer that is not empty.
LEMMA FirstOfAnswer ==
    ASSUME NEW S \in SUBSET Servers, S # {}
    PROVE  /\ selectServer(NoServer, S) \in S
           /\ \A t \in S : Rank[selectServer(NoServer, S)] <= Rank[t]
<1> DEFINE R == {Rank[t] : t \in S}
<1>1. R \subseteq Nat /\ R # {}
    BY RegistryAssumptions
<1>. HIDE DEF R
<1>2. PICK n \in R : \A m \in R : ~ (<<m, n>> \in OpToRel(<, Nat))
    BY <1>1, WFMin, NatLessThanWellFounded
<1>3. \A m \in R : n <= m
    <2> SUFFICES ASSUME NEW m \in R PROVE n <= m
        OBVIOUS
    <2>1. m \in Nat /\ n \in Nat
        BY <1>1
    <2>2. ~ (m < n)
        BY <1>2, <2>1 DEF OpToRel
    <2> QED
        BY <2>1, <2>2
<1>4. \E x \in S : \A t \in S : Rank[x] <= Rank[t]
    BY <1>3 DEF R
<1> QED
    BY <1>4 DEF selectServer

\* IssueJoinToken without a wish takes a server that comes no later than any
\* that could be found all the time, and with a wish for one of those, that.
THEOREM SelectionIsSound == Spec => []SelectsFirst
<1>1. RegistryInv => SelectsFirst
    <2> SUFFICES ASSUME RegistryInv, listing, todo = {}, NEW s \in steady
                 PROVE  /\ selectServer(NoServer, found) # NoServer
                        /\ Rank[selectServer(NoServer, found)] <= Rank[s]
                        /\ selectServer(s, found) = s
        BY DEF SelectsFirst
    <2>1. s \in found /\ found \in SUBSET Servers /\ rec[s] > 0
        BY DEF RegistryInv, ListInv, TypeOK, Visible
    <2>2. s # NoServer
        BY <2>1, RegistryAssumptions
    <2>3. selectServer(s, found) = s
        BY <2>1, <2>2 DEF selectServer, GetGameServerByID
    <2> QED
        BY <2>1, <2>3, FirstOfAnswer, RegistryAssumptions
<1> QED
    BY <1>1, Invariance, PTL
=============================================================================
