-------------------------- MODULE GameLoop_proofs --------------------------
(***************************************************************************)
(* Proofs about the game loop, for every number of peers and characters,   *)
(* any directions and any broadcast rate.                                  *)
(***************************************************************************)
EXTENDS GameLoop, FiniteSetTheorems, TLAPS

\* The count of ticks since a broadcast: Divisor is reached only between the
\* end of a tick and the broadcast; a player waits no longer than the count,
\* and Divisor ticks for every broadcast that failed; nobody else waits.
CountInv ==
    /\ pc # "broadcast" => since < Divisor
    /\ pc = "drain" => tick < MaxTick
    /\ \A p \in Peers : quiet[p] <= since + Divisor * missed[p]
    /\ \A p \in Peers \ Playing : quiet[p] = 0 /\ missed[p] = 0

\* An input waits only in a session that sent one since the last tick, and
\* during a tick only in the sessions still to be drained; no session is left
\* to drain outside one.
InputInv ==
    /\ \A p \in Peers : latest[p] # NoInput => p \in heard
    /\ pc = "drain" => \A p \in Peers : latest[p] # NoInput => p \in todo
    /\ pc # "drain" => todo = {}

\* A NaN that waits has tainted its character, unless the entity is gone.
TaintInv ==
    \A p \in Peers : latest[p] = NaN => sess[p] \in tainted \/ sess[p] \notin world

\* The ticks since the last snapshot that was sent.
Age == tick - shownTick

\* How many ticks have had their effect on c since the last snapshot: within
\* a tick, one more than counted once the session of c is drained.
Moved(c) ==
    IF pc = "drain" /\ Players(c) \cap todo = {} THEN Age + 1 ELSE Age

\* A solo character has at most one session, and has not outrun the ticks.
SpeedInv ==
    \A c \in solo :
       /\ \A p, q \in Players(c) : p = q
       /\ pos[c] # NaN => /\ shown[c] # NaN
                          /\ Distance(pos[c], shown[c]) <= Moved(c) * Full

LoopInv == TypeOK /\ CountInv /\ InputInv /\ TaintInv /\ NaNStaysHome /\ SpeedInv

-----------------------------------------------------------------------------
\* clampFloat returns a number within the bounds, or the NaN it was given.
LEMMA ClampBounds ==
    ASSUME NEW i \in Directions
    PROVE  /\ clampFloat(i) \in (-Full..Full) \cup {NaN}
           /\ clampFloat(i) = NaN => i = NaN
BY LoopAssumptions DEF clampFloat

\* The sum of two floats is a float, and a NaN only if one of them is.
LEMMA AddFloats ==
    ASSUME NEW x \in Floats, NEW y \in Floats
    PROVE  /\ Add(x, y) \in Floats
           /\ Add(x, y) = NaN <=> x = NaN \/ y = NaN
BY LoopAssumptions DEF Add, Floats

\* A step within the clamp adds at most Full to a distance.
LEMMA OneStep ==
    ASSUME NEW x \in Int, NEW y \in Int, NEW z \in Int, NEW d \in -Full..Full,
           Distance(x, y) <= z
    PROVE  Distance(x + d, y) <= z + Full
BY LoopAssumptions DEF Distance

\* What one ProcessInput does to the world.
LEMMA ProcessInputStep ==
    ASSUME TypeOK, NEW c, NEW i, ProcessInput(c, i)
    PROVE  /\ pos' \in [Characters -> Floats]
           /\ vel' \in [Characters -> (-Full..Full) \cup {NaN}]
           /\ \A d \in Characters :
                 \/ pos'[d] = pos[d] /\ vel'[d] = vel[d]
                 \/ /\ d = c /\ d \in world /\ i \in Directions
                    /\ pos'[d] = Add(pos[d], clampFloat(i))
                    /\ vel'[d] = clampFloat(i)
<1>1. CASE c \in world /\ i \in Directions
  <2>1. /\ pos' = [pos EXCEPT ![c] = Add(pos[c], clampFloat(i))]
        /\ vel' = [vel EXCEPT ![c] = clampFloat(i)]
    BY <1>1 DEF ProcessInput
  <2>2. clampFloat(i) \in (-Full..Full) \cup {NaN}
    BY <1>1, ClampBounds
  <2>3. c \in Characters /\ pos[c] \in Floats /\ clampFloat(i) \in Floats
    BY <1>1, <2>2, LoopAssumptions DEF TypeOK, Floats
  <2>4. Add(pos[c], clampFloat(i)) \in Floats
    BY <2>3, AddFloats
  <2>. QED BY <1>1, <2>1, <2>2, <2>3, <2>4 DEF TypeOK
<1>2. CASE ~(c \in world /\ i \in Directions)
  BY <1>2 DEF ProcessInput, TypeOK
<1>. QED BY <1>1, <1>2

-----------------------------------------------------------------------------
\* A loop that starts has nobody and nothing in its world.
LEMMA InitInv == Init => LoopInv
<1>. SUFFICES ASSUME Init PROVE LoopInv
  OBVIOUS
<1>1. TypeOK
  BY LoopAssumptions DEF Init, TypeOK, Floats, Spawn, Playing
<1>2. CountInv /\ InputInv
  BY LoopAssumptions DEF Init, CountInv, InputInv
<1>3. TaintInv /\ NaNStaysHome /\ SpeedInv
  BY LoopAssumptions DEF Init, TaintInv, NaNStaysHome, SpeedInv, Spawn
<1>. QED BY <1>1, <1>2, <1>3 DEF LoopInv

\* Types: the counters stay within their bounds because of CountInv.
LEMMA TypeStep ==
    ASSUME TypeOK, CountInv, InputInv, Next PROVE TypeOK'
<1>. USE DEF sessVars, worldVars, castVars, history
<1>1. ASSUME NEW p \in Peers, NEW c \in Characters, Join(p, c) PROVE TypeOK'
  BY <1>1, LoopAssumptions DEF Join, TypeOK, InputInv, Playing, Floats, Spawn, FedByOthers
<1>2. ASSUME NEW p \in Peers, Disconnect(p) PROVE TypeOK'
  BY <1>2, LoopAssumptions DEF Disconnect, TypeOK, InputInv, Playing, Floats, Spawn
<1>3. ASSUME NEW p \in Peers, NEW i \in Inputs, ReceiveInput(p, i) PROVE TypeOK'
  BY <1>3 DEF ReceiveInput, TypeOK, Playing
<1>4. ASSUME NEW p \in Peers, DrainInputs(p) PROVE TypeOK'
  <2>1. /\ pos' \in [Characters -> Floats]
        /\ vel' \in [Characters -> (-Full..Full) \cup {NaN}]
    BY <1>4, ProcessInputStep DEF DrainInputs
  <2>. QED BY <1>4, <2>1 DEF DrainInputs, TypeOK, Playing
<1>5. CASE NoEvent \/ NoTick \/ NoBroadcast
  BY <1>5 DEF NoEvent, NoTick, NoBroadcast, TypeOK, Playing
<1>6. CASE RunTick
  BY <1>6 DEF RunTick, TypeOK, Playing
<1>7. CASE EndTick
  BY <1>7, LoopAssumptions DEF EndTick, TypeOK, CountInv, Playing
<1>8. CASE Broadcast
  <2>1. shown' \in [Characters -> Floats]
    BY <1>8 DEF Broadcast, BuildSnapshot, TypeOK, Floats, Spawn
  <2>. QED BY <1>8, <2>1, LoopAssumptions DEF Broadcast, TypeOK, Playing
<1>9. CASE SkipBroadcast \/ BroadcastFails
  BY <1>9, LoopAssumptions DEF SkipBroadcast, BroadcastFails, TypeOK, Playing
<1>. QED BY <1>1, <1>2, <1>3, <1>4, <1>5, <1>6, <1>7, <1>8, <1>9 DEF Next

\* The counts: a tick adds one to both sides, and only the end of a tick may
\* reach Divisor.
LEMMA CountStep ==
    ASSUME TypeOK, CountInv, Next PROVE CountInv'
<1>. USE DEF sessVars, worldVars, castVars, history
<1>z. Divisor * 0 = 0
  BY LoopAssumptions
<1>1. ASSUME NEW p \in Peers, NEW c \in Characters, Join(p, c) PROVE CountInv'
  BY <1>1, <1>z, LoopAssumptions DEF Join, TypeOK, CountInv, Playing
<1>2. ASSUME NEW p \in Peers, Disconnect(p) PROVE CountInv'
  BY <1>2, <1>z DEF Disconnect, TypeOK, CountInv, Playing
<1>3. ASSUME NEW p \in Peers, NEW i \in Inputs, ReceiveInput(p, i) PROVE CountInv'
  BY <1>3 DEF ReceiveInput, CountInv, Playing
<1>4. ASSUME NEW p \in Peers, DrainInputs(p) PROVE CountInv'
  BY <1>4 DEF DrainInputs, CountInv, Playing
<1>5. CASE NoEvent \/ RunTick \/ NoTick
  BY <1>5 DEF NoEvent, RunTick, NoTick, CountInv, Playing
<1>m. \A p \in Peers : quiet[p] \in Nat /\ missed[p] \in Nat /\ Divisor * missed[p] \in Nat
  BY LoopAssumptions DEF TypeOK
<1>6. CASE EndTick
  <2>1. /\ pc' = "broadcast" /\ since' = since + 1 /\ missed' = missed /\ sess' = sess
        /\ \A p \in Peers : quiet'[p] = IF p \in Playing THEN quiet[p] + 1 ELSE 0
    BY <1>6 DEF EndTick
  <2>2. ASSUME NEW p \in Peers PROVE quiet'[p] <= since' + Divisor * missed'[p]
    <3>1. quiet[p] <= since + Divisor * missed[p] /\ since \in Nat
      BY DEF CountInv, TypeOK
    <3>. QED BY <1>m, <2>1, <3>1
  <2>. QED BY <2>1, <2>2 DEF CountInv, Playing
<1>7. CASE Broadcast \/ SkipBroadcast
  <2>1. /\ pc' = "service" /\ since' = 0 /\ sess' = sess
        /\ \A p \in Peers : quiet'[p] = 0 /\ missed'[p] = 0
    BY <1>7 DEF Broadcast, SkipBroadcast, CountInv
  <2>. QED BY <1>z, <2>1, LoopAssumptions DEF CountInv, Playing
<1>8. CASE BroadcastFails
  <2>1. /\ pc' = "service" /\ since' = 0 /\ since = Divisor /\ Playing' = Playing
        /\ UNCHANGED <<tick, quiet>>
        /\ missed' = [p \in Peers |-> IF p \in Playing THEN missed[p] + 1 ELSE 0]
    BY <1>8, LoopAssumptions DEF BroadcastFails, BroadcastDue, TypeOK, Playing
  <2>2. ASSUME NEW p \in Peers PROVE quiet'[p] <= since' + Divisor * missed'[p]
    <3>1. quiet[p] <= Divisor + Divisor * missed[p]
      BY <2>1 DEF CountInv
    <3>2. CASE p \in Playing
      <4>1. missed'[p] = missed[p] + 1 /\ missed[p] \in Nat
        BY <2>1, <3>2 DEF TypeOK
      <4>2. Divisor * (missed[p] + 1) = Divisor + Divisor * missed[p]
        BY <4>1, LoopAssumptions
      <4>3. Divisor * (missed[p] + 1) \in Nat
        BY <4>1, LoopAssumptions
      <4>. QED BY <2>1, <3>1, <4>1, <4>2, <4>3
    <3>3. CASE p \notin Playing
      <4>1. quiet'[p] = 0 /\ missed'[p] = 0
        BY <2>1, <3>3 DEF CountInv
      <4>. QED BY <2>1, <4>1, <1>z
    <3>. QED BY <3>2, <3>3
  <2>3. \A p \in Peers \ Playing' : quiet'[p] = 0 /\ missed'[p] = 0
    BY <2>1 DEF CountInv
  <2>. QED BY <2>1, <2>2, <2>3, LoopAssumptions DEF CountInv
<1>9. CASE NoBroadcast
  BY <1>9, LoopAssumptions DEF NoBroadcast, BroadcastDue, TypeOK, CountInv, Playing
<1>. QED BY <1>1, <1>2, <1>3, <1>4, <1>5, <1>6, <1>7, <1>8, <1>9 DEF Next

\* The inputs that wait.
LEMMA InputStep ==
    ASSUME TypeOK, InputInv, Next PROVE InputInv'
<1>. USE DEF sessVars, worldVars, castVars, history
<1>1. ASSUME NEW p \in Peers, NEW c \in Characters, Join(p, c) PROVE InputInv'
  BY <1>1 DEF Join, TypeOK, InputInv
<1>2. ASSUME NEW p \in Peers, Disconnect(p) PROVE InputInv'
  BY <1>2 DEF Disconnect, TypeOK, InputInv
<1>3. ASSUME NEW p \in Peers, NEW i \in Inputs, ReceiveInput(p, i) PROVE InputInv'
  BY <1>3 DEF ReceiveInput, TypeOK, InputInv
<1>4. ASSUME NEW p \in Peers, DrainInputs(p) PROVE InputInv'
  BY <1>4 DEF DrainInputs, TypeOK, InputInv
<1>5. CASE RunTick
  BY <1>5 DEF RunTick, TypeOK, InputInv
<1>6. CASE EndTick
  BY <1>6 DEF EndTick, TypeOK, InputInv
<1>7. CASE NoEvent \/ NoTick \/ Broadcast \/ BroadcastFails \/ SkipBroadcast \/ NoBroadcast
  BY <1>7 DEF NoEvent, NoTick, Broadcast, BroadcastFails, SkipBroadcast, NoBroadcast, InputInv
<1>. QED BY <1>1, <1>2, <1>3, <1>4, <1>5, <1>6, <1>7 DEF Next

\* A NaN reaches a character only through an input of a session that played
\* it then, and that input has tainted it.
LEMMA TaintStep ==
    ASSUME TypeOK, TaintInv, NaNStaysHome, Next PROVE TaintInv' /\ NaNStaysHome'
<1>. USE DEF sessVars, worldVars, castVars, history
<1>0. NaN # Spawn /\ NaN # 0
  BY LoopAssumptions DEF Spawn
<1>1. ASSUME NEW p \in Peers, NEW c \in Characters, Join(p, c)
      PROVE  TaintInv' /\ NaNStaysHome'
  <2>1. \A q \in Peers : latest'[q] = NaN => q # p /\ latest[q] = NaN /\ sess'[q] = sess[q]
    BY <1>1, LoopAssumptions DEF Join, TypeOK
  <2>2. \A q \in Peers \ {p} : sess[q] = c /\ latest[q] = NaN => c \in tainted'
    BY <1>1 DEF Join, FedByOthers, Players
  <2>3. TaintInv'
    BY <1>1, <2>1, <2>2 DEF Join, TaintInv
  <2>4. \A d \in Characters : NaN \in {pos'[d], vel'[d]} => d # c /\ NaN \in {pos[d], vel[d]}
    BY <1>0, <1>1 DEF Join, TypeOK
  <2>5. NaNStaysHome'
    BY <1>1, <2>4 DEF Join, NaNStaysHome
  <2>. QED BY <2>3, <2>5
<1>2. ASSUME NEW p \in Peers, Disconnect(p) PROVE TaintInv' /\ NaNStaysHome'
  <2>1. \A q \in Peers : latest'[q] = NaN => latest[q] = NaN /\ sess'[q] = sess[q]
    BY <1>2, LoopAssumptions DEF Disconnect, TypeOK
  <2>2. TaintInv'
    BY <1>2, <2>1 DEF Disconnect, TaintInv
  <2>3. \A d \in Characters :
           NaN \in {pos'[d], vel'[d]} => d # sess[p] /\ NaN \in {pos[d], vel[d]}
    BY <1>0, <1>2 DEF Disconnect, TypeOK, Playing
  <2>4. NaNStaysHome'
    BY <1>2, <2>3 DEF Disconnect, NaNStaysHome
  <2>. QED BY <2>2, <2>4
<1>3. ASSUME NEW p \in Peers, NEW i \in Inputs, ReceiveInput(p, i)
      PROVE  TaintInv' /\ NaNStaysHome'
  BY <1>3 DEF ReceiveInput, TypeOK, TaintInv, NaNStaysHome
<1>4. ASSUME NEW p \in Peers, DrainInputs(p) PROVE TaintInv' /\ NaNStaysHome'
  <2>1. TaintInv'
    BY <1>4, LoopAssumptions DEF DrainInputs, TypeOK, TaintInv
  <2>2. ASSUME NEW d \in Characters, NaN \in {pos'[d], vel'[d]} PROVE d \in tainted
    <3>1. CASE pos'[d] = pos[d] /\ vel'[d] = vel[d]
      BY <2>2, <3>1 DEF NaNStaysHome
    <3>2. CASE /\ d = sess[p] /\ d \in world /\ latest[p] \in Directions
               /\ pos'[d] = Add(pos[d], clampFloat(latest[p]))
               /\ vel'[d] = clampFloat(latest[p])
      <4>1. pos[d] \in Floats /\ clampFloat(latest[p]) \in Floats
        BY <3>2, ClampBounds, LoopAssumptions DEF TypeOK, Floats
      <4>2. pos[d] = NaN \/ clampFloat(latest[p]) = NaN
        BY <2>2, <3>2, <4>1, AddFloats
      <4>3. clampFloat(latest[p]) = NaN => latest[p] = NaN
        BY <3>2, ClampBounds
      <4>. QED BY <3>2, <4>2, <4>3 DEF NaNStaysHome, TaintInv
    <3>. QED BY <1>4, <3>1, <3>2, ProcessInputStep DEF DrainInputs
  <2>3. NaNStaysHome'
    BY <1>4, <2>2 DEF DrainInputs, NaNStaysHome
  <2>. QED BY <2>1, <2>3
<1>5. CASE \/ NoEvent \/ RunTick \/ NoTick \/ EndTick
           \/ Broadcast \/ BroadcastFails \/ SkipBroadcast \/ NoBroadcast
  BY <1>5 DEF NoEvent, RunTick, NoTick, EndTick, Broadcast, BroadcastFails, SkipBroadcast, NoBroadcast,
              TaintInv, NaNStaysHome
<1>. QED BY <1>1, <1>2, <1>3, <1>4, <1>5 DEF Next

-----------------------------------------------------------------------------
\* A set of at most one element has no two elements.
LEMMA AtMostOne ==
    ASSUME NEW S, IsFiniteSet(S), Cardinality(S) <= 1, NEW p \in S, NEW q \in S
    PROVE  p = q
<1>. SUFFICES ASSUME p # q PROVE FALSE
  OBVIOUS
<1>1. IsFiniteSet({p, q}) /\ Cardinality({p, q}) = 2
  <2>1. IsFiniteSet({p}) /\ Cardinality({p}) = 1
    BY FS_Singleton
  <2>2. {p, q} = {p} \cup {q} /\ q \notin {p}
    OBVIOUS
  <2>. QED BY <2>1, <2>2, FS_AddElement
<1>2. Cardinality({p, q}) <= Cardinality(S)
  BY FS_Subset
<1>3. Cardinality(S) \in Nat
  BY FS_CardinalityType
<1>. QED BY <1>1, <1>2, <1>3

\* More ticks, more way.
LEMMA TimesFull ==
    ASSUME NEW m \in Nat, NEW n \in Nat, m <= n
    PROVE  /\ m * Full \in Int /\ n * Full \in Int
           /\ m * Full <= n * Full
           /\ (m + 1) * Full = m * Full + Full
<1>1. PICK k \in Nat : n = m + k
  <2>1. n - m \in Nat /\ n = m + (n - m)
    OBVIOUS
  <2>. QED BY <2>1
<1>2. Full \in Nat /\ k * Full \in Nat /\ m * Full \in Nat
  BY LoopAssumptions
<1>3. (m + k) * Full = m * Full + k * Full
  BY <1>2
<1>4. (m + 1) * Full = m * Full + Full
  BY <1>2
<1>. QED BY <1>1, <1>2, <1>3, <1>4

\* No snapshot is from the future.
LEMMA AgeType ==
    ASSUME TypeOK, TypeOK' PROVE Age \in Nat /\ Age' \in Nat
<1>1. ASSUME NEW t \in Nat, NEW u \in 0..t PROVE t - u \in Nat
  BY <1>1
<1>2. /\ tick \in Nat /\ shownTick \in 0..tick
      /\ tick' \in Nat /\ shownTick' \in 0..tick'
  BY LoopAssumptions DEF TypeOK
<1>. QED BY <1>1, <1>2 DEF Age

\* SpeedInv for one character that has stayed solo, in a state in which it
\* has no new player, is where it was and is owed no fewer ticks.
LEMMA SpeedKept ==
    ASSUME SpeedInv, NEW c \in solo, Players(c)' \subseteq Players(c),
           pos'[c] = pos[c], shown'[c] = shown[c],
           TypeOK, TypeOK', Moved(c)' >= Moved(c)
    PROVE  /\ \A p, q \in Players(c)' : p = q
           /\ pos'[c] # NaN => /\ shown'[c] # NaN
                               /\ Distance(pos'[c], shown'[c]) <= Moved(c)' * Full
<1>0. c \in Characters /\ Moved(c) * Full \in Int /\ Moved(c)' * Full \in Int
      /\ Moved(c) * Full <= Moved(c)' * Full
  <2>1. c \in Characters /\ Moved(c) \in Nat /\ Moved(c)' \in Nat
    <3>1. c \in Characters /\ Age \in Nat /\ Age' \in Nat
      BY AgeType DEF TypeOK
    <3>2. Moved(c) \in {Age, Age + 1} /\ Moved(c)' \in {Age', Age' + 1}
      BY DEF Moved, Players
    <3>. QED BY <3>1, <3>2
  <2>. QED BY <2>1, TimesFull, LoopAssumptions
<1>1. \A p, q \in Players(c)' : p = q
  BY DEF SpeedInv
<1>2. ASSUME pos'[c] # NaN
      PROVE  shown'[c] # NaN /\ Distance(pos'[c], shown'[c]) <= Moved(c)' * Full
  <2>1. pos[c] \in Int /\ shown[c] \in Int /\ Distance(pos[c], shown[c]) <= Moved(c) * Full
    BY <1>0, <1>2 DEF SpeedInv, TypeOK, Floats
  <2>2. Distance(pos[c], shown[c]) \in Int
    BY <2>1 DEF Distance
  <2>. QED BY <1>0, <1>2, <2>1, <2>2, LoopAssumptions
<1>. QED BY <1>1, <1>2

\* A character cannot outrun the ticks: it moves once a tick, by at most one
\* full step, as it has one session and DrainInputs takes each session once.
LEMMA SpeedStep ==
    ASSUME TypeOK, TypeOK', InputInv, SpeedInv, Next PROVE SpeedInv'
<1>. USE DEF sessVars, worldVars, castVars, history
<1>0. Age \in Nat /\ Age' \in Nat
  BY AgeType
<1>a. UNCHANGED <<tick, shownTick>> => Age' = Age
  BY DEF Age
<1>1. ASSUME NEW p \in Peers, NEW c \in Characters, Join(p, c) PROVE SpeedInv'
  <2>1. ASSUME NEW d \in solo'
        PROVE  /\ d \in solo /\ Players(d)' \subseteq Players(d)
               /\ pos'[d] = pos[d] /\ shown'[d] = shown[d] /\ Moved(d)' >= Moved(d)
    BY <1>0, <1>a, <1>1, <2>1 DEF Join, TypeOK, Players, Moved
  <2>. QED BY <2>1, SpeedKept DEF SpeedInv
<1>2. ASSUME NEW p \in Peers, Disconnect(p) PROVE SpeedInv'
  <2>1. ASSUME NEW d \in solo'
        PROVE  /\ d \in solo /\ Players(d)' \subseteq Players(d)
               /\ pos'[d] = pos[d] /\ shown'[d] = shown[d] /\ Moved(d)' >= Moved(d)
    BY <1>0, <1>a, <1>2, <2>1, LoopAssumptions DEF Disconnect, TypeOK, Players, Moved
  <2>. QED BY <2>1, SpeedKept DEF SpeedInv
<1>3. ASSUME NEW p \in Peers, NEW i \in Inputs, ReceiveInput(p, i) PROVE SpeedInv'
  <2>1. ASSUME NEW d \in solo'
        PROVE  /\ d \in solo /\ Players(d)' \subseteq Players(d)
               /\ pos'[d] = pos[d] /\ shown'[d] = shown[d] /\ Moved(d)' >= Moved(d)
    BY <1>0, <1>a, <1>3, <2>1 DEF ReceiveInput, Players, Moved
  <2>. QED BY <2>1, SpeedKept DEF SpeedInv
<1>4. CASE NoEvent \/ NoTick \/ NoBroadcast \/ RunTick \/ EndTick \/ BroadcastFails
  <2>1. ASSUME NEW d \in solo'
        PROVE  /\ d \in solo /\ Players(d)' \subseteq Players(d)
               /\ pos'[d] = pos[d] /\ shown'[d] = shown[d] /\ Moved(d)' >= Moved(d)
    <3>1. UNCHANGED <<sess, pos, shown, solo>>
      BY <1>4 DEF NoEvent, NoTick, NoBroadcast, RunTick, EndTick, BroadcastFails
    <3>2. \/ pc # "drain" /\ tick' = tick /\ shownTick' = shownTick
          \/ todo = {} /\ pc' # "drain" /\ tick' = tick + 1 /\ shownTick' = shownTick
      BY <1>4 DEF NoEvent, NoTick, NoBroadcast, RunTick, EndTick, BroadcastFails
    <3>7. \/ pc # "drain" /\ Age' = Age
          \/ todo = {} /\ pc' # "drain" /\ Age' = Age + 1
      BY <3>2, LoopAssumptions DEF Age, TypeOK
    <3>3. Players(d)' = Players(d)
      BY <3>1 DEF Players
    <3>4. pc' # "drain" => Moved(d)' = Age'
      BY DEF Moved
    <3>5. pc # "drain" => Moved(d) = Age
      BY DEF Moved
    <3>6. Moved(d) \in {Age, Age + 1} /\ Moved(d)' \in {Age', Age' + 1}
      BY DEF Moved, Players
    <3>. QED BY <1>0, <3>1, <3>7, <3>3, <3>4, <3>5, <3>6
  <2>. QED BY <2>1, SpeedKept DEF SpeedInv
<1>5. ASSUME NEW p \in Peers, DrainInputs(p) PROVE SpeedInv'
  <2>0. UNCHANGED <<sess, shown, shownTick, tick, solo, pc>> /\ pc = "drain" /\ p \in todo
        /\ todo' = todo \ {p}
    BY <1>5 DEF DrainInputs
  <2>. SUFFICES ASSUME NEW d \in solo
                PROVE  (/\ \A q, r \in Players(d) : q = r
                        /\ pos[d] # NaN => /\ shown[d] # NaN
                                           /\ Distance(pos[d], shown[d]) <= Moved(d) * Full)'
    BY <2>0 DEF SpeedInv
  <2>1. Players(d)' = Players(d) /\ d \in Characters
    BY <2>0 DEF Players, TypeOK
  <2>2. CASE pos'[d] = pos[d]
    <3>1. Moved(d)' >= Moved(d)
      BY <1>0, <1>a, <2>0, <2>1 DEF Moved
    <3>. QED BY <2>0, <2>1, <2>2, <3>1, SpeedKept
  <2>3. CASE /\ d = sess[p] /\ latest[p] \in Directions
             /\ pos'[d] = Add(pos[d], clampFloat(latest[p]))
    <3>1. p \in Players(d) /\ \A q, r \in Players(d) : q = r
      BY <2>0, <2>3 DEF Players, SpeedInv, TypeOK
    <3>2. Moved(d) = Age /\ Moved(d)' = Age + 1
      BY <1>a, <2>0, <2>1, <3>1 DEF Moved
    <3>3. ASSUME pos'[d] # NaN
          PROVE  shown[d] # NaN /\ Distance(pos'[d], shown[d]) <= (Age + 1) * Full
      <4>1. pos[d] \in Floats /\ clampFloat(latest[p]) \in (-Full..Full) \cup {NaN}
        BY <2>1, <2>3, ClampBounds DEF TypeOK
      <4>2. pos[d] # NaN /\ clampFloat(latest[p]) # NaN
        BY <2>3, <3>3 DEF Add
      <4>3. pos[d] \in Int /\ clampFloat(latest[p]) \in -Full..Full
            /\ pos'[d] = pos[d] + clampFloat(latest[p])
        BY <2>3, <4>1, <4>2 DEF Add, Floats
      <4>4. shown[d] \in Int /\ Distance(pos[d], shown[d]) <= Age * Full
        BY <2>1, <3>2, <4>2 DEF SpeedInv, TypeOK, Floats
      <4>5. Age * Full \in Int /\ (Age + 1) * Full = Age * Full + Full
        BY <1>0, TimesFull
      <4>6. Distance(pos[d] + clampFloat(latest[p]), shown[d]) <= Age * Full + Full
        BY <4>3, <4>4, <4>5, OneStep
      <4>. QED BY <4>3, <4>4, <4>5, <4>6, LoopAssumptions
    <3>. QED BY <2>0, <2>1, <3>1, <3>2, <3>3
  <2>. QED BY <1>5, <2>1, <2>2, <2>3, ProcessInputStep DEF DrainInputs
<1>6. CASE Broadcast
  <2>1. UNCHANGED <<sess, pos>> /\ Age' = 0 /\ pc' = "service"
        /\ \A c \in solo' : c \in world /\ Cardinality(Players(c)) <= 1 /\ shown'[c] = pos[c]
    BY <1>6 DEF Broadcast, BuildSnapshot, TypeOK, Age
  <2>. SUFFICES ASSUME NEW c \in solo'
                PROVE  (/\ \A q, r \in Players(c) : q = r
                        /\ pos[c] # NaN => /\ shown[c] # NaN
                                           /\ Distance(pos[c], shown[c]) <= Moved(c) * Full)'
    BY DEF SpeedInv
  <2>2. Players(c)' = Players(c) /\ IsFiniteSet(Players(c))
    BY <2>1, FS_Subset, LoopAssumptions DEF Players
  <2>3. \A q, r \in Players(c) : q = r
    BY <2>1, <2>2, AtMostOne
  <2>4. Moved(c)' * Full = 0
    BY <2>1, LoopAssumptions DEF Moved
  <2>5. ASSUME pos[c] # NaN PROVE Distance(pos[c], pos[c]) = 0
    <3>1. pos[c] \in Int
      BY <2>1, <2>5 DEF TypeOK, Floats
    <3>. QED BY <3>1 DEF Distance
  <2>. QED BY <2>1, <2>2, <2>3, <2>4, <2>5
<1>7. CASE SkipBroadcast
  BY <1>7 DEF SkipBroadcast, SpeedInv
<1>. QED BY <1>1, <1>2, <1>3, <1>4, <1>5, <1>6, <1>7 DEF Next

-----------------------------------------------------------------------------
\* LoopInv is an invariant of the loop.
THEOREM LoopInvariant == Spec => []LoopInv
<1>1. LoopInv /\ [Next]_vars => LoopInv'
  <2>. SUFFICES ASSUME LoopInv, [Next]_vars PROVE LoopInv'
    OBVIOUS
  <2>1. CASE Next
    <3>1. TypeOK'
      BY <2>1, TypeStep DEF LoopInv
    <3>. QED BY <2>1, <3>1, CountStep, InputStep, TaintStep, SpeedStep DEF LoopInv
  <2>2. CASE UNCHANGED vars
    BY <2>2 DEF vars, sessVars, worldVars, castVars, history, LoopInv, TypeOK, CountInv,
                InputInv, TaintInv, NaNStaysHome, SpeedInv, Playing, Players, Moved, Age
  <2>. QED BY <2>1, <2>2
<1>. QED BY <1>1, InitInv, PTL DEF Spec

\* The loop's variables keep their types: in particular the count of ticks
\* since a broadcast stays within Divisor.
THEOREM LoopTypes == Spec => []TypeOK
BY LoopInvariant, PTL DEF LoopInv

\* No client, by the number, the order or the contents of its packets, moves
\* the character it plays alone faster than a full step per tick, as the
\* snapshots show it.
THEOREM SpeedLimit == Spec => []SnapshotsMoveAtSpeed
<1>1. LoopInv => SnapshotsMoveAtSpeed
  BY DEF LoopInv, SpeedInv, Moved, Age, SnapshotsMoveAtSpeed
<1>. QED BY <1>1, LoopInvariant, PTL

\* A NaN a client sends stays with the character its session played.
THEOREM NaNIsContained == Spec => []NaNStaysHome
BY LoopInvariant, PTL DEF LoopInv

\* Every player is sent a snapshot before Divisor ticks have passed without,
\* or Divisor more for every broadcast that failed meanwhile.
THEOREM SnapshotsAreTimely == Spec => []NobodyWaits
<1>1. LoopInv => NobodyWaits
  <2>. SUFFICES ASSUME LoopInv, pc = "service", NEW p \in Playing
                PROVE  quiet[p] < Divisor * (missed[p] + 1)
    BY DEF NobodyWaits
  <2>1. p \in Peers /\ quiet[p] \in Nat /\ missed[p] \in Nat /\ since \in Nat
    BY DEF LoopInv, TypeOK, Playing
  <2>2. since < Divisor /\ quiet[p] <= since + Divisor * missed[p]
    BY <2>1 DEF LoopInv, CountInv
  <2>3. Divisor * (missed[p] + 1) = Divisor + Divisor * missed[p] /\ Divisor * missed[p] \in Nat
    BY <2>1, LoopAssumptions
  <2>. QED BY <2>1, <2>2, <2>3, LoopAssumptions
<1>. QED BY <1>1, LoopInvariant, PTL

\* A tick moves only characters with a session that was heard since the tick
\* before: no input is applied twice.
THEOREM InputsActOnce == Spec => NoGhostMovement
<1>1. LoopInv /\ [Next]_vars =>
         [pc = "drain" => \A c \in Characters : pos'[c] # pos[c] => Players(c) \cap heard # {}]_vars
  <2>. SUFFICES ASSUME LoopInv, Next, pc = "drain", NEW c \in Characters, pos'[c] # pos[c]
                PROVE  Players(c) \cap heard # {}
    OBVIOUS
  <2>1. PICK p \in Peers : DrainInputs(p)
    BY DEF Next, Join, Disconnect, ReceiveInput, NoEvent, RunTick, NoTick, EndTick,
           Broadcast, BroadcastFails, SkipBroadcast, NoBroadcast, worldVars
  <2>2. c = sess[p] /\ latest[p] \in Directions
    BY <2>1, ProcessInputStep DEF DrainInputs, LoopInv
  <2>3. latest[p] # NoInput
    BY <2>2, LoopAssumptions
  <2>. QED BY <2>2, <2>3 DEF LoopInv, InputInv, Players
<1>. QED BY <1>1, LoopInvariant, PTL DEF Spec, NoGhostMovement
==============================================================================
