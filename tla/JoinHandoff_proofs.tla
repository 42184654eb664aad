-------------------------- MODULE JoinHandoff_proofs --------------------------
(***************************************************************************)
(* TLAPS proofs about JoinHandoff, for any sets of servers, peers,         *)
(* characters and tokens and any positive times to live, and about the     *)
(* lock store that it shares with LockLeases.                              *)
(***************************************************************************)
EXTENDS JoinHandoff, LockLeases, TLAPS

-----------------------------------------------------------------------------
(***************************************************************************)
(* The inductive invariant                                                 *)
(***************************************************************************)
\* A handler works on a token that was issued for its server, and only while
\* the loop of the server runs.
HandlersOK ==
    /\ \A t \in Tokens : Stored(t) => grant[t] # NoGrant
    /\ \A s \in Servers :
          /\ handler[s] # Idle => phase[s] = "running"
          /\ handler[s] \in Joins => /\ grant[handler[s].token] # NoGrant
                                     /\ grant[handler[s].token].server = s

\* Only a shutdown drains, it drains sessions that exist, and a server that
\* does not run has none.
DrainsOK ==
    \A s \in Servers :
       /\ drain[s] # {} => phase[s] = "stopping"
       /\ \A p \in drain[s] : sess[s][p] # NoSession
       /\ phase[s] = "new" => sess[s] = NoPeers

\* The handler of s loads c, and it works on c beyond the lock.
Loading(s, c) == handler[s].stage = "load" /\ grant[handler[s].token].char = c

Busy(s, c) ==
    \/ handler[s].stage \in {"load", "undo"} /\ grant[handler[s].token].char = c
    \/ handler[s].stage = "leave" /\ handler[s].char = c

\* While a lock has not lapsed, a server has one player per character, and
\* none of a character that its handler loads or releases.
OnePlayerPerServer ==
    \A s \in Servers, c \in Characters \ lapsed :
       /\ \A p1, p2 \in Peers : Plays(s, p1, c) /\ Plays(s, p2, c) => p1 = p2
       /\ Busy(s, c) => \A p \in Peers : ~Plays(s, p, c)

BasicInv == TypeOK /\ HandlersOK /\ DrainsOK

HandoffInv == BasicInv /\ HolderOwnsLock /\ OnePlayerPerServer

-----------------------------------------------------------------------------
(***************************************************************************)
(* Types                                                                   *)
(***************************************************************************)
\* The stage of a handler tells what else the handler knows.
LEMMA HandlerStages ==
    ASSUME NEW h \in {Idle} \cup Joins \cup Leaves
    PROVE  /\ h.stage \in {"join", "load", "undo"} <=> h \in Joins
           /\ h.stage = "leave" <=> h \in Leaves
           /\ h.stage = "idle" <=> h = Idle
           /\ h \in Joins => h.peer \in Peers /\ h.token \in Tokens
           /\ h \in Leaves => h.char \in Characters
BY DEF Idle, Joins, Leaves

\* Disconnecting a peer is well typed.
LEMMA ConnClosing ==
    ASSUME TypeOK, NEW s \in Servers, NEW p \in Peers
    PROVE  [conn EXCEPT ![s][p] = "closing"]
              \in [Servers -> [Peers -> {"free", "connected", "closing"}]]
BY DEF TypeOK

\* Every lock command leaves a function of lock records.
LEMMA LockTypes ==
    ASSUME LocksTypeOK, NEW c \in Characters, NEW s \in Servers
    PROVE  /\ AcquireCharacterLock(c, s, LockTTL) => LocksTypeOK'
           /\ AcquireRefused(c) => LocksTypeOK'
           /\ TryRelease(c, s) => LocksTypeOK'
           /\ AgeLocks => LocksTypeOK'
<1>. USE LockAssumptions DEF LocksTypeOK, LockRecords, Free
<1>1. AcquireCharacterLock(c, s, LockTTL) => LocksTypeOK'
  BY DEF AcquireCharacterLock, SetLock, effectiveTTL
<1>2. AcquireRefused(c) => LocksTypeOK'
  BY DEF AcquireRefused
<1>3. TryRelease(c, s) => LocksTypeOK'
  BY DEF TryRelease, ReleaseCharacterLock
<1>4. AgeLocks => LocksTypeOK'
  <2>1. SUFFICES ASSUME AgeLocks, NEW d \in Characters
                 PROVE  lock'[d] \in LockRecords
    BY <2>1 DEF AgeLocks
  <2>2. CASE lock[d].ttl = 0
    BY <2>1, <2>2 DEF AgeLocks
  <2>3. CASE lock[d].ttl = 1
    BY <2>1, <2>3 DEF AgeLocks
  <2>4. CASE lock[d].ttl \notin {0, 1}
    <3>1. lock[d] \in [owner : Servers, ttl : Nat]
      BY <2>4
    <3>2. lock'[d] = [lock[d] EXCEPT !.ttl = @ - 1]
      BY <2>1, <2>4 DEF AgeLocks
    <3>. QED BY <2>4, <3>1, <3>2
  <2>. QED BY <2>2, <2>3, <2>4
<1>. QED BY <1>1, <1>2, <1>3, <1>4
-----------------------------------------------------------------------------
\* The token a joining handler works on names a user and a character.
LEMMA HandlerGrant ==
    ASSUME BasicInv, NEW s \in Servers, handler[s] \in Joins
    PROVE  /\ handler[s].peer \in Peers
           /\ handler[s].token \in Tokens
           /\ grant[handler[s].token] \in Grants
           /\ grant[handler[s].token].user \in Users
           /\ grant[handler[s].token].char \in Characters
           /\ phase[s] = "running"
<1>1. handler[s].peer \in Peers /\ handler[s].token \in Tokens
  BY DEF Joins
<1>2. grant[handler[s].token] \in Grants
  BY <1>1 DEF BasicInv, TypeOK, TokensTypeOK, HandlersOK
<1>3. phase[s] = "running"
  BY DEF BasicInv, HandlersOK, Joins, Idle
<1>. QED BY <1>1, <1>2, <1>3 DEF Grants

\* Nobody plays and nothing is stored at first.
LEMMA InitBasic == Init => BasicInv
<1>. SUFFICES ASSUME Init PROVE BasicInv
  OBVIOUS
<1>1. TypeOK
  BY LockAssumptions, TokenAssumptions, HandoffAssumptions
     DEF Init, TypeOK, LocksInit, LocksTypeOK, LockRecords, Free, TokensInit,
         TokensTypeOK, NoPeers
<1>2. HandlersOK
  BY DEF Init, HandlersOK, TokensInit, Stored, Idle, Joins
<1>3. DrainsOK
  BY DEF Init, DrainsOK
<1>. QED BY <1>1, <1>2, <1>3 DEF BasicInv

\* Every step keeps the types, the tokens of handlers and the drains in order.
LEMMA NextBasic == BasicInv /\ [Next]_vars => BasicInv'
<1>. SUFFICES ASSUME BasicInv, [Next]_vars PROVE BasicInv'
  OBVIOUS
<1>. USE DEF BasicInv, serverVars
<1>1. CASE UNCHANGED vars
  BY <1>1 DEF vars, TypeOK, HandlersOK, DrainsOK, LocksTypeOK, TokensTypeOK, Stored
<1>2. ASSUME NEW t \in Tokens, NEW u \in Users, NEW c \in Characters, NEW s \in Servers,
             IssueJoinToken(t, u, c, s)
      PROVE  BasicInv'
  <2>. USE <1>2 DEF IssueJoinToken, CreateJoinToken
  <2>1. TypeOK'
    BY TokenAssumptions DEF TypeOK, LocksTypeOK, TokensTypeOK, Grants
  <2>2. HandlersOK'
    <3>1. \A x \in Tokens : Stored(x)' => grant'[x] # NoGrant
      BY TokenAssumptions DEF HandlersOK, TypeOK, TokensTypeOK, Stored, Grants
    <3>2. \A x \in Tokens : grant[x] # NoGrant => grant'[x] = grant[x]
      BY DEF Fresh, TypeOK, TokensTypeOK
    <3>3. \A z \in Servers : handler[z] \in Joins => handler[z].token \in Tokens
      BY DEF Joins
    <3>. QED BY <3>1, <3>2, <3>3 DEF HandlersOK
  <2>3. DrainsOK'
    BY DEF DrainsOK
  <2>. QED BY <2>1, <2>2, <2>3
<1>3. ASSUME NEW s \in Servers, Start(s) PROVE BasicInv'
  <2>1. TypeOK'
    BY <1>3 DEF Start, TypeOK, LocksTypeOK, TokensTypeOK
  <2>2. HandlersOK'
    BY <1>3 DEF Start, HandlersOK, TypeOK, Stored
  <2>3. DrainsOK'
    BY <1>3 DEF Start, DrainsOK, TypeOK
  <2>. QED BY <2>1, <2>2, <2>3
<1>4. ASSUME NEW s \in Servers, AcquireLock(s) PROVE BasicInv'
  <2>. USE <1>4 DEF AcquireLock
  <2>1. handler[s] \in Joins
    BY HandlerStages DEF TypeOK
  <2>. DEFINE c == grant[handler[s].token].char
  <2>2. c \in Characters /\ handler[s].peer \in Peers
    BY <2>1, HandlerGrant
  <2>3. LocksTypeOK'
    BY <2>2, LockTypes DEF TypeOK, LocksTypeOK
  <2>. DEFINE p == handler[s].peer
              h == [stage |-> "load", peer |-> p, token |-> handler[s].token]
  <2>4. \/ handler' = [handler EXCEPT ![s] = h] /\ conn' = conn
        \/ handler' = [handler EXCEPT ![s] = Idle] /\ conn' = [conn EXCEPT ![s][p] = "closing"]
    <3>1. handler[s] = [stage |-> "join", peer |-> p, token |-> handler[s].token]
      BY <2>1 DEF Joins
    <3>2. [handler EXCEPT ![s].stage = "load"] = [handler EXCEPT ![s] = h]
      <4>1. [handler[s] EXCEPT !.stage = "load"] = h
        BY <3>1
      <4>. HIDE DEF h
      <4>. QED BY <4>1
    <3>. QED BY <3>2 DEF Reject
  <2>5. h \in Joins /\ h.token = handler[s].token /\ Idle \notin Joins
    BY <2>1, HandlerGrant DEF Joins, Idle
  <2>6. TypeOK'
    <3>1. UNCHANGED <<grant, tokenTTL, phase, sess, world, drain, lapsed>>
      OBVIOUS
    <3>2. p \in Peers
      BY <2>2
    <3>. HIDE <1>4 DEF h, p, AcquireLock
    <3>3. handler' \in [Servers -> {Idle} \cup Joins \cup Leaves]
      BY <2>4, <2>5 DEF TypeOK
    <3>4. conn' \in [Servers -> [Peers -> {"free", "connected", "closing"}]]
      <4>1. conn \in [Servers -> [Peers -> {"free", "connected", "closing"}]]
        BY DEF TypeOK
      <4>2. [conn EXCEPT ![s][p] = "closing"]
               \in [Servers -> [Peers -> {"free", "connected", "closing"}]]
        BY <3>2, ConnClosing
      <4>. QED BY <2>4, <4>1, <4>2
    <3>. QED BY <2>3, <3>1, <3>3, <3>4 DEF TypeOK, TokensTypeOK
  <2>8. HandlersOK'
    <3>1. UNCHANGED <<grant, tokenTTL, phase>>
      OBVIOUS
    <3>2. phase[s] = "running"
      BY <2>1, HandlerGrant
    <3>. HIDE <1>4 DEF h, p
    <3>. QED BY <2>1, <2>4, <2>5, <3>1, <3>2 DEF HandlersOK, Stored, TypeOK
  <2>9. DrainsOK'
    BY DEF DrainsOK
  <2>. QED BY <2>6, <2>8, <2>9
<1>5. ASSUME NEW s \in Servers, Admit(s) PROVE BasicInv'
  <2>. USE <1>5 DEF Admit
  <2>1. handler[s] \in Joins
    BY HandlerStages DEF TypeOK
  <2>. DEFINE t == handler[s].token
              p == handler[s].peer
  <2>2. t \in Tokens /\ p \in Peers /\ grant[t].user \in Users /\ grant[t].char \in Characters
    BY <2>1, HandlerGrant
  <2>. DEFINE new == [user |-> grant[t].user, char |-> grant[t].char, token |-> t]
  <2>3. new \in Sessions
    BY <2>2 DEF Sessions
  <2>4. sess' = [sess EXCEPT ![s][p] = new]
    OBVIOUS
  <2>5. TypeOK'
    <3>. HIDE DEF new
    <3>1. sess' \in [Servers -> [Peers -> Sessions \cup {NoSession}]]
      BY <2>2, <2>3, <2>4 DEF TypeOK
    <3>2. world' \in [Servers -> SUBSET Characters]
      BY <2>2 DEF TypeOK
    <3>. QED BY <3>1, <3>2 DEF TypeOK, LocksTypeOK, TokensTypeOK
  <2>6. HandlersOK'
    BY DEF HandlersOK, Stored, TypeOK, Idle, Joins
  <2>7. DrainsOK'
    <3>1. phase[s] = "running"
      BY <2>1, HandlerGrant
    <3>. HIDE DEF new
    <3>. QED BY <2>2, <2>3, <2>4, <3>1, HandoffAssumptions DEF DrainsOK, TypeOK
  <2>. QED BY <2>5, <2>6, <2>7
<1>6. ASSUME NEW s \in Servers, LoadFails(s) PROVE BasicInv'
  <2>. USE <1>6 DEF LoadFails
  <2>1. handler[s] \in Joins
    BY HandlerStages DEF TypeOK
  <2>2. handler' \in [Servers -> {Idle} \cup Joins \cup Leaves]
    BY <2>1 DEF TypeOK, Joins
  <2>3. TypeOK'
    BY <2>2 DEF TypeOK, LocksTypeOK, TokensTypeOK
  <2>4. \A z \in Servers : handler'[z] \in Joins =>
           handler[z] \in Joins /\ handler'[z].token = handler[z].token
    BY <2>1 DEF TypeOK, Joins
  <2>5. HandlersOK'
    BY <2>1, <2>4 DEF HandlersOK, Stored, TypeOK, Joins, Idle
  <2>6. DrainsOK'
    BY DEF DrainsOK
  <2>. QED BY <2>3, <2>5, <2>6
<1>7. ASSUME NEW s \in Servers, UndoJoin(s) PROVE BasicInv'
  <2>. USE <1>7 DEF UndoJoin, Reject
  <2>1. handler[s] \in Joins
    BY HandlerStages DEF TypeOK
  <2>2. grant[handler[s].token].char \in Characters /\ handler[s].peer \in Peers
    BY <2>1, HandlerGrant
  <2>3. LocksTypeOK'
    BY <2>2, LockTypes DEF TypeOK
  <2>4. TypeOK'
    BY <2>2, <2>3 DEF TypeOK, TokensTypeOK
  <2>5. HandlersOK'
    BY DEF HandlersOK, Stored, TypeOK, Idle, Joins
  <2>6. DrainsOK'
    BY DEF DrainsOK
  <2>. QED BY <2>4, <2>5, <2>6
<1>8. ASSUME NEW s \in Servers, ReleaseOnDisconnect(s) PROVE BasicInv'
  <2>. USE <1>8 DEF ReleaseOnDisconnect
  <2>1. handler[s].char \in Characters
    BY HandlerStages DEF TypeOK
  <2>2. LocksTypeOK'
    BY <2>1, LockTypes DEF TypeOK
  <2>3. TypeOK'
    BY <2>2 DEF TypeOK, TokensTypeOK
  <2>4. HandlersOK'
    BY DEF HandlersOK, Stored, TypeOK, Idle, Joins
  <2>5. DrainsOK'
    BY DEF DrainsOK
  <2>. QED BY <2>3, <2>4, <2>5
<1>9. ASSUME NEW s \in Servers, BeginShutdown(s) PROVE BasicInv'
  <2>. USE <1>9 DEF BeginShutdown, Ready
  <2>1. TypeOK'
    BY DEF TypeOK, LocksTypeOK, TokensTypeOK
  <2>2. HandlersOK'
    BY DEF HandlersOK, Stored, TypeOK, Idle
  <2>3. DrainsOK'
    BY DEF DrainsOK, TypeOK
  <2>. QED BY <2>1, <2>2, <2>3
<1>10. ASSUME NEW s \in Servers, Exit(s) PROVE BasicInv'
  <2>. USE <1>10 DEF Exit
  <2>1. TypeOK'
    BY DEF TypeOK, LocksTypeOK, TokensTypeOK, NoPeers
  <2>2. HandlersOK'
    BY DEF HandlersOK, Stored, TypeOK, Idle, Joins
  <2>3. DrainsOK'
    BY DEF DrainsOK, TypeOK
  <2>. QED BY <2>1, <2>2, <2>3
<1>11. ASSUME NEW s \in Servers, NEW p \in Peers, Connect(s, p) PROVE BasicInv'
  <2>1. TypeOK'
    BY <1>11 DEF Connect, TypeOK, LocksTypeOK, TokensTypeOK
  <2>2. HandlersOK' /\ DrainsOK'
    BY <1>11 DEF Connect, HandlersOK, DrainsOK, Stored
  <2>. QED BY <2>1, <2>2
<1>12. ASSUME NEW s \in Servers, NEW p \in Peers, HandleDisconnect(s, p) PROVE BasicInv'
  <2>. USE <1>12 DEF HandleDisconnect, Ready
  <2>1. CASE sess[s][p] = NoSession
    <3>1. TypeOK'
      BY <2>1 DEF TypeOK, LocksTypeOK, TokensTypeOK
    <3>2. HandlersOK' /\ DrainsOK'
      BY <2>1 DEF HandlersOK, DrainsOK, Stored
    <3>. QED BY <3>1, <3>2
  <2>2. CASE sess[s][p] # NoSession
    <3>. DEFINE h == [stage |-> "leave", char |-> sess[s][p].char]
    <3>1. sess[s][p].char \in Characters
      BY <2>2 DEF TypeOK, Sessions
    <3>2. h \in Leaves /\ h \notin Joins
      BY <3>1 DEF Leaves, Joins
    <3>3. handler' = [handler EXCEPT ![s] = h]
      BY <2>2
    <3>4. sess' = [sess EXCEPT ![s][p] = NoSession]
      BY <2>2
    <3>5. world' = [world EXCEPT ![s] = @ \ {sess[s][p].char}]
      BY <2>2
    <3>. HIDE DEF h
    <3>6. TypeOK'
      BY <3>2, <3>3, <3>4, <3>5 DEF TypeOK, LocksTypeOK, TokensTypeOK
    <3>7. HandlersOK'
      BY <3>2, <3>3 DEF HandlersOK, Stored, TypeOK
    <3>8. DrainsOK'
      BY <3>4 DEF DrainsOK, TypeOK
    <3>. QED BY <3>6, <3>7, <3>8
  <2>. QED BY <2>1, <2>2
<1>13. ASSUME NEW s \in Servers, NEW p \in Peers, DrainSession(s, p) PROVE BasicInv'
  <2>. USE <1>13 DEF DrainSession
  <2>1. sess[s][p].char \in Characters
    BY DEF DrainsOK, TypeOK, Sessions
  <2>2. LocksTypeOK'
    BY <2>1, LockTypes DEF TypeOK
  <2>3. TypeOK'
    BY <2>2 DEF TypeOK, TokensTypeOK
  <2>4. HandlersOK'
    BY DEF HandlersOK, Stored
  <2>5. DrainsOK'
    BY DEF DrainsOK, TypeOK
  <2>. QED BY <2>3, <2>4, <2>5
<1>14. ASSUME NEW s \in Servers, NEW p \in Peers, NEW t \in Tokens, NEW c \in Characters,
              HandleJoinRequest(s, p, t, c)
       PROVE  BasicInv'
  <2>. USE <1>14 DEF HandleJoinRequest, Ready
  <2>. DEFINE h == [stage |-> "join", peer |-> p, token |-> t]
  <2>1. h \in Joins /\ h.token = t
    BY DEF Joins
  <2>2. \/ handler' = [handler EXCEPT ![s] = Idle]
        \/ /\ handler' = [handler EXCEPT ![s] = h]
           /\ Stored(t)
           /\ grant[t].server = s
    BY DEF Reject
  <2>3. /\ conn' = conn \/ conn' = [conn EXCEPT ![s][p] = "closing"]
        /\ grant' = grant
        /\ tokenTTL' = tokenTTL \/ tokenTTL' = [tokenTTL EXCEPT ![t] = 0]
    BY DEF Reject, ConsumeJoinToken
  <2>4. phase[s] = "running" /\ UNCHANGED <<lock, phase, sess, world, drain, lapsed>>
    OBVIOUS
  <2>5. TypeOK'
    <3>. HIDE <1>14 DEF h, HandleJoinRequest
    <3>1. handler' \in [Servers -> {Idle} \cup Joins \cup Leaves]
      BY <2>1, <2>2 DEF TypeOK
    <3>2. conn' \in [Servers -> [Peers -> {"free", "connected", "closing"}]]
      <4>1. conn \in [Servers -> [Peers -> {"free", "connected", "closing"}]]
        BY DEF TypeOK
      <4>2. [conn EXCEPT ![s][p] = "closing"]
               \in [Servers -> [Peers -> {"free", "connected", "closing"}]]
        BY ConnClosing
      <4>. QED BY <2>3, <4>1, <4>2
    <3>3. TokensTypeOK'
      <4>1. CASE tokenTTL' = tokenTTL
        BY <2>3, <4>1 DEF TypeOK, TokensTypeOK
      <4>2. CASE tokenTTL' = [tokenTTL EXCEPT ![t] = 0]
        BY <2>3, <4>2 DEF TypeOK, TokensTypeOK
      <4>. QED BY <2>3, <4>1, <4>2
    <3>. QED BY <2>4, <3>1, <3>2, <3>3 DEF TypeOK, LocksTypeOK
  <2>6. HandlersOK'
    <3>. HIDE DEF h
    <3>1. Idle \notin Joins
      BY DEF Idle, Joins
    <3>2. \A x \in Tokens : Stored(x)' => Stored(x)
      BY <2>3 DEF Stored, TypeOK, TokensTypeOK
    <3>. QED BY <2>1, <2>2, <2>3, <2>4, <3>1, <3>2 DEF HandlersOK, TypeOK
  <2>7. DrainsOK'
    BY <2>4 DEF DrainsOK
  <2>. QED BY <2>5, <2>6, <2>7
<1>15. CASE Tick
  <2>. USE <1>15 DEF Tick
  <2>1. LocksTypeOK'
    <3>1. CASE Characters = {}
      BY <3>1 DEF AgeLocks, LocksTypeOK
    <3>2. CASE Servers = {}
      BY <3>2, LockAssumptions DEF AgeLocks, LocksTypeOK, LockRecords, Free, TypeOK
    <3>3. CASE Characters # {} /\ Servers # {}
      BY <3>3, LockTypes DEF TypeOK
    <3>. QED BY <3>1, <3>2, <3>3
  <2>2. tokenTTL' \in [Tokens -> Nat]
    <3>1. AgeTokens /\ tokenTTL \in [Tokens -> Nat]
      BY DEF TypeOK, TokensTypeOK
    <3>2. \A n \in Nat : n # 0 => n - 1 \in Nat
      OBVIOUS
    <3>. HIDE <1>15
    <3>. QED BY <3>1, <3>2 DEF AgeTokens
  <2>3. TypeOK'
    BY <2>1, <2>2 DEF TypeOK, TokensTypeOK
  <2>4. HandlersOK'
    BY DEF HandlersOK, Stored, AgeTokens, TypeOK, TokensTypeOK
  <2>5. DrainsOK'
    BY DEF DrainsOK
  <2>. QED BY <2>3, <2>4, <2>5
<1>. QED
  BY <1>1, <1>2, <1>3, <1>4, <1>5, <1>6, <1>7, <1>8, <1>9, <1>10, <1>11, <1>12,
     <1>13, <1>14, <1>15 DEF Next, FinishShutdown, Crash

\* The state of the servers, of Redis and of the handlers stays within the
\* types of the model, in every behaviour of every instance.
THEOREM TypeCorrect == Spec => []TypeOK
<1>1. Spec => []BasicInv
  BY InitBasic, NextBasic, PTL DEF Spec
<1>. QED BY <1>1, PTL DEF BasicInv

-----------------------------------------------------------------------------
(***************************************************************************)
(* One player per character                                                *)
(***************************************************************************)
\* A step after which no server plays, loads or works on more than before, and
\* that takes no lock from a server that relies on it, keeps the invariant.
LEMMA ShrinkingStep ==
    ASSUME HandoffInv,
           lapsed \subseteq lapsed',
           \A s \in Servers, p \in Peers, c \in Characters :
              Plays(s, p, c)' => Plays(s, p, c),
           \A s \in Servers, c \in Characters :
              /\ Busy(s, c)' => Busy(s, c)
              /\ Loading(s, c)' => Loading(s, c)
              /\ c \notin lapsed' /\ Holding(s, c)' /\ lock[c].owner = s
                    => lock'[c].owner = s
    PROVE  (HolderOwnsLock /\ OnePlayerPerServer)'
<1>1. \A s \in Servers, c \in Characters : Holding(s, c)' => Holding(s, c)
  BY DEF Holding, Loading
<1>2. HolderOwnsLock'
  BY <1>1 DEF HandoffInv, HolderOwnsLock
<1>3. OnePlayerPerServer'
  BY DEF HandoffInv, OnePlayerPerServer
<1>. QED BY <1>2, <1>3

\* The lock commands a handler of s ends with take a lock from nobody but s.
LEMMA ReleaseSparesOthers ==
    ASSUME LocksTypeOK, NEW d \in Characters, NEW s \in Servers, TryRelease(d, s)
    PROVE  \A z \in Servers, c \in Characters :
              lock[c].owner = z /\ (z # s \/ c # d) => lock'[c].owner = z
BY DEF LocksTypeOK, TryRelease, ReleaseCharacterLock, Free
\* The step of a handler of s that ends it, perhaps after a lock command, is a
\* shrinking step.
LEMMA HandlerEnds ==
    ASSUME HandoffInv, NEW s \in Servers,
           handler' = [handler EXCEPT ![s] = Idle],
           UNCHANGED <<grant, phase, sess, drain, lapsed>>,
           \A z \in Servers, c \in Characters \ lapsed :
              Holding(z, c) /\ ~Loading(s, c) /\ lock[c].owner = z => lock'[c].owner = z
    PROVE  (HolderOwnsLock /\ OnePlayerPerServer)'
<1>1. \A z \in Servers, p \in Peers, c \in Characters : Plays(z, p, c)' <=> Plays(z, p, c)
  BY DEF Plays, Playing
<1>2. \A z \in Servers \ {s}, c \in Characters :
         (Busy(z, c)' <=> Busy(z, c)) /\ (Loading(z, c)' <=> Loading(z, c))
  BY DEF HandoffInv, BasicInv, TypeOK, Busy, Loading
<1>3. \A c \in Characters : ~Busy(s, c)' /\ ~Loading(s, c)'
  BY DEF HandoffInv, BasicInv, TypeOK, Busy, Loading, Idle
<1>4. ASSUME NEW z \in Servers, NEW c \in Characters, c \notin lapsed',
             Holding(z, c)', lock[c].owner = z
      PROVE  lock'[c].owner = z
  <2>1. Holding(z, c)
    BY <1>1, <1>2, <1>3, <1>4 DEF Holding, Loading
  <2>2. ~Loading(s, c)
    <3>1. SUFFICES ASSUME Loading(s, c) PROVE FALSE
      OBVIOUS
    <3>2. lock[c].owner = s
      BY <1>4, <3>1 DEF HandoffInv, HolderOwnsLock, Holding, Loading
    <3>3. \E p \in Peers : Plays(s, p, c)
      BY <1>1, <1>3, <1>4, <3>2 DEF Holding, Loading
    <3>4. Busy(s, c)
      BY <3>1 DEF Busy, Loading
    <3>. QED BY <1>4, <3>3, <3>4 DEF HandoffInv, OnePlayerPerServer
  <2>. QED BY <1>4, <2>1, <2>2
<1>. QED BY <1>1, <1>2, <1>3, <1>4, ShrinkingStep

\* No step lets a second player in while the lock has not lapsed.
LEMMA NextSafe == HandoffInv /\ [Next]_vars => (HolderOwnsLock /\ OnePlayerPerServer)'
<1>. SUFFICES ASSUME HandoffInv, [Next]_vars PROVE (HolderOwnsLock /\ OnePlayerPerServer)'
  OBVIOUS
<1>. USE DEF serverVars
<1>b. BasicInv /\ TypeOK
  BY DEF HandoffInv, BasicInv
<1>1. CASE UNCHANGED vars
  BY <1>1, ShrinkingStep DEF vars, Plays, Playing, Busy, Loading, Holding
<1>2. ASSUME NEW t \in Tokens, NEW u \in Users, NEW c \in Characters, NEW s \in Servers,
             IssueJoinToken(t, u, c, s)
      PROVE  (HolderOwnsLock /\ OnePlayerPerServer)'
  <2>1. UNCHANGED <<lock, serverVars, lapsed>>
    BY <1>2 DEF IssueJoinToken
  <2>2. \A z \in Servers : handler[z] \in Joins
           => grant'[handler[z].token] = grant[handler[z].token]
    BY <1>b, <1>2, HandlerGrant DEF IssueJoinToken, CreateJoinToken, Fresh, BasicInv,
       HandlersOK, TypeOK, TokensTypeOK
  <2>3. \A z \in Servers, d \in Characters :
           (Busy(z, d)' <=> Busy(z, d)) /\ (Loading(z, d)' <=> Loading(z, d))
    BY <1>b, <2>1, <2>2, HandlerStages DEF Busy, Loading, TypeOK
  <2>4. \A z \in Servers, p \in Peers, d \in Characters : Plays(z, p, d)' <=> Plays(z, p, d)
    BY <2>1 DEF Plays, Playing
  <2>. QED BY <2>1, <2>3, <2>4, ShrinkingStep
<1>3. ASSUME NEW s \in Servers, Start(s) PROVE (HolderOwnsLock /\ OnePlayerPerServer)'
  <2>1. \A z \in Servers, p \in Peers, d \in Characters : Plays(z, p, d)' => Plays(z, p, d)
    BY <1>b, <1>3 DEF Start, Plays, Playing, BasicInv, DrainsOK, TypeOK, NoPeers
  <2>2. \A z \in Servers, d \in Characters :
           (Busy(z, d)' <=> Busy(z, d)) /\ (Loading(z, d)' <=> Loading(z, d))
    BY <1>3 DEF Start, Busy, Loading
  <2>3. UNCHANGED <<lock, lapsed>>
    BY <1>3 DEF Start
  <2>. QED BY <2>1, <2>2, <2>3, ShrinkingStep
<1>4. ASSUME NEW s \in Servers, AcquireLock(s) PROVE (HolderOwnsLock /\ OnePlayerPerServer)'
  <2>. DEFINE t == handler[s].token
              c == grant[t].char
  <2>1. handler[s] \in Joins /\ c \in Characters /\ t \in Tokens
    BY <1>b, <1>4, HandlerStages, HandlerGrant DEF AcquireLock, TypeOK
  <2>2. UNCHANGED <<grant, phase, sess, drain, lapsed>>
    BY <1>4 DEF AcquireLock
  <2>3. CASE Reject(s, handler[s].peer) /\ (UNCHANGED lock \/ AcquireCharacterLock(c, s, LockTTL))
    <3>1. \A z \in Servers, d \in Characters : lock[d].owner = z => lock'[d].owner = z
      <4>1. CASE AcquireCharacterLock(c, s, LockTTL)
        <5>1. lock[c].owner \notin Servers
          BY <4>1, LockAssumptions DEF AcquireCharacterLock, Free
        <5>2. \A d \in Characters : d # c => lock'[d] = lock[d]
          BY <1>b, <4>1 DEF AcquireCharacterLock, SetLock, TypeOK, LocksTypeOK
        <5>. QED BY <5>1, <5>2
      <4>. QED BY <2>3, <4>1
    <3>. QED BY <2>2, <2>3, <3>1, HandlerEnds DEF Reject
  <2>4. CASE AcquireCharacterLock(c, s, LockTTL)
             /\ handler' = [handler EXCEPT ![s].stage = "load"]
    <3>1. \A z \in Servers : c \notin lapsed => ~Holding(z, c)
      BY <2>1, <2>4, LockAssumptions
         DEF HandoffInv, HolderOwnsLock, AcquireCharacterLock, Free
    <3>2. \A z \in Servers, p \in Peers, d \in Characters : Plays(z, p, d)' <=> Plays(z, p, d)
      BY <2>2 DEF Plays, Playing
    <3>3. \A z \in Servers, d \in Characters : z # s \/ d # c =>
             (Busy(z, d)' => Busy(z, d)) /\ (Loading(z, d)' => Loading(z, d))
      <4>1. \A z \in Servers \ {s} : handler'[z] = handler[z]
        BY <1>b, <2>4 DEF TypeOK
      <4>2. handler'[s].token = t
        BY <1>b, <2>1, <2>4 DEF TypeOK, Joins
      <4>3. handler'[s].stage = "load"
        BY <1>b, <2>1, <2>4 DEF TypeOK, Joins
      <4>. QED BY <2>2, <4>1, <4>2, <4>3 DEF Busy, Loading
    <3>4. /\ lock'[c].owner = s
          /\ \A d \in Characters : d # c => lock'[d] = lock[d]
      BY <1>b, <2>1, <2>4 DEF AcquireCharacterLock, SetLock, TypeOK, LocksTypeOK
    <3>5. HolderOwnsLock'
      <4>1. SUFFICES ASSUME NEW d \in Characters, d \notin lapsed', NEW z \in Servers,
                            Holding(z, d)'
                     PROVE  lock'[d].owner = z
        BY DEF HolderOwnsLock
      <4>2. CASE d = c /\ z = s
        BY <3>4, <4>2
      <4>3. CASE d # c \/ z # s
        <5>1. Holding(z, d)
          BY <3>2, <3>3, <4>1, <4>3 DEF Holding, Loading
        <5>. QED BY <2>2, <3>1, <3>4, <4>1, <4>3, <5>1 DEF HandoffInv, HolderOwnsLock
      <4>. QED BY <4>2, <4>3
    <3>6. OnePlayerPerServer'
      BY <2>2, <3>1, <3>2, <3>3 DEF HandoffInv, OnePlayerPerServer, Holding
    <3>. QED BY <3>5, <3>6
  <2>. QED BY <1>4, <2>3, <2>4 DEF AcquireLock, AcquireRefused
<1>5. ASSUME NEW s \in Servers, Admit(s) PROVE (HolderOwnsLock /\ OnePlayerPerServer)'
  <2>. DEFINE t == handler[s].token
              c == grant[t].char
              p == handler[s].peer
              new == [user |-> grant[t].user, char |-> c, token |-> t]
  <2>1. handler[s] \in Joins /\ c \in Characters /\ p \in Peers /\ phase[s] = "running"
    BY <1>b, <1>5, HandlerStages, HandlerGrant DEF Admit, TypeOK
  <2>2. /\ handler' = [handler EXCEPT ![s] = Idle]
        /\ sess' = [sess EXCEPT ![s][p] = new]
        /\ UNCHANGED <<lock, grant, phase, drain, lapsed>>
    BY <1>5 DEF Admit
  <2>3. Loading(s, c) /\ Busy(s, c) /\ Holding(s, c)
    BY <1>5 DEF Admit, Loading, Busy, Holding
  <2>4. \A z \in Servers, q \in Peers, d \in Characters :
           Plays(z, q, d)' => Plays(z, q, d) \/ (z = s /\ q = p /\ d = c)
    <3>1. new.char = c
      OBVIOUS
    <3>. HIDE DEF new
    <3>. QED BY <1>b, <2>1, <2>2, <3>1 DEF Plays, Playing, TypeOK
  <2>5. \A z \in Servers, d \in Characters : Busy(z, d)' => z # s /\ Busy(z, d)
    BY <1>b, <2>2 DEF Busy, TypeOK, Idle
  <2>6. \A z \in Servers, d \in Characters : Loading(z, d)' => Loading(z, d)
    BY <1>b, <2>2 DEF Loading, TypeOK, Idle
  <2>. HIDE DEF new, c, p, t
  <2>7. HolderOwnsLock'
    <3>1. \A z \in Servers, d \in Characters : Holding(z, d)' => Holding(z, d)
      BY <2>3, <2>4, <2>6 DEF Holding, Loading
    <3>. QED BY <2>2, <3>1 DEF HandoffInv, HolderOwnsLock
  <2>8. OnePlayerPerServer'
    <3>1. c \notin lapsed => \A q \in Peers : ~Plays(s, q, c)
      BY <2>1, <2>3 DEF HandoffInv, OnePlayerPerServer
    <3>. QED BY <2>2, <2>4, <2>5, <3>1 DEF HandoffInv, OnePlayerPerServer
  <2>. QED BY <2>7, <2>8
<1>6. ASSUME NEW s \in Servers, LoadFails(s) PROVE (HolderOwnsLock /\ OnePlayerPerServer)'
  <2>1. UNCHANGED <<lock, grant, phase, sess, drain, lapsed>>
    BY <1>6 DEF LoadFails
  <2>2. handler[s] \in Joins
    BY <1>b, <1>6, HandlerStages DEF LoadFails, TypeOK
  <2>3. \A z \in Servers, d \in Characters :
           (Busy(z, d)' => Busy(z, d)) /\ (Loading(z, d)' => Loading(z, d))
    BY <1>b, <1>6, <2>1, <2>2 DEF LoadFails, Busy, Loading, TypeOK, Joins
  <2>4. \A z \in Servers, p \in Peers, d \in Characters : Plays(z, p, d)' <=> Plays(z, p, d)
    BY <2>1 DEF Plays, Playing
  <2>. QED BY <2>1, <2>3, <2>4, ShrinkingStep
<1>7. ASSUME NEW s \in Servers, UndoJoin(s) PROVE (HolderOwnsLock /\ OnePlayerPerServer)'
  <2>. DEFINE c == grant[handler[s].token].char
  <2>1. c \in Characters /\ TryRelease(c, s)
    BY <1>b, <1>7, HandlerStages, HandlerGrant DEF UndoJoin, TypeOK
  <2>2. Busy(s, c) /\ \A d \in Characters : ~Loading(s, d)
    BY <1>7 DEF UndoJoin, Busy, Loading
  <2>3. c \notin lapsed => ~Holding(s, c)
    BY <2>1, <2>2 DEF HandoffInv, OnePlayerPerServer, Holding, Loading
  <2>4. \A z \in Servers, d \in Characters \ lapsed :
           Holding(z, d) /\ lock[d].owner = z => lock'[d].owner = z
    BY <1>b, <2>1, <2>3, ReleaseSparesOthers DEF TypeOK
  <2>5. /\ handler' = [handler EXCEPT ![s] = Idle]
        /\ UNCHANGED <<grant, phase, sess, drain, lapsed>>
    BY <1>7 DEF UndoJoin, Reject
  <2>. QED BY <2>4, <2>5, HandlerEnds
<1>8. ASSUME NEW s \in Servers, ReleaseOnDisconnect(s)
      PROVE  (HolderOwnsLock /\ OnePlayerPerServer)'
  <2>. DEFINE c == handler[s].char
  <2>1. c \in Characters /\ TryRelease(c, s)
    BY <1>b, <1>8, HandlerStages DEF ReleaseOnDisconnect, TypeOK
  <2>2. Busy(s, c) /\ \A d \in Characters : ~Loading(s, d)
    BY <1>8 DEF ReleaseOnDisconnect, Busy, Loading
  <2>3. c \notin lapsed => ~Holding(s, c)
    BY <2>1, <2>2 DEF HandoffInv, OnePlayerPerServer, Holding, Loading
  <2>4. \A z \in Servers, d \in Characters \ lapsed :
           Holding(z, d) /\ lock[d].owner = z => lock'[d].owner = z
    BY <1>b, <2>1, <2>3, ReleaseSparesOthers DEF TypeOK
  <2>5. /\ handler' = [handler EXCEPT ![s] = Idle]
        /\ UNCHANGED <<grant, phase, sess, drain, lapsed>>
    BY <1>8 DEF ReleaseOnDisconnect
  <2>. QED BY <2>4, <2>5, HandlerEnds
<1>9. ASSUME NEW s \in Servers, BeginShutdown(s) PROVE (HolderOwnsLock /\ OnePlayerPerServer)'
  <2>1. \A z \in Servers, p \in Peers, d \in Characters : Plays(z, p, d)' => Plays(z, p, d)
    BY <1>b, <1>9 DEF BeginShutdown, Ready, Plays, Playing, TypeOK
  <2>2. \A z \in Servers, d \in Characters :
           (Busy(z, d)' <=> Busy(z, d)) /\ (Loading(z, d)' <=> Loading(z, d))
    BY <1>9 DEF BeginShutdown, Busy, Loading
  <2>3. UNCHANGED <<lock, lapsed>>
    BY <1>9 DEF BeginShutdown
  <2>. QED BY <2>1, <2>2, <2>3, ShrinkingStep
<1>10. ASSUME NEW s \in Servers, Exit(s) PROVE (HolderOwnsLock /\ OnePlayerPerServer)'
  <2>1. \A z \in Servers, p \in Peers, d \in Characters : Plays(z, p, d)' => Plays(z, p, d)
    BY <1>b, <1>10 DEF Exit, NoPeers, Plays, Playing, TypeOK
  <2>2. \A z \in Servers, d \in Characters :
           (Busy(z, d)' => Busy(z, d)) /\ (Loading(z, d)' => Loading(z, d))
    BY <1>b, <1>10 DEF Exit, Busy, Loading, TypeOK, Idle
  <2>3. UNCHANGED <<lock, lapsed>>
    BY <1>10 DEF Exit
  <2>. QED BY <2>1, <2>2, <2>3, ShrinkingStep
<1>11. ASSUME NEW s \in Servers, NEW p \in Peers, Connect(s, p)
       PROVE  (HolderOwnsLock /\ OnePlayerPerServer)'
  <2>. UNCHANGED <<lock, grant, phase, sess, handler, drain, lapsed>>
    BY <1>11 DEF Connect
  <2>. QED BY ShrinkingStep DEF Plays, Playing, Busy, Loading, Holding
<1>12. ASSUME NEW s \in Servers, NEW p \in Peers, HandleDisconnect(s, p)
       PROVE  (HolderOwnsLock /\ OnePlayerPerServer)'
  <2>. DEFINE c == sess[s][p].char
  <2>1. UNCHANGED <<lock, grant, phase, drain, lapsed>>
    BY <1>12 DEF HandleDisconnect
  <2>2. CASE sess[s][p] = NoSession
    <3>. UNCHANGED <<sess, handler>>
      BY <1>12, <2>2 DEF HandleDisconnect
    <3>. QED BY <2>1, ShrinkingStep DEF Plays, Playing, Busy, Loading, Holding
  <2>3. CASE sess[s][p] # NoSession
    <3>1. /\ sess' = [sess EXCEPT ![s][p] = NoSession]
          /\ handler' = [handler EXCEPT ![s] = [stage |-> "leave", char |-> c]]
          /\ phase[s] = "running"
      BY <1>12, <2>3 DEF HandleDisconnect, Ready
    <3>2. c \in Characters /\ Plays(s, p, c)
      BY <1>b, <2>3, <3>1 DEF TypeOK, Sessions, Plays, Playing
    <3>3. \A z \in Servers, q \in Peers, d \in Characters :
             Plays(z, q, d)' => Plays(z, q, d) /\ (z # s \/ q # p)
      BY <1>b, <2>1, <3>1 DEF Plays, Playing, TypeOK
    <3>4. \A z \in Servers, d \in Characters : Busy(z, d)' => Busy(z, d) \/ (z = s /\ d = c)
      BY <1>b, <2>1, <3>1 DEF Busy, TypeOK
    <3>5. \A z \in Servers, d \in Characters : Loading(z, d)' => Loading(z, d)
      BY <1>b, <2>1, <3>1 DEF Loading, TypeOK
    <3>. HIDE DEF c
    <3>6. HolderOwnsLock'
      <4>1. \A z \in Servers, d \in Characters : Holding(z, d)' => Holding(z, d)
        BY <3>3, <3>5 DEF Holding, Loading
      <4>. QED BY <2>1, <4>1 DEF HandoffInv, HolderOwnsLock
    <3>7. OnePlayerPerServer'
      BY <2>1, <3>2, <3>3, <3>4 DEF HandoffInv, OnePlayerPerServer
    <3>. QED BY <3>6, <3>7
  <2>. QED BY <2>2, <2>3
<1>13. ASSUME NEW s \in Servers, NEW p \in Peers, DrainSession(s, p)
       PROVE  (HolderOwnsLock /\ OnePlayerPerServer)'
  <2>. DEFINE c == sess[s][p].char
  <2>1. /\ phase[s] = "stopping" /\ p \in drain[s] /\ TryRelease(c, s)
        /\ drain' = [drain EXCEPT ![s] = @ \ {p}]
        /\ UNCHANGED <<grant, phase, sess, handler, lapsed>>
    BY <1>13 DEF DrainSession
  <2>2. c \in Characters /\ Plays(s, p, c)
    BY <1>b, <2>1 DEF BasicInv, DrainsOK, TypeOK, Sessions, Plays, Playing
  <2>3. \A z \in Servers, q \in Peers, d \in Characters :
           Plays(z, q, d)' => Plays(z, q, d) /\ (z # s \/ q # p)
    BY <1>b, <2>1 DEF Plays, Playing, TypeOK
  <2>4. \A z \in Servers, d \in Characters :
           (Busy(z, d)' <=> Busy(z, d)) /\ (Loading(z, d)' <=> Loading(z, d))
    BY <2>1 DEF Busy, Loading
  <2>5. \A d \in Characters : ~Loading(s, d)
    BY <1>b, <2>1 DEF BasicInv, HandlersOK, Loading, Idle
  <2>. HIDE DEF c
  <2>6. \A d \in Characters \ lapsed : d = c => ~Holding(s, d)'
    BY <2>2, <2>3, <2>4, <2>5 DEF HandoffInv, OnePlayerPerServer, Holding, Loading
  <2>7. \A z \in Servers, d \in Characters :
           d \notin lapsed' /\ Holding(z, d)' /\ lock[d].owner = z => lock'[d].owner = z
    BY <1>b, <2>1, <2>2, <2>6, ReleaseSparesOthers DEF TypeOK
  <2>. QED BY <2>1, <2>3, <2>4, <2>7, ShrinkingStep
<1>14. ASSUME NEW s \in Servers, NEW p \in Peers, NEW t \in Tokens, NEW d \in Characters,
              HandleJoinRequest(s, p, t, d)
       PROVE  (HolderOwnsLock /\ OnePlayerPerServer)'
  <2>1. /\ UNCHANGED <<lock, grant, phase, sess, drain, lapsed>>
        /\ \/ handler' = [handler EXCEPT ![s] = Idle]
           \/ handler' = [handler EXCEPT ![s] = [stage |-> "join", peer |-> p, token |-> t]]
    BY <1>14 DEF HandleJoinRequest, Reject, ConsumeJoinToken
  <2>2. \A z \in Servers, c \in Characters :
           (Busy(z, c)' => Busy(z, c)) /\ (Loading(z, c)' => Loading(z, c))
    <3>1. \A z \in Servers \ {s} : handler'[z] = handler[z]
      BY <1>b, <2>1 DEF TypeOK
    <3>2. handler'[s].stage \notin {"load", "undo", "leave"}
      BY <1>b, <2>1 DEF TypeOK, Idle
    <3>3. grant' = grant
      BY <2>1
    <3>. QED BY <3>1, <3>2, <3>3 DEF Busy, Loading
  <2>3. \A z \in Servers, q \in Peers, c \in Characters : Plays(z, q, c)' <=> Plays(z, q, c)
    BY <2>1 DEF Plays, Playing
  <2>. QED BY <2>1, <2>2, <2>3, ShrinkingStep
<1>15. CASE Tick
  <2>1. UNCHANGED <<grant, phase, sess, handler, drain>> /\ AgeLocks
    BY <1>15 DEF Tick
  <2>2. \A z \in Servers, c \in Characters :
           /\ Busy(z, c)' <=> Busy(z, c)
           /\ Loading(z, c)' <=> Loading(z, c)
           /\ Holding(z, c)' <=> Holding(z, c)
    <3>. HIDE DEF AgeLocks
    <3>. QED BY <2>1 DEF Busy, Loading, Holding, Plays, Playing
  <2>3. \A z \in Servers, q \in Peers, c \in Characters : Plays(z, q, c)' <=> Plays(z, q, c)
    BY <2>1 DEF Plays, Playing
  <2>4. ASSUME NEW z \in Servers, NEW c \in Characters, c \notin lapsed', Holding(z, c)',
               lock[c].owner = z
        PROVE  lock'[c].owner = z
    <3>1. lock[c].ttl # 1
      BY <1>15, <2>2, <2>4 DEF Tick
    <3>2. CASE lock[c].ttl = 0
      BY <2>1, <2>4, <3>2 DEF AgeLocks
    <3>3. CASE lock[c].ttl # 0
      <4>1. lock'[c] = [lock[c] EXCEPT !.ttl = @ - 1]
        BY <2>1, <3>1, <3>3 DEF AgeLocks
      <4>2. lock[c] \in [owner : Servers, ttl : Nat]
        BY <1>b, <2>4, LockAssumptions DEF TypeOK, LocksTypeOK, LockRecords, Free
      <4>. QED BY <2>4, <4>1, <4>2
    <3>. QED BY <3>2, <3>3
  <2>5. lapsed \subseteq lapsed'
    BY <1>15 DEF Tick
  <2>. QED BY <2>2, <2>3, <2>4, <2>5, ShrinkingStep
<1>. QED
  BY <1>1, <1>2, <1>3, <1>4, <1>5, <1>6, <1>7, <1>8, <1>9, <1>10, <1>11, <1>12,
     <1>13, <1>14, <1>15 DEF Next, FinishShutdown, Crash

\* HandoffInv is an invariant of the handoff.
LEMMA HandoffInvariant == Spec => []HandoffInv
<1>1. Init => HandoffInv
  <2>1. ASSUME Init PROVE HolderOwnsLock /\ OnePlayerPerServer
    BY <2>1 DEF Init, NoPeers, HolderOwnsLock, OnePlayerPerServer, Holding, Plays, Playing,
       Busy, Idle
  <2>. QED BY <2>1, InitBasic DEF HandoffInv
<1>2. HandoffInv /\ [Next]_vars => HandoffInv'
  BY NextBasic, NextSafe DEF HandoffInv
<1>. QED BY <1>1, <1>2, PTL DEF Spec

\* The server that loads or plays a character owns its lock, until the lock
\* once expires in use.
THEOREM LockCoversHolder == Spec => []HolderOwnsLock
BY HandoffInvariant, PTL DEF HandoffInv

\* The same character is played twice only after its lock expired in use: the
\* handlers, lost replies, failed releases, shutdowns and crashes of any
\* number of servers and peers are not enough.
THEOREM NoDoubleLoadWithoutLapse == Spec => []DoubleLoadOnlyAfterLapse
<1>1. HandoffInv => DoubleLoadOnlyAfterLapse
  BY DEF HandoffInv, HolderOwnsLock, OnePlayerPerServer, DoubleLoadOnlyAfterLapse, Holding
<1>. QED BY <1>1, HandoffInvariant, PTL

-----------------------------------------------------------------------------
(***************************************************************************)
(* The world                                                               *)
(***************************************************************************)
\* A disconnect takes the entity of its own character only, which nobody else
\* on the server plays while its lock has not lapsed.
LEMMA NextEntity == HandoffInv /\ PlayerHasEntity /\ [Next]_vars => PlayerHasEntity'
<1>. SUFFICES ASSUME HandoffInv, PlayerHasEntity, [Next]_vars PROVE PlayerHasEntity'
  OBVIOUS
<1>b. BasicInv /\ TypeOK
  BY DEF HandoffInv, BasicInv
<1>. USE DEF serverVars
<1>1. CASE UNCHANGED <<phase, sess, drain, world>> /\ lapsed \subseteq lapsed'
  BY <1>1 DEF PlayerHasEntity, Playing
<1>2. ASSUME NEW s \in Servers, Start(s) PROVE PlayerHasEntity'
  <2>1. \A z \in Servers, p \in Peers : Playing(z, p)' => Playing(z, p)
    BY <1>b, <1>2 DEF Start, Playing, BasicInv, DrainsOK, TypeOK, NoPeers
  <2>. QED BY <1>2, <2>1 DEF Start, PlayerHasEntity
<1>3. ASSUME NEW s \in Servers, Admit(s) PROVE PlayerHasEntity'
  <2>. DEFINE t == handler[s].token
              c == grant[t].char
              p == handler[s].peer
              new == [user |-> grant[t].user, char |-> c, token |-> t]
  <2>1. c \in Characters /\ p \in Peers
    BY <1>b, <1>3, HandlerStages, HandlerGrant DEF Admit, TypeOK
  <2>2. /\ world' = [world EXCEPT ![s] = @ \cup {c}] /\ sess' = [sess EXCEPT ![s][p] = new]
        /\ UNCHANGED <<phase, drain, lapsed>>
    BY <1>3 DEF Admit
  <2>3. new.char = c
    OBVIOUS
  <2>. HIDE DEF new, c, p, t
  <2>4. \A z \in Servers, q \in Peers : z # s \/ q # p => sess'[z][q] = sess[z][q]
    BY <1>b, <2>1, <2>2 DEF TypeOK
  <2>5. sess'[s][p] = new /\ c \in world'[s]
    BY <1>b, <2>1, <2>2 DEF TypeOK
  <2>6. \A z \in Servers : world[z] \subseteq world'[z]
    BY <1>b, <2>2 DEF TypeOK
  <2>. QED BY <2>2, <2>3, <2>4, <2>5, <2>6 DEF PlayerHasEntity, Playing
<1>4. ASSUME NEW s \in Servers, NEW p \in Peers, HandleDisconnect(s, p) PROVE PlayerHasEntity'
  <2>1. CASE sess[s][p] = NoSession
    BY <1>1, <1>4, <2>1 DEF HandleDisconnect
  <2>2. CASE sess[s][p] # NoSession
    <3>. DEFINE c == sess[s][p].char
    <3>1. /\ phase[s] = "running" /\ sess' = [sess EXCEPT ![s][p] = NoSession]
          /\ world' = [world EXCEPT ![s] = @ \ {c}] /\ UNCHANGED <<phase, drain, lapsed>>
      BY <1>4, <2>2 DEF HandleDisconnect, Ready
    <3>2. c \in Characters /\ Plays(s, p, c)
      BY <1>b, <2>2, <3>1 DEF TypeOK, Sessions, Plays, Playing
    <3>3. \A q \in Peers \ {p} : Playing(s, q) /\ sess[s][q].char \notin lapsed =>
             sess[s][q].char # c
      BY <3>2 DEF HandoffInv, OnePlayerPerServer, Plays
    <3>. HIDE DEF c
    <3>4. \A z \in Servers, q \in Peers : z # s \/ q # p => sess'[z][q] = sess[z][q]
      BY <1>b, <3>1 DEF TypeOK
    <3>5. sess'[s][p] = NoSession
      BY <1>b, <3>1 DEF TypeOK
    <3>6. world'[s] = world[s] \ {c} /\ \A z \in Servers \ {s} : world'[z] = world[z]
      BY <1>b, <3>1 DEF TypeOK
    <3>. SUFFICES ASSUME NEW z \in Servers, NEW q \in Peers, Playing(z, q)',
                         sess'[z][q].char \notin lapsed
                  PROVE  sess'[z][q].char \in world'[z]
      BY <3>1 DEF PlayerHasEntity
    <3>7. (z # s \/ q # p) /\ Playing(z, q) /\ sess'[z][q] = sess[z][q]
      BY <3>1, <3>4, <3>5 DEF Playing
    <3>8. sess[z][q].char \in world[z]
      BY <3>7 DEF PlayerHasEntity
    <3>. QED BY <3>3, <3>6, <3>7, <3>8
  <2>. QED BY <2>1, <2>2
<1>5. ASSUME NEW s \in Servers, BeginShutdown(s) PROVE PlayerHasEntity'
  <2>1. \A z \in Servers, p \in Peers : Playing(z, p)' => Playing(z, p)
    BY <1>b, <1>5 DEF BeginShutdown, Ready, Playing, TypeOK
  <2>. QED BY <1>5, <2>1 DEF BeginShutdown, PlayerHasEntity
<1>6. ASSUME NEW s \in Servers, NEW p \in Peers, DrainSession(s, p) PROVE PlayerHasEntity'
  <2>1. \A z \in Servers, q \in Peers : Playing(z, q)' => Playing(z, q)
    BY <1>b, <1>6 DEF DrainSession, Playing, TypeOK
  <2>. QED BY <1>6, <2>1 DEF DrainSession, PlayerHasEntity
<1>7. ASSUME NEW s \in Servers, Exit(s) PROVE PlayerHasEntity'
  <2>1. \A p \in Peers : ~Playing(s, p)'
    BY <1>b, <1>7 DEF Exit, NoPeers, Playing, TypeOK
  <2>2. \A z \in Servers \ {s} :
           /\ sess'[z] = sess[z] /\ world'[z] = world[z]
           /\ phase'[z] = phase[z] /\ drain'[z] = drain[z]
    BY <1>b, <1>7 DEF Exit, TypeOK
  <2>3. lapsed' = lapsed
    BY <1>7 DEF Exit
  <2>. QED BY <2>1, <2>2, <2>3 DEF PlayerHasEntity, Playing
<1>8. CASE Tick
  BY <1>1, <1>8 DEF Tick
<1>9. CASE UNCHANGED vars
  BY <1>1, <1>9 DEF vars
<1>10. ASSUME NEW s \in Servers,
              AcquireLock(s) \/ LoadFails(s) \/ UndoJoin(s) \/ ReleaseOnDisconnect(s)
       PROVE  PlayerHasEntity'
  BY <1>1, <1>10 DEF AcquireLock, LoadFails, UndoJoin, ReleaseOnDisconnect
<1>11. ASSUME NEW s \in Servers, NEW p \in Peers, Connect(s, p) PROVE PlayerHasEntity'
  BY <1>1, <1>11 DEF Connect
<1>12. ASSUME NEW s \in Servers, NEW t \in Tokens, NEW c \in Characters,
              \/ \E u \in Users : IssueJoinToken(t, u, c, s)
              \/ \E p \in Peers : HandleJoinRequest(s, p, t, c)
       PROVE  PlayerHasEntity'
  BY <1>1, <1>12 DEF IssueJoinToken, HandleJoinRequest
<1>. QED
  BY <1>2, <1>3, <1>4, <1>5, <1>6, <1>7, <1>8, <1>9, <1>10, <1>11, <1>12
  DEF Next, FinishShutdown, Crash

\* A player whose lock has not lapsed has an entity in the world of its
\* server, whichever peers come, go and come again.
THEOREM PlayersAreInTheWorld == Spec => []PlayerHasEntity
<1>1. Init => PlayerHasEntity
  BY DEF Init, NoPeers, PlayerHasEntity, Playing
<1>. QED BY <1>1, NextEntity, HandoffInvariant, PTL DEF Spec

-----------------------------------------------------------------------------
(***************************************************************************)
(* The handoff implements JoinGrant                                        *)
(***************************************************************************)
\* The key of a token that a handler works on is gone.
Consumed == \A s \in Servers : handler[s] \in Joins => ~Stored(handler[s].token)

\* GETDEL takes the key before the handler goes on, and no token is stored twice.
LEMMA NextConsumed == BasicInv /\ Consumed /\ [Next]_vars => Consumed'
<1>. SUFFICES ASSUME BasicInv, Consumed, [Next]_vars PROVE Consumed'
  OBVIOUS
<1>b. TypeOK /\ HandlersOK
  BY DEF BasicInv
<1>. USE DEF serverVars
<1>1. ASSUME tokenTTL' = tokenTTL,
             \A z \in Servers : handler'[z] \in Joins =>
                handler[z] \in Joins /\ handler'[z].token = handler[z].token
      PROVE  Consumed'
  BY <1>1 DEF Consumed, Stored
<1>2. ASSUME NEW t \in Tokens, NEW u \in Users, NEW c \in Characters, NEW s \in Servers,
             IssueJoinToken(t, u, c, s)
      PROVE  Consumed'
  <2>1. handler' = handler /\ grant[t] = NoGrant /\ tokenTTL' = [tokenTTL EXCEPT ![t] = TokenTTL]
    BY <1>2 DEF IssueJoinToken, CreateJoinToken, Fresh
  <2>2. \A z \in Servers : handler[z] \in Joins => handler[z].token \in Tokens \ {t}
    BY <1>b, <2>1 DEF HandlersOK, Joins
  <2>. QED BY <1>b, <2>1, <2>2 DEF Consumed, Stored, TypeOK, TokensTypeOK
<1>3. ASSUME NEW s \in Servers, NEW p \in Peers, NEW t \in Tokens, NEW c \in Characters,
             HandleJoinRequest(s, p, t, c)
      PROVE  Consumed'
  <2>. DEFINE h == [stage |-> "join", peer |-> p, token |-> t]
  <2>1. \/ handler' = [handler EXCEPT ![s] = Idle] /\ tokenTTL' \in {tokenTTL, [tokenTTL EXCEPT ![t] = 0]}
        \/ handler' = [handler EXCEPT ![s] = h] /\ tokenTTL' = [tokenTTL EXCEPT ![t] = 0]
    BY <1>3 DEF HandleJoinRequest, Reject, ConsumeJoinToken
  <2>2. Idle \notin Joins /\ h \in Joins /\ h.token = t
    BY DEF Idle, Joins
  <2>. HIDE DEF h
  <2>3. \A x \in Tokens : ~Stored(x) => ~Stored(x)'
    <3>1. tokenTTL \in [Tokens -> Nat] /\ tokenTTL' \in {tokenTTL, [tokenTTL EXCEPT ![t] = 0]}
      BY <1>b, <2>1 DEF TypeOK, TokensTypeOK
    <3>2. \A x \in Tokens : tokenTTL'[x] \in {tokenTTL[x], 0}
      BY <3>1
    <3>. QED BY <3>2 DEF Stored
  <2>4. \A z \in Servers : handler[z] \in Joins => handler[z].token \in Tokens
    BY DEF Joins
  <2>5. \A z \in Servers \ {s} : handler'[z] = handler[z]
    BY <1>b, <2>1 DEF TypeOK
  <2>6. handler'[s] \in Joins => handler'[s].token = t /\ ~Stored(t)'
    BY <1>b, <2>1, <2>2 DEF Stored, TypeOK, TokensTypeOK
  <2>. QED BY <2>3, <2>4, <2>5, <2>6 DEF Consumed
<1>4. CASE Tick
  <2>1. handler' = handler /\ \A x \in Tokens : ~Stored(x) => ~Stored(x)'
    BY <1>b, <1>4 DEF Tick, AgeTokens, Stored, TypeOK, TokensTypeOK
  <2>2. \A z \in Servers : handler[z] \in Joins => handler[z].token \in Tokens
    BY DEF Joins
  <2>. QED BY <2>1, <2>2 DEF Consumed
<1>5. ASSUME NEW s \in Servers, AcquireLock(s) \/ LoadFails(s) PROVE Consumed'
  <2>1. handler[s] \in Joins
    BY <1>b, <1>5, HandlerStages DEF AcquireLock, LoadFails, TypeOK
  <2>2. \/ handler' = [handler EXCEPT ![s] = Idle]
        \/ handler' = [handler EXCEPT ![s].stage = "load"]
        \/ handler' = [handler EXCEPT ![s].stage = "undo"]
    BY <1>5 DEF AcquireLock, LoadFails, Reject
  <2>3. Idle \notin Joins
    BY DEF Idle, Joins
  <2>4. handler'[s] \in Joins => handler'[s].token = handler[s].token
    BY <1>b, <2>1, <2>2, <2>3 DEF TypeOK, Joins
  <2>5. \A z \in Servers \ {s} : handler'[z] = handler[z]
    BY <1>b, <2>2 DEF TypeOK
  <2>6. tokenTTL' = tokenTTL
    BY <1>5 DEF AcquireLock, LoadFails
  <2>. QED BY <1>1, <2>1, <2>4, <2>5, <2>6
<1>6. ASSUME NEW s \in Servers,
             \/ UNCHANGED <<handler, tokenTTL>>
             \/ handler' = [handler EXCEPT ![s] = Idle] /\ UNCHANGED tokenTTL
             \/ \E c : handler' = [handler EXCEPT ![s] = [stage |-> "leave", char |-> c]]
                       /\ UNCHANGED tokenTTL
      PROVE  Consumed'
  <2>1. handler'[s] \in Joins => handler' = handler
    BY <1>b, <1>6 DEF TypeOK, Idle, Joins
  <2>2. \A z \in Servers \ {s} : handler'[z] = handler[z]
    BY <1>b, <1>6 DEF TypeOK
  <2>. QED BY <1>1, <1>6, <2>1, <2>2
<1>7. ASSUME NEW s \in Servers,
             Start(s) \/ Admit(s) \/ UndoJoin(s) \/ ReleaseOnDisconnect(s) \/ BeginShutdown(s)
             \/ Exit(s)
      PROVE  Consumed'
  BY <1>6, <1>7 DEF Start, Admit, UndoJoin, ReleaseOnDisconnect, BeginShutdown, Exit, Reject
<1>8. ASSUME NEW s \in Servers, NEW p \in Peers,
             Connect(s, p) \/ HandleDisconnect(s, p) \/ DrainSession(s, p)
      PROVE  Consumed'
  BY <1>6, <1>8 DEF Connect, HandleDisconnect, DrainSession
<1>9. CASE UNCHANGED vars
  BY <1>1, <1>9 DEF vars
<1>. QED
  BY <1>2, <1>3, <1>4, <1>5, <1>7, <1>8, <1>9 DEF Next, FinishShutdown, Crash

\* Consumed is an invariant of the handoff.
LEMMA ConsumedInvariant == Spec => []Consumed
<1>1. Init => Consumed
  BY DEF Init, Consumed, Idle, Joins
<1>2. HandoffInv => BasicInv
  BY DEF HandoffInv
<1>. QED BY <1>1, <1>2, NextConsumed, HandoffInvariant, PTL DEF Spec

-----------------------------------------------------------------------------
\* The seats are unchanged if the sessions are, and who may use them.
LEMMA SameSeats ==
    ASSUME \A s \in Servers, p \in Peers :
              /\ Playing(s, p)' <=> Playing(s, p)
              /\ Playing(s, p) => sess'[s][p] = sess[s][p]
    PROVE  Seats' = Seats
BY DEF Seats

\* Losing tokens only is Void, or no step at all.
LEMMA VoidStep ==
    ASSUME Seats' = Seats, grant' = grant, OpenTokens' \subseteq OpenTokens
    PROVE  Granted!Next
<1>1. OpenTokens \subseteq Tokens
  BY DEF OpenTokens
<1>2. Granted!Void(OpenTokens \ OpenTokens')
  BY DEF Granted!Void
<1>. QED BY <1>1, <1>2 DEF Granted!Next

\* The tokens that are open when one handler changes.
LEMMA OpenShrinks ==
    ASSUME TypeOK, NEW s \in Servers,
           \A t \in Tokens : Stored(t)' => Stored(t),
           \A z \in Servers \ {s} : handler'[z] = handler[z],
           handler'[s].stage \in {"join", "load"} => handler'[s].token \in OpenTokens
    PROVE  OpenTokens' \subseteq OpenTokens
BY DEF OpenTokens

\* Peers of one server give up their seats; its handler may lose a token.
LEMMA VacateStep ==
    ASSUME grant' = grant, OpenTokens' \subseteq OpenTokens,
           NEW s \in Servers, NEW P \in SUBSET Peers,
           \A z \in Servers, p \in Peers :
              IF z = s /\ p \in P THEN ~Playing(z, p)'
              ELSE /\ Playing(z, p)' <=> Playing(z, p)
                   /\ Playing(z, p) => sess'[z][p] = sess[z][p]
    PROVE  Granted!Next
<1>1. OpenTokens \subseteq Tokens
  BY DEF OpenTokens
<1>2. Seats' = [Seats EXCEPT ![s] = [p \in Peers |-> IF p \in P THEN NoSession ELSE @[p]]]
  BY DEF Seats
<1>3. Granted!Vacate(s, P, OpenTokens \ OpenTokens')
  BY <1>2 DEF Granted!Vacate
<1>. QED BY <1>1, <1>3 DEF Granted!Next

\* Every step of the handoff is a step of JoinGrant, or none.
LEMMA HandoffStep ==
    ASSUME HandoffInv, HandoffInv', Consumed, [Next]_vars
    PROVE  [Granted!Next]_(Granted!grantVars)
<1>b. BasicInv /\ TypeOK /\ HandlersOK /\ TypeOK'
  BY DEF HandoffInv, BasicInv
<1>. USE DEF serverVars
<1>s. ASSUME UNCHANGED <<phase, sess, drain>> PROVE Seats' = Seats
  BY <1>s DEF Seats, Playing
<1>h. \A z \in Servers : handler[z].stage \in {"join", "load"} =>
         /\ handler[z] \in Joins /\ handler[z].token \in Tokens
         /\ grant[handler[z].token] # NoGrant /\ grant[handler[z].token].server = z
         /\ ~Stored(handler[z].token) /\ handler[z].token \in OpenTokens
  <2>. SUFFICES ASSUME NEW z \in Servers, handler[z].stage \in {"join", "load"}
                PROVE  /\ handler[z] \in Joins /\ handler[z].token \in Tokens
                       /\ grant[handler[z].token] # NoGrant /\ grant[handler[z].token].server = z
                       /\ ~Stored(handler[z].token) /\ handler[z].token \in OpenTokens
    OBVIOUS
  <2>1. handler[z] \in Joins
    BY <1>b, HandlerStages DEF TypeOK
  <2>2. handler[z].token \in Tokens
    BY <2>1 DEF Joins
  <2>. QED BY <1>b, <2>1, <2>2 DEF HandlersOK, Consumed, OpenTokens
<1>1. ASSUME NEW t \in Tokens, NEW u \in Users, NEW c \in Characters, NEW s \in Servers,
             IssueJoinToken(t, u, c, s)
      PROVE  Granted!Next
  <2>1. /\ OwnerOf[c] = u /\ grant[t] = NoGrant
        /\ grant' = [grant EXCEPT ![t] = [user |-> u, char |-> c, server |-> s]]
        /\ tokenTTL' = [tokenTTL EXCEPT ![t] = TokenTTL]
        /\ UNCHANGED <<phase, sess, drain, handler>>
    BY <1>1 DEF IssueJoinToken, CreateJoinToken, Fresh
  <2>2. Seats' = Seats
    BY <1>s, <2>1
  <2>3. Stored(t)' /\ \A x \in Tokens \ {t} : Stored(x)' <=> Stored(x)
    BY <1>b, <2>1, TokenAssumptions DEF Stored, TypeOK, TokensTypeOK
  <2>4. OpenTokens' = OpenTokens \cup {t}
    BY <2>1, <2>3 DEF OpenTokens
  <2>5. Granted!Issue(t, u, c, s)
    BY <2>1, <2>2, <2>4 DEF Granted!Issue
  <2>. QED BY <2>5 DEF Granted!Next
<1>2. ASSUME NEW s \in Servers, Admit(s) PROVE Granted!Next
  <2>. DEFINE t == handler[s].token
              p == handler[s].peer
              new == [user |-> grant[t].user, char |-> grant[t].char, token |-> t]
  <2>1. /\ handler[s].stage = "load" /\ handler' = [handler EXCEPT ![s] = Idle]
        /\ sess' = [sess EXCEPT ![s][p] = new]
        /\ UNCHANGED <<grant, tokenTTL, phase, drain>>
    BY <1>2 DEF Admit
  <2>2. /\ handler[s] \in Joins /\ t \in Tokens /\ t \in OpenTokens /\ ~Stored(t)
        /\ grant[t].server = s
    BY <1>h, <2>1
  <2>3. p \in Peers /\ phase[s] = "running" /\ new \in Sessions
    <3>1. p \in Peers /\ phase[s] = "running" /\ grant[t].user \in Users
          /\ grant[t].char \in Characters
      BY <1>b, <2>2, HandlerGrant
    <3>. QED BY <2>2, <3>1 DEF Sessions
  <2>4. OpenTokens' = OpenTokens \ {t}
    <3>1. handler'[s].stage = "idle" /\ \A z \in Servers \ {s} : handler'[z] = handler[z]
      BY <1>b, <2>1 DEF TypeOK, Idle
    <3>2. \A z \in Servers \ {s} : handler[z].stage \in {"join", "load"} => handler[z].token # t
      BY <1>h, <2>2
    <3>3. \A x \in Tokens : Stored(x)' <=> Stored(x)
      BY <2>1 DEF Stored
    <3>. HIDE DEF t
    <3>4. \A x \in Tokens :
             (\E z \in Servers : handler'[z].stage \in {"join", "load"} /\ handler'[z].token = x)
             <=> x # t /\ \E z \in Servers : handler[z].stage \in {"join", "load"}
                                             /\ handler[z].token = x
      BY <2>1, <3>1, <3>2 DEF t
    <3>. QED BY <2>2, <3>3, <3>4 DEF OpenTokens
  <2>. HIDE DEF new, t, p
  <2>5. Seats' = [Seats EXCEPT ![s][p] = new]
    <3>1. sess'[s][p] = new /\ new # NoSession
      BY <1>b, <2>1, <2>3, HandoffAssumptions DEF TypeOK
    <3>2. \A z \in Servers, q \in Peers : z # s \/ q # p => sess'[z][q] = sess[z][q]
      BY <1>b, <2>1, <2>3 DEF TypeOK
    <3>3. Seats'[s][p] = new
      BY <2>1, <2>3, <3>1 DEF Seats, Playing
    <3>4. \A z \in Servers, q \in Peers : z # s \/ q # p => Seats'[z][q] = Seats[z][q]
      BY <2>1, <3>2 DEF Seats, Playing
    <3>5. /\ Seats = [z \in Servers |-> [q \in Peers |-> Seats[z][q]]]
          /\ Seats' = [z \in Servers |-> [q \in Peers |-> Seats'[z][q]]]
      BY DEF Seats
    <3>. QED BY <2>3, <3>3, <3>4, <3>5
  <2>6. Granted!Admit(t, p)
    BY <2>1, <2>2, <2>4, <2>5 DEF Granted!Admit, new
  <2>. QED BY <2>2, <2>3, <2>6 DEF Granted!Next
<1>3. ASSUME NEW s \in Servers, Start(s) PROVE Granted!Next
  <2>1. \A z \in Servers, p \in Peers :
           (Playing(z, p)' <=> Playing(z, p)) /\ sess'[z][p] = sess[z][p]
    BY <1>b, <1>3 DEF Start, Playing, BasicInv, DrainsOK, TypeOK, NoPeers
  <2>2. OpenTokens' = OpenTokens /\ grant' = grant
    BY <1>3 DEF Start, OpenTokens, Stored
  <2>. QED BY <2>1, <2>2, SameSeats, VoidStep
<1>4. ASSUME NEW s \in Servers, BeginShutdown(s) PROVE Granted!Next
  <2>1. \A z \in Servers, p \in Peers :
           (Playing(z, p)' <=> Playing(z, p)) /\ sess'[z][p] = sess[z][p]
    BY <1>b, <1>4 DEF BeginShutdown, Ready, Playing, BasicInv, DrainsOK, TypeOK
  <2>2. OpenTokens' = OpenTokens /\ grant' = grant
    BY <1>4 DEF BeginShutdown, OpenTokens, Stored
  <2>. QED BY <2>1, <2>2, SameSeats, VoidStep
<1>5. ASSUME NEW s \in Servers, NEW p \in Peers, DrainSession(s, p) PROVE Granted!Next
  <2>1. /\ phase[s] = "stopping" /\ drain' = [drain EXCEPT ![s] = @ \ {p}]
        /\ UNCHANGED <<grant, tokenTTL, phase, sess, handler>>
    BY <1>5 DEF DrainSession
  <2>2. \A z \in Servers, q \in Peers :
           IF z = s /\ q \in {p} THEN ~Playing(z, q)'
           ELSE (Playing(z, q)' <=> Playing(z, q)) /\ sess'[z][q] = sess[z][q]
    BY <1>b, <2>1 DEF Playing, TypeOK
  <2>3. OpenTokens' \subseteq OpenTokens
    BY <2>1 DEF OpenTokens, Stored
  <2>4. PICK P \in SUBSET Peers : P = {p}
    OBVIOUS
  <2>. QED BY <2>1, <2>2, <2>3, <2>4, VacateStep
<1>6. ASSUME NEW s \in Servers, Exit(s) PROVE Granted!Next
  <2>1. OpenTokens' \subseteq OpenTokens
    <3>1. \A t \in Tokens : Stored(t)' => Stored(t)
      BY <1>6 DEF Exit, Stored
    <3>2. handler'[s].stage = "idle" /\ \A z \in Servers \ {s} : handler'[z] = handler[z]
      BY <1>b, <1>6 DEF Exit, TypeOK, Idle
    <3>. QED BY <1>b, <3>1, <3>2, OpenShrinks
  <2>2. \A z \in Servers, q \in Peers :
           IF z = s /\ q \in Peers THEN ~Playing(z, q)'
           ELSE (Playing(z, q)' <=> Playing(z, q)) /\ sess'[z][q] = sess[z][q]
    BY <1>b, <1>6 DEF Exit, NoPeers, Playing, TypeOK
  <2>3. grant' = grant
    BY <1>6 DEF Exit
  <2>. QED BY <2>1, <2>2, <2>3, VacateStep
<1>7. ASSUME NEW s \in Servers, NEW p \in Peers, HandleDisconnect(s, p) PROVE Granted!Next
  <2>1. UNCHANGED <<grant, tokenTTL, phase, drain>> /\ phase[s] = "running" /\ handler[s] = Idle
    BY <1>7 DEF HandleDisconnect, Ready
  <2>2. CASE sess[s][p] = NoSession
    <3>1. UNCHANGED <<sess, handler>>
      BY <1>7, <2>2 DEF HandleDisconnect
    <3>2. OpenTokens' = OpenTokens
      BY <2>1, <3>1 DEF OpenTokens, Stored
    <3>. QED BY <1>s, <2>1, <3>1, <3>2, VoidStep
  <2>3. CASE sess[s][p] # NoSession
    <3>1. /\ sess' = [sess EXCEPT ![s][p] = NoSession]
          /\ handler' = [handler EXCEPT ![s] = [stage |-> "leave", char |-> sess[s][p].char]]
      BY <1>7, <2>3 DEF HandleDisconnect
    <3>2. handler'[s].stage = "leave" /\ \A z \in Servers \ {s} : handler'[z] = handler[z]
      BY <1>b, <3>1 DEF TypeOK
    <3>3. \A t \in Tokens : Stored(t)' => Stored(t)
      BY <2>1 DEF Stored
    <3>4. OpenTokens' \subseteq OpenTokens
      BY <1>b, <3>2, <3>3, OpenShrinks
    <3>5. \A z \in Servers, q \in Peers :
             IF z = s /\ q \in {p} THEN ~Playing(z, q)'
             ELSE (Playing(z, q)' <=> Playing(z, q)) /\ sess'[z][q] = sess[z][q]
      BY <1>b, <2>1, <3>1 DEF Playing, TypeOK
    <3>6. PICK P \in SUBSET Peers : P = {p}
      OBVIOUS
    <3>. QED BY <2>1, <3>4, <3>5, <3>6, VacateStep
  <2>. QED BY <2>2, <2>3
<1>8. ASSUME NEW s \in Servers, NEW p \in Peers, NEW t \in Tokens, NEW c \in Characters,
             HandleJoinRequest(s, p, t, c)
      PROVE  Granted!Next
  <2>1. UNCHANGED <<grant, phase, sess, drain>>
    BY <1>8 DEF HandleJoinRequest, ConsumeJoinToken
  <2>2. \/ handler' = [handler EXCEPT ![s] = Idle]
        \/ /\ handler' = [handler EXCEPT ![s] = [stage |-> "join", peer |-> p, token |-> t]]
           /\ Stored(t)
    BY <1>8 DEF HandleJoinRequest, Reject
  <2>3. \A x \in Tokens : Stored(x)' => Stored(x)
    <3>1. tokenTTL \in [Tokens -> Nat] /\ tokenTTL' \in {tokenTTL, [tokenTTL EXCEPT ![t] = 0]}
      BY <1>b, <1>8 DEF HandleJoinRequest, ConsumeJoinToken, TypeOK, TokensTypeOK
    <3>2. \A x \in Tokens : tokenTTL'[x] \in {tokenTTL[x], 0}
      BY <3>1
    <3>. QED BY <3>2 DEF Stored
  <2>4. /\ handler'[s].stage \in {"join", "load"} => handler'[s].token = t /\ Stored(t)
        /\ \A z \in Servers \ {s} : handler'[z] = handler[z]
    BY <1>b, <2>2 DEF TypeOK, Idle
  <2>5. OpenTokens' \subseteq OpenTokens
    <3>1. Stored(t) => t \in OpenTokens
      BY DEF OpenTokens
    <3>. QED BY <1>b, <2>3, <2>4, <3>1, OpenShrinks
  <2>. QED BY <1>s, <2>1, <2>5, VoidStep
<1>9. ASSUME NEW s \in Servers,
             AcquireLock(s) \/ LoadFails(s) \/ UndoJoin(s) \/ ReleaseOnDisconnect(s)
      PROVE  Granted!Next
  <2>1. UNCHANGED <<grant, tokenTTL, phase, sess, drain>>
    BY <1>9 DEF AcquireLock, LoadFails, UndoJoin, ReleaseOnDisconnect
  <2>2. \/ handler' = [handler EXCEPT ![s] = Idle]
        \/ handler' = [handler EXCEPT ![s].stage = "undo"] /\ handler[s].stage = "load"
        \/ handler' = [handler EXCEPT ![s].stage = "load"] /\ handler[s].stage = "join"
    BY <1>9 DEF AcquireLock, LoadFails, UndoJoin, ReleaseOnDisconnect, Reject
  <2>3. \A z \in Servers \ {s} : handler'[z] = handler[z]
    BY <1>b, <2>2 DEF TypeOK
  <2>4. handler'[s].stage \in {"join", "load"} =>
           handler[s].stage = "join" /\ handler'[s].token = handler[s].token
    <3>1. CASE handler' = [handler EXCEPT ![s] = Idle]
      BY <1>b, <3>1 DEF TypeOK, Idle
    <3>2. CASE handler' # [handler EXCEPT ![s] = Idle]
      <4>1. handler[s] \in Joins
        BY <1>h, <2>2, <3>2
      <4>. QED BY <1>b, <2>2, <3>2, <4>1 DEF TypeOK, Joins
    <3>. QED BY <3>1, <3>2
  <2>5. \A x \in Tokens : Stored(x)' => Stored(x)
    BY <2>1 DEF Stored
  <2>6. OpenTokens' \subseteq OpenTokens
    BY <1>b, <1>h, <2>3, <2>4, <2>5, OpenShrinks
  <2>. QED BY <1>s, <2>1, <2>6, VoidStep
<1>10. ASSUME NEW s \in Servers, NEW p \in Peers, Connect(s, p) PROVE Granted!Next
  <2>1. UNCHANGED <<grant, tokenTTL, phase, sess, drain, handler>>
    BY <1>10 DEF Connect
  <2>2. OpenTokens' = OpenTokens
    BY <2>1 DEF OpenTokens, Stored
  <2>. QED BY <1>s, <2>1, <2>2, VoidStep
<1>11. CASE Tick
  <2>1. UNCHANGED <<grant, phase, sess, drain, handler>> /\ AgeTokens
    BY <1>11 DEF Tick
  <2>2. \A x \in Tokens : Stored(x)' => Stored(x)
    BY <1>b, <2>1 DEF AgeTokens, Stored, TypeOK, TokensTypeOK
  <2>3. OpenTokens' \subseteq OpenTokens
    BY <2>1, <2>2 DEF OpenTokens
  <2>. QED BY <1>s, <2>1, <2>3, VoidStep
<1>12. CASE UNCHANGED vars
  <2>1. UNCHANGED <<grant, tokenTTL, phase, sess, drain, handler>>
    BY <1>12 DEF vars
  <2>2. OpenTokens' = OpenTokens
    BY <2>1 DEF OpenTokens, Stored
  <2>. QED BY <1>s, <2>1, <2>2, VoidStep
<1>. QED
  BY <1>1, <1>2, <1>3, <1>4, <1>5, <1>6, <1>7, <1>8, <1>9, <1>10, <1>11, <1>12
  DEF Next, FinishShutdown, Crash

\* The handoff keeps the promise of JoinGrant: a join token seats one peer,
\* once, on the server and as the user and character it was issued for, or
\* nobody, whatever is lost, fails, expires, stops or crashes on the way.
THEOREM HandoffImplementsGrant == Spec => ImplementsJoinGrant
<1>1. Init => Granted!Init
  <2>. SUFFICES ASSUME Init PROVE Granted!Init
    OBVIOUS
  <2>1. OpenTokens = {}
    BY DEF Init, TokensInit, OpenTokens, Stored, Idle
  <2>2. Seats = [s \in Servers |-> [p \in Peers |-> NoSession]]
    BY DEF Init, NoPeers, Seats, Playing
  <2>. QED BY <2>1, <2>2 DEF Init, TokensInit, Granted!Init
<1>. QED
  BY <1>1, HandoffStep, HandoffInvariant, ConsumedInvariant, PTL
  DEF Spec, ImplementsJoinGrant, Granted!Spec

-----------------------------------------------------------------------------
(***************************************************************************)
(* The lock store is a sound lease (LockLeases), for any servers,          *)
(* characters and requested times to live                                  *)
(***************************************************************************)
\* The leases are typed and sound.
LeaseInv == LeaseTypeOK /\ LeaseIsSound

\* The default replaces what is not a positive time.
LEMMA EffectivePositive == \A r \in Requested : effectiveTTL(r) \in Nat \ {0}
BY LockAssumptions, RequestedAssumption DEF effectiveTTL

\* There are no leases at first.
LEMMA InitLease == LeaseInit => LeaseInv
BY LockAssumptions DEF LeaseInit, LocksInit, LeaseInv, LeaseTypeOK, LocksTypeOK, LockRecords, LeaseIsSound

\* Setting the key of c for s, when nobody else has a lease on c, and letting
\* s count at most the time that was set.
LEMMA SetStep ==
    ASSUME LeaseInv, NEW s \in Servers, NEW c \in Characters, NEW r \in Requested,
           SetLock(c, s, r), lock[c].owner \in {NoServer, s},
           \/ SetLease(s, c, effectiveTTL(r))
           \/ SetLease(s, c, 0)
           \/ lock[c].owner = NoServer /\ UNCHANGED lease,
           UNCHANGED dead
    PROVE  LeaseInv'
<1>. DEFINE n == effectiveTTL(r)
<1>1. n \in Nat \ {0}
  BY EffectivePositive
<1>2. lock' = [lock EXCEPT ![c] = [owner |-> s, ttl |-> n]]
  BY DEF SetLock
<1>3. \/ lease' = [lease EXCEPT ![s][c] = n]
      \/ lease' = [lease EXCEPT ![s][c] = 0]
      \/ lock[c].owner = NoServer /\ lease' = lease
  BY DEF SetLease
<1>. HIDE DEF n
<1>4. lease' \in [Servers -> [Characters -> Nat]]
  <2>. lease \in [Servers -> [Characters -> Nat]]
    BY DEF LeaseInv, LeaseTypeOK
  <2>1. CASE lease' = [lease EXCEPT ![s][c] = n]
    BY <1>1, <2>1
  <2>2. CASE lease' = [lease EXCEPT ![s][c] = 0]
    BY <2>2
  <2>. QED BY <1>3, <2>1, <2>2
<1>5. LocksTypeOK'
  BY <1>1, <1>2 DEF LeaseInv, LeaseTypeOK, LocksTypeOK, LockRecords
<1>6. ASSUME NEW z \in Servers, NEW d \in Characters, lease'[z][d] > 0
      PROVE  lock'[d].owner = z /\ lock'[d].ttl >= lease'[z][d]
  <2>1. CASE d # c
    <3>1. lock'[d] = lock[d] /\ lease'[z][d] = lease[z][d]
      BY <1>2, <1>3, <2>1 DEF LeaseInv, LeaseTypeOK, LocksTypeOK
    <3>. QED BY <1>6, <3>1 DEF LeaseInv, LeaseIsSound, GetCharacterLockOwner
  <2>2. CASE d = c /\ z # s
    <3>1. lease'[z][d] = lease[z][d]
      BY <1>3, <2>2 DEF LeaseInv, LeaseTypeOK
    <3>. QED BY <1>6, <2>2, <3>1, LockAssumptions DEF LeaseInv, LeaseIsSound, GetCharacterLockOwner
  <2>3. CASE d = c /\ z = s
    <3>1. lock'[d] = [owner |-> s, ttl |-> n]
      BY <1>2, <2>3 DEF LeaseInv, LeaseTypeOK, LocksTypeOK
    <3>2. lease'[z][d] \in {0, n} \/ (lock[c].owner = NoServer /\ lease'[z][d] = lease[z][d])
      BY <1>3, <2>3 DEF LeaseInv, LeaseTypeOK
    <3>. QED BY <1>1, <1>6, <2>3, <3>1, <3>2, LockAssumptions
             DEF LeaseInv, LeaseIsSound, GetCharacterLockOwner
  <2>. QED BY <2>1, <2>2, <2>3
<1>7. LeaseIsSound'
  BY <1>6 DEF LeaseIsSound, GetCharacterLockOwner
<1>. QED BY <1>4, <1>5, <1>7 DEF LeaseInv, LeaseTypeOK

\* Every call, crash and tick keeps the leases sound.
LEMMA NextLease == LeaseInv /\ [LeaseNext]_leaseVars => LeaseInv'
<1>. SUFFICES ASSUME LeaseInv, [LeaseNext]_leaseVars PROVE LeaseInv'
  OBVIOUS
<1>t. /\ LeaseTypeOK /\ LocksTypeOK /\ lease \in [Servers -> [Characters -> Nat]]
      /\ LeaseIsSound /\ dead \subseteq Servers
  BY DEF LeaseInv, LeaseTypeOK
<1>1. CASE UNCHANGED leaseVars
  BY <1>1 DEF leaseVars, LeaseInv, LeaseTypeOK, LocksTypeOK, LeaseIsSound, GetCharacterLockOwner
<1>2. ASSUME NEW s \in Servers, NEW c \in Characters, NEW r \in Requested, Acquire(s, c, r),
             UNCHANGED dead
      PROVE  LeaseInv'
  <2>1. CASE AcquireRefused(c) /\ UNCHANGED lease
    BY <1>2, <2>1 DEF AcquireRefused, LeaseInv, LeaseTypeOK, LocksTypeOK, LeaseIsSound,
       GetCharacterLockOwner
  <2>2. CASE /\ AcquireCharacterLock(c, s, r)
             /\ SetLease(s, c, effectiveTTL(r)) \/ UNCHANGED lease
    <3>1. SetLock(c, s, r) /\ lock[c].owner = NoServer
      BY <2>2 DEF AcquireCharacterLock, Free
    <3>. QED BY <1>2, <2>2, <3>1, SetStep
  <2>. QED BY <1>2, <2>1, <2>2 DEF Acquire
<1>3. ASSUME NEW s \in Servers, NEW c \in Characters, NEW r \in Requested, Renew(s, c, r),
             UNCHANGED dead
      PROVE  LeaseInv'
  <2>1. CASE RenewRefused(c, s) /\ SetLease(s, c, 0)
    <3>1. lock' = lock /\ lease' = [lease EXCEPT ![s][c] = 0]
      BY <2>1 DEF RenewRefused, SetLease
    <3>2. \A z \in Servers, d \in Characters : lease'[z][d] \in {0, lease[z][d]}
      BY <1>t, <3>1
    <3>. QED BY <1>3, <1>t, <3>1, <3>2 DEF LeaseInv, LeaseTypeOK, LocksTypeOK, LeaseIsSound,
             GetCharacterLockOwner
  <2>2. CASE /\ RenewCharacterLock(c, s, r)
             /\ SetLease(s, c, effectiveTTL(r)) \/ SetLease(s, c, 0)
    <3>1. SetLock(c, s, r) /\ lock[c].owner = s
      BY <2>2 DEF RenewCharacterLock
    <3>. QED BY <1>3, <2>2, <3>1, SetStep
  <2>. QED BY <1>3, <2>1, <2>2 DEF Renew
<1>4. ASSUME NEW s \in Servers, NEW c \in Characters, Release(s, c), UNCHANGED dead
      PROVE  LeaseInv'
  <2>1. /\ lease' = [lease EXCEPT ![s][c] = 0]
        /\ lock' = lock \/ (lock[c].owner = s /\ lock' = [lock EXCEPT ![c] = Free])
    BY <1>4 DEF Release, ReleaseCharacterLock, SetLease
  <2>2. LocksTypeOK'
    <3>1. [lock EXCEPT ![c] = Free] \in [Characters -> LockRecords]
      BY <1>t DEF LocksTypeOK, LockRecords
    <3>. QED BY <1>t, <2>1, <3>1 DEF LocksTypeOK
  <2>3. lease' \in [Servers -> [Characters -> Nat]]
    <3>1. [lease EXCEPT ![s][c] = 0] \in [Servers -> [Characters -> Nat]]
      BY <1>t
    <3>. QED BY <2>1, <3>1
  <2>4. \A z \in Servers, d \in Characters : lease'[z][d] > 0 =>
           lease'[z][d] = lease[z][d] /\ (d # c \/ z # s)
    <3>1. lease' = [lease EXCEPT ![s][c] = 0]
      BY <2>1
    <3>. QED BY <1>t, <3>1
  <2>5. \A d \in Characters : lock'[d] = lock[d] \/ (d = c /\ lock[c].owner = s)
    BY <1>t, <2>1 DEF LocksTypeOK
  <2>6. LeaseIsSound'
    BY <1>t, <2>4, <2>5 DEF LeaseIsSound, GetCharacterLockOwner
  <2>. QED BY <1>4, <1>t, <2>2, <2>3, <2>6 DEF LeaseInv, LeaseTypeOK
<1>5. CASE LeaseTick
  <2>1. ASSUME NEW c \in Characters
        PROVE  /\ lock'[c] \in LockRecords
               /\ lock[c].ttl > 1 => lock'[c].owner = lock[c].owner
                                     /\ lock'[c].ttl = lock[c].ttl - 1
    <3>1. CASE lock[c].ttl = 0
      BY <1>5, <1>t, <3>1 DEF LeaseTick, AgeLocks, LocksTypeOK
    <3>2. CASE lock[c].ttl = 1
      BY <1>5, <3>2 DEF LeaseTick, AgeLocks, LockRecords
    <3>3. CASE lock[c].ttl \notin {0, 1}
      <4>1. lock'[c] = [lock[c] EXCEPT !.ttl = @ - 1]
        BY <1>5, <3>3 DEF LeaseTick, AgeLocks
      <4>2. lock[c] \in [owner : Servers, ttl : Nat]
        BY <1>t, <3>3 DEF LocksTypeOK, LockRecords, Free
      <4>. QED BY <3>3, <4>1, <4>2 DEF LockRecords
    <3>. QED BY <3>1, <3>2, <3>3
  <2>2. LocksTypeOK'
    BY <1>5, <2>1 DEF LeaseTick, AgeLocks, LocksTypeOK
  <2>3. ASSUME NEW s \in Servers, NEW c \in Characters
        PROVE  /\ lease'[s][c] = IF lease[s][c] = 0 THEN 0 ELSE lease[s][c] - 1
               /\ lease'[s][c] \in Nat
    <3>1. lease'[s][c] = IF lease[s][c] = 0 THEN 0 ELSE lease[s][c] - 1
      BY <1>5 DEF LeaseTick
    <3>. QED BY <1>t, <3>1
  <2>4. lease' \in [Servers -> [Characters -> Nat]]
    <3>1. lease' = [s \in Servers |-> [c \in Characters |-> lease'[s][c]]]
      BY <1>5 DEF LeaseTick
    <3>. QED BY <2>3, <3>1
  <2>5. LeaseIsSound'
    <3>1. SUFFICES ASSUME NEW s \in Servers, NEW c \in Characters, lease'[s][c] > 0
                   PROVE  lock'[c].owner = s /\ lock'[c].ttl >= lease'[s][c]
      BY DEF LeaseIsSound, GetCharacterLockOwner
    <3>2. lease[s][c] \in Nat /\ lease[s][c] > 1 /\ lease'[s][c] = lease[s][c] - 1
      BY <1>t, <2>3, <3>1
    <3>3. lock[c].owner = s /\ lock[c].ttl >= lease[s][c]
      BY <1>t, <3>2 DEF LeaseIsSound, GetCharacterLockOwner
    <3>4. lock[c].ttl \in Nat
      BY <1>t DEF LocksTypeOK, LockRecords, Free
    <3>. QED BY <2>1, <3>2, <3>3, <3>4
  <2>6. dead' = dead
    BY <1>5 DEF LeaseTick
  <2>. QED BY <1>t, <2>2, <2>4, <2>5, <2>6 DEF LeaseInv, LeaseTypeOK
<1>6. ASSUME NEW s \in Servers, LeaseCrash(s) PROVE LeaseInv'
  <2>1. lock' = lock /\ lease' = [lease EXCEPT ![s] = [c \in Characters |-> 0]]
    BY <1>6 DEF LeaseCrash
  <2>2. lease' \in [Servers -> [Characters -> Nat]]
    BY <1>t, <2>1
  <2>3. \A z \in Servers, d \in Characters : lease'[z][d] \in {0, lease[z][d]}
    BY <1>t, <2>1
  <2>4. dead' \subseteq Servers
    BY <1>6, <1>t DEF LeaseCrash
  <2>. QED BY <1>t, <2>1, <2>2, <2>3, <2>4
           DEF LeaseInv, LeaseTypeOK, LocksTypeOK, LeaseIsSound, GetCharacterLockOwner
<1>. QED BY <1>1, <1>2, <1>3, <1>4, <1>5, <1>6 DEF LeaseNext, Call

\* A server whose lease runs is the owner of the character in Redis until the
\* lease ends, for any times to live and any interleaving of callers.
THEOREM LeaseSoundness == LeaseSpec => []LeaseIsSound
<1>1. LeaseSpec => []LeaseInv
  BY InitLease, NextLease, PTL DEF LeaseSpec
<1>. QED BY <1>1, PTL DEF LeaseInv

\* Every reachable state of the store and its callers is well typed; in
\* particular every lock that is held has time left to live, however small or
\* negative the times callers ask for, so that none stays for ever.
THEOREM LeaseTypes == LeaseSpec => []LeaseTypeOK
<1>1. LeaseSpec => []LeaseInv
  BY InitLease, NextLease, PTL DEF LeaseSpec
<1>. QED BY <1>1, PTL DEF LeaseInv
==============================================================================
