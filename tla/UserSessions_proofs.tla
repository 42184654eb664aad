------------------------- MODULE UserSessions_proofs -------------------------
(***************************************************************************)
(* TLAPS proofs about UserSessions, for any users, sessions, number of     *)
(* concurrent RPCs and time to live.                                       *)
(***************************************************************************)
EXTENDS UserSessions, TLAPS

-----------------------------------------------------------------------------
(***************************************************************************)
(* The inductive invariant                                                 *)
(***************************************************************************)
\* What an RPC knows about its session is true: it exists, and a session that
\* somebody presents is not being opened any more.
RequestsOK ==
    \A r \in Requests : req[r] \in Calls =>
       /\ owner[req[r].sid] = req[r].user
       /\ req[r].stage \in {"call", "delete"} => ~Opening(req[r].sid)

\* A revoked session was created once, and nobody is opening it again unless
\* its login was unanswered then.
RevokedOK == /\ \A i \in revoked : owner[i] # NoUser
             /\ \A i \in revoked \ unanswered : ~Opening(i) /\ ~Live(i)

\* Only sessions that were created live, and an index lists its user's.
OwnersOK == /\ \A i \in SessionIDs : Live(i) => owner[i] # NoUser
            /\ \A u \in Users : \A i \in index[u] : owner[i] = u

StoreTypeOK == /\ owner \in [SessionIDs -> Users \cup {NoUser}]
               /\ ttl \in [SessionIDs -> Nat]
               /\ index \in [Users -> SUBSET SessionIDs]
               /\ indexTTL \in [Users -> Nat]

\* No key has more to live than a new one.
Bounded == \A i \in SessionIDs : ttl[i] <= SessionTTL

StoreInv == StoreTypeOK /\ Bounded /\ OwnersOK /\ SessionIndexed

SessionInv == /\ StoreInv
              /\ req \in [Requests -> {Idle} \cup Logins \cup Calls]
              /\ revoked \in SUBSET SessionIDs
              /\ unanswered \in SUBSET revoked
              /\ RequestsOK
              /\ RevokedOK

\* The stage of a request tells what else the request knows.
LEMMA RequestStages ==
    ASSUME NEW q \in {Idle} \cup Logins \cup Calls
    PROVE  /\ q.stage \in {"retry", "call", "delete"} <=> q \in Calls
           /\ q.stage = "create" <=> q \in Logins
           /\ q \in Calls => q.sid \in SessionIDs /\ q.user \in Users
           /\ q \in Logins => q.user \in Users
BY DEF Idle, Logins, Calls

\* There are no sessions at first.
LEMMA InitSession == Init => SessionInv
BY SessionAssumptions DEF Init, SessionInv, StoreInv, StoreTypeOK, Bounded, RequestsOK, RevokedOK, OwnersOK,
   SessionIndexed, Live, Idle, Calls

-----------------------------------------------------------------------------
(***************************************************************************)
(* The scripts                                                             *)
(***************************************************************************)
\* Creating a session, for the first time or again, keeps the index complete.
LEMMA CreateStep ==
    ASSUME StoreInv, NEW i \in SessionIDs, NEW u \in Users, owner[i] \in {u, NoUser},
           CreateSession(i, u)
    PROVE  StoreInv'
<1>. USE SessionAssumptions DEF StoreInv, CreateSession
<1>1. StoreTypeOK'
  BY DEF StoreTypeOK
<1>2. /\ owner'[i] = u /\ \A j \in SessionIDs : j # i => owner'[j] = owner[j]
      /\ ttl'[i] = SessionTTL /\ \A j \in SessionIDs : j # i => ttl'[j] = ttl[j]
      /\ index'[u] = index[u] \cup {i} /\ \A v \in Users : v # u => index'[v] = index[v]
      /\ indexTTL'[u] = SessionTTL /\ \A v \in Users : v # u => indexTTL'[v] = indexTTL[v]
  BY DEF StoreTypeOK
<1>b. Bounded'
  BY <1>2 DEF Bounded
<1>3. OwnersOK'
  BY <1>2 DEF StoreTypeOK, OwnersOK, Live
<1>4. ASSUME NEW j \in SessionIDs, ttl'[j] > 0
      PROVE  j \in index'[owner'[j]] /\ ttl'[j] <= indexTTL'[owner'[j]]
  <2>1. CASE j = i
    BY <1>2, <2>1
  <2>2. CASE j # i
    <3>1. owner'[j] = owner[j] /\ ttl'[j] = ttl[j] /\ ttl[j] > 0
      BY <1>2, <1>4, <2>2
    <3>2. owner[j] \in Users /\ j \in index[owner[j]] /\ ttl[j] <= indexTTL[owner[j]]
      BY <3>1 DEF StoreTypeOK, OwnersOK, SessionIndexed, Live
    <3>3. ttl[j] <= SessionTTL
      BY <3>1 DEF Bounded
    <3>. QED BY <1>2, <3>1, <3>2, <3>3
  <2>. QED BY <2>1, <2>2
<1>5. \A v \in Users : index'[v] # {} => indexTTL'[v] > 0
  BY <1>2 DEF SessionIndexed
<1>6. SessionIndexed'
  BY <1>4, <1>5 DEF SessionIndexed, Live
<1>. QED BY <1>1, <1>b, <1>3, <1>6

\* Deleting a session, found under the index of its user.
LEMMA DeleteStep ==
    ASSUME StoreInv, NEW i \in SessionIDs, NEW u \in Users, owner[i] = u,
           DeleteSession(i, u)
    PROVE  /\ StoreInv'
           /\ owner' = owner
           /\ ~Live(i)'
           /\ \A j \in SessionIDs : j # i => ttl'[j] = ttl[j]
<1>. USE DEF StoreInv
<1>1. CASE ~Live(i)
  <2>. UNCHANGED storeVars
    BY <1>1 DEF DeleteSession
  <2>. QED BY <1>1 DEF storeVars, StoreTypeOK, Bounded, OwnersOK, SessionIndexed, Live
<1>2. CASE Live(i)
  <2>1. /\ ttl' = [ttl EXCEPT ![i] = 0]
        /\ index' = [index EXCEPT ![u] = @ \ {i}]
        /\ indexTTL' = [indexTTL EXCEPT ![u] = IF index[u] \ {i} = {} THEN 0 ELSE @]
        /\ owner' = owner
    BY <1>2 DEF DeleteSession, Unindex
  <2>2. StoreTypeOK'
    BY <2>1 DEF StoreTypeOK
  <2>3. /\ ttl'[i] = 0 /\ \A j \in SessionIDs : j # i => ttl'[j] = ttl[j]
        /\ index'[u] = index[u] \ {i} /\ \A v \in Users : v # u => index'[v] = index[v]
        /\ index'[u] # {} => indexTTL'[u] = indexTTL[u]
        /\ \A v \in Users : v # u => indexTTL'[v] = indexTTL[v]
    BY <2>1 DEF StoreTypeOK
  <2>b. Bounded'
    BY <2>3, SessionAssumptions DEF Bounded
  <2>4. OwnersOK'
    BY <2>1, <2>3 DEF StoreTypeOK, OwnersOK, Live
  <2>5. ASSUME NEW j \in SessionIDs, ttl'[j] > 0
        PROVE  j \in index'[owner'[j]] /\ ttl'[j] <= indexTTL'[owner'[j]]
    <3>1. j # i /\ ttl[j] > 0 /\ ttl'[j] = ttl[j] /\ owner'[j] = owner[j]
      BY <2>1, <2>3, <2>5
    <3>2. owner[j] \in Users /\ j \in index[owner[j]] /\ ttl[j] <= indexTTL[owner[j]]
      BY <3>1 DEF StoreTypeOK, OwnersOK, SessionIndexed, Live
    <3>. QED BY <2>3, <3>1, <3>2
  <2>6. \A v \in Users : index'[v] # {} => indexTTL'[v] > 0
    BY <2>3 DEF SessionIndexed
  <2>7. SessionIndexed'
    BY <2>5, <2>6 DEF SessionIndexed, Live
  <2>8. ~Live(i)'
    BY <2>3 DEF Live
  <2>. QED BY <2>1, <2>2, <2>3, <2>b, <2>4, <2>7, <2>8
<1>. QED BY <1>1, <1>2

\* The bulk revocation reaches every session of the user, because the index
\* is complete, and no other session, because the index lists no other.
LEMMA DeleteUserStep ==
    ASSUME StoreInv, NEW u \in Users, DeleteUserSessions(u)
    PROVE  /\ StoreInv'
           /\ owner' = owner
           /\ \A i \in SessionIDs : ~Live(i)' <=> ~Live(i) \/ owner[i] = u
<1>. USE DEF StoreInv
<1>1. /\ ttl' = [i \in SessionIDs |-> IF i \in index[u] THEN 0 ELSE ttl[i]]
      /\ index' = [index EXCEPT ![u] = {}]
      /\ indexTTL' = [indexTTL EXCEPT ![u] = 0]
      /\ owner' = owner
  BY DEF DeleteUserSessions
<1>2. StoreTypeOK'
  BY <1>1 DEF StoreTypeOK
<1>3. /\ \A i \in SessionIDs : ttl'[i] = IF i \in index[u] THEN 0 ELSE ttl[i]
      /\ index'[u] = {} /\ indexTTL'[u] = 0
      /\ \A v \in Users : v # u => index'[v] = index[v] /\ indexTTL'[v] = indexTTL[v]
  BY <1>1 DEF StoreTypeOK
<1>4. \A i \in SessionIDs : ~Live(i)' <=> ~Live(i) \/ owner[i] = u
  <2>1. \A i \in SessionIDs : Live(i) => (owner[i] = u <=> i \in index[u])
    BY DEF OwnersOK, SessionIndexed, StoreTypeOK
  <2>. QED BY <1>3, <2>1 DEF Live, OwnersOK
<1>b. Bounded'
  BY <1>3, SessionAssumptions DEF Bounded
<1>5. OwnersOK'
  BY <1>1, <1>3, <1>4 DEF OwnersOK
<1>6. ASSUME NEW j \in SessionIDs, ttl'[j] > 0
      PROVE  j \in index'[owner'[j]] /\ ttl'[j] <= indexTTL'[owner'[j]]
  <2>1. j \notin index[u] /\ ttl'[j] = ttl[j] /\ ttl[j] > 0
    BY <1>3, <1>6
  <2>2. owner[j] \in Users /\ j \in index[owner[j]] /\ ttl[j] <= indexTTL[owner[j]]
    BY <2>1 DEF StoreTypeOK, OwnersOK, SessionIndexed, Live
  <2>. QED BY <1>1, <1>3, <2>1, <2>2
<1>7. SessionIndexed'
  BY <1>3, <1>6 DEF SessionIndexed, Live
<1>. QED BY <1>1, <1>2, <1>b, <1>4, <1>5, <1>7

\* Time ends sessions before, or together with, the index that lists them.
LEMMA TickStep ==
    ASSUME StoreInv, Tick
    PROVE  /\ StoreInv'
           /\ owner' = owner
           /\ \A i \in SessionIDs : Live(i)' => Live(i)
<1>. USE DEF StoreInv
<1>1. /\ owner' = owner
      /\ ttl' = [i \in SessionIDs |-> IF ttl[i] = 0 THEN 0 ELSE ttl[i] - 1]
      /\ indexTTL' = [u \in Users |-> IF indexTTL[u] = 0 THEN 0 ELSE indexTTL[u] - 1]
      /\ index' = [u \in Users |-> IF indexTTL[u] = 1 THEN {} ELSE index[u]]
  BY DEF Tick
<1>2. StoreTypeOK'
  <2>1. \A n \in Nat : n # 0 => n - 1 \in Nat
    OBVIOUS
  <2>2. ttl' \in [SessionIDs -> Nat] /\ indexTTL' \in [Users -> Nat]
    BY <1>1, <2>1 DEF StoreTypeOK
  <2>3. index' \in [Users -> SUBSET SessionIDs]
    BY <1>1 DEF StoreTypeOK
  <2>. QED BY <1>1, <2>2, <2>3 DEF StoreTypeOK
<1>3. \A i \in SessionIDs : ttl'[i] > 0 => ttl[i] > 1 /\ ttl'[i] = ttl[i] - 1
  BY <1>1 DEF StoreTypeOK
<1>b. Bounded'
  BY <1>1, <1>2, SessionAssumptions DEF Bounded, StoreTypeOK
<1>4. OwnersOK'
  BY <1>1, <1>3 DEF StoreTypeOK, OwnersOK, Live
<1>5. ASSUME NEW j \in SessionIDs, ttl'[j] > 0
      PROVE  j \in index'[owner'[j]] /\ ttl'[j] <= indexTTL'[owner'[j]]
  <2>1. owner[j] \in Users /\ j \in index[owner[j]] /\ ttl[j] <= indexTTL[owner[j]]
    BY <1>3, <1>5 DEF StoreTypeOK, OwnersOK, SessionIndexed, Live
  <2>2. indexTTL[owner[j]] \in Nat /\ ttl[j] \in Nat
    BY <2>1 DEF StoreTypeOK
  <2>. QED BY <1>1, <1>3, <1>5, <2>1, <2>2
<1>6. \A v \in Users : index'[v] # {} => indexTTL'[v] > 0
  BY <1>1 DEF SessionIndexed, StoreTypeOK
<1>7. SessionIndexed'
  BY <1>5, <1>6 DEF SessionIndexed, Live
<1>8. \A i \in SessionIDs : Live(i)' => Live(i)
  BY <1>3 DEF Live, StoreTypeOK
<1>. QED BY <1>1, <1>2, <1>b, <1>4, <1>7, <1>8

-----------------------------------------------------------------------------
(***************************************************************************)
(* The steps of the RPCs                                                   *)
(***************************************************************************)
\* A request that ends leaves what the others know, and what was revoked, true,
\* if its script kept the owners and brought no revoked session back.
LEMMA RequestEnds ==
    ASSUME SessionInv, NEW r \in Requests, Done(r), StoreInv',
           \A i \in SessionIDs : owner[i] # NoUser => owner'[i] = owner[i],
           revoked' \in SUBSET SessionIDs, unanswered' \in SUBSET revoked',
           \A i \in revoked' : owner'[i] # NoUser,
           \A i \in revoked' \ unanswered' :
              ~Live(i)' /\ (i \in revoked \ unanswered \/ ~Opening(i))
    PROVE  SessionInv'
<1>1. req' = [req EXCEPT ![r] = Idle]
  BY DEF Done
<1>2. req' \in [Requests -> {Idle} \cup Logins \cup Calls]
  BY <1>1 DEF SessionInv
<1>3. Idle \notin Calls /\ Idle.stage = "idle"
  BY DEF Idle, Calls
<1>4. \A q \in Requests : req'[q] = req[q] \/ req'[q] = Idle
  BY <1>1 DEF SessionInv
<1>5. \A i \in SessionIDs : Opening(i)' => Opening(i)
  BY <1>3, <1>4 DEF Opening
<1>6. RequestsOK'
  <2>1. SUFFICES ASSUME NEW q \in Requests, req'[q] \in Calls
                 PROVE  /\ owner'[req'[q].sid] = req'[q].user
                        /\ req'[q].stage \in {"call", "delete"} => ~Opening(req[q].sid)'
                        /\ req'[q] = req[q]
    BY <2>1 DEF RequestsOK, Opening
  <2>2. req'[q] = req[q]
    BY <1>3, <1>4, <2>1
  <2>3. req[q].sid \in SessionIDs /\ req[q].user \in Users
    BY <2>1, <2>2 DEF Calls
  <2>. QED BY <1>5, <2>1, <2>2, <2>3, SessionAssumptions DEF SessionInv, RequestsOK
<1>7. RevokedOK'
  BY <1>5 DEF RevokedOK, SessionInv
<1>. QED BY <1>2, <1>6, <1>7 DEF SessionInv

\* A request that moves on to q, over an unchanged store.
LEMMA RequestMoves ==
    ASSUME SessionInv, NEW r \in Requests, NEW q \in Logins \cup Calls,
           req' = [req EXCEPT ![r] = q], UNCHANGED <<storeVars, history>>,
           q \in Calls => /\ owner[q.sid] = q.user
                          /\ q.stage \in {"call", "delete"}
                          /\ ~Opening(q.sid)
    PROVE  SessionInv'
<1>1. StoreInv'
  BY DEF SessionInv, StoreInv, StoreTypeOK, Bounded, OwnersOK, SessionIndexed, Live, storeVars
<1>2. req' \in [Requests -> {Idle} \cup Logins \cup Calls]
  BY DEF SessionInv
<1>3. /\ req'[r] = q
      /\ \A z \in Requests : z # r => req'[z] = req[z]
  BY DEF SessionInv
<1>4. q.stage # "retry"
  BY DEF Logins
<1>5. \A i \in SessionIDs : Opening(i)' => Opening(i)
  BY <1>3, <1>4 DEF Opening
<1>6. ASSUME NEW z \in Requests, req'[z] \in Calls
      PROVE  /\ owner'[req'[z].sid] = req'[z].user
             /\ req'[z].stage \in {"call", "delete"} => ~Opening(req[z].sid)'
  <2>1. req'[z].sid \in SessionIDs
    BY <1>6 DEF Calls
  <2>2. CASE z = r
    BY <1>3, <1>5, <1>6, <2>1, <2>2 DEF storeVars
  <2>3. CASE z # r
    BY <1>3, <1>5, <1>6, <2>1, <2>3 DEF SessionInv, RequestsOK, storeVars
  <2>. QED BY <2>2, <2>3
<1>7. RequestsOK'
  BY <1>6 DEF RequestsOK
<1>8. RevokedOK'
  BY <1>5 DEF SessionInv, RevokedOK, storeVars, history, Live
<1>. QED BY <1>1, <1>2, <1>7, <1>8 DEF SessionInv, history

\* Every script, RPC and tick keeps SessionInv.
LEMMA NextSession == SessionInv /\ [Next]_vars => SessionInv'
<1>. SUFFICES ASSUME SessionInv, [Next]_vars PROVE SessionInv'
  OBVIOUS
<1>s. StoreInv /\ StoreTypeOK /\ revoked \subseteq SessionIDs /\ unanswered \subseteq revoked
      /\ req \in [Requests -> {Idle} \cup Logins \cup Calls]
  BY DEF SessionInv, StoreInv
<1>u. UNCHANGED storeVars => StoreInv'
  BY <1>s DEF StoreInv, StoreTypeOK, Bounded, OwnersOK, SessionIndexed, Live, storeVars
<1>1. CASE UNCHANGED vars
  BY <1>1, <1>u DEF vars, history, SessionInv, RequestsOK, RevokedOK, Opening, Live, storeVars
<1>2. ASSUME NEW r \in Requests, NEW u \in Users, Verify(r, u) PROVE SessionInv'
  <2>. DEFINE q == [stage |-> "create", user |-> u]
  <2>1. q \in Logins /\ q \notin Calls
    BY DEF Logins, Calls
  <2>. QED BY <1>2, <2>1, RequestMoves DEF Verify
<1>3. ASSUME NEW r \in Requests, NEW i \in SessionIDs, OpenSession(r, i) PROVE SessionInv'
  <2>. DEFINE u == req[r].user
              q == [stage |-> "retry", sid |-> i, user |-> u]
  <2>1. u \in Users /\ owner[i] = NoUser /\ revoked' = revoked /\ unanswered' = unanswered
    BY <1>3, <1>s, RequestStages DEF OpenSession, history
  <2>2. i \notin revoked
    BY <2>1 DEF SessionInv, RevokedOK
  <2>3. CASE UNCHANGED storeVars /\ Done(r)
    BY <1>s, <1>u, <2>1, <2>3, RequestEnds DEF history, storeVars, SessionInv, RevokedOK, Live
  <2>4. CASE CreateSession(i, u)
    <3>1. StoreInv'
      BY <1>s, <2>1, <2>4, CreateStep
    <3>2. \A j \in SessionIDs : j # i => owner'[j] = owner[j] /\ (Live(j)' <=> Live(j))
      BY <1>s, <2>4 DEF CreateSession, Live, StoreTypeOK
    <3>3. owner'[i] = u
      BY <1>s, <2>4 DEF CreateSession, StoreTypeOK
    <3>4. CASE Done(r)
      <4>1. /\ \A j \in revoked' : owner'[j] # NoUser
            /\ \A j \in revoked' \ unanswered' : ~Live(j)'
        BY <1>s, <2>1, <2>2, <3>2 DEF SessionInv, RevokedOK
      <4>. QED BY <1>s, <2>1, <3>1, <3>2, <3>4, <4>1, RequestEnds
    <3>5. CASE req' = [req EXCEPT ![r] = q]
      <4>1. q \in Calls /\ q.sid = i /\ q.user = u /\ q.stage = "retry"
        BY <2>1 DEF Calls
      <4>. HIDE DEF q
      <4>2. /\ req' \in [Requests -> {Idle} \cup Logins \cup Calls]
            /\ req'[r] = q
            /\ \A z \in Requests : z # r => req'[z] = req[z]
        BY <1>s, <3>5, <4>1
      <4>3. \A j \in SessionIDs : Opening(j)' => j = i \/ Opening(j)
        BY <4>1, <4>2 DEF Opening
      <4>4. ASSUME NEW z \in Requests, req'[z] \in Calls
            PROVE  /\ owner'[req'[z].sid] = req'[z].user
                   /\ req'[z].stage \in {"call", "delete"} => ~Opening(req[z].sid)'
        <5>1. CASE z = r
          BY <3>3, <4>1, <4>2, <5>1
        <5>2. CASE z # r
          <6>1. req[z].sid \in SessionIDs /\ req[z].user \in Users /\ req'[z] = req[z]
            BY <4>2, <4>4, <5>2 DEF Calls
          <6>2. owner[req[z].sid] = req[z].user
            BY <4>4, <6>1 DEF SessionInv, RequestsOK
          <6>3. req[z].sid # i
            BY <2>1, <6>1, <6>2, SessionAssumptions
          <6>. QED BY <3>2, <4>3, <4>4, <6>1, <6>2, <6>3 DEF SessionInv, RequestsOK
        <5>. QED BY <5>1, <5>2
      <4>5. RequestsOK'
        BY <4>4 DEF RequestsOK
      <4>6. RevokedOK'
        BY <1>s, <2>1, <2>2, <3>2, <4>3 DEF SessionInv, RevokedOK
      <4>. QED BY <1>s, <2>1, <3>1, <4>2, <4>5, <4>6 DEF SessionInv
    <3>. QED BY <1>3, <2>4, <3>4, <3>5 DEF OpenSession
  <2>. QED BY <1>3, <2>3, <2>4 DEF OpenSession
<1>4. ASSUME NEW r \in Requests, RetryOpen(r) PROVE SessionInv'
  <2>. DEFINE i == req[r].sid
              u == req[r].user
  <2>1. req[r] \in Calls /\ i \in SessionIDs /\ u \in Users /\ Done(r)
        /\ revoked' = revoked /\ unanswered' = unanswered
    BY <1>4, <1>s, RequestStages DEF RetryOpen, history
  <2>2. owner[i] = u
    BY <2>1 DEF SessionInv, RequestsOK
  <2>3. i \notin revoked \ unanswered
    BY <1>4 DEF SessionInv, RevokedOK, RetryOpen, Opening
  <2>4. CASE UNCHANGED storeVars
    BY <1>s, <1>u, <2>1, <2>4, RequestEnds DEF history, storeVars, SessionInv, RevokedOK, Live
  <2>5. CASE CreateSession(i, u)
    <3>1. StoreInv'
      BY <1>s, <2>1, <2>2, <2>5, CreateStep
    <3>2. \A j \in SessionIDs : owner'[j] = owner[j] /\ (j # i => (Live(j)' <=> Live(j)))
      BY <1>s, <2>1, <2>2, <2>5 DEF CreateSession, Live, StoreTypeOK
    <3>3. /\ \A j \in revoked' : owner'[j] # NoUser
          /\ \A j \in revoked' \ unanswered' : ~Live(j)'
      BY <1>s, <2>1, <2>3, <3>2 DEF SessionInv, RevokedOK
    <3>. QED BY <1>s, <2>1, <3>1, <3>2, <3>3, RequestEnds
  <2>. QED BY <1>4, <2>4, <2>5 DEF RetryOpen
<1>5. ASSUME NEW r \in Requests, NEW i \in SessionIDs, Authenticate(r, i) PROVE SessionInv'
  <2>. DEFINE q == [stage |-> "call", sid |-> i, user |-> owner[i]]
  <2>1. owner[i] \in Users
    BY <1>5, <1>s DEF Authenticate, StoreInv, OwnersOK, StoreTypeOK
  <2>2. q \in Calls /\ q.sid = i /\ q.user = owner[i] /\ q.stage = "call"
    BY <2>1 DEF Calls
  <2>3. ~Opening(i) /\ req' = [req EXCEPT ![r] = q] /\ UNCHANGED <<storeVars, history>>
    BY <1>5 DEF Authenticate
  <2>. HIDE DEF q
  <2>. QED BY <2>2, <2>3, RequestMoves
<1>6. ASSUME NEW r \in Requests, Serve(r) PROVE SessionInv'
  BY <1>6, <1>s, <1>u, RequestEnds DEF Serve, history, storeVars, SessionInv, RevokedOK, Live
<1>7. ASSUME NEW r \in Requests, Logout(r) PROVE SessionInv'
  <2>. DEFINE i == req[r].sid
  <2>1. req[r] \in Calls /\ i \in SessionIDs /\ UNCHANGED storeVars
    BY <1>7, <1>s, RequestStages DEF Logout
  <2>2. owner[i] = req[r].user /\ ~Opening(i) /\ owner[i] \in Users
    BY <1>7, <2>1 DEF Logout, SessionInv, RequestsOK, Calls
  <2>3. CASE ~Live(i) /\ Done(r) /\ Acknowledge({i})
    <3>0. revoked' = revoked \cup {i} /\ unanswered' = unanswered \ {i}
      BY <2>2, <2>3 DEF Acknowledge
    <3>1. /\ \A j \in revoked' : owner'[j] # NoUser
          /\ \A j \in revoked' \ unanswered' : ~Live(j)' /\ (j \in revoked \ unanswered \/ ~Opening(j))
      BY <2>1, <2>2, <2>3, <3>0, SessionAssumptions DEF storeVars, SessionInv, RevokedOK, Live
    <3>2. revoked' \in SUBSET SessionIDs /\ unanswered' \in SUBSET revoked'
      BY <1>s, <2>1, <3>0
    <3>. QED BY <1>u, <2>1, <2>3, <3>1, <3>2, RequestEnds DEF storeVars
  <2>4. CASE Done(r) /\ UNCHANGED history
    BY <1>s, <1>u, <2>1, <2>4, RequestEnds DEF history, storeVars, SessionInv, RevokedOK, Live
  <2>5. CASE /\ req' = [req EXCEPT ![r].stage = "delete", ![r].user = owner[i]]
             /\ UNCHANGED history
    <3>. DEFINE q == [stage |-> "delete", sid |-> i, user |-> owner[i]]
    <3>1. q \in Calls /\ q.sid = i /\ q.user = owner[i] /\ q.stage = "delete"
      BY <2>1, <2>2 DEF Calls
    <3>2. req' = [req EXCEPT ![r] = q]
      <4>1. req[r] = [stage |-> req[r].stage, sid |-> i, user |-> req[r].user]
        BY <2>1 DEF Calls
      <4>2. req'[r] = q
        BY <1>s, <2>5, <4>1
      <4>3. req' = [req EXCEPT ![r] = req'[r]]
        BY <1>s, <2>5
      <4>. QED BY <4>2, <4>3
    <3>. HIDE DEF q
    <3>. QED BY <2>1, <2>2, <2>5, <3>1, <3>2, RequestMoves
  <2>. QED BY <1>7, <2>3, <2>4, <2>5 DEF Logout
<1>8. ASSUME NEW r \in Requests, FinishLogout(r) PROVE SessionInv'
  <2>. DEFINE i == req[r].sid
              u == req[r].user
  <2>1. req[r] \in Calls /\ i \in SessionIDs /\ u \in Users /\ Done(r)
    BY <1>8, <1>s, RequestStages DEF FinishLogout
  <2>2. owner[i] = u /\ ~Opening(i)
    BY <1>8, <2>1 DEF FinishLogout, SessionInv, RequestsOK
  <2>3. CASE UNCHANGED <<storeVars, history>>
    BY <1>s, <1>u, <2>1, <2>3, RequestEnds DEF history, storeVars, SessionInv, RevokedOK, Live
  <2>4. CASE DeleteSession(i, u) /\ (Acknowledge({i}) \/ UNCHANGED history)
    <3>0. \/ revoked' = revoked \cup {i} /\ unanswered' = unanswered \ {i}
          \/ revoked' = revoked /\ unanswered' = unanswered
      BY <2>2, <2>4 DEF Acknowledge, history
    <3>1. /\ StoreInv'
          /\ owner' = owner
          /\ \A j \in SessionIDs : Live(j)' => j # i /\ Live(j)
      <4>. HIDE DEF i, u
      <4>. QED BY <1>s, <2>1, <2>2, <2>4, DeleteStep DEF Live
    <3>2. /\ \A j \in revoked' : owner'[j] # NoUser
          /\ \A j \in revoked' \ unanswered' : ~Live(j)' /\ (j \in revoked \ unanswered \/ ~Opening(j))
      BY <1>s, <2>1, <2>2, <3>0, <3>1, SessionAssumptions DEF SessionInv, RevokedOK
    <3>3. revoked' \in SUBSET SessionIDs /\ unanswered' \in SUBSET revoked'
      BY <1>s, <2>1, <3>0
    <3>. QED BY <2>1, <3>1, <3>2, <3>3, RequestEnds
  <2>. QED BY <1>8, <2>3, <2>4 DEF FinishLogout
<1>9. ASSUME NEW u \in Users, RevokeUserSessions(u) PROVE SessionInv'
  <2>. DEFINE S == {i \in SessionIDs : owner[i] = u}
  <2>1. /\ req' = req
        /\ \/ /\ revoked' = revoked \cup S
              /\ unanswered' = (unanswered \ S) \cup {i \in S : Opening(i)}
           \/ revoked' = revoked /\ unanswered' = unanswered
        /\ DeleteUserSessions(u)
    BY <1>9 DEF RevokeUserSessions, Acknowledge, history
  <2>2. StoreInv' /\ owner' = owner
        /\ \A i \in SessionIDs : ~Live(i)' <=> ~Live(i) \/ owner[i] = u
    BY <1>s, <2>1, DeleteUserStep
  <2>3. RequestsOK'
    BY <2>1, <2>2 DEF SessionInv, RequestsOK, Opening
  <2>4. RevokedOK'
    BY <1>s, <2>1, <2>2, SessionAssumptions DEF SessionInv, RevokedOK, Opening
  <2>5. revoked' \in SUBSET SessionIDs /\ unanswered' \in SUBSET revoked'
    BY <1>s, <2>1
  <2>. QED BY <1>s, <2>1, <2>2, <2>3, <2>4, <2>5 DEF SessionInv
<1>10. CASE Tick
  <2>1. req' = req /\ revoked' = revoked /\ unanswered' = unanswered
    BY <1>10 DEF Tick, history
  <2>2. StoreInv' /\ owner' = owner /\ \A i \in SessionIDs : Live(i)' => Live(i)
    BY <1>s, <1>10, TickStep
  <2>3. RequestsOK' /\ RevokedOK'
    BY <1>s, <2>1, <2>2 DEF SessionInv, RequestsOK, RevokedOK, Opening
  <2>. QED BY <1>s, <2>1, <2>2, <2>3 DEF SessionInv
<1>. QED
  BY <1>1, <1>2, <1>3, <1>4, <1>5, <1>6, <1>7, <1>8, <1>9, <1>10 DEF Next

\* SessionInv is an invariant of the sessions.
LEMMA SessionInvariant == Spec => []SessionInv
BY InitSession, NextSession, PTL DEF Spec

\* The index of a user is complete and outlives the sessions it lists, for any
\* number of logins, logouts and revocations in progress.
THEOREM IndexComplete == Spec => []SessionIndexed
BY SessionInvariant, PTL DEF SessionInv, StoreInv

\* A session whose revocation was acknowledged lives again only if its own
\* login was unanswered at that time, and so about to resend its script.
THEOREM RevocationIsFinal == Spec => []RevokedStaysDead
<1>1. SessionInv => RevokedStaysDead
  BY DEF SessionInv, RevokedOK, RevokedStaysDead
<1>. QED BY <1>1, SessionInvariant, PTL

\* The state stays within the types of the model.
THEOREM SessionTypes == Spec => []TypeOK
<1>1. SessionInv => TypeOK
  BY DEF SessionInv, StoreInv, StoreTypeOK, TypeOK
<1>. QED BY <1>1, SessionInvariant, PTL

\* A live session ends only by its own expiry, its own logout, or the bulk
\* revocation of its user: the scripts delete no other key.
THEOREM RevocationIsPrecise == Spec => NoCollateralRevocation
<1>1. ASSUME SessionInv, Next, NEW i \in SessionIDs, Live(i), ~Live(i)'
      PROVE  \/ ttl[i] = 1
             \/ \E r \in Requests : req[r].stage = "delete" /\ req[r].sid = i /\ req'[r] = Idle
             \/ index'[owner[i]] = {} /\ req' = req
  <2>0. ttl \in [SessionIDs -> Nat] /\ ttl[i] > 0 /\ ~(ttl'[i] > 0)
    BY <1>1 DEF SessionInv, StoreInv, StoreTypeOK, Live
  <2>1. ASSUME NEW j \in SessionIDs, NEW u, CreateSession(j, u) PROVE FALSE
    <3>1. ttl' = [ttl EXCEPT ![j] = SessionTTL]
      BY <2>1 DEF CreateSession
    <3>2. ttl'[i] \in {ttl[i], SessionTTL}
      BY <2>0, <3>1
    <3>. QED BY <2>0, <3>2, SessionAssumptions
  <2>2. ASSUME UNCHANGED storeVars PROVE FALSE
    BY <2>0, <2>2 DEF storeVars
  <2>3. ASSUME NEW r \in Requests, NEW j \in SessionIDs, OpenSession(r, j) PROVE FALSE
    BY <2>1, <2>2, <2>3 DEF OpenSession
  <2>4. ASSUME NEW r \in Requests, RetryOpen(r) PROVE FALSE
    <3>1. req[r].sid \in SessionIDs
      BY <1>1, <2>4, RequestStages DEF RetryOpen, SessionInv
    <3>. QED BY <2>1, <2>2, <2>4, <3>1 DEF RetryOpen
  <2>5. ASSUME NEW r \in Requests, FinishLogout(r)
        PROVE  req[r].stage = "delete" /\ req[r].sid = i /\ req'[r] = Idle
    <3>1. req[r].stage = "delete" /\ req'[r] = Idle /\ req[r].sid \in SessionIDs
      BY <1>1, <2>5, RequestStages DEF FinishLogout, Done, SessionInv
    <3>2. DeleteSession(req[r].sid, req[r].user)
      BY <2>2, <2>5 DEF FinishLogout
    <3>3. ttl' = [ttl EXCEPT ![req[r].sid] = 0]
      BY <2>2, <3>2 DEF DeleteSession
    <3>. QED BY <2>0, <3>1, <3>3
  <2>6. ASSUME NEW u \in Users, RevokeUserSessions(u) PROVE index'[owner[i]] = {} /\ req' = req
    <3>1. i \in index[u]
      BY <2>0, <2>6 DEF RevokeUserSessions, DeleteUserSessions
    <3>2. owner[i] = u
      BY <1>1, <3>1 DEF SessionInv, StoreInv, OwnersOK
    <3>. QED BY <1>1, <2>6, <3>2
             DEF RevokeUserSessions, DeleteUserSessions, SessionInv, StoreInv, StoreTypeOK
  <2>7. CASE Tick
    BY <2>0, <2>7 DEF Tick
  <2>8. CASE \/ \E r \in Requests, u \in Users : Verify(r, u)
             \/ \E r \in Requests, j \in SessionIDs : Authenticate(r, j)
             \/ \E r \in Requests : Serve(r) \/ Logout(r)
    BY <2>2, <2>8 DEF Verify, Authenticate, Serve, Logout
  <2>. QED BY <1>1, <2>3, <2>4, <2>5, <2>6, <2>7, <2>8 DEF Next
<1>2. SessionInv /\ [Next]_vars =>
        [\A i \in SessionIDs :
           Live(i) /\ ~Live(i)' =>
             \/ ttl[i] = 1
             \/ \E r \in Requests : req[r].stage = "delete" /\ req[r].sid = i /\ req'[r] = Idle
             \/ index'[owner[i]] = {} /\ req' = req]_vars
  BY <1>1
<1>. QED BY <1>2, SessionInvariant, PTL DEF Spec, NoCollateralRevocation
==============================================================================
