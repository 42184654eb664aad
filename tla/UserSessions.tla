---------------------------- MODULE UserSessions ----------------------------
(***************************************************************************)
(* Authenticated sessions: the Redis store of store/redis/sessions.go, the *)
(* service calls of service/auth.go that use it and the interceptor of     *)
(* api/auth.go.  A session is a string key holding its user; a set key per *)
(* user, the index, lists the user's sessions so that all of them can be   *)
(* deleted at once.  Both expire.                                          *)
(*                                                                         *)
(* RPCs run concurrently.  The scripts are atomic; an RPC that sends two   *)
(* commands stops between them, in req[r].  A command may fail without     *)
(* effect, or be executed while its caller sees an error.                  *)
(***************************************************************************)
EXTENDS Integers

CONSTANTS
    Users,          \* user IDs
    SessionIDs,     \* the session tokens that may be drawn
    Requests,       \* RPCs that may be in progress together
    NoUser,         \* the owner of a session that was never created
    SessionTTL      \* the time to live of a session and of an index

ASSUME SessionAssumptions == /\ NoUser \notin Users
                             /\ SessionTTL \in Nat \ {0}

VARIABLES
    owner,          \* owner[i]: the user written under the key of session i
    ttl,            \* ttl[i]: what the key of i has to live, 0 if it is gone
    index,          \* index[u]: the members of u's set key
    indexTTL,       \* indexTTL[u]: what that key has to live, 0 for no expiry
    req,            \* req[r]: the RPC in progress
    revoked,        \* history: sessions whose revocation was acknowledged
    unanswered      \* history: those of them whose login was not yet answered
                    \* when their last revocation was acknowledged

storeVars == <<owner, ttl, index, indexTTL>>
history == <<revoked, unanswered>>
vars == <<storeVars, req, history>>

-----------------------------------------------------------------------------
Idle == [stage |-> "idle"]

\* create: Login or Register has settled who the user is.  retry: the reply
\* to the create script was lost, the Redis client sends it again.  call: the
\* interceptor has found the user.  delete: DeleteSession has, once more.
Logins == [stage : {"create"}, user : Users]
Calls  == [stage : {"retry", "call", "delete"}, sid : SessionIDs, user : Users]

TypeOK ==
    /\ owner \in [SessionIDs -> Users \cup {NoUser}]
    /\ ttl \in [SessionIDs -> Nat]
    /\ index \in [Users -> SUBSET SessionIDs]
    /\ indexTTL \in [Users -> Nat]
    /\ req \in [Requests -> {Idle} \cup Logins \cup Calls]
    /\ revoked \in SUBSET SessionIDs
    /\ unanswered \in SUBSET revoked

Init ==
    /\ owner = [i \in SessionIDs |-> NoUser]
    /\ ttl = [i \in SessionIDs |-> 0]
    /\ index = [u \in Users |-> {}]
    /\ indexTTL = [u \in Users |-> 0]
    /\ req = [r \in Requests |-> Idle]
    /\ revoked = {}
    /\ unanswered = {}

Live(i) == ttl[i] > 0

\* A login is still at work on session i; nobody has its token yet.
Opening(i) == \E r \in Requests : req[r].stage = "retry" /\ req[r].sid = i

Done(r) == req' = [req EXCEPT ![r] = Idle]

\* The caller is told that the sessions S are revoked.
Acknowledge(S) == /\ revoked' = revoked \cup S
                  /\ unanswered' = (unanswered \ S) \cup {i \in S : Opening(i)}

-----------------------------------------------------------------------------
(***************************************************************************)
(* The store's scripts                                                     *)
(***************************************************************************)
\* Mutant: the index keeps the expiry it was created with.
CreateSession_KeepIndexTTL(i, u) ==
    /\ owner' = [owner EXCEPT ![i] = u]
    /\ ttl' = [ttl EXCEPT ![i] = SessionTTL]
    /\ index' = [index EXCEPT ![u] = @ \cup {i}]
    /\ indexTTL' = [indexTTL EXCEPT ![u] = IF @ = 0 THEN SessionTTL ELSE @]

\* createSessionScript: SET the key, SADD it to the index, PEXPIRE the index.
CreateSession(i, u) ==
    /\ owner' = [owner EXCEPT ![i] = u]
    /\ ttl' = [ttl EXCEPT ![i] = SessionTTL]
    /\ index' = [index EXCEPT ![u] = @ \cup {i}]
    /\ indexTTL' = [indexTTL EXCEPT ![u] = SessionTTL]

\* SREM; a set that becomes empty is no key any more.
Unindex(i, u) ==
    /\ index' = [index EXCEPT ![u] = @ \ {i}]
    /\ indexTTL' = [indexTTL EXCEPT ![u] = IF index[u] \ {i} = {} THEN 0 ELSE @]

\* Mutant: the session leaves the index, its key stays.
DeleteSession_IndexOnly(i, u) ==
    IF Live(i)
    THEN Unindex(i, u) /\ UNCHANGED <<owner, ttl>>
    ELSE UNCHANGED storeVars

\* deleteSessionScript on the key of i and the index of u.
DeleteSession(i, u) ==
    IF Live(i)
    THEN /\ ttl' = [ttl EXCEPT ![i] = 0]
         /\ Unindex(i, u)
         /\ UNCHANGED owner
    ELSE UNCHANGED storeVars

\* Mutant: the prefix without the session ID deletes every session there is.
DeleteUserSessions_All(u) ==
    /\ ttl' = [i \in SessionIDs |-> 0]
    /\ index' = [index EXCEPT ![u] = {}]
    /\ indexTTL' = [indexTTL EXCEPT ![u] = 0]
    /\ UNCHANGED owner

\* deleteUserSessionsScript: every member of the index, then the index.
DeleteUserSessions(u) ==
    /\ ttl' = [i \in SessionIDs |-> IF i \in index[u] THEN 0 ELSE ttl[i]]
    /\ index' = [index EXCEPT ![u] = {}]
    /\ indexTTL' = [indexTTL EXCEPT ![u] = 0]
    /\ UNCHANGED owner

-----------------------------------------------------------------------------
(***************************************************************************)
(* RPCs                                                                    *)
(***************************************************************************)
\* Login verified the password, or Register created the user.
Verify(r, u) ==
    /\ req[r] = Idle
    /\ req' = [req EXCEPT ![r] = [stage |-> "create", user |-> u]]
    /\ UNCHANGED <<storeVars, history>>

\* createSession draws a new token i and runs the script: the token reaches
\* the caller, or an error does and the session may exist all the same, or the
\* client library retries.
OpenSession(r, i) ==
    /\ req[r].stage = "create"
    /\ owner[i] = NoUser
    /\ \/ CreateSession(i, req[r].user) /\ Done(r)
       \/ UNCHANGED storeVars /\ Done(r)
       \/ /\ CreateSession(i, req[r].user)
          /\ req' = [req EXCEPT ![r] = [stage |-> "retry", sid |-> i, user |-> req[r].user]]
    /\ UNCHANGED history

RetryOpen(r) ==
    /\ req[r].stage = "retry"
    /\ CreateSession(req[r].sid, req[r].user) \/ UNCHANGED storeVars
    /\ Done(r)
    /\ UNCHANGED history

\* Mutant: the session is looked up without a check for a missing key.
Authenticate_Unchecked(r, i) ==
    /\ req[r] = Idle
    /\ req' = [req EXCEPT ![r] = [stage |-> "call", sid |-> i, user |-> owner[i]]]
    /\ UNCHANGED <<storeVars, history>>

\* The interceptor looks the bearer token up and puts the user in the context.
\* Nobody can present a token that no login has returned yet.
\* A missing session or an error ends the RPC, which changes nothing.
Authenticate(r, i) ==
    /\ req[r] = Idle
    /\ Live(i)
    /\ ~Opening(i)
    /\ req' = [req EXCEPT ![r] = [stage |-> "call", sid |-> i, user |-> owner[i]]]
    /\ UNCHANGED <<storeVars, history>>

\* An authenticated RPC other than Logout does its work and returns.
Serve(r) ==
    /\ req[r].stage = "call"
    /\ Done(r)
    /\ UNCHANGED <<storeVars, history>>

\* Logout: RevokeSession, DeleteSession up to the script.  The session may be
\* gone by now, which is success; the lookup may fail.
Logout(r) ==
    /\ req[r].stage = "call"
    /\ LET i == req[r].sid
       IN  \/ /\ Live(i)
              /\ req' = [req EXCEPT ![r].stage = "delete", ![r].user = owner[i]]
              /\ UNCHANGED history
           \/ /\ ~Live(i)
              /\ Done(r)
              /\ Acknowledge({i})
           \/ Done(r) /\ UNCHANGED history
    /\ UNCHANGED storeVars

\* Logout: the script, acknowledged or not, or an error without effect.
FinishLogout(r) ==
    /\ req[r].stage = "delete"
    /\ LET i == req[r].sid
       IN  \/ /\ DeleteSession(i, req[r].user)
              /\ Acknowledge({i}) \/ UNCHANGED history
           \/ UNCHANGED <<storeVars, history>>
    /\ Done(r)

\* AuthService.RevokeUserSessions: the script, acknowledged or not.  Among the
\* sessions it is about is one whose login is still resending its own script.
RevokeUserSessions(u) ==
    /\ DeleteUserSessions(u)
    /\ Acknowledge({i \in SessionIDs : owner[i] = u}) \/ UNCHANGED history
    /\ UNCHANGED req

\* A unit of time passes in Redis.
Tick ==
    LET Age(n) == IF n = 0 THEN 0 ELSE n - 1
    IN  /\ ttl' = [i \in SessionIDs |-> Age(ttl[i])]
        /\ indexTTL' = [u \in Users |-> Age(indexTTL[u])]
        /\ index' = [u \in Users |-> IF indexTTL[u] = 1 THEN {} ELSE index[u]]
        /\ UNCHANGED <<owner, req, history>>

Next ==
    \/ \E r \in Requests, u \in Users : Verify(r, u)
    \/ \E r \in Requests, i \in SessionIDs : OpenSession(r, i) \/ Authenticate(r, i)
    \/ \E r \in Requests : RetryOpen(r) \/ Serve(r) \/ Logout(r) \/ FinishLogout(r)
    \/ \E u \in Users : RevokeUserSessions(u)
    \/ Tick

Spec == Init /\ [][Next]_vars

-----------------------------------------------------------------------------
(***************************************************************************)
(* Properties                                                              *)
(***************************************************************************)
\* The index of a user lists every live session of the user and outlives all
\* of them, however logins, logouts, revocations and expiry interleave: a
\* bulk revocation finds them all.  And an index never stays without expiry.
SessionIndexed ==
    /\ \A i \in SessionIDs : Live(i) => /\ i \in index[owner[i]]
                                        /\ ttl[i] <= indexTTL[owner[i]]
    /\ \A u \in Users : index[u] # {} => indexTTL[u] > 0

\* A session whose logout or bulk revocation was acknowledged is dead for
\* good: no other login, no second logout and no late script brings it back.
\* There is one exception.  A login that lost the reply to its script and had
\* not returned when its user's sessions were revoked sends the script again:
\* that creates the session anew, although it was revoked and the caller was
\* told so.  Only a revocation after the login was answered is final.
RevokedStaysDead == \A i \in revoked : Live(i) => i \in unanswered

\* A live session ends only by its own expiry, its own logout, or the bulk
\* revocation of its user: the logout of one session, or the revocation of one
\* user, leaves all other sessions alone.
NoCollateralRevocation ==
    [][\A i \in SessionIDs :
          Live(i) /\ ~Live(i)' =>
             \/ ttl[i] = 1
             \/ \E r \in Requests : req[r].stage = "delete" /\ req[r].sid = i /\ req'[r] = Idle
             \/ index'[owner[i]] = {} /\ req' = req]_vars
=============================================================================
