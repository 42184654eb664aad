------------------------------ MODULE Accounts ------------------------------
(***************************************************************************)
(* The users and characters tables and the RPCs that write and read them:  *)
(* Register and Login of internal/service/auth.go, CreateCharacter and     *)
(* ListCharacters of internal/service/character.go, over the stores of     *)
(* internal/store/postgres.                                                *)
(*                                                                         *)
(* Each RPC draws a fresh UUID, so the row that request r inserts is named *)
(* by r; the UUID of a character is also a number, because lists are       *)
(* ordered by it.  A statement is executed and answered, or its caller     *)
(* sees an error: then it has no effect, or it commits at some later time. *)
(* A request that ends without a trace (malformed input, wrong password,   *)
(* unique violation, failed query) is idle again and stands for another.   *)
(***************************************************************************)
EXTENDS Integers, Sequences, FiniteSets

CONSTANTS
    Requests,       \* RPCs
    Emails,         \* what clients may send as an email
    Mailbox,        \* Mailbox[e]: what validate.Email and CITEXT make of e
    Passwords,
    Names,          \* what clients may send as a character's name
    NameKey,        \* NameKey[n]: what validate.CharacterName and CITEXT make of n
    Invalid,        \* the verdict of the validators on malformed input
    UUIDs,          \* the UUIDs that characters may get, in their order
    NoRow,          \* the row is not there
    MaxClock        \* bound: values of now()

Mailboxes == {Mailbox[e] : e \in Emails} \ {Invalid}
NameKeys == {NameKey[n] : n \in Names} \ {Invalid}

ASSUME AccountAssumptions ==
    /\ IsFiniteSet(Requests)
    /\ MaxClock \in Nat
    /\ UUIDs \subseteq Nat
    /\ NoRow \notin [email : Mailboxes, password : Passwords]
    /\ NoRow \notin [user : Requests, name : NameKeys, at : Nat, id : UUIDs]

VARIABLES
    account,        \* account[r]: the users row that registration r inserted
    char,           \* char[r]: the characters row that creation r inserted
    clock,          \* now()
    req             \* req[r]: how far request r is, and what it was told

vars == <<account, char, clock, req>>

-----------------------------------------------------------------------------
(***************************************************************************)
(* State                                                                   *)
(***************************************************************************)
Accounts == [email : Mailboxes, password : Passwords]
Characters == [user : Requests, name : NameKeys, at : 0..MaxClock, id : UUIDs]

Idle == [op |-> "none", stage |-> "idle"]

\* insert: INSERT is under way.  lost: the caller was told of an error, the
\* INSERT may or may not commit.  session: the session is to be created.
\* ok: the caller has the answer.  failed: the row is there, the caller was
\* told of an error.
Auths == [op : {"register", "login"},
          stage : {"insert", "lost", "session", "failed", "ok"},
          email : Emails, password : Passwords, user : Requests]

Creations == [op : {"create"}, stage : {"insert", "lost", "failed", "ok"},
              user : Requests, name : Names, at : 0..MaxClock, id : UUIDs]

\* The characters of the answer, in order.
Lists == [op : {"list"}, stage : {"ok"}, user : Requests,
          answer : Seq(Requests)]

TypeOK ==
    /\ account \in [Requests -> Accounts \cup {NoRow}]
    /\ char \in [Requests -> Characters \cup {NoRow}]
    /\ clock \in 0..MaxClock
    /\ req \in [Requests -> {Idle} \cup Auths \cup Creations \cup Lists]

Init ==
    /\ account = [r \in Requests |-> NoRow]
    /\ char = [r \in Requests |-> NoRow]
    /\ clock = 0
    /\ req = [r \in Requests |-> Idle]

Goto(r, s) == req' = [req EXCEPT ![r].stage = s]
Forget(r) == req' = [req EXCEPT ![r] = Idle]

At(r, op, s) == req[r].op = op /\ req[r].stage = s

\* u holds a session: the interceptor lets RPCs pass as u.
Authenticated(u) ==
    \E r \in Requests : (At(r, "register", "ok") \/ At(r, "login", "ok")) /\ req[r].user = u

-----------------------------------------------------------------------------
(***************************************************************************)
(* The users table                                                         *)
(***************************************************************************)
\* SELECT ... WHERE email = $1, on normalised input.
GetUserByEmail(e) ==
    {u \in Requests : account[u] # NoRow /\ account[u].email = Mailbox[e]}

\* INSERT INTO users of registration r: UNIQUE (email).
CreateUser(r) ==
    /\ GetUserByEmail(req[r].email) = {}
    /\ account' = [account EXCEPT ![r] = [email |-> Mailbox[req[r].email],
                                          password |-> req[r].password]]

\* The unique violation.
CreateUserConflicts(r) ==
    /\ GetUserByEmail(req[r].email) # {}
    /\ UNCHANGED account

-----------------------------------------------------------------------------
(***************************************************************************)
(* Register and Login                                                      *)
(***************************************************************************)
\* HashPassword may refuse p as well; then nothing happens.
Register(r, e, p) ==
    /\ req[r] = Idle
    /\ Mailbox[e] # Invalid
    /\ req' = [req EXCEPT ![r] = [op |-> "register", stage |-> "insert", email |-> e,
                                  password |-> p, user |-> r]]
    /\ UNCHANGED <<account, char, clock>>

\* Mutant: the error of CreateUser is dropped.
RegisterInsert_IgnoresError(r) ==
    /\ At(r, "register", "insert")
    /\ CreateUser(r) \/ UNCHANGED account
    /\ Goto(r, "session")
    /\ UNCHANGED <<char, clock>>

\* On any error no session is created.
RegisterInsert(r) ==
    /\ At(r, "register", "insert")
    /\ \/ CreateUser(r) /\ Goto(r, "session")
       \/ CreateUserConflicts(r) /\ Forget(r)
       \/ Goto(r, "lost") /\ UNCHANGED account
    /\ UNCHANGED <<char, clock>>

RegisterLate(r) ==
    /\ At(r, "register", "lost")
    /\ CreateUser(r)
    /\ Goto(r, "failed")
    /\ UNCHANGED <<char, clock>>

\* The stored hash is the hash of p and of no other password.
VerifyPassword(u, p) == account[u].password = p

\* An unknown email and a wrong password get the same answer and leave no
\* trace.
Login(r, e, p) ==
    /\ req[r] = Idle
    /\ Mailbox[e] # Invalid
    /\ \E u \in GetUserByEmail(e) :
           /\ VerifyPassword(u, p)
           /\ req' = [req EXCEPT ![r] = [op |-> "login", stage |-> "session", email |-> e,
                                         password |-> p, user |-> u]]
    /\ UNCHANGED <<account, char, clock>>

\* The session store is the module UserSessions; it may fail.
CreateSession(r) ==
    /\ req[r].stage = "session"
    /\ \/ Goto(r, "ok")
       \/ req[r].op = "register" /\ Goto(r, "failed")
       \/ req[r].op = "login" /\ Forget(r)
    /\ UNCHANGED <<account, char, clock>>

-----------------------------------------------------------------------------
(***************************************************************************)
(* Characters                                                              *)
(***************************************************************************)
CharactersOf(u) == {c \in Requests : char[c] # NoRow /\ char[c].user = u}

\* INSERT INTO characters of creation r: the user exists, UNIQUE (user_id,
\* name); created_at is when the statement began.
InsertCharacter(r) ==
    /\ account[req[r].user] # NoRow
    /\ \A c \in CharactersOf(req[r].user) : char[c].name # NameKey[req[r].name]
    /\ char' = [char EXCEPT ![r] = [user |-> req[r].user,
                                    name |-> NameKey[req[r].name],
                                    at |-> req[r].at, id |-> req[r].id]]

InsertConflicts(r) ==
    /\ \E c \in CharactersOf(req[r].user) : char[c].name = NameKey[req[r].name]
    /\ UNCHANGED char

\* Mutant: the verdict of validate.CharacterName is dropped.
CreateCharacter_Unchecked(r, u, n, i) ==
    /\ req[r] = Idle
    /\ Authenticated(u)
    /\ \A q \in Requests : req[q].op = "create" => req[q].id # i
    /\ req' = [req EXCEPT ![r] = [op |-> "create", user |-> u, name |-> n, at |-> clock,
                                  id |-> i, stage |-> "insert"]]
    /\ UNCHANGED <<account, char, clock>>

CreateCharacter(r, u, n, i) ==
    /\ req[r] = Idle
    /\ Authenticated(u)
    /\ NameKey[n] # Invalid
    /\ \A q \in Requests : req[q].op = "create" => req[q].id # i
    /\ req' = [req EXCEPT ![r] = [op |-> "create", user |-> u, name |-> n, at |-> clock,
                                  id |-> i, stage |-> "insert"]]
    /\ UNCHANGED <<account, char, clock>>

\* Mutant: an error of the INSERT other than a unique violation is dropped.
CreateInsert_IgnoresError(r) ==
    /\ At(r, "create", "insert")
    /\ \/ InsertCharacter(r) /\ Goto(r, "ok")
       \/ InsertConflicts(r) /\ Forget(r)
       \/ Goto(r, "ok") /\ UNCHANGED char
    /\ UNCHANGED <<account, clock>>

CreateInsert(r) ==
    /\ At(r, "create", "insert")
    /\ \/ InsertCharacter(r) /\ Goto(r, "ok")
       \/ InsertConflicts(r) /\ Forget(r)
       \/ Goto(r, "lost") /\ UNCHANGED char
    /\ UNCHANGED <<account, clock>>

CreateLate(r) ==
    /\ At(r, "create", "lost")
    /\ InsertCharacter(r)
    /\ Goto(r, "failed")
    /\ UNCHANGED <<account, clock>>

\* Mutant: ORDER BY created_at alone.
Before_ByTime(c, d) == char[c].at < char[d].at

\* ORDER BY created_at ASC, id ASC.
Before(c, d) == \/ char[c].at < char[d].at
                \/ char[c].at = char[d].at /\ char[c].id < char[d].id

\* The orders in which the SELECT may return the rows of u.
ListCharactersByUserID(u) ==
    {l \in [1..Cardinality(CharactersOf(u)) -> CharactersOf(u)] :
         \A i, j \in DOMAIN l : i < j => l[i] # l[j] /\ ~Before(l[j], l[i])}

ListCharacters(r, u) ==
    /\ req[r] = Idle
    /\ Authenticated(u)
    /\ \E l \in ListCharactersByUserID(u) :
           req' = [req EXCEPT ![r] = [op |-> "list", stage |-> "ok", user |-> u, answer |-> l]]
    /\ UNCHANGED <<account, char, clock>>

-----------------------------------------------------------------------------
Tick ==
    /\ clock < MaxClock
    /\ clock' = clock + 1
    /\ UNCHANGED <<account, char, req>>

Next ==
    \/ \E r \in Requests, e \in Emails, p \in Passwords : Register(r, e, p) \/ Login(r, e, p)
    \/ \E r \in Requests : \/ RegisterInsert(r) \/ RegisterLate(r) \/ CreateSession(r)
                           \/ CreateInsert(r) \/ CreateLate(r)
    \/ \E r, u \in Requests : \/ ListCharacters(r, u)
                              \/ \E n \in Names, i \in UUIDs : CreateCharacter(r, u, n, i)
    \/ Tick

Spec == Init /\ [][Next]_vars

-----------------------------------------------------------------------------
(***************************************************************************)
(* Properties                                                              *)
(***************************************************************************)
\* Whoever is given a session (by Register or Login, service/auth.go) gets it
\* for the one account of the caller's mailbox, registered with the caller's
\* password, and a Login with that password and any spelling of the email
\* keeps finding it, whatever registrations of the mailbox race, fail, or
\* commit after their caller gave up.
SessionsForOwners ==
    \A r \in Requests : At(r, "register", "ok") \/ At(r, "login", "ok") =>
        /\ \A e \in Emails : Mailbox[e] = Mailbox[req[r].email] =>
               GetUserByEmail(e) = {req[r].user}
        /\ VerifyPassword(req[r].user, req[r].password)

\* A list shows every character whose creation was acknowledged to its user
\* before (CreateCharacter, then ListCharacters of service/character.go).
AcknowledgedIsListed ==
    [][\A r \in Requests : req[r] = Idle /\ At(r, "list", "ok")' =>
           \A q \in Requests : At(q, "create", "ok") /\ req[q].user = req'[r].user =>
               \E i \in DOMAIN req'[r].answer : req'[r].answer[i] = q]_vars

OrderIn(l) == {x \in Requests \X Requests :
                  \E i, j \in DOMAIN l : i <= j /\ x = <<l[i], l[j]>>}

\* Of two lists a user was shown one is contained in the other, in the same
\* order: characters created at one instant do not change places.
ListsAgree ==
    \A r, q \in Requests :
        At(r, "list", "ok") /\ At(q, "list", "ok") /\ req[r].user = req[q].user =>
            LET a == OrderIn(req[r].answer)
                b == OrderIn(req[q].answer)
            IN  a \subseteq b \/ b \subseteq a
=============================================================================
