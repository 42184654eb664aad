--------------------------- MODULE Accounts_proofs ---------------------------
(***************************************************************************)
(* Proofs about Accounts.                                                  *)
(***************************************************************************)
EXTENDS Accounts, FiniteSetTheorems, TLAPS

\* A row is there only after its own registration inserted it.
RowsHaveOrigin ==
    \A r \in Requests : account[r] # NoRow =>
        req[r].op = "register" /\ req[r].stage \in {"session", "failed", "ok"}

\* UNIQUE (email).
UniqueMailboxes ==
    \A u, v \in Requests :
        account[u] # NoRow /\ account[v] # NoRow /\ account[u].email = account[v].email
            => u = v

\* Only input that the validators accepted gets past the first step.
InputsValid ==
    \A r \in Requests :
        /\ req[r].op \in {"register", "login"} => Mailbox[req[r].email] # Invalid
        /\ req[r].op = "create" => NameKey[req[r].name] # Invalid

\* A registration is about its own user.
RegistersItself == \A r \in Requests : req[r].op = "register" => req[r].user = r

\* A request that is past the check of its credentials has the account.
Entitled ==
    \A r \in Requests :
        req[r].op \in {"register", "login"} /\ req[r].stage \in {"session", "ok"} =>
            account[req[r].user] = [email |-> Mailbox[req[r].email],
                                    password |-> req[r].password]

\* An acknowledged creation has its row.
CreationsStored ==
    \A r \in Requests : req[r].op = "create" /\ req[r].stage = "ok" =>
        char[r] # NoRow /\ char[r].user = req[r].user

AccountInv == /\ TypeOK
              /\ CreationsStored
              /\ RowsHaveOrigin
              /\ UniqueMailboxes
              /\ InputsValid
              /\ RegistersItself
              /\ Entitled

-----------------------------------------------------------------------------
(***************************************************************************)
(* Initial states                                                          *)
(***************************************************************************)
LEMMA AccountInit == Init => AccountInv
  BY AccountAssumptions
  DEF Init, AccountInv, TypeOK, RowsHaveOrigin, UniqueMailboxes, InputsValid,
      RegistersItself, CreationsStored, Entitled, Idle

-----------------------------------------------------------------------------
(***************************************************************************)
(* Steps that only start, end or forget a request                          *)
(***************************************************************************)
\* Registration r begins.
LEMMA RegisterStep ==
  ASSUME AccountInv, NEW r \in Requests, NEW e \in Emails, NEW p \in Passwords,
         Register(r, e, p)
  PROVE  AccountInv'
  BY DEF AccountInv, TypeOK, RowsHaveOrigin, UniqueMailboxes, InputsValid,
         RegistersItself, CreationsStored, Entitled, Register, Idle, Auths

\* A login found its account.
LEMMA LoginStep ==
  ASSUME AccountInv, NEW r \in Requests, NEW e \in Emails, NEW p \in Passwords,
         Login(r, e, p)
  PROVE  AccountInv'
  BY AccountAssumptions
  DEF AccountInv, TypeOK, RowsHaveOrigin, UniqueMailboxes, InputsValid,
      RegistersItself, CreationsStored, Entitled, Login, GetUserByEmail, VerifyPassword, Idle, Auths, Accounts

\* The session store answers or fails.
LEMMA SessionStep ==
  ASSUME AccountInv, NEW r \in Requests, CreateSession(r)
  PROVE  AccountInv'
  BY DEF AccountInv, TypeOK, RowsHaveOrigin, UniqueMailboxes, InputsValid,
         RegistersItself, CreationsStored, Entitled, CreateSession, Goto, Forget, Idle, Auths,
         Creations, Lists

-----------------------------------------------------------------------------
(***************************************************************************)
(* Steps that write a table                                                *)
(***************************************************************************)
\* The row of registration r is inserted, now or late.
LEMMA CreateUserStep ==
  ASSUME AccountInv, NEW r \in Requests, req[r].op = "register",
         req[r].stage \in {"insert", "lost"}, CreateUser(r),
         NEW s \in {"session", "failed"}, Goto(r, s), UNCHANGED <<char, clock>>
  PROVE  AccountInv'
  <1>. DEFINE row == [email |-> Mailbox[req[r].email], password |-> req[r].password]
  <1>1. row \in Accounts /\ row # NoRow
    BY AccountAssumptions
    DEF AccountInv, TypeOK, InputsValid, Accounts, Mailboxes, Auths, Creations, Lists, Idle
  <1>2. account' = [account EXCEPT ![r] = row] /\ account[r] = NoRow
    BY DEF AccountInv, RowsHaveOrigin, CreateUser
  <1>3. req' = [req EXCEPT ![r] = [req[r] EXCEPT !.stage = s]]
    BY DEF Goto
  <1>4. req[r] \in Auths
    BY DEF AccountInv, TypeOK, Auths, Creations, Lists, Idle
  <1>5. TypeOK'
    BY <1>1, <1>2, <1>3, <1>4 DEF AccountInv, TypeOK, Auths
  <1>6. UniqueMailboxes'
    BY <1>1, <1>2 DEF AccountInv, TypeOK, UniqueMailboxes, CreateUser, GetUserByEmail
  <1>7. Entitled'
    <2>. SUFFICES ASSUME NEW q \in Requests,
                         req'[q].op \in {"register", "login"}, req'[q].stage \in {"session", "ok"}
                  PROVE  account'[req'[q].user] = [email |-> Mailbox[req'[q].email],
                                                   password |-> req'[q].password]
      BY DEF Entitled
    <2>1. CASE q = r
      BY <2>1, <1>2, <1>3, <1>4 DEF AccountInv, TypeOK, RegistersItself, Auths
    <2>2. CASE q # r
      <3>1. req'[q] = req[q]
        BY <2>2, <1>3 DEF AccountInv, TypeOK
      <3>2. account[req[q].user] = [email |-> Mailbox[req[q].email],
                                    password |-> req[q].password]
        BY <3>1 DEF AccountInv, Entitled
      <3>3. req[q] \in Auths
        BY <3>1 DEF AccountInv, TypeOK, Auths, Creations, Lists, Idle
      <3>4. account[req[q].user] # NoRow
        BY <3>2, <3>3, AccountAssumptions
        DEF AccountInv, InputsValid, Mailboxes, Auths
      <3>. QED
        BY <3>1, <3>2, <3>3, <3>4, <1>2 DEF AccountInv, TypeOK, Auths
    <2>. QED
      BY <2>1, <2>2
  <1>. QED
    BY <1>2, <1>3, <1>4, <1>5, <1>6, <1>7
    DEF AccountInv, TypeOK, RowsHaveOrigin, InputsValid, RegistersItself,
        CreationsStored, Auths

\* The INSERT of a registration is answered, refused or lost.
LEMMA RegisterInsertStep ==
  ASSUME AccountInv, NEW r \in Requests, RegisterInsert(r)
  PROVE  AccountInv'
  <1>1. CASE CreateUser(r) /\ Goto(r, "session")
    BY <1>1, CreateUserStep DEF RegisterInsert, At
  <1>2. CASE (Forget(r) \/ Goto(r, "lost")) /\ UNCHANGED account
    BY <1>2
    DEF AccountInv, TypeOK, RowsHaveOrigin, UniqueMailboxes, InputsValid,
        RegistersItself, CreationsStored, Entitled, RegisterInsert, At, Goto, Forget,
        Idle, Auths, Creations, Lists
  <1>. QED
    BY <1>1, <1>2 DEF RegisterInsert, CreateUserConflicts

\* The row of creation r is inserted, now or late.
LEMMA InsertCharacterStep ==
  ASSUME AccountInv, NEW r \in Requests, req[r].op = "create",
         req[r].stage \in {"insert", "lost"}, InsertCharacter(r),
         NEW s \in {"ok", "failed"}, Goto(r, s), UNCHANGED <<account, clock>>
  PROVE  AccountInv'
  <1>. DEFINE row == [user |-> req[r].user, name |-> NameKey[req[r].name],
                      at |-> req[r].at, id |-> req[r].id]
  <1>1. req[r] \in Creations
    BY DEF AccountInv, TypeOK, Auths, Creations, Lists, Idle
  <1>2. row \in Characters /\ row # NoRow
    BY <1>1, AccountAssumptions DEF AccountInv, InputsValid, Characters, NameKeys, Creations
  <1>3. char' = [char EXCEPT ![r] = row] /\ req' = [req EXCEPT ![r] = [req[r] EXCEPT !.stage = s]]
    BY DEF InsertCharacter, Goto
  <1>4. TypeOK'
    BY <1>1, <1>2, <1>3 DEF AccountInv, TypeOK, Creations
  <1>5. CreationsStored'
    BY <1>1, <1>2, <1>3 DEF AccountInv, TypeOK, CreationsStored, Creations
  <1>. QED
    BY <1>1, <1>3, <1>4, <1>5
    DEF AccountInv, TypeOK, RowsHaveOrigin, UniqueMailboxes, InputsValid,
        RegistersItself, Entitled, Creations

\* The INSERT of a creation is answered, refused or lost.
LEMMA CreateInsertStep ==
  ASSUME AccountInv, NEW r \in Requests, CreateInsert(r)
  PROVE  AccountInv'
  <1>1. CASE InsertCharacter(r) /\ Goto(r, "ok")
    BY <1>1, InsertCharacterStep DEF CreateInsert, At
  <1>2. CASE (Forget(r) \/ Goto(r, "lost")) /\ UNCHANGED char
    BY <1>2
    DEF AccountInv, TypeOK, RowsHaveOrigin, UniqueMailboxes, InputsValid,
        RegistersItself, CreationsStored, Entitled, CreateInsert, At, Goto, Forget,
        Idle, Auths, Creations, Lists
  <1>. QED
    BY <1>1, <1>2 DEF CreateInsert, InsertConflicts

-----------------------------------------------------------------------------
(***************************************************************************)
(* Lists                                                                   *)
(***************************************************************************)
\* Characters of a user are finitely many.
LEMMA FewCharacters ==
  ASSUME NEW u \in Requests
  PROVE  IsFiniteSet(CharactersOf(u)) /\ Cardinality(CharactersOf(u)) \in Nat
  BY AccountAssumptions, FS_Subset, FS_CardinalityType DEF CharactersOf

\* An answer has every character of the user.
LEMMA ListsAreComplete ==
  ASSUME NEW u \in Requests, NEW l \in ListCharactersByUserID(u)
  PROVE  \A c \in CharactersOf(u) : \E i \in DOMAIN l : l[i] = c
  <1>. DEFINE S == CharactersOf(u)
             n == Cardinality(S)
  <1>1. IsFiniteSet(S) /\ n \in Nat
    BY FewCharacters
  <1>2. l \in Injection(1..n, S)
    BY <1>1 DEF ListCharactersByUserID, Injection, IsInjective
  <1>3. Cardinality(1..n) = n
    BY <1>1, FS_Interval
  <1>4. l \in Surjection(1..n, S)
    BY <1>1, <1>2, <1>3, FS_Injection
  <1>. QED
    BY <1>2, <1>4 DEF Surjection, Injection, ListCharactersByUserID

\* A list is answered.
LEMMA ListStep ==
  ASSUME AccountInv, NEW r \in Requests, NEW u \in Requests, ListCharacters(r, u)
  PROVE  AccountInv'
  <1>1. PICK l \in ListCharactersByUserID(u) :
            req' = [req EXCEPT ![r] = [op |-> "list", stage |-> "ok", user |-> u, answer |-> l]]
    BY DEF ListCharacters
  <1>2. l \in Seq(Requests)
    <2>. DEFINE n == Cardinality(CharactersOf(u))
    <2>1. n \in Nat
      BY FewCharacters
    <2>2. l \in [1..n -> Requests]
      BY DEF ListCharactersByUserID, CharactersOf
    <2>. HIDE DEF n
    <2>. QED
      BY <2>1, <2>2
  <1>. QED
    BY <1>1, <1>2
    DEF AccountInv, TypeOK, RowsHaveOrigin, UniqueMailboxes, InputsValid,
        RegistersItself, CreationsStored, Entitled, ListCharacters, Idle, Lists

\* A creation begins.
LEMMA CreateCharacterStep ==
  ASSUME AccountInv, NEW r \in Requests, NEW u \in Requests, NEW n \in Names,
         NEW i \in UUIDs, CreateCharacter(r, u, n, i)
  PROVE  AccountInv'
  BY DEF AccountInv, TypeOK, RowsHaveOrigin, UniqueMailboxes, InputsValid,
         RegistersItself, CreationsStored, Entitled, CreateCharacter, Idle, Creations

-----------------------------------------------------------------------------
(***************************************************************************)
(* The theorems                                                            *)
(***************************************************************************)
\* Every step keeps the invariant.
LEMMA AccountNext == AccountInv /\ [Next]_vars => AccountInv'
  <1>. SUFFICES ASSUME AccountInv, [Next]_vars PROVE AccountInv'
    OBVIOUS
  <1>1. CASE \E r \in Requests, e \in Emails, p \in Passwords :
                Register(r, e, p) \/ Login(r, e, p)
    BY <1>1, RegisterStep, LoginStep
  <1>2. CASE \E r \in Requests : RegisterLate(r)
    BY <1>2, CreateUserStep DEF RegisterLate, At
  <1>3. CASE \E r \in Requests : CreateLate(r)
    BY <1>3, InsertCharacterStep DEF CreateLate, At
  <1>4. CASE \E r \in Requests : RegisterInsert(r) \/ CreateSession(r) \/ CreateInsert(r)
    BY <1>4, RegisterInsertStep, SessionStep, CreateInsertStep
  <1>5. CASE \E r, u \in Requests : \/ ListCharacters(r, u)
                                    \/ \E n \in Names, i \in UUIDs : CreateCharacter(r, u, n, i)
    BY <1>5, ListStep, CreateCharacterStep
  <1>6. CASE Tick
    BY <1>6, AccountAssumptions
    DEF AccountInv, TypeOK, RowsHaveOrigin, UniqueMailboxes, InputsValid,
        RegistersItself, CreationsStored, Entitled, Tick
  <1>7. CASE UNCHANGED vars
    BY <1>7
    DEF AccountInv, TypeOK, RowsHaveOrigin, UniqueMailboxes, InputsValid,
        RegistersItself, CreationsStored, Entitled, vars
  <1>. QED
    BY <1>1, <1>2, <1>3, <1>4, <1>5, <1>6, <1>7 DEF Next

\* The invariant implies that sessions are for owners.
LEMMA EntitledOwners == AccountInv => SessionsForOwners
  <1>. SUFFICES ASSUME AccountInv, NEW r \in Requests,
                       At(r, "register", "ok") \/ At(r, "login", "ok")
                PROVE  /\ VerifyPassword(req[r].user, req[r].password)
                       /\ \A e \in Emails : Mailbox[e] = Mailbox[req[r].email] =>
                              GetUserByEmail(e) = {req[r].user}
    BY DEF SessionsForOwners
  <1>1. req[r] \in Auths
    BY DEF At, AccountInv, TypeOK, Auths, Creations, Lists, Idle
  <1>2. account[req[r].user] = [email |-> Mailbox[req[r].email], password |-> req[r].password]
    BY DEF At, AccountInv, Entitled
  <1>3. account[req[r].user] # NoRow
    BY <1>1, <1>2, AccountAssumptions DEF At, AccountInv, InputsValid, Mailboxes, Auths
  <1>. QED
    BY <1>1, <1>2, <1>3
    DEF AccountInv, UniqueMailboxes, GetUserByEmail, VerifyPassword, Auths

\* Register and Login give sessions only to whoever knows the password of the
\* mailbox's one account, and that account stays.
THEOREM OwnersOnly == Spec => []SessionsForOwners
  BY AccountInit, AccountNext, EntitledOwners, PTL DEF Spec

\* The tables and the requests are well typed.
THEOREM AccountTypes == Spec => []TypeOK
  <1>1. AccountInv => TypeOK
    BY DEF AccountInv
  <1>. QED
    BY <1>1, AccountInit, AccountNext, PTL DEF Spec

\* ListCharacters shows every character whose creation was acknowledged.
THEOREM ListsShowAcknowledged == Spec => AcknowledgedIsListed
  <1>. DEFINE Shows(r) == \A q \in Requests :
                  At(q, "create", "ok") /\ req[q].user = req'[r].user =>
                      \E i \in DOMAIN req'[r].answer : req'[r].answer[i] = q
             A == \A r \in Requests : req[r] = Idle /\ At(r, "list", "ok")' => Shows(r)
  <1>1. AccountInv /\ [Next]_vars => [A]_vars
    <2>. SUFFICES ASSUME AccountInv, Next, NEW r \in Requests, req[r] = Idle,
                         req'[r].op = "list", req'[r].stage = "ok"
                  PROVE  Shows(r)
      BY DEF At
    <2>1. PICK u \in Requests : ListCharacters(r, u)
      BY DEF Next, AccountInv, TypeOK, Register, Login, RegisterInsert, RegisterLate,
             CreateSession, CreateInsert, CreateLate, ListCharacters, CreateCharacter,
             Tick, At, Goto, Forget, Idle, Auths, Creations, Lists
    <2>. QED
      BY <2>1, ListsAreComplete
      DEF AccountInv, TypeOK, CreationsStored, ListCharacters, CharactersOf, At
  <1>. QED
    BY <1>1, AccountInit, AccountNext, PTL DEF Spec, AcknowledgedIsListed

-----------------------------------------------------------------------------
(***************************************************************************)
(* Lists agree with each other                                             *)
(***************************************************************************)
\* The row of a character is there only after its own creation inserted it,
\* with the UUID that the creation drew.
RowsCreated ==
    \A c \in Requests : char[c] # NoRow =>
        /\ req[c].op = "create"
        /\ req[c].stage \in {"ok", "failed"}
        /\ char[c].id = req[c].id

\* No two creations drew one UUID.
UniqueIDs ==
    \A c, d \in Requests :
        req[c].op = "create" /\ req[d].op = "create" /\ req[c].id = req[d].id => c = d

\* A list that was shown is of characters that are still there, in the order
\* of their creation.
ListsSorted ==
    \A r \in Requests : At(r, "list", "ok") =>
        \A i \in DOMAIN req[r].answer :
            /\ req[r].answer[i] \in CharactersOf(req[r].user)
            /\ \A j \in DOMAIN req[r].answer :
                   i < j => Before(req[r].answer[i], req[r].answer[j])

Shown(r) == {req[r].answer[i] : i \in DOMAIN req[r].answer}

\* Of two lists of a user one has all the characters of the other.
ListsNested ==
    \A r, q \in Requests :
        At(r, "list", "ok") /\ At(q, "list", "ok") /\ req[r].user = req[q].user =>
            Shown(r) \subseteq Shown(q) \/ Shown(q) \subseteq Shown(r)

ListInv == RowsCreated /\ UniqueIDs /\ ListsSorted /\ ListsNested

\* Before is a strict order, and total on the rows as their UUIDs differ.
LEMMA BeforeIsOrder ==
  ASSUME AccountInv, RowsCreated, UniqueIDs, NEW c \in Requests, NEW d \in Requests,
         char[c] # NoRow, char[d] # NoRow
  PROVE  /\ ~(Before(c, d) /\ Before(d, c))
         /\ c # d => Before(c, d) \/ Before(d, c)
  <1>1. char[c] \in Characters /\ char[d] \in Characters
    BY DEF AccountInv, TypeOK
  <1>2. /\ char[c].at \in Nat /\ char[d].at \in Nat
        /\ char[c].id \in Nat /\ char[d].id \in Nat
    <2>1. /\ char[c].at \in 0..MaxClock /\ char[d].at \in 0..MaxClock
          /\ char[c].id \in UUIDs /\ char[d].id \in UUIDs
      BY <1>1 DEF Characters
    <2>2. 0..MaxClock \subseteq Nat /\ UUIDs \subseteq Nat
      BY AccountAssumptions
    <2>. QED
      BY <2>1, <2>2
  <1>3. c # d => char[c].id # char[d].id
    BY DEF RowsCreated, UniqueIDs
  <1>. QED
    BY <1>2, <1>3 DEF Before

\* What was shown stays true while rows are only added.
LEMMA ListsStay ==
  ASSUME ListsSorted, ListsNested, TypeOK,
         \A c \in Requests : char[c] # NoRow => char'[c] = char[c],
         \A q \in Requests : At(q, "list", "ok")' => req'[q] = req[q]
  PROVE  ListsSorted' /\ ListsNested'
  <1>1. ListsSorted'
    <2>. SUFFICES ASSUME NEW r \in Requests, At(r, "list", "ok"), req'[r] = req[r],
                         NEW i \in DOMAIN req[r].answer
                  PROVE  /\ req[r].answer[i] \in CharactersOf(req[r].user)'
                         /\ \A j \in DOMAIN req[r].answer :
                                i < j => Before(req[r].answer[i], req[r].answer[j])'
      BY DEF ListsSorted, At
    <2>1. \A c \in CharactersOf(req[r].user) :
             c \in Requests /\ char[c] # NoRow /\ char'[c] = char[c]
      BY DEF CharactersOf
    <2>2. req[r].answer[i] \in CharactersOf(req[r].user)
      BY DEF ListsSorted
    <2>3. \A c \in CharactersOf(req[r].user) : c \in CharactersOf(req[r].user)'
      BY <2>1 DEF CharactersOf
    <2>4. \A j \in DOMAIN req[r].answer : req[r].answer[j] \in CharactersOf(req[r].user)
      BY DEF ListsSorted
    <2>5. \A j \in DOMAIN req[r].answer :
             i < j => Before(req[r].answer[i], req[r].answer[j])
      BY DEF ListsSorted
    <2>. QED
      BY <2>1, <2>2, <2>3, <2>4, <2>5 DEF Before
  <1>2. ListsNested'
    BY DEF ListsNested, Shown, At
  <1>. QED
    BY <1>1, <1>2

\* A new list has all the characters there are, and none twice.
LEMMA ListAdded ==
  ASSUME AccountInv, ListInv, NEW r \in Requests, NEW u \in Requests, ListCharacters(r, u)
  PROVE  ListInv'
  <1>1. PICK l \in ListCharactersByUserID(u) :
            req' = [req EXCEPT ![r] = [op |-> "list", stage |-> "ok", user |-> u, answer |-> l]]
    BY DEF ListCharacters
  <1>2. char' = char /\ req[r] = Idle /\ req \in [Requests -> {Idle} \cup Auths \cup Creations \cup Lists]
    BY DEF ListCharacters, AccountInv, TypeOK
  <1>3. /\ req'[r].op = "list" /\ req'[r].user = u /\ req'[r].answer = l
        /\ \A q \in Requests \ {r} : req'[q] = req[q]
    BY <1>1, <1>2
  <1>4. RowsCreated'
    BY <1>2, <1>3 DEF ListInv, RowsCreated, Idle
  <1>5. UniqueIDs'
    BY <1>2, <1>3 DEF ListInv, UniqueIDs
  <1>6. \A i \in DOMAIN l : l[i] \in CharactersOf(u)
    BY DEF ListCharactersByUserID
  <1>7. \A i, j \in DOMAIN l : i < j => Before(l[i], l[j])
    <2>1. \A i, j \in DOMAIN l : i < j => l[i] # l[j] /\ ~Before(l[j], l[i])
      BY DEF ListCharactersByUserID
    <2>. QED
      BY <1>6, <2>1, BeforeIsOrder DEF ListInv, CharactersOf
  <1>8. ListsSorted'
    <2>. SUFFICES ASSUME NEW q \in Requests, At(q, "list", "ok")',
                         NEW i \in DOMAIN req'[q].answer
                  PROVE  /\ req'[q].answer[i] \in CharactersOf(req'[q].user)
                         /\ \A j \in DOMAIN req'[q].answer :
                                i < j => Before(req'[q].answer[i], req'[q].answer[j])
      BY <1>2 DEF ListsSorted, CharactersOf, Before
    <2>1. CASE q = r
      BY <2>1, <1>3, <1>6, <1>7
    <2>2. CASE q # r
      BY <2>2, <1>3 DEF ListInv, ListsSorted, At
    <2>. QED
      BY <2>1, <2>2
  <1>9. ListsNested'
    <2>1. Shown(r)' = CharactersOf(u)
      BY <1>3, <1>6, ListsAreComplete DEF Shown
    <2>2. \A q \in Requests \ {r} : Shown(q)' = Shown(q) /\ (At(q, "list", "ok")' <=> At(q, "list", "ok"))
      BY <1>3 DEF Shown, At
    <2>3. \A q \in Requests \ {r} : At(q, "list", "ok") /\ req[q].user = u => Shown(q) \subseteq CharactersOf(u)
      BY DEF ListInv, ListsSorted, Shown
    <2>. SUFFICES ASSUME NEW p \in Requests, NEW q \in Requests,
                         At(p, "list", "ok")', At(q, "list", "ok")', req'[p].user = req'[q].user
                  PROVE  Shown(p)' \subseteq Shown(q)' \/ Shown(q)' \subseteq Shown(p)'
      BY DEF ListsNested
    <2>4. CASE p # r /\ q # r
      BY <1>3, <2>2, <2>4 DEF ListInv, ListsNested
    <2>5. CASE p = r \/ q = r
      BY <1>3, <2>1, <2>2, <2>3, <2>5
    <2>. QED
      BY <2>4, <2>5
  <1>. QED
    BY <1>4, <1>5, <1>8, <1>9 DEF ListInv

\* The row of creation r is inserted, now or late.
LEMMA RowAdded ==
  ASSUME AccountInv, ListInv, NEW r \in Requests, req[r].op = "create",
         req[r].stage \in {"insert", "lost"}, InsertCharacter(r),
         NEW s \in {"ok", "failed"}, Goto(r, s)
  PROVE  ListInv'
  <1>. DEFINE row == [user |-> req[r].user, name |-> NameKey[req[r].name],
                      at |-> req[r].at, id |-> req[r].id]
  <1>1. req[r] \in Creations /\ TypeOK
    BY DEF AccountInv, TypeOK, Auths, Creations, Lists, Idle
  <1>2. char' = [char EXCEPT ![r] = row] /\ req' = [req EXCEPT ![r] = [req[r] EXCEPT !.stage = s]]
    BY DEF InsertCharacter, Goto
  <1>3. char[r] = NoRow
    BY DEF ListInv, RowsCreated
  <1>4. /\ char'[r] = row /\ \A c \in Requests \ {r} : char'[c] = char[c]
        /\ req'[r] = [req[r] EXCEPT !.stage = s] /\ \A c \in Requests \ {r} : req'[c] = req[c]
    BY <1>1, <1>2 DEF TypeOK
  <1>5. req'[r].op = "create" /\ req'[r].stage = s /\ req'[r].id = req[r].id
    BY <1>1, <1>4 DEF Creations
  <1>a. char'[r].id = req[r].id
    BY <1>4
  <1>. HIDE DEF row
  <1>6. RowsCreated'
    <2>1. \A c \in Requests \ {r} : char'[c] = char[c] /\ req'[c] = req[c]
      BY <1>4
    <2>. QED
      BY <1>5, <1>a, <2>1 DEF ListInv, RowsCreated
  <1>7. UniqueIDs'
    <2>1. \A c \in Requests :
             (req'[c].op = "create" <=> req[c].op = "create") /\ req'[c].id = req[c].id
      BY <1>4, <1>5
    <2>. QED
      BY <2>1 DEF ListInv, UniqueIDs
  <1>8. ListsSorted' /\ ListsNested'
    BY <1>1, <1>3, <1>4, <1>5, ListsStay DEF ListInv, At
  <1>. QED
    BY <1>6, <1>7, <1>8 DEF ListInv

\* A creation draws a UUID that no other has.
LEMMA CreationBegins ==
  ASSUME AccountInv, ListInv, NEW r \in Requests, NEW u \in Requests, NEW n \in Names,
         NEW i \in UUIDs, CreateCharacter(r, u, n, i)
  PROVE  ListInv'
  <1>1. TypeOK /\ char' = char /\ req[r] = Idle
        /\ req' = [req EXCEPT ![r] = [op |-> "create", user |-> u, name |-> n, at |-> clock,
                                      id |-> i, stage |-> "insert"]]
    BY DEF AccountInv, CreateCharacter
  <1>2. req'[r].op = "create" /\ req'[r].id = i /\ \A q \in Requests \ {r} : req'[q] = req[q]
    BY <1>1 DEF TypeOK
  <1>3. RowsCreated'
    BY <1>1, <1>2 DEF ListInv, RowsCreated, Idle
  <1>4. UniqueIDs'
    BY <1>2 DEF ListInv, UniqueIDs, CreateCharacter
  <1>5. ListsSorted' /\ ListsNested'
    BY <1>1, <1>2, ListsStay DEF ListInv, At
  <1>. QED
    BY <1>3, <1>4, <1>5 DEF ListInv

\* The other steps add neither rows nor lists, nor give an UUID.
LEMMA ListsUntouched ==
  ASSUME AccountInv, ListInv, char' = char,
         \A q \in Requests :
            \/ req'[q] = req[q]
            \/ /\ req'[q].op \notin {"list", "create"}
               /\ req[q].op = "create" => req[q].stage = "insert"
            \/ /\ req[q].op = "create" /\ req[q].stage = "insert"
               /\ req'[q].op = "create" /\ req'[q].id = req[q].id
  PROVE  ListInv'
  <1>1. RowsCreated'
    BY DEF ListInv, RowsCreated
  <1>2. UniqueIDs'
    <2>1. \A q \in Requests : req'[q].op = "create" => req[q].op = "create" /\ req'[q].id = req[q].id
      OBVIOUS
    <2>. QED
      BY <2>1 DEF ListInv, UniqueIDs
  <1>3. ListsSorted' /\ ListsNested'
    BY ListsStay DEF AccountInv, ListInv, At
  <1>. QED
    BY <1>1, <1>2, <1>3 DEF ListInv

\* Every step keeps ListInv: rows only come, and a list shows what is there.
LEMMA ListNext == AccountInv /\ ListInv /\ [Next]_vars => ListInv'
  <1>. SUFFICES ASSUME AccountInv, ListInv, [Next]_vars PROVE ListInv'
    OBVIOUS
  <1>0. req \in [Requests -> {Idle} \cup Auths \cup Creations \cup Lists]
    BY DEF AccountInv, TypeOK
  <1>1. CASE \E r \in Requests, e \in Emails, p \in Passwords :
                Register(r, e, p) \/ Login(r, e, p)
    <2>1. PICK r \in Requests :
             /\ char' = char /\ req[r] = Idle /\ req'[r].op \in {"register", "login"}
             /\ \A q \in Requests \ {r} : req'[q] = req[q]
      BY <1>0, <1>1 DEF Register, Login
    <2>. QED
      BY <2>1, ListsUntouched DEF Idle
  <1>2. ASSUME NEW r \in Requests, RegisterInsert(r) \/ RegisterLate(r) \/ CreateSession(r)
        PROVE  ListInv'
    <2>1. /\ char' = char /\ req[r] \in Auths
          /\ \/ req' = [req EXCEPT ![r] = Idle]
             \/ \E s \in {"session", "lost", "failed", "ok"} : req' = [req EXCEPT ![r].stage = s]
      <3>1. req[r] \in Auths
        BY <1>0, <1>2 DEF RegisterInsert, RegisterLate, CreateSession, At, Idle,
                          Auths, Creations, Lists
      <3>. QED
        BY <1>2, <3>1 DEF RegisterInsert, RegisterLate, CreateSession, CreateUserConflicts,
                          Goto, Forget
    <2>2. /\ req[r].op # "create" /\ req'[r].op \notin {"list", "create"}
          /\ \A q \in Requests \ {r} : req'[q] = req[q]
      BY <1>0, <2>1 DEF Auths, Idle
    <2>. QED
      BY <2>1, <2>2, ListsUntouched
  <1>3. ASSUME NEW r \in Requests, CreateInsert(r), UNCHANGED char
        PROVE  ListInv'
    <2>1. /\ req[r].op = "create" /\ req[r].stage = "insert"
          /\ req[r] \in Creations
      BY <1>0, <1>3 DEF CreateInsert, At, Idle, Auths, Creations, Lists
    <2>2. \/ req' = [req EXCEPT ![r] = Idle]
          \/ req' = [req EXCEPT ![r].stage = "ok"]
          \/ req' = [req EXCEPT ![r].stage = "lost"]
      BY <1>3 DEF CreateInsert, Goto, Forget
    <2>3. /\ req'[r] = Idle \/ (req'[r].op = "create" /\ req'[r].id = req[r].id)
          /\ \A q \in Requests \ {r} : req'[q] = req[q]
      BY <1>0, <2>1, <2>2 DEF Creations
    <2>. QED
      BY <1>3, <2>1, <2>3, ListsUntouched DEF Idle
  <1>4. ASSUME NEW r \in Requests, CreateInsert(r), InsertCharacter(r), Goto(r, "ok")
        PROVE  ListInv'
    BY <1>4, RowAdded DEF CreateInsert, At
  <1>5. ASSUME NEW r \in Requests, CreateLate(r)
        PROVE  ListInv'
    BY <1>5, RowAdded DEF CreateLate, At
  <1>6. CASE \E r, u \in Requests : \/ ListCharacters(r, u)
                                    \/ \E n \in Names, i \in UUIDs : CreateCharacter(r, u, n, i)
    BY <1>6, ListAdded, CreationBegins
  <1>7. CASE Tick \/ UNCHANGED vars
    BY <1>7, ListsUntouched DEF Tick, vars
  <1>8. ASSUME NEW r \in Requests, CreateInsert(r)
        PROVE  ListInv'
    BY <1>3, <1>4, <1>8 DEF CreateInsert, InsertConflicts
  <1>. QED
    BY <1>1, <1>2, <1>5, <1>6, <1>7, <1>8 DEF Next

\* Sorted lists of nested sets agree in their order.
LEMMA NestedAgree ==
  ASSUME AccountInv, ListInv, NEW r \in Requests, NEW q \in Requests,
         At(r, "list", "ok"), At(q, "list", "ok"), Shown(r) \subseteq Shown(q)
  PROVE  OrderIn(req[r].answer) \subseteq OrderIn(req[q].answer)
  <1>. DEFINE a == req[r].answer
             b == req[q].answer
  <1>0. DOMAIN a \subseteq Int /\ DOMAIN b \subseteq Int
    <2>1. req[r] \in Lists /\ req[q] \in Lists
      BY DEF AccountInv, TypeOK, At, Idle, Auths, Creations, Lists
    <2>2. a \in Seq(Requests) /\ b \in Seq(Requests)
      BY <2>1 DEF Lists
    <2>. QED
      BY <2>2
  <1>1. \A i \in DOMAIN a : a[i] \in Requests /\ char[a[i]] # NoRow
    BY DEF ListInv, ListsSorted, CharactersOf
  <1>2. /\ \A i, j \in DOMAIN a : i < j => Before(a[i], a[j])
        /\ \A i, j \in DOMAIN b : i < j => Before(b[i], b[j])
    BY DEF ListInv, ListsSorted
  <1>3. \A i \in DOMAIN a : \E k \in DOMAIN b : b[k] = a[i]
    BY DEF Shown
  <1>. HIDE DEF a, b
  <1>4. ASSUME NEW i \in DOMAIN a, NEW j \in DOMAIN a, i <= j
        PROVE  \E k, m \in DOMAIN b : k <= m /\ b[k] = a[i] /\ b[m] = a[j]
    <2>1. PICK k \in DOMAIN b : b[k] = a[i]
      BY <1>3
    <2>2. PICK m \in DOMAIN b : b[m] = a[j]
      BY <1>3
    <2>3. CASE i = j
      BY <1>0, <2>1, <2>3
    <2>4. CASE i # j
      <3>1. Before(a[i], a[j])
        BY <1>0, <1>2, <1>4, <2>4
      <3>2. ~Before(a[j], a[i])
        BY <1>1, <3>1, BeforeIsOrder DEF ListInv
      <3>3. ~(m < k)
        BY <1>2, <2>1, <2>2, <3>2
      <3>. QED
        BY <1>0, <2>1, <2>2, <3>3
    <2>. QED
      BY <2>3, <2>4
  <1>5. OrderIn(a) \subseteq OrderIn(b)
    <2>. SUFFICES ASSUME NEW x \in OrderIn(a) PROVE x \in OrderIn(b)
      OBVIOUS
    <2>1. PICK i \in DOMAIN a, j \in DOMAIN a : i <= j /\ x = <<a[i], a[j]>>
      BY DEF OrderIn
    <2>2. PICK k \in DOMAIN b, m \in DOMAIN b : k <= m /\ b[k] = a[i] /\ b[m] = a[j]
      BY <1>4, <2>1
    <2>. QED
      BY <2>1, <2>2 DEF OrderIn
  <1>. QED
    BY <1>5 DEF a, b

\* However creations race, commit late or share an instant, a user never sees
\* two characters change places, nor a list that lacks what an earlier one had.
THEOREM ListsNeverDisagree == Spec => []ListsAgree
  <1>1. Init => ListInv
    BY DEF Init, ListInv, RowsCreated, UniqueIDs, ListsSorted, ListsNested, At, Idle
  <1>2. AccountInv /\ ListInv => ListsAgree
    BY NestedAgree DEF ListInv, ListsNested, ListsAgree
  <1>. QED
    BY <1>1, <1>2, AccountInit, AccountNext, ListNext, PTL DEF Spec
==============================================================================
