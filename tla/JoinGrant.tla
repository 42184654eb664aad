------------------------------ MODULE JoinGrant ------------------------------
(***************************************************************************)
(* What the join handoff promises, without Redis, time or failures.  A     *)
(* token is issued by the API server to the owner of a character, for one  *)
(* character and one game server.  It seats one peer of that server, once, *)
(* as that user and that character, or it is never used at all.            *)
(***************************************************************************)
EXTENDS Domain

CONSTANTS
    Peers,          \* ENet peer slots of a game server
    Tokens,         \* join tokens
    OwnerOf,        \* OwnerOf[c]: the user whose character c is
    NoGrant,        \* a token that was not issued
    NoSession       \* a peer that is not seated

Grants == [user : Users, char : Characters, server : Servers]

VARIABLES
    grant,          \* grant[t]: whom t was issued to, and for what
    open,           \* the tokens that may still seat a peer
    seat            \* seat[s][p]: the user, character and token p plays with

grantVars == <<grant, open, seat>>

Init == /\ grant = [t \in Tokens |-> NoGrant]
        /\ open = {}
        /\ seat = [s \in Servers |-> [p \in Peers |-> NoSession]]

Issue(t, u, c, s) ==
    /\ grant[t] = NoGrant
    /\ OwnerOf[c] = u
    /\ grant' = [grant EXCEPT ![t] = [user |-> u, char |-> c, server |-> s]]
    /\ open' = open \cup {t}
    /\ UNCHANGED seat

\* Seat p at the server the token names; whoever sat there gives way.
Admit(t, p) ==
    /\ t \in open
    /\ open' = open \ {t}
    /\ seat' = [seat EXCEPT ![grant[t].server][p] =
                  [user |-> grant[t].user, char |-> grant[t].char, token |-> t]]
    /\ UNCHANGED grant

\* Tokens expire or are burnt by a failed attempt.
Void(T) ==
    /\ open' = open \ T
    /\ UNCHANGED <<grant, seat>>

\* Peers of one server leave; the tokens it was working on may be lost.
Vacate(s, P, T) ==
    /\ seat' = [seat EXCEPT ![s] = [p \in Peers |-> IF p \in P THEN NoSession ELSE @[p]]]
    /\ open' = open \ T
    /\ UNCHANGED grant

Next == \/ \E t \in Tokens, u \in Users, c \in Characters, s \in Servers : Issue(t, u, c, s)
        \/ \E t \in Tokens, p \in Peers : Admit(t, p)
        \/ \E T \in SUBSET Tokens : Void(T)
        \/ \E s \in Servers, P \in SUBSET Peers, T \in SUBSET Tokens : Vacate(s, P, T)

Spec == Init /\ [][Next]_grantVars
=============================================================================
