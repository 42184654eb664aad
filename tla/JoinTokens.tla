----------------------------- MODULE JoinTokens -----------------------------
(***************************************************************************)
(* The join-token store of internal/store/redis/join_tokens.go: a token    *)
(* that the API server creates is a Redis string holding the user, the     *)
(* character and the game server it is for; the game server takes it with  *)
(* one GETDEL.                                                             *)
(*                                                                         *)
(* A token is 32 random bytes, so a key is written at most once: grant[t]  *)
(* remembers what was written under the key of t (it is readable only      *)
(* while the key lives), tokenTTL[t] the time the key still has to live,   *)
(* 0 when there is no such key.                                            *)
(***************************************************************************)
EXTENDS Domain

CONSTANTS
    Tokens,         \* the token strings that may be drawn
    NoGrant,        \* what a token that was never created stands for
    TokenTTL        \* the time to live of a token

Grants == [user : Users, char : Characters, server : Servers]

ASSUME TokenAssumptions == /\ NoGrant \notin Grants
                           /\ TokenTTL \in Nat \ {0}

VARIABLES grant, tokenTTL

-----------------------------------------------------------------------------
TokensTypeOK == /\ grant \in [Tokens -> Grants \cup {NoGrant}]
                /\ tokenTTL \in [Tokens -> Nat]

TokensInit == /\ grant = [t \in Tokens |-> NoGrant]
              /\ tokenTTL = [t \in Tokens |-> 0]

-----------------------------------------------------------------------------
\* auth.NewJoinToken draws a string no earlier token has.
Fresh(t) == grant[t] = NoGrant

\* Mutant: the time since the expiry instead of the time until it.
CreateJoinToken_Since(t, u, c, s) ==
    /\ Fresh(t)
    /\ grant' = [grant EXCEPT ![t] = [user |-> u, char |-> c, server |-> s]]
    /\ tokenTTL' = [tokenTTL EXCEPT ![t] = 0 - TokenTTL]

\* SET with the time left until the token's expiry, which must be positive.
CreateJoinToken(t, u, c, s) ==
    /\ Fresh(t)
    /\ grant' = [grant EXCEPT ![t] = [user |-> u, char |-> c, server |-> s]]
    /\ tokenTTL' = [tokenTTL EXCEPT ![t] = TokenTTL]

Stored(t) == tokenTTL[t] > 0

\* Mutant: GET instead of GETDEL.
ConsumeJoinToken_Keep(t) == UNCHANGED <<grant, tokenTTL>>

\* GETDEL: whoever sends it first gets grant[t], everyone later gets nothing.
ConsumeJoinToken(t) ==
    /\ tokenTTL' = [tokenTTL EXCEPT ![t] = 0]
    /\ UNCHANGED grant

\* One unit of time passes in Redis.
AgeTokens ==
    tokenTTL' = [t \in Tokens |-> IF tokenTTL[t] = 0 THEN 0 ELSE tokenTTL[t] - 1]
=============================================================================
