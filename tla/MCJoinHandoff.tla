---------------------------- MODULE MCJoinHandoff ----------------------------
(***************************************************************************)
(* JoinHandoff for TLC.                                                    *)
(***************************************************************************)
EXTENDS JoinHandoff, TLC

CONSTANTS u1, u2, c1, c2

\* Two users with one character each.
TwoOwners == c1 :> u1 @@ c2 :> u2

\* One user with one character; the other user has none.
OneOwner == c1 :> u1

\* Peer slots, server IDs and tokens are interchangeable.
Symmetry == Permutations(Servers) \cup Permutations(Peers) \cup Permutations(Tokens)
=============================================================================
