-------------------------- MODULE MCServerRegistry --------------------------
(***************************************************************************)
(* ServerRegistry for TLC.                                                 *)
(***************************************************************************)
EXTENDS ServerRegistry, TLC

CONSTANTS s1, s2

\* The order of IDs.
Order == s1 :> 1 @@ s2 :> 2
=============================================================================
