----------------------------- MODULE MCGameLoop -----------------------------
(***************************************************************************)
(* GameLoop for TLC.                                                       *)
(***************************************************************************)
EXTENDS GameLoop, TLC

\* Beyond the clamp, and not a number.  One within the clamp moves a character
\* less, and costs the run two ticks.
SomeDirections == {-3, NaN}

Symmetry == Permutations(Peers) \cup Permutations(Characters)
=============================================================================
