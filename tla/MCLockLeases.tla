---------------------------- MODULE MCLockLeases ----------------------------
(***************************************************************************)
(* LockLeases for TLC.                                                     *)
(***************************************************************************)
EXTENDS LockLeases

\* The default (twice), a shorter and a longer time.
Asked == {-1, 0, 1, 3}
=============================================================================
