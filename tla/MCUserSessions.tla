--------------------------- MODULE MCUserSessions ---------------------------
(***************************************************************************)
(* UserSessions for TLC.                                                   *)
(***************************************************************************)
EXTENDS UserSessions, TLC

\* Users, session tokens and requests are interchangeable.
Symmetry == Permutations(Users) \cup Permutations(SessionIDs) \cup Permutations(Requests)
=============================================================================
