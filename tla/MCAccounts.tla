----------------------------- MODULE MCAccounts -----------------------------
(***************************************************************************)
(* Accounts for TLC.                                                       *)
(***************************************************************************)
EXTENDS Accounts, TLC

CONSTANTS ann, Ann,         \* two spellings of one mailbox
          axe, bow, empty   \* two names, and an input that is none

OneMailbox == ann :> ann @@ Ann :> ann
TwoNames == axe :> axe @@ bow :> bow @@ empty :> Invalid

\* Requests and passwords are interchangeable.
Symmetry == Permutations(Requests) \cup Permutations(Passwords)
=============================================================================
