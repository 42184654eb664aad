------------------------------- MODULE Domain -------------------------------
(***************************************************************************)
(* The identifiers of internal/domain that several stores share.           *)
(***************************************************************************)
EXTENDS Integers

CONSTANTS
    Users,          \* user IDs
    Characters,     \* character IDs
    Servers         \* game server IDs; a restarted server has a new one
=============================================================================
