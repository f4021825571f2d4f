---------------------------- MODULE MCCollectors ----------------------------
(* Small instances of Collectors for TLC. *)
EXTENDS Collectors

MCAccounts == <<"personal">>
=============================================================================
