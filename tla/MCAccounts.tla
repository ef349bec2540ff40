------------------------------ MODULE MCAccounts ------------------------------
(***************************************************************************)
(* Accounts for TLC: the calls and the usernames are interchangeable.      *)
(***************************************************************************)
EXTENDS Accounts, TLC

Interchangeable == Permutations(Calls) \cup Permutations(Names)
=============================================================================
