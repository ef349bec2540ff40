-------------------------- MODULE MCPaymentSession --------------------------
(***************************************************************************)
(* Small instances of PaymentSession for TLC.                              *)
(***************************************************************************)
EXTENDS PaymentSession, TLC

Interchangeable == Permutations(Calls) \cup Permutations(Hooks)
=============================================================================
