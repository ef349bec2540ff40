--------------------------- MODULE MCNotifications ---------------------------
(***************************************************************************)
(* Small instances of Notifications, with Connections, for TLC.            *)
(***************************************************************************)
EXTENDS Notifications

Interchangeable ==
  Permutations(Users) \cup Permutations(Jobs) \cup Permutations(Answers)
=============================================================================
