---------------------------- MODULE EventDelivery ----------------------------
(***************************************************************************)
(* What becomes of a domain event that was committed together with its     *)
(* business data.  "At-least-once delivery" holds for the events whose     *)
(* handler has a failure tried again: they are handled in the end.  Any    *)
(* other is handled, or given up by a handler that failed; what was given  *)
(* up may still be handled, from another copy of the message.  No event is *)
(* handled that was not committed.                                         *)
(***************************************************************************)
CONSTANTS Events, Retried
VARIABLE fate

Init == fate = [e \in Events |-> "none"]

Move(e, from, to) ==
  /\ fate[e] \in from
  /\ fate' = [fate EXCEPT ![e] = to]

Commit(e) == Move(e, {"none"}, "committed")
Handle(e) == Move(e, {"committed", "given up"}, "handled")
GiveUp(e) == e \notin Retried /\ Move(e, {"committed"}, "given up")

Next == \E e \in Events : Commit(e) \/ Handle(e) \/ GiveUp(e)

Safety == Init /\ [][Next]_fate

(* A committed event does not stay where it is.                            *)
Spec == /\ Safety
        /\ \A e \in Events : WF_fate(fate[e] = "committed" /\ (Handle(e) \/ GiveUp(e)))
=============================================================================
