---------------------------- MODULE MCEnrollment ----------------------------
(***************************************************************************)
(* Small instances of Enrollment for TLC.                                  *)
(***************************************************************************)
EXTENDS Enrollment, TLC

CONSTANTS u1, u2, c1, c2, w1

OneWorkshop == [c \in Cohorts |-> w1]

Offer(price, max, first, last) ==
  [state |-> "listed", price |-> price, maxStudents |-> max,
   first |-> first, last |-> last]

(* Cohorts whose first session is beyond the clock, and one that starts    *)
(* while reservations are open.                                            *)
PaidOffer == {Offer(1, 1, 9, 9)}
PaidSoon == {Offer(1, 1, 2, 3)}

(* Windows that share a day, one free and one paid; the edit moves a cohort*)
(* beyond the first.                                                       *)
BackToBack == {Offer(0, 1, 2, 3), Offer(1, 1, 3, 4)}

Edit(fields, offer) == [fields |-> fields, doc |-> offer]
NoEdits == {}
CapacityEdits == {Edit({"maxStudents"}, Offer(1, n, 9, 9)) : n \in {1, 2}}
Moved == {Edit({"startDate", "maxStudents"}, Offer(0, 2, 4, 5))}

AnyoneAsks == Requests \X Users

Interchangeable == Permutations(Users) \cup Permutations(Requests)
                   \cup Permutations(Handlers)
AllInterchangeable == Interchangeable \cup Permutations(Cohorts)
                      \cup Permutations(Admins)
=============================================================================
