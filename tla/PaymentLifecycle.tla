--------------------------- MODULE PaymentLifecycle ---------------------------
(***************************************************************************)
(* What the payments service promises of the payment of a membership: it   *)
(* is decided once, and a refund is final.                                 *)
(***************************************************************************)
CONSTANT Members
VARIABLE status

PaymentStatus == {"none", "PENDING", "SUCCEEDED", "FAILED", "REFUNDED"}

Init == status = [m \in Members |-> "none"]

Move(m, from, to) ==
  /\ status[m] = from
  /\ status' = [status EXCEPT ![m] = to]

Open(m) == Move(m, "none", "PENDING")
Withdraw(m) == Move(m, "PENDING", "none")
Succeed(m) == Move(m, "PENDING", "SUCCEEDED")
Fail(m) == Move(m, "PENDING", "FAILED")
Refund(m) == Move(m, "SUCCEEDED", "REFUNDED")

Next == \E m \in Members :
          Open(m) \/ Withdraw(m) \/ Succeed(m) \/ Fail(m) \/ Refund(m)

Spec == Init /\ [][Next]_status
=============================================================================
