---------------------------- MODULE MCOutboxRelay ----------------------------
(***************************************************************************)
(* Small instances of OutboxRelay for TLC, with es-proxy as the consumer:  *)
(* every failure of user.verified is tried again, and none of the others.  *)
(***************************************************************************)
EXTENDS OutboxRelay, TLC

CONSTANT e1

Published == [e \in Events |-> "workshop.published"]
UserEvents == [e \in Events |-> IF e = e1 THEN "user.verified"
                                ELSE "user.profileUpdated"]
WorkshopHandler == <<"workshop.published">>
UserHandlers == <<"user.verified", "user.profileUpdated">>

EsProxy == [name \in {"user.verified", "user.profileUpdated", "workshop.published"} |->
              {name = "user.verified"}]

InterchangeablePasses == Permutations(Passes)
=============================================================================
