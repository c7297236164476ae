------------------------------ MODULE MCOutbox ------------------------------
(***************************************************************************)
(* Instances of Outbox: two services on one table (the deployed setup),    *)
(* and two replicas of one service.                                        *)
(***************************************************************************)
EXTENDS Outbox

CONSTANTS e1, e2, e3, r1, r2

\* cart-service and order-service, one relay each, on one table.
TwoServices == {"cart", "order"}
TwoOwner == [e \in Events |-> IF e = e1 THEN "cart" ELSE "order"]
TwoRelayOf == [r \in Relays |-> IF r = r1 THEN "cart" ELSE "order"]
TwoFallback == [s \in Services |-> IF s = "order" THEN "nostream" ELSE "unknown"]

\* Two replicas of cart-service.
OneService == {"cart"}
OneOwner == [e \in Events |-> "cart"]
OneRelayOf == [r \in Relays |-> "cart"]
OneFallback == [s \in Services |-> "unknown"]
=============================================================================
