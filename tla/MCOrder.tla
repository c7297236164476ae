------------------------------ MODULE MCOrder -------------------------------
(***************************************************************************)
(* Instances of Order: a cart finalized in a message the handler can read, *)
(* the payment of its order, and the same cart event as cart-service wraps *)
(* it in an EventEnvelope.                                                 *)
(***************************************************************************)
EXTENDS Order

CONSTANTS c1, o1, o2, cartMsg, payMsg, wrappedMsg, declinedMsg

CartBody == [kind |-> "cart", readable |-> TRUE, confirmed |-> FALSE,
             cart |-> c1, order |-> o1]

MCBody ==
    [m \in Messages |->
        CASE m = cartMsg -> CartBody
          [] m = wrappedMsg -> [CartBody EXCEPT !.readable = FALSE]
          [] m = payMsg -> [CartBody EXCEPT !.kind = "payment", !.cart = NoCart,
                                            !.confirmed = TRUE]
          [] OTHER -> [CartBody EXCEPT !.kind = "payment", !.cart = NoCart]]
=============================================================================
