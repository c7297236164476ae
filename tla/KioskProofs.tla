---------------------------- MODULE KioskProofs -----------------------------
(***************************************************************************)
(* Proofs about the kiosk shell, for any number of sessions, visits of the *)
(* payment screen, payments and order requests.                            *)
(***************************************************************************)
EXTENDS Kiosk, TLAPS

-----------------------------------------------------------------------------
(* The inductive invariant *)

PaidStages == {"PROCESSING", "PROCESSING_ERROR", "RECEIPT"}

(***************************************************************************)
(* The request the machine waits for carries the payment and the cart of   *)
(* its context: nothing changes either while the invoked actor runs.       *)
(***************************************************************************)
InvokedIsOwn ==
    kiosk.invoked # None =>
       /\ kiosk.stage = "PROCESSING"
       /\ kiosk.invoked \in DOMAIN requests
       /\ requests[kiosk.invoked].payment = kiosk.paymentResult
       /\ requests[kiosk.invoked].cart = kiosk.cartId

InFlight(a) == auths[a].client # "done"

\* Nobody was told of a charge before the promise answered.
FlightIsOpen == \A a \in DOMAIN auths : InFlight(a) => auths[a].server # "captured"

(***************************************************************************)
(* The flag of the mounted payment screen is set as long as a promise of   *)
(* its visit is in flight, if no tap hit what was fading out.  A visit is  *)
(* new when its screen mounts, so unmounting, which forgets the flag,      *)
(* forgets no promise of a visit that can still be charged.                *)
(***************************************************************************)
FlagShowsFlight ==
    \A a \in DOMAIN auths :
       /\ auths[a].visit <= visit
       /\ kiosk.stage = "PAYMENT" /\ screen # "PAYMENT" => auths[a].visit # visit
       /\ InFlight(a) /\ auths[a].visit = visit /\ screen = "PAYMENT" =>
             authorizing \/ LateTap(auths[a].visit)

\* No employee override, and no tap on Authorize during a fade.
Undisturbed == holds = <<>> /\ \A a \in DOMAIN auths : ~auths[a].late

(***************************************************************************)
(* Undisturbed, the machine waits on the payment screen until the promise  *)
(* answers.  The session and the items stay what they were meanwhile; the  *)
(* cart's id may only grow past the machine's.                             *)
(***************************************************************************)
FlightIsCurrent ==
    \A a \in DOMAIN auths :
       InFlight(a) =>
          /\ kiosk.stage = "PAYMENT" /\ screen = "PAYMENT" /\ auths[a].visit = visit
          /\ auths[a].session = kiosk.sessionId
          /\ auths[a].amount = cart.items
          /\ auths[a].client = "pay" =>
                kiosk.cartId <= auths[a].cart /\ auths[a].cart <= cart.id

ScreenFollowsSale ==
    kiosk.stage \in PaidStages => screen \in PaidStages \union {"PAYMENT"}

OwnPayment ==
    Undisturbed => FlightIsCurrent /\ ScreenFollowsSale

(***************************************************************************)
(* The requests made on a card payment name one cart; while the context    *)
(* has that payment, it is the context's.                                  *)
(***************************************************************************)
OneCartPerPayment ==
    /\ \A i, j \in DOMAIN requests : \A a \in Nat :
         requests[i].payment = CardId(a) /\ requests[j].payment = CardId(a)
           => requests[i].cart = requests[j].cart
    /\ kiosk.stage \in PaidStages =>
         \A i \in DOMAIN requests : \A a \in Nat :
           requests[i].payment = CardId(a) /\ kiosk.paymentResult = CardId(a)
             => requests[i].cart = kiosk.cartId

KioskInv ==
    /\ TypeOK
    /\ kiosk.cartId <= cart.id
    /\ InvokedIsOwn
    /\ OrdersArePaid
    /\ ReceiptIsOwnOrder
    /\ FlightIsOpen
    /\ FlagShowsFlight
    /\ OneAuthorizationPerVisit
    /\ OwnPayment
    /\ PaidForThisCart
    /\ OneCartPerPayment

-----------------------------------------------------------------------------
(* The machine *)

\* Events that move the machine from its payment stage.
PaymentEvents == {"PAYMENT_AUTHORIZED", "PAYMENT_DECLINED", "PAYMENT_FAILED",
                  "CANCEL_PAYMENT", "RETURN_TO_ATTRACT", "OPEN_ADMIN"}

\* What an event may do to the machine k, seen from the sale: n is k after it.
Moved(k, e, c, n) ==
    /\ n \in KioskContext /\ n.invoked = k.invoked
    /\ n.cartId \in {k.cartId, c}
    /\ n.stage \in PaidStages \union {"PAYMENT"} =>
          n.cartId = k.cartId /\ n.sessionId = k.sessionId
    /\ n.stage = "PAYMENT" => n = k \/ (k.stage = "CART" /\ e.type = "PROCEED_TO_PAYMENT")
    /\ n.stage = "PROCESSING" =>
          \/ n = k
          \/ /\ k.stage = "PAYMENT" /\ n.paymentResult = e.id
             /\ e.type = "PAYMENT_AUTHORIZED" /\ isApprovedResult(e)
          \/ k.stage = "PROCESSING_ERROR" /\ n.paymentResult = k.paymentResult
    /\ n.stage = "PROCESSING_ERROR" =>
          n = k \/ (k.stage = "PROCESSING" /\ n.paymentResult = k.paymentResult)
    /\ n.stage = "RECEIPT" =>
          \/ n = k
          \/ /\ k.stage = "PROCESSING" /\ n.paymentResult = k.paymentResult
             /\ e.type = "DONE" /\ n.order = e.id
    /\ k.stage = "PAYMENT" => n = k \/ e.type \in PaymentEvents

\* What the record updates of the machine give, field by field.
LEMMA ContextFields ==
    ASSUME NEW k \in KioskContext
    PROVE  /\ k.stage \in Stages /\ k.sessionId \in Nat /\ k.selectedItem \in BOOLEAN
           /\ k.cartHasItems \in BOOLEAN /\ k.paymentResult \in Nat /\ k.order \in Nat
           /\ k.cartId \in Nat /\ k.invoked \in Nat
  BY DEF KioskContext

LEMMA GotoMoves ==
    ASSUME NEW k \in KioskContext, NEW e, NEW c \in Nat,
           NEW stage \in Stages \ (PaidStages \union {"PAYMENT"}),
           k.stage = "PAYMENT" => e.type \in PaymentEvents
    PROVE  /\ Moved(k, e, c, Goto(k, stage))
           /\ Moved(k, e, c, ReturnToAttract(k, c))
           /\ Moved(k, e, c, k)
<1>1. Moved(k, e, c, Goto(k, stage))
  BY DEF Moved, Goto, KioskContext, PaidStages, Stages
<1>2. Moved(k, e, c, ReturnToAttract(k, c))
  BY DEF Moved, Goto, ReturnToAttract, resetContext, KioskContext, PaidStages, Stages, None
<1>3. Moved(k, e, c, k)
  BY DEF Moved
<1> QED
  BY <1>1, <1>2, <1>3

LEMMA ReceiveMoves ==
    ASSUME NEW k \in KioskContext, NEW e, e.id \in Nat, NEW c \in Nat
    PROVE  Moved(k, e, c, Receive(k, e, c))
<1>1. k.stage \in Stages
  BY ContextFields
<1> USE DEF PaidStages, Stages
<1>2. CASE k.stage = "LANGUAGE_SELECT"
  <2>1. Receive(k, e, c) = OnLanguageSelect(k, e)
    BY <1>2 DEF Receive
  <2> QED
    BY <1>2, <2>1, GotoMoves DEF OnLanguageSelect
<1>3. CASE k.stage = "ATTRACT"
  <2>1. Receive(k, e, c) = OnAttract(k, e, c)
    BY <1>3 DEF Receive
  <2>2. Moved(k, e, c, Goto(assignSession(k, e, c), "MENU"))
    BY <1>3 DEF assignSession, Goto, Moved, KioskContext
  <2> QED
    BY <1>3, <2>1, <2>2, GotoMoves DEF OnAttract
<1>4. CASE k.stage = "MENU"
  <2>1. Receive(k, e, c) = OnMenu(k, e, c)
    BY <1>4 DEF Receive
  <2>2. Moved(k, e, c, Goto([k EXCEPT !.selectedItem = TRUE], "ITEM_DETAIL"))
    BY <1>4 DEF Goto, Moved, KioskContext
  <2>3. Moved(k, e, c, [k EXCEPT !.cartHasItems = (e.status = "items")])
    BY <1>4 DEF Moved, KioskContext
  <2> QED
    BY <1>4, <2>1, <2>2, <2>3, GotoMoves DEF OnMenu
<1>5. CASE k.stage = "ITEM_DETAIL"
  <2>1. Receive(k, e, c) = OnItemDetail(k, e, c)
    BY <1>5 DEF Receive
  <2>2. Moved(k, e, c, Goto([k EXCEPT !.selectedItem = FALSE], "MENU"))
    BY <1>5 DEF Goto, Moved, KioskContext
  <2>3. Moved(k, e, c, Goto([k EXCEPT !.selectedItem = FALSE, !.cartHasItems = TRUE], "MENU"))
    BY <1>5 DEF Goto, Moved, KioskContext
  <2> QED
    BY <1>5, <2>1, <2>2, <2>3, GotoMoves DEF OnItemDetail
<1>6. CASE k.stage = "CART"
  <2>1. Receive(k, e, c) = OnCart(k, e, c)
    BY <1>6 DEF Receive
  <2>2. e.type = "PROCEED_TO_PAYMENT" => Moved(k, e, c, Goto(k, "PAYMENT"))
    BY <1>6 DEF Goto, Moved, KioskContext
  <2> QED
    BY <1>6, <2>1, <2>2, GotoMoves DEF OnCart
<1>7. CASE k.stage = "PAYMENT"
  <2>1. Receive(k, e, c) = OnPayment(k, e, c)
    BY <1>7 DEF Receive
  <2>2. e.type = "PAYMENT_AUTHORIZED" /\ isApprovedResult(e) =>
           Moved(k, e, c, Goto([k EXCEPT !.paymentResult = e.id], "PROCESSING"))
    BY <1>7 DEF Goto, Moved, KioskContext, PaymentEvents
  <2>3. CASE e.type \notin PaymentEvents
    <3>1. Receive(k, e, c) = k
      BY <2>1, <2>3 DEF OnPayment, PaymentEvents
    <3> QED
      BY <3>1 DEF Moved
  <2>4. CASE e.type \in PaymentEvents
    <3>1. /\ Moved(k, e, c, Goto(k, "CART")) /\ Moved(k, e, c, Goto(k, "ADMIN"))
          /\ Moved(k, e, c, ReturnToAttract(k, c)) /\ Moved(k, e, c, k)
      BY <2>4, GotoMoves
    <3>2. \/ /\ e.type = "PAYMENT_AUTHORIZED" /\ isApprovedResult(e)
             /\ OnPayment(k, e, c) = Goto([k EXCEPT !.paymentResult = e.id], "PROCESSING")
          \/ OnPayment(k, e, c) = Goto(k, "CART")
          \/ OnPayment(k, e, c) = ReturnToAttract(k, c)
          \/ OnPayment(k, e, c) = Goto(k, "ADMIN")
          \/ OnPayment(k, e, c) = k
      BY <2>4 DEF OnPayment, PaymentEvents
    <3> QED
      BY <2>1, <2>2, <3>1, <3>2
  <2> QED
    BY <2>3, <2>4
<1>8. CASE k.stage = "PROCESSING"
  <2>1. Receive(k, e, c) = OnProcessing(k, e, c)
    BY <1>8 DEF Receive
  <2>2. e.type = "DONE" => Moved(k, e, c, Goto([k EXCEPT !.order = e.id], "RECEIPT"))
    BY <1>8 DEF Goto, Moved, KioskContext
  <2>3. Moved(k, e, c, Goto(k, "PROCESSING_ERROR"))
    BY <1>8 DEF Goto, Moved, KioskContext
  <2> QED
    BY <1>8, <2>1, <2>2, <2>3, GotoMoves DEF OnProcessing
<1>9. CASE k.stage = "PROCESSING_ERROR"
  <2>1. Receive(k, e, c) = OnProcessingError(k, e, c)
    BY <1>9 DEF Receive
  <2>2. Moved(k, e, c, Goto(k, "PROCESSING"))
    BY <1>9 DEF Goto, Moved, KioskContext
  <2>3. /\ Moved(k, e, c, Goto(k, "CART")) /\ Moved(k, e, c, Goto(k, "ADMIN"))
        /\ Moved(k, e, c, ReturnToAttract(k, c)) /\ Moved(k, e, c, k)
    BY <1>9, GotoMoves
  <2> QED
    BY <2>1, <2>2, <2>3 DEF OnProcessingError
<1>10. CASE k.stage = "RECEIPT"
  <2>1. Receive(k, e, c) = OnReceipt(k, e, c)
    BY <1>10 DEF Receive
  <2>2. /\ Moved(k, e, c, Goto(k, "ADMIN"))
        /\ Moved(k, e, c, ReturnToAttract(k, c)) /\ Moved(k, e, c, k)
    BY <1>10, GotoMoves
  <2> QED
    BY <2>1, <2>2 DEF OnReceipt
<1>11. CASE k.stage = "ADMIN"
  <2>1. Receive(k, e, c) = OnAdmin(k, e, c)
    BY <1>11 DEF Receive
  <2> QED
    BY <1>11, <2>1, GotoMoves DEF OnAdmin
<1> QED
  BY <1>1, <1>2, <1>3, <1>4, <1>5, <1>6, <1>7, <1>8, <1>9, <1>10, <1>11

-----------------------------------------------------------------------------
(* Sending an event *)

\* The machine after a step that sent the event e.
SentOK(e, c) ==
    /\ kiosk' \in KioskContext /\ requests' \in Seq(Request)
    /\ kiosk'.cartId \in {kiosk.cartId, c}
    /\ kiosk'.stage \in PaidStages \union {"PAYMENT"} =>
          kiosk'.cartId = kiosk.cartId /\ kiosk'.sessionId = kiosk.sessionId
    /\ kiosk'.stage = "PAYMENT" =>
          kiosk.stage = "PAYMENT" \/ (kiosk.stage = "CART" /\ e.type = "PROCEED_TO_PAYMENT")
    /\ kiosk'.stage \in PaidStages =>
          \/ /\ kiosk.stage = "PAYMENT" /\ kiosk'.paymentResult = e.id
             /\ e.type = "PAYMENT_AUTHORIZED" /\ isApprovedResult(e)
          \/ kiosk.stage \in PaidStages /\ kiosk'.paymentResult = kiosk.paymentResult
    /\ kiosk.stage = "PAYMENT" => kiosk'.stage = "PAYMENT" \/ e.type \in PaymentEvents

LEMMA SendMoves ==
    ASSUME KioskInv, NEW e, e.id \in Nat, NEW c \in Nat, Send(e, c)
    PROVE  /\ SentOK(e, c)
           /\ InvokedIsOwn'
           /\ \/ requests' = requests
              \/ /\ kiosk'.stage = "PROCESSING"
                 /\ requests' = Append(requests, [payment |-> kiosk'.paymentResult,
                                                  cart |-> kiosk'.cartId])
           /\ (e.type = "DONE" => e.id = kiosk.invoked /\ e.id # None)
                 => ReceiptIsOwnOrder'
<1> DEFINE n == Receive(kiosk, e, c)
           enters == n.stage = "PROCESSING" /\ kiosk.stage # "PROCESSING"
           invoked == CASE enters -> Len(requests) + 1
                        [] n.stage # "PROCESSING" -> None
                        [] OTHER -> n.invoked
<1>1. /\ kiosk \in KioskContext /\ requests \in Seq(Request) /\ Len(requests) \in Nat
      /\ InvokedIsOwn
  BY DEF KioskInv, TypeOK
<1>2. Moved(kiosk, e, c, n)
  BY <1>1, ReceiveMoves
<1>3. /\ kiosk' = [n EXCEPT !.invoked = invoked]
      /\ requests' = IF enters THEN Append(requests, finalizeOrder(n)) ELSE requests
  BY DEF Send
<1> HIDE DEF n
<1>4. n \in KioskContext
  BY <1>2 DEF Moved
<1>5. /\ enters => invoked = Len(requests) + 1
      /\ n.stage # "PROCESSING" => invoked = None
      /\ n.stage = "PROCESSING" /\ ~enters => invoked = n.invoked
  OBVIOUS
<1>6. invoked \in Nat
  BY <1>1, <1>4, <1>5, ContextFields DEF None
<1> HIDE DEF invoked
<1>7. /\ kiosk' \in KioskContext /\ kiosk'.stage = n.stage /\ kiosk'.invoked = invoked
      /\ kiosk'.sessionId = n.sessionId /\ kiosk'.paymentResult = n.paymentResult
      /\ kiosk'.order = n.order /\ kiosk'.cartId = n.cartId
  BY <1>3, <1>4, <1>6 DEF KioskContext
<1>8. finalizeOrder(n) = [payment |-> kiosk'.paymentResult, cart |-> kiosk'.cartId]
  BY <1>7 DEF finalizeOrder
<1>9. finalizeOrder(n) \in Request
  BY <1>4, ContextFields DEF finalizeOrder, Request
<1>10. requests' \in Seq(Request)
  BY <1>1, <1>3, <1>9
<1>11. SentOK(e, c)
  BY <1>2, <1>7, <1>10 DEF SentOK, Moved, PaidStages
<1>12. n.stage = "PROCESSING" /\ ~enters => n = kiosk
  BY <1>2 DEF Moved
<1>13. InvokedIsOwn'
  <2>1. CASE enters
    <3>1. requests' = Append(requests, finalizeOrder(n)) /\ kiosk'.invoked = Len(requests) + 1
      BY <2>1, <1>3, <1>5, <1>7
    <3>2. /\ Len(requests) + 1 \in DOMAIN requests'
          /\ requests'[Len(requests) + 1] = finalizeOrder(n)
      BY <3>1, <1>1, <1>9
    <3> QED
      BY <2>1, <3>1, <3>2, <1>7, <1>8 DEF InvokedIsOwn
  <2>2. CASE n.stage # "PROCESSING"
    BY <2>2, <1>5, <1>7 DEF InvokedIsOwn
  <2>3. CASE n.stage = "PROCESSING" /\ ~enters
    BY <2>3, <1>1, <1>3, <1>5, <1>7, <1>12 DEF InvokedIsOwn
  <2> QED
    BY <2>1, <2>2, <2>3
<1>14. ASSUME e.type = "DONE" => e.id = kiosk.invoked /\ e.id # None
       PROVE  ReceiptIsOwnOrder'
  <2> SUFFICES ASSUME n.stage = "RECEIPT"
               PROVE  /\ n.order \in DOMAIN requests
                      /\ requests[n.order].payment = n.paymentResult
                      /\ requests[n.order].cart = n.cartId
    BY <1>3, <1>7 DEF ReceiptIsOwnOrder
  <2>1. CASE n = kiosk
    BY <2>1 DEF KioskInv, ReceiptIsOwnOrder
  <2>2. CASE e.type = "DONE" /\ n.order = e.id /\ n.paymentResult = kiosk.paymentResult
    BY <2>2, <1>1, <1>2, <1>14 DEF InvokedIsOwn, Moved, PaidStages
  <2> QED
    BY <2>1, <2>2, <1>2 DEF Moved
<1> QED
  BY <1>3, <1>7, <1>8, <1>11, <1>13, <1>14

\* What was approved stays approved when authorizations and presses are added.
LEMMA SendPays ==
    ASSUME KioskInv, NEW e, e.id \in Nat, NEW c \in Nat, Send(e, c),
           \A id \in Nat : Approved(id) => Approved(id)',
           e.type = "PAYMENT_AUTHORIZED" /\ isApprovedResult(e) => Approved(e.id)'
    PROVE  OrdersArePaid'
<1>1. SentOK(e, c)
  BY SendMoves
<1>2. /\ kiosk \in KioskContext /\ requests \in Seq(Request) /\ OrdersArePaid
      /\ kiosk' \in KioskContext
  BY <1>1 DEF KioskInv, TypeOK, SentOK
<1>4. ASSUME kiosk'.stage \in PaidStages, NEW p \in Nat, p = kiosk'.paymentResult
      PROVE  Approved(p)'
  <2>1. CASE p = e.id
    <3>1. CASE kiosk.stage = "PAYMENT"
      BY <2>1, <3>1, <1>1, <1>4 DEF SentOK, PaidStages
    <3>2. CASE kiosk.stage \in PaidStages /\ p = kiosk.paymentResult
      BY <3>2, <1>2 DEF OrdersArePaid, PaidStages
    <3> QED
      BY <3>1, <3>2, <1>1, <1>4 DEF SentOK
  <2>2. CASE kiosk.stage \in PaidStages /\ p = kiosk.paymentResult
    BY <2>2, <1>2 DEF OrdersArePaid, PaidStages
  <2> QED
    BY <2>1, <2>2, <1>1, <1>4 DEF SentOK
<1>5. ASSUME NEW i \in DOMAIN requests', NEW p \in Nat, p = requests'[i].payment
      PROVE  Approved(p)'
  <2>1. CASE i \in DOMAIN requests /\ requests'[i] = requests[i]
    BY <2>1, <1>2, <1>5 DEF OrdersArePaid
  <2>2. CASE /\ requests'[i] = [payment |-> kiosk'.paymentResult, cart |-> kiosk'.cartId]
             /\ kiosk'.stage = "PROCESSING"
    BY <2>2, <1>4, <1>5 DEF PaidStages
  <2>3. \/ i \in DOMAIN requests /\ requests'[i] = requests[i]
        \/ /\ requests'[i] = [payment |-> kiosk'.paymentResult, cart |-> kiosk'.cartId]
           /\ kiosk'.stage = "PROCESSING"
    <3>1. CASE requests' = requests
      BY <3>1
    <3>2. CASE /\ kiosk'.stage = "PROCESSING"
               /\ requests' = Append(requests, [payment |-> kiosk'.paymentResult,
                                                cart |-> kiosk'.cartId])
      BY <3>2, <1>2
    <3> QED
      BY <3>1, <3>2, SendMoves
  <2> QED
    BY <2>1, <2>2, <2>3
<1>6. kiosk'.paymentResult \in Nat /\ \A i \in DOMAIN requests' : requests'[i].payment \in Nat
  <2>1. kiosk' \in KioskContext /\ requests' \in Seq(Request)
    BY <1>1 DEF SentOK
  <2>2. \A i \in DOMAIN requests' : requests'[i] \in Request
    BY <2>1
  <2>3. kiosk'.paymentResult \in Nat
    BY <2>1 DEF KioskContext
  <2> QED
    BY <2>2, <2>3 DEF Request
<1> QED
  <2>1. kiosk'.stage \in PaidStages => Approved(kiosk.paymentResult)'
    BY <1>4, <1>6 DEF Approved
  <2>2. \A i \in DOMAIN requests' : Approved(requests[i].payment)'
    BY <1>5, <1>6 DEF Approved
  <2> QED
    BY <2>1, <2>2 DEF OrdersArePaid, PaidStages

\* Ids of cards, simulated payments and overrides never coincide.
LEMMA IdsDiffer ==
    ASSUME NEW a \in Nat, NEW b \in Nat
    PROVE  /\ CardId(a) \in Nat /\ SimulatedId(a) \in Nat /\ OverrideId(a) \in Nat
           /\ CardId(a) = CardId(b) => a = b
           /\ SimulatedId(a) # CardId(b) /\ OverrideId(a) # CardId(b)
  BY DEF CardId, SimulatedId, OverrideId

\* A payment no request names yet is used for the context's cart, and RETRY
\* keeps both.
LEMMA SendBuysOneCart ==
    ASSUME KioskInv, NEW e, e.id \in Nat, NEW c \in Nat, Send(e, c),
           e.type = "PAYMENT_AUTHORIZED" =>
              \A i \in DOMAIN requests : \A a \in Nat :
                 e.id = CardId(a) => requests[i].payment # CardId(a)
    PROVE  OneCartPerPayment'
<1>1. SentOK(e, c) /\ requests \in Seq(Request) /\ OneCartPerPayment
  BY SendMoves DEF KioskInv, TypeOK
<1>2. ASSUME kiosk'.stage \in PaidStages, NEW i \in DOMAIN requests, NEW a \in Nat,
             requests[i].payment = CardId(a), kiosk'.paymentResult = CardId(a)
      PROVE  requests[i].cart = kiosk'.cartId
  <2>1. CASE e.type = "PAYMENT_AUTHORIZED" /\ kiosk'.paymentResult = e.id
    BY <2>1, <1>2
  <2>2. CASE kiosk.stage \in PaidStages /\ kiosk'.paymentResult = kiosk.paymentResult
    BY <2>2, <1>1, <1>2 DEF SentOK, OneCartPerPayment
  <2> QED
    BY <2>1, <2>2, <1>1, <1>2 DEF SentOK
<1>3. CASE requests' = requests
  BY <1>1, <1>2, <1>3 DEF OneCartPerPayment
<1>4. CASE /\ kiosk'.stage = "PROCESSING"
           /\ requests' = Append(requests, [payment |-> kiosk'.paymentResult,
                                            cart |-> kiosk'.cartId])
  <2> DEFINE x == [payment |-> kiosk'.paymentResult, cart |-> kiosk'.cartId]
  <2>1. kiosk'.stage \in PaidStages
    BY <1>4 DEF PaidStages
  <2>2. /\ x.payment = kiosk'.paymentResult /\ x.cart = kiosk'.cartId
        /\ requests' = Append(requests, x)
    BY <1>4
  <2> HIDE DEF x
  <2>3. \A i \in DOMAIN requests' :
           \/ i \in DOMAIN requests /\ requests'[i] = requests[i]
           \/ requests'[i] = x
    BY <1>1, <2>2
  <2>4. \A i \in DOMAIN requests' : \A a \in Nat :
           requests'[i].payment = CardId(a) /\ kiosk'.paymentResult = CardId(a)
             => requests'[i].cart = kiosk'.cartId
    BY <1>2, <2>1, <2>2, <2>3
  <2>5. ASSUME NEW i \in DOMAIN requests', NEW j \in DOMAIN requests', NEW a \in Nat,
               requests'[i].payment = CardId(a), requests'[j].payment = CardId(a)
        PROVE  requests'[i].cart = requests'[j].cart
    <3>1. CASE requests'[i] = x \/ requests'[j] = x
      BY <2>2, <2>4, <2>5, <3>1
    <3>2. CASE /\ i \in DOMAIN requests /\ requests'[i] = requests[i]
               /\ j \in DOMAIN requests /\ requests'[j] = requests[j]
      BY <1>1, <2>5, <3>2 DEF OneCartPerPayment
    <3> QED
      BY <2>3, <3>1, <3>2
  <2> QED
    BY <2>4, <2>5 DEF OneCartPerPayment
<1> QED
  BY <1>3, <1>4, SendMoves

-----------------------------------------------------------------------------
(* Events of the screens that touch neither payments nor the dialog *)

LEMMA CartType ==
    ASSUME TypeOK
    PROVE  cart.id \in Nat /\ cart.items \in Nat /\ kiosk.cartId \in Nat
           /\ visit \in Nat /\ DOMAIN auths = 1..Len(auths) /\ Len(auths) \in Nat
  BY DEF TypeOK, KioskContext, visit

LEMMA AuthType ==
    ASSUME TypeOK, NEW a \in DOMAIN auths
    PROVE  /\ auths[a] \in Auth
           /\ auths[a].visit \in Nat /\ auths[a].session \in Nat /\ auths[a].cart \in Nat
           /\ auths[a].amount \in Nat /\ auths[a].client \in {"checkout", "pay", "done"}
           /\ auths[a].server \in {"none", "pending"} \union PaymentStatus
<1>1. auths[a] \in Auth
  BY DEF TypeOK
<1> QED
  BY <1>1 DEF Auth

LEMMA QuietSend ==
    ASSUME KioskInv, NEW e, e.id \in Nat, Send(e, cart.id),
           e.type \notin {"PAYMENT_AUTHORIZED", "PROCEED_TO_PAYMENT"},
           e.type = "DONE" => e.id = kiosk.invoked /\ e.id # None,
           kiosk.stage = "PAYMENT" => e.type \notin PaymentEvents,
           UNCHANGED <<local, booting, auths>>, present' \in BOOLEAN,
           cart' \in [id : Nat, items : Nat], cart'.id = cart.id,
           cart'.items # cart.items => kiosk.stage = "ITEM_DETAIL"
    PROVE  KioskInv'
<1> USE DEF PaidStages
<1>1. UNCHANGED <<screen, tapped, dialog, authorizing, holdRef, holds, booting, auths>>
  BY DEF local
<1>2. /\ cart.id \in Nat /\ cart.items \in Nat /\ kiosk.cartId \in Nat
      /\ visit \in Nat /\ UNCHANGED visit
  BY <1>1, CartType DEF KioskInv, visit
<1>3. SentOK(e, cart.id) /\ InvokedIsOwn' /\ ReceiptIsOwnOrder'
  BY <1>2, SendMoves
<1>4. \A id \in Nat : Approved(id) => Approved(id)'
  BY <1>1 DEF Approved
<1>5. OrdersArePaid'
  BY <1>2, <1>4, SendPays
<1>6. TypeOK'
  BY <1>1, <1>3 DEF KioskInv, TypeOK, SentOK
<1>7. kiosk'.cartId <= cart'.id
  BY <1>2, <1>3 DEF KioskInv, SentOK
<1>8. kiosk'.stage = "PAYMENT" <=> kiosk.stage = "PAYMENT"
  BY <1>3 DEF SentOK
<1>9. FlagShowsFlight'
  BY <1>1, <1>2, <1>8 DEF KioskInv, FlagShowsFlight, InFlight, LateTap
<1>10. OneAuthorizationPerVisit' /\ FlightIsOpen'
  BY <1>1 DEF KioskInv, OneAuthorizationPerVisit, FlightIsOpen, InFlight, LateTap
<1>11. OwnPayment'
  <2> SUFFICES ASSUME Undisturbed PROVE FlightIsCurrent' /\ ScreenFollowsSale'
    BY <1>1 DEF OwnPayment, Undisturbed
  <2>1. FlightIsCurrent /\ ScreenFollowsSale
    BY DEF KioskInv, OwnPayment
  <2>2. FlightIsCurrent'
    BY <2>1, <1>1, <1>2, <1>3, <1>8 DEF FlightIsCurrent, InFlight, SentOK
  <2>3. ScreenFollowsSale'
    BY <2>1, <1>1, <1>3, <1>8 DEF ScreenFollowsSale, SentOK
  <2> QED
    BY <2>2, <2>3
<1>12. PaidForThisCart'
  <2>1. kiosk'.stage \in PaidStages =>
           /\ kiosk.stage \in PaidStages /\ kiosk'.paymentResult = kiosk.paymentResult
           /\ kiosk'.cartId = kiosk.cartId /\ kiosk'.sessionId = kiosk.sessionId
           /\ cart'.items = cart.items
    BY <1>3 DEF SentOK
  <2> QED
    BY <2>1, <1>1 DEF KioskInv, PaidForThisCart
<1>13. OneCartPerPayment'
  BY <1>2, SendBuysOneCart
<1> QED
  BY <1>3, <1>5, <1>6, <1>7, <1>9, <1>10, <1>11, <1>12, <1>13 DEF KioskInv

\* The events that carry no id.
LEMMA SimpleEvent ==
    ASSUME NEW type
    PROVE  Simple(type).type = type /\ Simple(type).id \in Nat
  BY DEF Simple, Event, None

\* Taps and answers that only move the machine.
LEMMA TapsInv ==
    ASSUME KioskInv,
           \/ SelectLanguage \/ MenuScreen \/ ItemModal \/ handleItemTap \/ handleBack
           \/ ProcessingScreen \/ ReceiptScreen \/ idleReclaim
    PROVE  KioskInv'
<1> USE SimpleEvent DEF Tap, PaymentEvents
<1>1. present \in BOOLEAN /\ cart \in [id : Nat, items : Nat]
  BY DEF KioskInv, TypeOK
<1>2. CASE SelectLanguage
  BY <1>1, <1>2, QuietSend DEF SelectLanguage
<1>3. CASE handleItemClick
  BY <1>1, <1>3, QuietSend DEF handleItemClick
<1>4. CASE handleGoToCart
  BY <1>1, <1>4, QuietSend DEF handleGoToCart
<1>5. CASE handleAdd
  <2>1. cart' \in [id : Nat, items : Nat] /\ cart'.id = cart.id
    BY <1>1, <1>5 DEF handleAdd
  <2> QED
    BY <1>1, <1>5, <2>1, QuietSend DEF handleAdd
<1>6. CASE handleClose
  BY <1>1, <1>6, QuietSend DEF handleClose
<1>7. CASE handleItemTap
  BY <1>1, <1>7, QuietSend DEF handleItemTap
<1>8. CASE handleBack
  BY <1>1, <1>8, QuietSend DEF handleBack
<1>9. CASE retryOrder
  BY <1>1, <1>9, QuietSend DEF retryOrder
<1>10. CASE handleCancel
  BY <1>1, <1>10, QuietSend DEF handleCancel
<1>11. CASE handleStartNewOrder
  BY <1>1, <1>11, QuietSend DEF handleStartNewOrder
<1>12. CASE idleReclaim
  BY <1>1, <1>12, QuietSend DEF idleReclaim, IMMUNE_STAGES
<1> QED
  BY <1>2, <1>3, <1>4, <1>5, <1>6, <1>7, <1>8, <1>9, <1>10, <1>11, <1>12
     DEF MenuScreen, ItemModal, ProcessingScreen, ReceiptScreen

\* The answer of createOrder, while the machine waits for it.
LEMMA OrderAnswersInv ==
    ASSUME KioskInv, OrderAnswers
    PROVE  KioskInv'
<1>1. present \in BOOLEAN /\ cart \in [id : Nat, items : Nat]
  BY DEF KioskInv, TypeOK
<1>2. PICK i \in DOMAIN requests : finalizeDone(i) \/ finalizeError(i)
  BY DEF OrderAnswers
<1>3. i \in Nat /\ i # None
  BY DEF KioskInv, TypeOK, None
<1>4. kiosk.stage # "PAYMENT"
  BY <1>2, <1>3 DEF KioskInv, InvokedIsOwn, finalizeDone, finalizeError
<1>5. CASE finalizeDone(i)
  <2> DEFINE e == Event("DONE", i, "none")
  <2>1. e.type = "DONE" /\ e.id = i
    BY DEF Event
  <2>2. /\ Send(e, cart.id) /\ kiosk.invoked = i
        /\ UNCHANGED <<local, cart, booting, auths, present>>
    BY <1>5 DEF finalizeDone
  <2> HIDE DEF e
  <2> QED
    BY <1>1, <1>3, <1>4, <2>1, <2>2, QuietSend
<1>6. CASE finalizeError(i)
  BY <1>1, <1>4, <1>6, QuietSend, SimpleEvent DEF finalizeError
<1> QED
  BY <1>2, <1>5, <1>6

\* A tap on the attract screen: the old cart's id is never current again.
LEMMA BeginSessionInv ==
    ASSUME KioskInv, beginSession
    PROVE  KioskInv'
<1> USE DEF PaidStages
<1> DEFINE e == Event("START_SESSION", fresh, "none")
<1>1. /\ cart.id \in Nat /\ kiosk.cartId \in Nat /\ visit \in Nat
      /\ fresh \in Nat /\ fresh = cart.id + 2 /\ kiosk.cartId <= cart.id
  BY CartType DEF KioskInv, fresh
<1>2. e.id = fresh /\ e.type = "START_SESSION"
  BY DEF Event
<1>3. /\ Send(e, fresh) /\ screen \in {"ATTRACT", "PROCESSING_ERROR"}
      /\ UNCHANGED <<screen, dialog, authorizing, holdRef, holds, booting, auths, present>>
      /\ tapped' = TRUE /\ cart' = [id |-> fresh, items |-> 0]
  BY DEF beginSession, Tap
<1> HIDE DEF e
<1>4. SentOK(e, fresh) /\ InvokedIsOwn' /\ ReceiptIsOwnOrder'
  BY <1>1, <1>2, <1>3, SendMoves
<1>5. \A id \in Nat : Approved(id) => Approved(id)'
  BY <1>3 DEF Approved
<1>6. OrdersArePaid'
  BY <1>1, <1>2, <1>3, <1>5, SendPays
<1>7. TypeOK'
  BY <1>1, <1>3, <1>4 DEF KioskInv, TypeOK, SentOK
<1>8. /\ kiosk'.cartId <= cart'.id
      /\ kiosk'.stage \in PaidStages => kiosk'.cartId # cart'.id
  BY <1>1, <1>3, <1>4 DEF SentOK
<1>9. /\ kiosk'.stage = "PAYMENT" => kiosk.stage = "PAYMENT"
      /\ kiosk'.stage \in PaidStages => kiosk.stage \in PaidStages
  BY <1>2, <1>4 DEF SentOK
<1>10. FlagShowsFlight'
  BY <1>3, <1>9 DEF KioskInv, FlagShowsFlight, InFlight, LateTap, visit
<1>11. OneAuthorizationPerVisit' /\ FlightIsOpen'
  BY <1>3 DEF KioskInv, OneAuthorizationPerVisit, FlightIsOpen, InFlight, LateTap
<1>12. OwnPayment'
  BY <1>3, <1>9 DEF KioskInv, OwnPayment, FlightIsCurrent, ScreenFollowsSale, Undisturbed,
                    InFlight
<1>13. PaidForThisCart'
  BY <1>8 DEF PaidForThisCart
<1>14. OneCartPerPayment'
  BY <1>1, <1>2, <1>3, SendBuysOneCart
<1> QED
  BY <1>4, <1>6, <1>7, <1>8, <1>10, <1>11, <1>12, <1>13, <1>14 DEF KioskInv

\* Paying begins a new visit of the payment screen.
LEMMA HandlePayInv ==
    ASSUME KioskInv, handlePay
    PROVE  KioskInv'
<1> USE DEF PaidStages
<1> DEFINE e == Simple("PROCEED_TO_PAYMENT")
<1>1. e.id \in Nat /\ e.type = "PROCEED_TO_PAYMENT"
  BY SimpleEvent
<1>2. /\ Send(e, cart.id) /\ screen = "CART" /\ kiosk.stage = "CART"
      /\ UNCHANGED <<screen, tapped, dialog, authorizing, holds, cart, booting, auths, present>>
      /\ holdRef' = Append(holdRef, None)
  BY DEF handlePay, Tap
<1> HIDE DEF e
<1>3. cart.id \in Nat /\ kiosk.cartId \in Nat /\ visit \in Nat /\ holdRef \in Seq(Nat)
  BY CartType DEF KioskInv, TypeOK
<1>4. SentOK(e, cart.id) /\ InvokedIsOwn' /\ ReceiptIsOwnOrder'
  BY <1>1, <1>2, <1>3, SendMoves
<1>5. \A id \in Nat : Approved(id) => Approved(id)'
  BY <1>2 DEF Approved
<1>6. OrdersArePaid'
  BY <1>1, <1>2, <1>3, <1>5, SendPays
<1>7. holdRef' \in Seq(Nat) /\ visit' = visit + 1
  BY <1>2, <1>3 DEF None, visit
<1>8. TypeOK'
  BY <1>2, <1>4, <1>7 DEF KioskInv, TypeOK, SentOK
<1>9. kiosk'.cartId <= cart'.id
  BY <1>2, <1>3, <1>4 DEF SentOK, KioskInv
<1>10. kiosk'.stage \notin PaidStages
  BY <1>2, <1>4 DEF SentOK
<1>11. FlagShowsFlight'
  BY <1>2, <1>3, <1>7, AuthType DEF KioskInv, FlagShowsFlight, InFlight, LateTap
<1>12. OneAuthorizationPerVisit' /\ FlightIsOpen'
  BY <1>2 DEF KioskInv, OneAuthorizationPerVisit, FlightIsOpen, InFlight, LateTap
<1>13. OwnPayment'
  BY <1>2, <1>10 DEF KioskInv, OwnPayment, FlightIsCurrent, ScreenFollowsSale, Undisturbed,
                    InFlight
<1>14. PaidForThisCart'
  BY <1>10 DEF PaidForThisCart
<1>15. OneCartPerPayment'
  BY <1>1, <1>2, <1>3, SendBuysOneCart
<1> QED
  BY <1>4, <1>6, <1>8, <1>9, <1>11, <1>12, <1>13, <1>14, <1>15 DEF KioskInv

-----------------------------------------------------------------------------
(* The promises of the payment screen *)

(***************************************************************************)
(* A promise ends with the event e.  It clears the flag if it is the       *)
(* mounted visit's; another one of that visit is in flight only after a    *)
(* late tap.                                                               *)
(***************************************************************************)
LEMMA AnswerInv ==
    ASSUME KioskInv, NEW a \in DOMAIN auths, InFlight(a), NEW x \in Auth,
           auths' = [auths EXCEPT ![a] = x], x.client = "done",
           x.visit = auths[a].visit, x.session = auths[a].session,
           x.amount = auths[a].amount, x.cart = auths[a].cart, x.late = auths[a].late,
           settleDialog(a), NEW e, e.id \in Nat, Send(e, cart.id),
           e.type \in {"PAYMENT_AUTHORIZED", "PAYMENT_FAILED"},
           e.type = "PAYMENT_AUTHORIZED" /\ isApprovedResult(e) => Approved(e.id)',
           \A b \in Nat :
              e.type = "PAYMENT_AUTHORIZED" /\ e.id = CardId(b) =>
                 a = b /\ auths[a].client = "pay",
           UNCHANGED <<screen, tapped, holdRef, holds, cart, booting, present>>
    PROVE  KioskInv'
<1> USE DEF PaidStages
<1>1. /\ cart.id \in Nat /\ kiosk.cartId \in Nat /\ visit \in Nat /\ UNCHANGED visit
      /\ auths \in Seq(Auth)
  BY CartType DEF KioskInv, TypeOK, visit
<1>2. SentOK(e, cart.id) /\ InvokedIsOwn' /\ ReceiptIsOwnOrder'
  BY <1>1, SendMoves
<1>3. /\ auths' \in Seq(Auth) /\ DOMAIN auths' = DOMAIN auths /\ auths'[a] = x
      /\ \A b \in DOMAIN auths : b # a => auths'[b] = auths[b]
  BY <1>1
<1>4. \A id \in Nat : Approved(id) => Approved(id)'
  BY <1>3 DEF Approved, KioskInv, FlightIsOpen
<1>5. OrdersArePaid'
  BY <1>1, <1>4, SendPays
<1>6. dialog' \in {"closed", "open", "exiting"} /\ authorizing' \in BOOLEAN
  BY DEF settleDialog, hideDialog, KioskInv, TypeOK
<1>7. TypeOK'
  BY <1>2, <1>3, <1>6 DEF KioskInv, TypeOK, SentOK
<1>8. kiosk'.cartId <= cart'.id
  BY <1>1, <1>2 DEF KioskInv, SentOK
<1>9. kiosk'.stage = "PAYMENT" => kiosk.stage = "PAYMENT"
  BY <1>2 DEF SentOK
<1>15. /\ \A b \in DOMAIN auths : auths'[b].visit = auths[b].visit /\ auths'[b].late = auths[b].late
       /\ \A v : LateTap(v)' <=> LateTap(v)
  <2>1. \A b \in DOMAIN auths : auths'[b].visit = auths[b].visit /\ auths'[b].late = auths[b].late
    BY <1>3
  <2> QED
    BY <1>3, <2>1 DEF LateTap
<1>10. OneAuthorizationPerVisit' /\ FlightIsOpen'
  BY <1>3 DEF KioskInv, OneAuthorizationPerVisit, FlightIsOpen, InFlight, LateTap
<1>11. FlagShowsFlight'
  <2> SUFFICES ASSUME NEW b \in DOMAIN auths
               PROVE  /\ auths'[b].visit <= visit
                      /\ kiosk'.stage = "PAYMENT" /\ screen # "PAYMENT" =>
                            auths'[b].visit # visit
                      /\ (auths'[b].client # "done" /\ auths'[b].visit = visit
                            /\ screen = "PAYMENT") => authorizing' \/ LateTap(visit)
    BY <1>1, <1>3, <1>15 DEF FlagShowsFlight, InFlight, LateTap
  <2>1. auths'[b].visit = auths[b].visit
    BY <1>3
  <2>2. (auths'[b].client # "done" /\ auths'[b].visit = visit
           /\ screen = "PAYMENT") => authorizing' \/ LateTap(visit)
    <3> SUFFICES ASSUME auths'[b].client # "done", auths'[b].visit = visit,
                        screen = "PAYMENT"
                 PROVE  authorizing' \/ LateTap(visit)
      OBVIOUS
    <3>1. b # a /\ auths[b].client # "done" /\ auths[b].visit = visit
      BY <1>3, <2>1
    <3>2. CASE auths[a].visit = visit
      BY <3>1, <3>2 DEF KioskInv, OneAuthorizationPerVisit, InFlight
    <3>3. CASE auths[a].visit # visit
      <4>1. authorizing' = authorizing
        BY <3>3 DEF settleDialog
      <4> QED
        BY <3>1, <4>1 DEF KioskInv, FlagShowsFlight, InFlight
    <3> QED
      BY <3>2, <3>3
  <2> QED
    BY <2>1, <2>2, <1>9 DEF KioskInv, FlagShowsFlight
<1>12. ASSUME Undisturbed
       PROVE  /\ kiosk.stage = "PAYMENT" /\ screen = "PAYMENT" /\ auths[a].visit = visit
              /\ \A b \in DOMAIN auths : ~InFlight(b)'
  <2>1. /\ FlightIsCurrent
        /\ kiosk.stage = "PAYMENT" /\ screen = "PAYMENT" /\ auths[a].visit = visit
    BY <1>12 DEF KioskInv, OwnPayment, FlightIsCurrent
  <2>3. ASSUME NEW b \in DOMAIN auths, auths'[b].client # "done" PROVE FALSE
    <3>1. b # a /\ auths'[b] = auths[b] /\ InFlight(b)
      BY <2>3, <1>3 DEF InFlight
    <3>2. auths[b].visit = visit
      BY <2>1, <3>1 DEF FlightIsCurrent
    <3> QED
      BY <2>1, <3>1, <3>2, <1>12 DEF KioskInv, OneAuthorizationPerVisit, InFlight, LateTap,
                                     Undisturbed
  <2> QED
    BY <2>1, <2>3 DEF InFlight
<1>16. Undisturbed' => Undisturbed
  BY <1>3, <1>15 DEF Undisturbed
<1>13. OwnPayment'
  BY <1>3, <1>12, <1>16 DEF OwnPayment, FlightIsCurrent, ScreenFollowsSale
<1>14. PaidForThisCart'
  <2> SUFFICES ASSUME Undisturbed, kiosk'.stage \in PaidStages, kiosk'.cartId = cart.id,
                      NEW b \in DOMAIN auths, kiosk'.paymentResult = CardId(b)
               PROVE  /\ auths'[b].session = kiosk'.sessionId
                      /\ auths'[b].amount = cart.items
                      /\ auths'[b].cart = kiosk'.cartId
    BY <1>3, <1>16 DEF PaidForThisCart, Undisturbed
  <2>1. kiosk.stage = "PAYMENT"
    BY <1>12
  <2>2. /\ kiosk'.paymentResult = e.id /\ e.type = "PAYMENT_AUTHORIZED"
        /\ kiosk'.cartId = kiosk.cartId /\ kiosk'.sessionId = kiosk.sessionId
    BY <2>1, <1>2 DEF SentOK
  <2>3. a = b /\ auths[a].client = "pay"
    <3>1. b \in Nat
      BY CartType DEF KioskInv
    <3> QED
      BY <2>2, <3>1
  <2>4. /\ auths[a].session = kiosk.sessionId /\ auths[a].amount = cart.items
        /\ kiosk.cartId <= auths[a].cart /\ auths[a].cart <= cart.id
    BY <2>3 DEF KioskInv, OwnPayment, FlightIsCurrent
  <2>5. auths[a].cart \in Nat
    BY AuthType DEF KioskInv
  <2> QED
    BY <1>1, <1>3, <2>2, <2>3, <2>4, <2>5
<1>17. OneCartPerPayment'
  <2>1. ASSUME e.type = "PAYMENT_AUTHORIZED", NEW i \in DOMAIN requests, NEW b \in Nat,
               e.id = CardId(b), requests[i].payment = CardId(b)
        PROVE  FALSE
    <3>1. a = b
      BY <2>1
    <3>2. auths[a].server # "captured"
      BY DEF KioskInv, FlightIsOpen
    <3>3. Approved(CardId(a))
      BY <2>1, <3>1 DEF KioskInv, OrdersArePaid
    <3>4. DOMAIN auths \subseteq Nat /\ DOMAIN holds \subseteq Nat
      BY DEF KioskInv, TypeOK
    <3> QED
      BY <3>1, <3>2, <3>3, <3>4, IdsDiffer DEF Approved
  <2> QED
    BY <1>1, <2>1, SendBuysOneCart
<1> QED
  BY <1>2, <1>5, <1>7, <1>8, <1>10, <1>11, <1>13, <1>14, <1>17 DEF KioskInv

LEMMA PaymentAnsweredInv ==
    ASSUME KioskInv, NEW a \in DOMAIN auths, NEW status \in PaymentStatus,
           paymentAnswered(a, status)
    PROVE  KioskInv'
<1> DEFINE e == Event("PAYMENT_AUTHORIZED", CardId(a), status)
           x == [auths[a] EXCEPT !.client = "done", !.server = status]
<1>1. auths[a] \in Auth /\ DOMAIN auths \subseteq Nat /\ auths \in Seq(Auth)
  BY AuthType, CartType DEF KioskInv, TypeOK
<1>2. e.type = "PAYMENT_AUTHORIZED" /\ e.id = CardId(a) /\ e.status = status
  BY DEF Event
<1>3. /\ x \in Auth /\ x.client = "done" /\ x.server = status
      /\ x.visit = auths[a].visit /\ x.session = auths[a].session
      /\ x.amount = auths[a].amount /\ x.cart = auths[a].cart
      /\ x.late = auths[a].late
  BY <1>1 DEF Auth
<1>4. /\ auths' = [auths EXCEPT ![a] = x] /\ auths[a].client = "pay" /\ InFlight(a)
      /\ settleDialog(a) /\ Send(e, cart.id)
      /\ UNCHANGED <<screen, tapped, holdRef, holds, cart, booting, present>>
  BY DEF paymentAnswered, InFlight
<1>5. isApprovedResult(e) => status = "captured"
  BY <1>2 DEF isApprovedResult, PaymentStatus
<1> HIDE DEF e, x
<1>6. isApprovedResult(e) => Approved(e.id)'
  BY <1>1, <1>2, <1>3, <1>4, <1>5 DEF Approved
<1>7. e.id \in Nat /\ \A b \in Nat : e.id = CardId(b) => a = b
  BY <1>1, <1>2, IdsDiffer
<1> QED
  BY <1>2, <1>3, <1>4, <1>6, <1>7, AnswerInv

LEMMA PaymentFailedInv ==
    ASSUME KioskInv, NEW a \in DOMAIN auths, paymentFailed(a)
    PROVE  KioskInv'
<1> DEFINE e == IF AllowSimulated
                THEN Event("PAYMENT_AUTHORIZED", SimulatedId(a), "authorized")
                ELSE Simple("PAYMENT_FAILED")
           x == [auths[a] EXCEPT !.client = "done"]
<1>1. auths[a] \in Auth /\ DOMAIN auths \subseteq Nat /\ auths \in Seq(Auth)
  BY AuthType, CartType DEF KioskInv, TypeOK
<1>2. /\ AllowSimulated => e.type = "PAYMENT_AUTHORIZED" /\ e.id = SimulatedId(a)
      /\ ~AllowSimulated => e.type = "PAYMENT_FAILED" /\ e.id = None
  BY DEF Event, Simple
<1>3. /\ x \in Auth /\ x.client = "done" /\ x.visit = auths[a].visit
      /\ x.session = auths[a].session
      /\ x.amount = auths[a].amount /\ x.cart = auths[a].cart
      /\ x.late = auths[a].late
  BY <1>1 DEF Auth
<1>4. /\ auths' = [auths EXCEPT ![a] = x] /\ InFlight(a)
      /\ settleDialog(a) /\ Send(e, cart.id)
      /\ UNCHANGED <<screen, tapped, holdRef, holds, cart, booting, present>>
  BY DEF paymentFailed, InFlight
<1> HIDE DEF e, x
<1>5. e.type = "PAYMENT_AUTHORIZED" => Approved(e.id)'
  <2> SUFFICES ASSUME AllowSimulated PROVE Approved(SimulatedId(a))'
    BY <1>2
  <2>1. a \in DOMAIN auths'
    BY <1>1, <1>4
  <2> QED
    BY <2>1 DEF Approved
<1>6. /\ e.id \in Nat /\ e.type \in {"PAYMENT_AUTHORIZED", "PAYMENT_FAILED"}
      /\ \A b \in Nat : e.type = "PAYMENT_AUTHORIZED" => e.id # CardId(b)
  <2>1. CASE AllowSimulated
    BY <2>1, <1>1, <1>2, IdsDiffer
  <2>2. CASE ~AllowSimulated
    BY <2>2, <1>2 DEF None
  <2> QED
    BY <2>1, <2>2
<1> QED
  BY <1>3, <1>4, <1>5, <1>6, AnswerInv

\* Clearing an interval forgets no press.
LEMMA ClearHoldType ==
    ASSUME TypeOK, NEW v
    PROVE  /\ clearHold(v) \in Seq([visit : Nat, on : BOOLEAN])
           /\ DOMAIN clearHold(v) = DOMAIN holds
           /\ clearHold(v) = <<>> <=> holds = <<>>
<1> DEFINE H == [visit : Nat, on : BOOLEAN]
           c == clearHold(v)
<1>1. holds \in Seq(H) /\ Len(holds) \in Nat /\ DOMAIN holds = 1..Len(holds)
  BY DEF TypeOK
<1> HIDE DEF H
<1>2. DOMAIN c = 1..Len(holds)
  BY <1>1 DEF clearHold
<1>3. \A i \in 1..Len(holds) : c[i] \in H
  <2> TAKE i \in 1..Len(holds)
  <2>1. holds[i] \in H
    BY <1>1
  <2>2. [holds[i] EXCEPT !.on = FALSE] \in H
    BY <2>1 DEF H
  <2> QED
    BY <1>1, <2>1, <2>2 DEF clearHold
<1>4. c = [i \in 1..Len(holds) |-> c[i]]
  BY <1>1 DEF clearHold
<1> HIDE DEF c
<1>5. c \in Seq(H) /\ Len(c) = Len(holds)
  BY <1>1, <1>2, <1>3, <1>4
<1>6. c = <<>> <=> holds = <<>>
  BY <1>1, <1>5
<1> QED
  BY <1>1, <1>2, <1>5, <1>6 DEF c, H

LEMMA EmployeeHoldFiresInv ==
    ASSUME KioskInv, NEW h \in DOMAIN holds, employeeHoldFires(h)
    PROVE  KioskInv'
<1> DEFINE e == Event("PAYMENT_AUTHORIZED", OverrideId(h), "authorized")
<1>1. holds \in Seq([visit : Nat, on : BOOLEAN]) /\ h \in Nat
  BY DEF KioskInv, TypeOK
<1>2. /\ cart.id \in Nat /\ kiosk.cartId \in Nat
  BY CartType DEF KioskInv
<1>3. e.type = "PAYMENT_AUTHORIZED" /\ e.id = OverrideId(h) /\ e.id \in Nat
  BY <1>1, IdsDiffer DEF Event
<1>4. /\ Send(e, cart.id) /\ holds' = clearHold(holds[h].visit)
      /\ UNCHANGED <<screen, tapped, dialog, authorizing, holdRef, cart, booting, auths, present>>
      /\ UNCHANGED visit
  BY DEF employeeHoldFires, visit
<1> HIDE DEF e
<1>5. /\ holds' \in Seq([visit : Nat, on : BOOLEAN]) /\ DOMAIN holds' = DOMAIN holds
      /\ holds' # <<>>
  BY <1>1, <1>4, ClearHoldType DEF KioskInv
<1>6. \A id \in Nat : Approved(id) => Approved(id)'
  BY <1>4, <1>5 DEF Approved
<1>7. Approved(e.id)'
  BY <1>3, <1>5 DEF Approved
<1>8. SentOK(e, cart.id) /\ InvokedIsOwn' /\ ReceiptIsOwnOrder'
  BY <1>2, <1>3, <1>4, SendMoves
<1>9. OrdersArePaid'
  BY <1>2, <1>3, <1>4, <1>6, <1>7, SendPays
<1>10. TypeOK'
  BY <1>4, <1>5, <1>8 DEF KioskInv, TypeOK, SentOK
<1>11. kiosk'.cartId <= cart'.id
  BY <1>2, <1>4, <1>8 DEF KioskInv, SentOK
<1>12. kiosk'.stage = "PAYMENT" => kiosk.stage = "PAYMENT"
  BY <1>3, <1>8 DEF SentOK
<1>13. FlagShowsFlight'
  BY <1>4, <1>12 DEF KioskInv, FlagShowsFlight, InFlight, LateTap
<1>14. OneAuthorizationPerVisit' /\ FlightIsOpen'
  BY <1>4 DEF KioskInv, OneAuthorizationPerVisit, FlightIsOpen, InFlight, LateTap
<1>15. OwnPayment' /\ PaidForThisCart'
  BY <1>5 DEF OwnPayment, Undisturbed, PaidForThisCart
<1>16. OneCartPerPayment'
  BY <1>1, <1>2, <1>3, <1>4, IdsDiffer, SendBuysOneCart
<1> QED
  BY <1>8, <1>9, <1>10, <1>11, <1>13, <1>14, <1>15, <1>16 DEF KioskInv

-----------------------------------------------------------------------------
(* Steps that send the machine nothing *)

LEMMA StillMachine ==
    ASSUME KioskInv, UNCHANGED <<kiosk, requests>>,
           \A id \in Nat : Approved(id) => Approved(id)'
    PROVE  InvokedIsOwn' /\ OrdersArePaid' /\ ReceiptIsOwnOrder' /\ OneCartPerPayment'
<1>1. InvokedIsOwn' /\ ReceiptIsOwnOrder'
  BY DEF KioskInv, InvokedIsOwn, ReceiptIsOwnOrder
<1>2. kiosk.paymentResult \in Nat
  BY ContextFields DEF KioskInv, TypeOK
<1>3. \A i \in DOMAIN requests : requests[i] \in Request
  BY DEF KioskInv, TypeOK
<1>4. kiosk.stage \in PaidStages => Approved(kiosk.paymentResult)'
  <2> DEFINE p == kiosk.paymentResult
  <2>1. kiosk.stage \in PaidStages => Approved(p)
    BY DEF KioskInv, OrdersArePaid, PaidStages
  <2>2. UNCHANGED p
    OBVIOUS
  <2> QED
    BY <1>2, <2>1, <2>2 DEF Approved
<1>5. \A i \in DOMAIN requests : Approved(requests[i].payment)'
  <2> TAKE i \in DOMAIN requests
  <2> DEFINE p == requests[i].payment
  <2>1. Approved(p) /\ p \in Nat
    BY <1>3 DEF KioskInv, OrdersArePaid, Request
  <2>2. UNCHANGED p
    OBVIOUS
  <2> QED
    BY <2>1, <2>2 DEF Approved
<1>6. OneCartPerPayment'
  BY DEF KioskInv, OneCartPerPayment
<1> QED
  BY <1>1, <1>4, <1>5, <1>6 DEF OrdersArePaid, PaidStages

\* Mounting, the boot of the cart, people, quantities and the dialog's buttons.
LEMMA LocalInv ==
    ASSUME KioskInv,
           \/ MountScreen \/ initializeCart \/ handleQuantityChange
           \/ handleConfirm \/ handleBiometricCancel \/ dialogExited \/ leave \/ arrive
           \/ UNCHANGED vars
    PROVE  KioskInv'
<1> USE DEF PaidStages
<1>1. /\ UNCHANGED <<kiosk, requests, auths, holds, holdRef>> /\ UNCHANGED visit
  BY DEF MountScreen, initializeCart, handleQuantityChange, handleConfirm,
         handleBiometricCancel, dialogExited, leave, arrive, Tap, local, remote, vars, visit
<1>2. /\ cart.id \in Nat /\ cart.items \in Nat /\ kiosk.cartId \in Nat /\ visit \in Nat
      /\ kiosk.stage \in Stages /\ cart \in [id : Nat, items : Nat]
  BY CartType, ContextFields DEF KioskInv, TypeOK
<1>3. InvokedIsOwn' /\ OrdersArePaid' /\ ReceiptIsOwnOrder' /\ OneCartPerPayment'
  BY <1>1, StillMachine DEF Approved
<1>4. OneAuthorizationPerVisit' /\ FlightIsOpen'
  BY <1>1 DEF KioskInv, OneAuthorizationPerVisit, FlightIsOpen, InFlight, LateTap
<1> SUFFICES /\ TypeOK' /\ kiosk'.cartId <= cart'.id
             /\ FlagShowsFlight' /\ OwnPayment' /\ PaidForThisCart'
  BY <1>3, <1>4 DEF KioskInv
<1> USE DEF KioskInv
<1>5. CASE MountScreen
  <2>1. /\ screen' = kiosk.stage /\ dialog' = "closed" /\ authorizing' = FALSE /\ tapped' = FALSE
        /\ screen # kiosk.stage /\ UNCHANGED <<cart, booting, present>>
    BY <1>5 DEF MountScreen
  <2>2. TypeOK'
    BY <1>1, <1>2, <2>1 DEF TypeOK
  <2>3. FlagShowsFlight'
    BY <1>1, <2>1 DEF FlagShowsFlight, InFlight, LateTap
  <2>4. OwnPayment'
    BY <1>1, <2>1 DEF OwnPayment, FlightIsCurrent, ScreenFollowsSale, Undisturbed,
                    InFlight
  <2>5. PaidForThisCart'
    BY <1>1, <2>1 DEF PaidForThisCart
  <2> QED
    BY <1>1, <2>1, <2>2, <2>3, <2>4, <2>5
<1>6. CASE initializeCart
  <2>1. /\ UNCHANGED <<screen, tapped, dialog, authorizing, present>> /\ booting' = FALSE
        /\ cart' = [cart EXCEPT !.id = @ + 1] \/ UNCHANGED cart
    BY <1>6 DEF initializeCart, local
  <2>2. /\ cart' \in [id : Nat, items : Nat] /\ cart'.items = cart.items
        /\ cart'.id = cart.id + 1 \/ cart'.id = cart.id
    BY <1>2, <2>1
  <2>3. TypeOK'
    BY <1>1, <2>1, <2>2 DEF TypeOK
  <2>4. FlagShowsFlight'
    BY <1>1, <2>1 DEF FlagShowsFlight, InFlight, LateTap
  <2>5. OwnPayment'
    BY <1>1, <1>2, <2>1, <2>2, AuthType
       DEF OwnPayment, FlightIsCurrent, ScreenFollowsSale, Undisturbed,
                    InFlight
  <2>6. PaidForThisCart'
    BY <1>1, <1>2, <2>1, <2>2 DEF PaidForThisCart
  <2> QED
    BY <1>1, <1>2, <2>2, <2>3, <2>4, <2>5, <2>6
<1>7. CASE handleQuantityChange
  <2>1. /\ UNCHANGED <<screen, tapped, dialog, authorizing, booting, present>> /\ screen = "CART"
        /\ \E n \in {cart.items - 1, cart.items + 1} : cart' = [cart EXCEPT !.items = n]
        /\ cart.items > 0
    BY <1>7 DEF handleQuantityChange, local, Tap
  <2>2. cart' \in [id : Nat, items : Nat] /\ cart'.id = cart.id
    BY <1>2, <2>1
  <2>3. TypeOK'
    BY <1>1, <2>1, <2>2 DEF TypeOK
  <2>4. FlagShowsFlight'
    BY <1>1, <2>1 DEF FlagShowsFlight, InFlight, LateTap
  <2>5. OwnPayment' /\ PaidForThisCart'
    BY <1>1, <2>1 DEF OwnPayment, FlightIsCurrent, ScreenFollowsSale, Undisturbed,
                    InFlight,
                      PaidForThisCart
  <2> QED
    BY <1>1, <2>2, <2>3, <2>4, <2>5
<1>8. CASE handleConfirm \/ handleBiometricCancel \/ dialogExited
  <2>1. /\ UNCHANGED <<screen, tapped, authorizing, cart, booting, present>>
        /\ dialog' \in {"closed", "open", "exiting"}
    BY <1>8 DEF handleConfirm, handleBiometricCancel, dialogExited, hideDialog, Tap
  <2>2. TypeOK'
    BY <1>1, <2>1 DEF TypeOK
  <2>3. FlagShowsFlight'
    BY <1>1, <2>1 DEF FlagShowsFlight, InFlight, LateTap
  <2>4. OwnPayment'
    BY <1>1, <2>1 DEF OwnPayment, FlightIsCurrent, ScreenFollowsSale, Undisturbed,
                    InFlight
  <2>5. PaidForThisCart'
    BY <1>1, <2>1 DEF PaidForThisCart
  <2> QED
    BY <1>1, <2>1, <2>2, <2>3, <2>4, <2>5
<1>9. CASE leave \/ arrive \/ UNCHANGED vars
  <2>1. UNCHANGED <<screen, tapped, dialog, authorizing, cart, booting>> /\ present' \in BOOLEAN
    BY <1>9 DEF leave, arrive, local, vars, TypeOK
  <2>2. TypeOK'
    BY <1>1, <2>1 DEF TypeOK
  <2>3. FlagShowsFlight'
    BY <1>1, <2>1 DEF FlagShowsFlight, InFlight, LateTap
  <2>4. OwnPayment' /\ PaidForThisCart'
    BY <1>1, <2>1 DEF OwnPayment, FlightIsCurrent, ScreenFollowsSale, Undisturbed,
                    InFlight,
                      PaidForThisCart
  <2> QED
    BY <1>1, <2>1, <2>2, <2>3, <2>4
<1> QED
  BY <1>5, <1>6, <1>7, <1>8, <1>9

\* Replacing an element, if it is there, keeps a sequence's type and length.
LEMMA SeqExcept ==
    ASSUME NEW S, NEW s \in Seq(S), NEW x \in S, NEW i
    PROVE  [s EXCEPT ![i] = x] \in Seq(S) /\ Len([s EXCEPT ![i] = x]) = Len(s)
<1> DEFINE t == [s EXCEPT ![i] = x]
<1>1. Len(s) \in Nat /\ DOMAIN s = 1..Len(s) /\ DOMAIN t = 1..Len(s)
  OBVIOUS
<1>2. \A j \in 1..Len(s) : t[j] \in S
  BY <1>1
<1>3. t = [j \in 1..Len(s) |-> t[j]]
  BY <1>1
<1> HIDE DEF t
<1>4. t \in Seq(S) /\ Len(t) = Len(s)
  BY <1>1, <1>2, <1>3
<1> QED
  BY <1>4 DEF t

\* The press and the release of the override button.
LEMMA EmployeeOverrideInv ==
    ASSUME KioskInv, EmployeeOverride
    PROVE  KioskInv'
<1> DEFINE H == [visit : Nat, on : BOOLEAN]
<1>1. UNCHANGED <<kiosk, screen, tapped, dialog, authorizing, cart, booting, auths, requests, present>>
  BY DEF EmployeeOverride, handleEmployeeHoldStart, handleEmployeeHoldEnd, Tap, remote
<1>2. holds \in Seq(H) /\ Len(holds) \in Nat /\ holdRef \in Seq(Nat) /\ visit \in Nat
  BY CartType DEF KioskInv, TypeOK
<1>3. /\ holds' \in Seq(H) /\ DOMAIN holds \subseteq DOMAIN holds'
      /\ holds' = <<>> => holds = <<>>
      /\ \E r \in Nat : holdRef' = [holdRef EXCEPT ![visit] = r]
  <2>1. CASE handleEmployeeHoldStart
    <3>1. [visit |-> visit, on |-> TRUE] \in H
      BY <1>2
    <3> DEFINE n == [visit |-> visit, on |-> TRUE]
    <3>2. /\ holds' = Append(holds, n)
          /\ holdRef' = [holdRef EXCEPT ![visit] = Len(holds) + 1]
      BY <2>1 DEF handleEmployeeHoldStart
    <3>3. Len(holds) + 1 \in Nat
      BY <1>2
    <3> HIDE DEF n, H
    <3>4. /\ holds' \in Seq(H) /\ holds' # <<>> /\ DOMAIN holds \subseteq DOMAIN holds'
      BY <1>2, <3>1, <3>2 DEF n
    <3> QED
      BY <3>2, <3>3, <3>4
  <2>2. CASE handleEmployeeHoldEnd
    BY <2>2, ClearHoldType DEF handleEmployeeHoldEnd, KioskInv, None
  <2> QED
    BY <2>1, <2>2 DEF EmployeeOverride
<1> HIDE DEF H
<1>4. holdRef' \in Seq(Nat) /\ UNCHANGED visit
  <2>1. PICK r \in Nat : holdRef' = [holdRef EXCEPT ![visit] = r]
    BY <1>3
  <2>2. holdRef' \in Seq(Nat) /\ Len(holdRef') = Len(holdRef)
    BY <1>2, <2>1, SeqExcept
  <2> QED
    BY <2>2 DEF visit
<1>5. \A id \in Nat : Approved(id) => Approved(id)'
  BY <1>1, <1>3 DEF Approved
<1>6. InvokedIsOwn' /\ OrdersArePaid' /\ ReceiptIsOwnOrder' /\ OneCartPerPayment'
  BY <1>1, <1>5, StillMachine
<1>7. TypeOK' /\ kiosk'.cartId <= cart'.id
  BY <1>1, <1>3, <1>4 DEF KioskInv, TypeOK, H
<1>8. FlagShowsFlight'
  BY <1>1, <1>4 DEF KioskInv, FlagShowsFlight, InFlight, LateTap
<1>9. OneAuthorizationPerVisit' /\ FlightIsOpen'
  BY <1>1 DEF KioskInv, OneAuthorizationPerVisit, FlightIsOpen, InFlight, LateTap
<1>10. Undisturbed' => Undisturbed
  BY <1>1, <1>3 DEF Undisturbed
<1>11. OwnPayment'
  BY <1>1, <1>4, <1>10 DEF KioskInv, OwnPayment, FlightIsCurrent, ScreenFollowsSale,
                          InFlight
<1>12. PaidForThisCart'
  BY <1>1, <1>10 DEF KioskInv, PaidForThisCart, Undisturbed
<1> QED
  BY <1>6, <1>7, <1>8, <1>9, <1>11, <1>12 DEF KioskInv

\* A second tap finds the dialog authorizing, so a visit starts one promise.
LEMMA HandleBiometricCompleteInv ==
    ASSUME KioskInv, handleBiometricComplete
    PROVE  KioskInv'
<1> USE DEF PaidStages
<1> DEFINE x == [visit |-> visit, session |-> kiosk.sessionId, cart |-> None,
                 amount |-> cart.items, client |-> "checkout", server |-> "none",
                 late |-> dialog = "exiting" \/ kiosk.stage # "PAYMENT"]
<1>1. /\ UNCHANGED <<kiosk, screen, tapped, dialog, holdRef, holds, cart, booting, requests, present>>
      /\ UNCHANGED visit
      /\ dialog = "exiting" \/ ~authorizing
      /\ authorizing' = TRUE /\ screen = "PAYMENT"
      /\ auths' = Append(auths, x)
  BY DEF handleBiometricComplete, Tap, visit
<1>2. /\ auths \in Seq(Auth) /\ DOMAIN auths = 1..Len(auths) /\ Len(auths) \in Nat
      /\ visit \in Nat /\ cart.items \in Nat /\ kiosk.sessionId \in Nat
  BY CartType, ContextFields DEF KioskInv, TypeOK
<1>3. /\ x \in Auth /\ x.visit = visit /\ x.session = kiosk.sessionId
      /\ x.amount = cart.items /\ x.client = "checkout" /\ x.server = "none"
      /\ x.late <=> (dialog = "exiting" \/ kiosk.stage # "PAYMENT")
  BY <1>2 DEF Auth, None
<1> HIDE DEF x
<1> DEFINE new == Len(auths) + 1
<1>4. /\ auths' \in Seq(Auth) /\ DOMAIN auths' = DOMAIN auths \union {new}
      /\ auths'[new] = x /\ new \notin DOMAIN auths
      /\ \A a \in DOMAIN auths : auths'[a] = auths[a]
  BY <1>1, <1>2, <1>3
<1> HIDE DEF new
<1>5. \A id \in Nat : Approved(id) => Approved(id)'
  BY <1>1, <1>4 DEF Approved
<1>6. InvokedIsOwn' /\ OrdersArePaid' /\ ReceiptIsOwnOrder' /\ OneCartPerPayment'
  BY <1>1, <1>5, StillMachine
<1>7. TypeOK' /\ kiosk'.cartId <= cart'.id
  BY <1>1, <1>4 DEF KioskInv, TypeOK
<1>15. ASSUME NEW v, LateTap(v) PROVE LateTap(v)'
  <2>1. PICK b \in DOMAIN auths : auths[b].visit = v /\ auths[b].late
    BY <1>15 DEF LateTap
  <2>2. b \in DOMAIN auths' /\ auths'[b].visit = v /\ auths'[b].late
    BY <1>4, <2>1
  <2> QED
    BY <2>2 DEF LateTap
<1>16. x.late => LateTap(visit)'
  BY <1>1, <1>3, <1>4 DEF LateTap
<1>8. \A a \in DOMAIN auths : auths[a].visit = visit /\ InFlight(a) => LateTap(visit)'
  <2> TAKE a \in DOMAIN auths
  <2> SUFFICES ASSUME auths[a].visit = visit, InFlight(a), ~x.late PROVE LateTap(visit)'
    BY <1>16
  <2>1. ~authorizing
    BY <1>1, <1>3
  <2>2. LateTap(visit)
    BY <1>1, <2>1 DEF KioskInv, FlagShowsFlight
  <2> QED
    BY <1>1, <1>15, <2>2
<1>9. FlightIsOpen'
  BY <1>3, <1>4 DEF KioskInv, FlightIsOpen, InFlight
<1>10. OneAuthorizationPerVisit'
  <2> SUFFICES ASSUME NEW a \in DOMAIN auths', NEW b \in DOMAIN auths', a # b,
                      auths'[a].visit = auths'[b].visit,
                      auths'[a].client # "done", auths'[b].client # "done"
               PROVE  LateTap(auths[a].visit)'
    BY DEF OneAuthorizationPerVisit
  <2>1. CASE a \in DOMAIN auths /\ b \in DOMAIN auths
    <3>1. LateTap(auths[a].visit)
      BY <2>1, <1>4 DEF KioskInv, OneAuthorizationPerVisit
    <3> QED
      BY <2>1, <3>1, <1>4, <1>15
  <2>2. CASE a = new \/ b = new
    <3>1. auths'[a].visit = visit' /\ LateTap(visit)'
      BY <2>2, <1>1, <1>3, <1>4, <1>8 DEF InFlight
    <3> QED
      BY <3>1
  <2> QED
    BY <2>1, <2>2, <1>4
<1>11. FlagShowsFlight'
  BY <1>1, <1>2, <1>3, <1>4 DEF KioskInv, FlagShowsFlight, InFlight, LateTap
<1>12. Undisturbed' => Undisturbed /\ kiosk.stage = "PAYMENT"
  BY <1>1, <1>3, <1>4 DEF Undisturbed
<1>13. OwnPayment'
  BY <1>1, <1>3, <1>4, <1>12 DEF KioskInv, OwnPayment, FlightIsCurrent,
                                  ScreenFollowsSale, Undisturbed,
                    InFlight
<1>14. PaidForThisCart'
  BY <1>1, <1>12 DEF PaidForThisCart, Undisturbed
<1> QED
  BY <1>6, <1>7, <1>9, <1>10, <1>11, <1>13, <1>14 DEF KioskInv

LEMMA CheckedOutInv ==
    ASSUME KioskInv, NEW a \in DOMAIN auths, checkedOut(a)
    PROVE  KioskInv'
<1> USE DEF PaidStages
<1> DEFINE x == [auths[a] EXCEPT !.client = "pay", !.server = "pending", !.cart = cart.id]
<1>1. /\ UNCHANGED <<kiosk, screen, tapped, dialog, authorizing, holdRef, holds, cart, booting,
                     requests, present>>
      /\ UNCHANGED visit /\ InFlight(a) /\ auths' = [auths EXCEPT ![a] = x]
  BY DEF checkedOut, local, visit, InFlight
<1>2. /\ auths \in Seq(Auth) /\ auths[a] \in Auth /\ cart.id \in Nat
      /\ kiosk.cartId <= cart.id
  BY CartType, AuthType DEF KioskInv, TypeOK
<1>3. /\ x \in Auth /\ x.visit = auths[a].visit /\ x.session = auths[a].session
      /\ x.amount = auths[a].amount /\ x.client = "pay" /\ x.server = "pending"
      /\ x.cart = cart.id /\ x.late = auths[a].late
  BY <1>2 DEF Auth
<1> HIDE DEF x
<1>4. /\ auths' \in Seq(Auth) /\ DOMAIN auths' = DOMAIN auths /\ auths'[a] = x
      /\ \A b \in DOMAIN auths : b # a => auths'[b] = auths[b]
  BY <1>1, <1>2, <1>3
<1>5. \A b \in DOMAIN auths : /\ InFlight(b)' <=> InFlight(b)
                              /\ auths'[b].visit = auths[b].visit
                              /\ auths'[b].late = auths[b].late
  BY <1>1, <1>3, <1>4 DEF InFlight
<1>15. \A v : LateTap(v)' <=> LateTap(v)
  BY <1>4, <1>5 DEF LateTap
<1>16. Undisturbed' => Undisturbed
  BY <1>1, <1>4, <1>5 DEF Undisturbed
<1>6. \A id \in Nat : Approved(id) => Approved(id)'
  BY <1>1, <1>4 DEF Approved, KioskInv, FlightIsOpen
<1>7. InvokedIsOwn' /\ OrdersArePaid' /\ ReceiptIsOwnOrder' /\ OneCartPerPayment'
  BY <1>1, <1>6, StillMachine
<1>8. TypeOK' /\ kiosk'.cartId <= cart'.id
  BY <1>1, <1>4 DEF KioskInv, TypeOK
<1>9. FlightIsOpen'
  BY <1>3, <1>4 DEF KioskInv, FlightIsOpen, InFlight
<1>10. OneAuthorizationPerVisit'
  BY <1>4, <1>5, <1>15 DEF KioskInv, OneAuthorizationPerVisit, InFlight
<1>11. FlagShowsFlight'
  BY <1>1, <1>4, <1>5, <1>15 DEF KioskInv, FlagShowsFlight
<1>12. Undisturbed => kiosk.stage = "PAYMENT"
  BY <1>1 DEF KioskInv, OwnPayment, FlightIsCurrent
<1>13. OwnPayment'
  <2> SUFFICES ASSUME Undisturbed PROVE FlightIsCurrent' /\ ScreenFollowsSale'
    BY <1>16 DEF OwnPayment
  <2>1. ScreenFollowsSale'
    BY <1>1 DEF KioskInv, OwnPayment, ScreenFollowsSale
  <2>2. FlightIsCurrent'
    BY <1>1, <1>2, <1>3, <1>4, <1>5 DEF KioskInv, OwnPayment, FlightIsCurrent
  <2> QED
    BY <2>1, <2>2
<1>14. PaidForThisCart'
  BY <1>1, <1>12, <1>16 DEF PaidForThisCart, Undisturbed
<1> QED
  BY <1>7, <1>8, <1>9, <1>10, <1>11, <1>13, <1>14 DEF KioskInv

-----------------------------------------------------------------------------
(* The theorems *)

LEMMA KioskInitInv == Init => KioskInv
<1> SUFFICES ASSUME Init PROVE KioskInv
  OBVIOUS
<1>1. TypeOK /\ kiosk.cartId <= cart.id
  <2>1. kiosk \in KioskContext /\ kiosk.cartId = 1 /\ cart.id = 1
    BY DEF Init, KioskContext, Stages, None
  <2>2. /\ holdRef \in Seq(Nat) /\ holds \in Seq([visit : Nat, on : BOOLEAN])
        /\ auths \in Seq(Auth) /\ requests \in Seq(Request)
    BY DEF Init
  <2>3. /\ screen \in Stages /\ tapped \in BOOLEAN
        /\ dialog \in {"closed", "open", "exiting"} /\ authorizing \in BOOLEAN
        /\ cart \in [id : Nat, items : Nat] /\ booting \in BOOLEAN /\ present \in BOOLEAN
    BY DEF Init, Stages
  <2> QED
    BY <2>1, <2>2, <2>3 DEF TypeOK
<1>2. InvokedIsOwn /\ ReceiptIsOwnOrder
  BY DEF Init, InvokedIsOwn, ReceiptIsOwnOrder
<1>3. OrdersArePaid
  BY DEF Init, OrdersArePaid
<1>4. FlightIsOpen /\ FlagShowsFlight /\ OneAuthorizationPerVisit
  BY DEF Init, FlightIsOpen, FlagShowsFlight, OneAuthorizationPerVisit
<1>5. OwnPayment /\ PaidForThisCart
  BY DEF Init, OwnPayment, PaidForThisCart, FlightIsCurrent, ScreenFollowsSale, PaidStages
<1>6. OneCartPerPayment
  BY DEF Init, OneCartPerPayment, PaidStages
<1> QED
  BY <1>1, <1>2, <1>3, <1>4, <1>5, <1>6 DEF KioskInv

LEMMA KioskNextInv == KioskInv /\ [Next]_vars => KioskInv'
<1> SUFFICES ASSUME KioskInv, [Next]_vars PROVE KioskInv'
  OBVIOUS
<1>1. CASE \/ SelectLanguage \/ MenuScreen \/ ItemModal \/ handleItemTap \/ handleBack
           \/ ProcessingScreen \/ ReceiptScreen \/ idleReclaim
  BY <1>1, TapsInv
<1>2. CASE \/ MountScreen \/ initializeCart \/ handleQuantityChange \/ handleConfirm
           \/ handleBiometricCancel \/ dialogExited \/ leave \/ arrive \/ UNCHANGED vars
  BY <1>2, LocalInv
<1>3. CASE AttractScreen
  BY <1>3, BeginSessionInv DEF AttractScreen
<1>4. CASE handlePay
  BY <1>4, HandlePayInv
<1>5. CASE EmployeeOverride
  BY <1>5, EmployeeOverrideInv
<1>6. CASE handleBiometricComplete
  BY <1>6, HandleBiometricCompleteInv
<1>7. CASE PaymentCallbacks
  BY <1>7, CheckedOutInv, PaymentFailedInv, PaymentAnsweredInv, EmployeeHoldFiresInv
     DEF PaymentCallbacks
<1>8. CASE OrderAnswers
  BY <1>8, OrderAnswersInv
<1> QED
  BY <1>1, <1>2, <1>3, <1>4, <1>5, <1>6, <1>7, <1>8
     DEF Next, CartLines, CartActions, PaymentAuthScreen, BiometricDialog, KioskShell, People

\* The inductive invariant holds of every behaviour of the kiosk shell.
THEOREM KioskInvariant == Spec => []KioskInv
  BY KioskInitInv, KioskNextInv, PTL DEF Spec

\* The machine's context, the screens and the calls stay within their types.
THEOREM KioskTypeCorrect == Spec => []TypeOK
<1>1. KioskInv => TypeOK
  BY DEF KioskInv
<1> QED
  BY <1>1, KioskInvariant, PTL

(***************************************************************************)
(* kioskMachine never finalizes an order, and never sends createOrder, for *)
(* a payment that was declined or never made: for any number of visits and *)
(* payments, and however late their answers come.                          *)
(***************************************************************************)
THEOREM NoUnpaidOrder == Spec => []OrdersArePaid
<1>1. KioskInv => OrdersArePaid
  BY DEF KioskInv
<1> QED
  BY <1>1, KioskInvariant, PTL

(***************************************************************************)
(* The receipt shows the order that was made from this session's cart and  *)
(* payment, whatever was retried or cancelled before.                      *)
(***************************************************************************)
THEOREM ReceiptShowsOwnOrder == Spec => []ReceiptIsOwnOrder
<1>1. KioskInv => ReceiptIsOwnOrder
  BY DEF KioskInv
<1> QED
  BY <1>1, KioskInvariant, PTL

(***************************************************************************)
(* A visit of the payment screen has two promises in flight only after a   *)
(* tap on Authorize during a fade: otherwise the flag stops the second tap *)
(* although a promise outlives the screen that keeps the flag.             *)
(***************************************************************************)
THEOREM OneChargeAtATime == Spec => []OneAuthorizationPerVisit
<1>1. KioskInv => OneAuthorizationPerVisit
  BY DEF KioskInv
<1> QED
  BY <1>1, KioskInvariant, PTL

(***************************************************************************)
(* Without the override, and without a tap on Authorize during a fade, an  *)
(* order is finalized with a card payment of this session, for what the    *)
(* cart still holds, on the cart it names.                                 *)
(***************************************************************************)
THEOREM CardPaidForThisCart == Spec => []PaidForThisCart
<1>1. KioskInv => PaidForThisCart
  BY DEF KioskInv
<1> QED
  BY <1>1, KioskInvariant, PTL

(***************************************************************************)
(* All order requests made on one card payment name one cart, however the  *)
(* promises of the payment screen overlap and however often RETRY is sent. *)
(***************************************************************************)
THEOREM OnePaymentOneCart == Spec => []PaymentBuysOneCart
<1>1. KioskInv => PaymentBuysOneCart
  <2> SUFFICES ASSUME KioskInv PROVE PaymentBuysOneCart
    OBVIOUS
  <2>1. DOMAIN auths \subseteq Nat
    BY CartType DEF KioskInv
  <2> QED
    BY <2>1 DEF KioskInv, OneCartPerPayment, PaymentBuysOneCart
<1> QED
  BY <1>1, KioskInvariant, PTL
=============================================================================
