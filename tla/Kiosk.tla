------------------------------- MODULE Kiosk --------------------------------
(***************************************************************************)
(* The kiosk shell (apps/kiosk): the session state machine of              *)
(* machines/kioskMachine.ts, the screens that feed it events, the idle     *)
(* reclaim, and the promises and timers that outlive the screen that       *)
(* started them.                                                           *)
(*                                                                         *)
(* WorkflowRouter keeps the old screen mounted while it fades out, so the  *)
(* screen that takes the taps lags the machine's stage: that is `screen`.  *)
(* A tap on a fading screen still reaches its handler.  The dialog of the  *)
(* payment screen fades out the same way, as it was last drawn: its        *)
(* buttons then hold the values of that render.                            *)
(*                                                                         *)
(* Identifiers drawn at random (cart, session, authorization) are numbers  *)
(* not used before.  A cart is its number of items; the payment and order  *)
(* APIs are external and may do anything the kiosk's calls allow.          *)
(***************************************************************************)
EXTENDS Naturals, Sequences, FiniteSets

CONSTANTS
    UseRemote,       \* production build: federated MenuApp and CartApp
    AllowSimulated,  \* VITE_ASTRA_ALLOW_SIMULATED_PAYMENT
    MaxSessions,     \* bound on taps of the attract screen
    MaxVisits,       \* bound on visits of the payment screen
    MaxPayments,     \* bound on card authorizations and override presses
    MaxRequests,     \* bound on the order requests RETRY may add to
    MaxItems         \* bound on the items of a cart

ASSUME KioskConstants ==
    /\ UseRemote \in BOOLEAN /\ AllowSimulated \in BOOLEAN
    /\ MaxSessions \in Nat /\ MaxVisits \in Nat /\ MaxPayments \in Nat
    /\ MaxRequests \in Nat /\ MaxItems \in Nat

VARIABLES
    kiosk,     \* the machine: its stage and context
    screen,    \* stage whose screen is mounted
    tapped,    \* tapHandledRef of the mounted attract screen
    dialog,    \* payment screen's dialog: "closed", "open" or "exiting"
    authorizing,  \* payment screen's flag
    holdRef,   \* employeeHoldRef.current of each visit of the payment screen
    holds,     \* [visit, on]: the override's intervals, by creation
    cart,      \* cartProxy: [id, items]
    booting,   \* initializeCart's createCart has not answered yet
    auths,     \* authorizations started by the payment screen
    requests,  \* createOrder requests, by invocation of finalizeOrder
    present    \* somebody interacts with the kiosk

vars == <<kiosk, screen, tapped, dialog, authorizing, holdRef, holds, cart, booting,
          auths, requests, present>>

None == 0

Stages == {"LANGUAGE_SELECT", "ATTRACT", "MENU", "ITEM_DETAIL", "CART",
           "PAYMENT", "PROCESSING", "PROCESSING_ERROR", "RECEIPT", "ADMIN"}

KioskContext ==
    [stage : Stages, sessionId : Nat, selectedItem : BOOLEAN,
     cartHasItems : BOOLEAN, paymentResult : Nat, order : Nat,
     cartId : Nat, invoked : Nat]

PaymentStatus == {"captured", "declined"}

\* client: where handleBiometricComplete is; server: what it was told of the
\* charge ("pending" when it gave up: nobody knows whether it was made).
\* late is history: the tap was on a dialog or a screen on its way out.
Auth == [visit : Nat, session : Nat, cart : Nat, amount : Nat, late : BOOLEAN,
         client : {"checkout", "pay", "done"},
         server : {"none", "pending"} \union PaymentStatus]

\* A request that failed may have been carried out or not.
Request == [payment : Nat, cart : Nat]

-----------------------------------------------------------------------------
(* Authorization ids: a card payment's, a simulated one's (drawn when the  *)
(* payment API fails) and an employee override's never coincide.           *)
CardId(a) == 3 * a
SimulatedId(a) == 3 * a + 1
OverrideId(h) == 3 * h + 2

Event(type, id, status) == [type |-> type, id |-> id, status |-> status]

Simple(type) == Event(type, None, "none")

\* Mutant: any result counts as approved.
isApprovedResultAny(e) == TRUE

isApprovedResult(e) == e.status \in {"authorized", "captured", "queued_offline"}

isDeclinedResult(e) == e.status = "declined"

-----------------------------------------------------------------------------
(* The machine: one operator per state gives the machine after an event.   *)

Goto(k, stage) == [k EXCEPT !.stage = stage]

resetContext(k, cartId) ==
    [k EXCEPT !.sessionId = None, !.selectedItem = FALSE,
              !.cartHasItems = FALSE, !.paymentResult = None, !.order = None,
              !.cartId = cartId]

ReturnToAttract(k, cartId) == Goto(resetContext(k, cartId), "ATTRACT")

OnLanguageSelect(k, e) ==
    IF e.type = "SET_LANGUAGE" THEN Goto(k, "ATTRACT") ELSE k

assignSession(k, e, cartId) ==
    [k EXCEPT !.sessionId = e.id, !.cartId = cartId]

OnAttract(k, e, cartId) ==
    CASE e.type \in {"START_SESSION", "TAP_START"} ->
           Goto(assignSession(k, e, cartId), "MENU")
      [] e.type = "OPEN_ADMIN" -> Goto(k, "ADMIN")
      [] OTHER -> k

OnMenu(k, e, cartId) ==
    CASE e.type = "SELECT_ITEM" ->
           Goto([k EXCEPT !.selectedItem = TRUE], "ITEM_DETAIL")
      [] e.type = "GO_TO_CART" /\ k.cartHasItems -> Goto(k, "CART")
      [] e.type = "CART_UPDATED" -> [k EXCEPT !.cartHasItems = (e.status = "items")]
      [] e.type = "RETURN_TO_ATTRACT" -> ReturnToAttract(k, cartId)
      [] e.type = "OPEN_ADMIN" -> Goto(k, "ADMIN")
      [] OTHER -> k

OnItemDetail(k, e, cartId) ==
    CASE e.type = "CLOSE_ITEM_DETAIL" ->
           Goto([k EXCEPT !.selectedItem = FALSE], "MENU")
      [] e.type = "ADD_TO_CART" ->
           Goto([k EXCEPT !.selectedItem = FALSE, !.cartHasItems = TRUE], "MENU")
      [] e.type = "RETURN_TO_ATTRACT" -> ReturnToAttract(k, cartId)
      [] e.type = "OPEN_ADMIN" -> Goto(k, "ADMIN")
      [] OTHER -> k

OnCart(k, e, cartId) ==
    CASE e.type = "BACK_TO_MENU" -> Goto(k, "MENU")
      [] e.type = "PROCEED_TO_PAYMENT" /\ k.cartHasItems ->
           Goto(k, "PAYMENT")
      [] e.type = "RETURN_TO_ATTRACT" -> ReturnToAttract(k, cartId)
      [] e.type = "OPEN_ADMIN" -> Goto(k, "ADMIN")
      [] OTHER -> k

OnPayment(k, e, cartId) ==
    CASE e.type = "PAYMENT_AUTHORIZED" /\ isApprovedResult(e) ->
           Goto([k EXCEPT !.paymentResult = e.id], "PROCESSING")
      [] \/ e.type = "PAYMENT_DECLINED" /\ isDeclinedResult(e)
         \/ e.type = "PAYMENT_FAILED" ->
           Goto(k, "CART")
      [] e.type = "CANCEL_PAYMENT" -> Goto(k, "CART")
      [] e.type = "RETURN_TO_ATTRACT" -> ReturnToAttract(k, cartId)
      [] e.type = "OPEN_ADMIN" -> Goto(k, "ADMIN")
      [] OTHER -> k

\* DONE and ERROR are the invoked promise's own events.
OnProcessing(k, e, cartId) ==
    CASE e.type = "DONE" -> Goto([k EXCEPT !.order = e.id], "RECEIPT")
      [] e.type = "ERROR" -> Goto(k, "PROCESSING_ERROR")
      [] e.type = "RETURN_TO_ATTRACT" -> ReturnToAttract(k, cartId)
      [] OTHER -> k

\* CANCEL_PAYMENT keeps the payment result.
OnProcessingError(k, e, cartId) ==
    CASE e.type = "RETRY" -> Goto(k, "PROCESSING")
      [] e.type = "CANCEL_PAYMENT" -> Goto(k, "CART")
      [] e.type = "RETURN_TO_ATTRACT" -> ReturnToAttract(k, cartId)
      [] e.type = "OPEN_ADMIN" -> Goto(k, "ADMIN")
      [] OTHER -> k

OnReceipt(k, e, cartId) ==
    CASE e.type \in {"RECEIPT_ACKNOWLEDGED", "RETURN_TO_ATTRACT"} ->
           ReturnToAttract(k, cartId)
      [] e.type = "OPEN_ADMIN" -> Goto(k, "ADMIN")
      [] OTHER -> k

OnAdmin(k, e, cartId) ==
    IF e.type \in {"CLOSE_ADMIN", "RETURN_TO_ATTRACT"}
    THEN ReturnToAttract(k, cartId) ELSE k

Receive(k, e, cartId) ==
    CASE k.stage = "LANGUAGE_SELECT"  -> OnLanguageSelect(k, e)
      [] k.stage = "ATTRACT"          -> OnAttract(k, e, cartId)
      [] k.stage = "MENU"             -> OnMenu(k, e, cartId)
      [] k.stage = "ITEM_DETAIL"      -> OnItemDetail(k, e, cartId)
      [] k.stage = "CART"             -> OnCart(k, e, cartId)
      [] k.stage = "PAYMENT"          -> OnPayment(k, e, cartId)
      [] k.stage = "PROCESSING"       -> OnProcessing(k, e, cartId)
      [] k.stage = "PROCESSING_ERROR" -> OnProcessingError(k, e, cartId)
      [] k.stage = "RECEIPT"          -> OnReceipt(k, e, cartId)
      [] k.stage = "ADMIN"            -> OnAdmin(k, e, cartId)

\* Mutant: the cart of the proxy instead of the context's.
finalizeOrderLive(k) == [payment |-> k.paymentResult, cart |-> cart.id]

(* Entering PROCESSING invokes finalizeOrder, which sends createOrder with *)
(* the context's cart; leaving it stops the actor, whose answer is then    *)
(* dropped.                                                                *)
finalizeOrder(k) == [payment |-> k.paymentResult, cart |-> k.cartId]

Send(e, cartId) ==
    LET k == Receive(kiosk, e, cartId)
        enters == k.stage = "PROCESSING" /\ kiosk.stage # "PROCESSING"
        leaves == k.stage # "PROCESSING"
    IN  /\ kiosk' = [k EXCEPT !.invoked = CASE enters -> Len(requests) + 1
                                            [] leaves -> None
                                            [] OTHER -> k.invoked]
        /\ requests' = IF enters THEN Append(requests, finalizeOrder(k)) ELSE requests

-----------------------------------------------------------------------------
Init ==
    /\ kiosk = [stage |-> "LANGUAGE_SELECT", sessionId |-> None,
                selectedItem |-> FALSE, cartHasItems |-> FALSE,
                paymentResult |-> None, order |-> None,
                cartId |-> 1, invoked |-> None]
    /\ screen = "LANGUAGE_SELECT"
    /\ tapped = FALSE
    /\ dialog = "closed" /\ authorizing = FALSE
    /\ holdRef = <<>>
    /\ holds = <<>>
    /\ cart = [id |-> 1, items |-> 0]
    /\ booting = TRUE
    /\ auths = <<>>
    /\ requests = <<>>
    /\ present = TRUE

\* A tap needs somebody there.
Tap == present /\ UNCHANGED present

local == <<screen, tapped, dialog, authorizing, holdRef, holds>>   \* what the screens keep

remote == <<auths, requests>>                         \* what the APIs know

-----------------------------------------------------------------------------
(* WorkflowRouter: once the old screen has faded out the stage's own one   *)
(* mounts, with fresh local state.  Timers of the old one it did not clear *)
(* go on.                                                                  *)
MountScreen ==
    /\ screen # kiosk.stage
    /\ screen' = kiosk.stage
    /\ tapped' = FALSE
    /\ dialog' = "closed" /\ authorizing' = FALSE
    /\ UNCHANGED <<kiosk, holdRef, holds, cart, booting, remote, present>>

SelectLanguage ==
    /\ Tap /\ screen = "LANGUAGE_SELECT"
    /\ Send(Simple("SET_LANGUAGE"), cart.id)
    /\ UNCHANGED <<local, cart, booting, auths>>

(* AttractScreen: also what is shown for PROCESSING_ERROR.  The tap resets *)
(* the local cart before the machine decides about START_SESSION.          *)
fresh == cart.id + 2

beginSession ==
    /\ Tap /\ screen \in {"ATTRACT", "PROCESSING_ERROR"}
    /\ ~tapped /\ cart.id < 2 * MaxSessions
    /\ tapped' = TRUE
    /\ cart' = [id |-> fresh, items |-> 0]
    /\ Send(Event("START_SESSION", fresh, "none"), fresh)
    /\ UNCHANGED <<screen, dialog, authorizing, holdRef, holds, booting, auths>>

(* CartService.initializeCart: the server's cart id replaces the local one *)
(* whenever the answer comes.                                              *)
initializeCart ==
    /\ booting
    /\ booting' = FALSE
    /\ \/ cart' = [cart EXCEPT !.id = @ + 1]
       \/ UNCHANGED cart
    /\ UNCHANGED <<kiosk, local, remote, present>>

-----------------------------------------------------------------------------
(* Menu, item and cart screens. *)
handleItemClick ==
    /\ Tap /\ screen \in {"MENU", "ITEM_DETAIL"} /\ kiosk.stage = "MENU"
    /\ Send(Simple("SELECT_ITEM"), cart.id)
    /\ UNCHANGED <<local, cart, booting, auths>>

\* The modal is mounted with the stage, outside the fading part.
handleAdd ==
    /\ Tap /\ kiosk.stage = "ITEM_DETAIL" /\ cart.items < MaxItems
    /\ cart' = [cart EXCEPT !.items = @ + 1]
    /\ Send(Simple("ADD_TO_CART"), cart.id)
    /\ UNCHANGED <<local, booting, auths>>

handleClose ==
    /\ Tap /\ kiosk.stage = "ITEM_DETAIL"
    /\ Send(Simple("CLOSE_ITEM_DETAIL"), cart.id)
    /\ UNCHANGED <<local, cart, booting, auths>>

\* The summary with its button is shown over a cart that is not empty.
handleGoToCart ==
    /\ Tap /\ screen \in {"MENU", "ITEM_DETAIL"} /\ kiosk.stage = "MENU"
    /\ ~UseRemote /\ cart.items > 0
    /\ Send(Simple("GO_TO_CART"), cart.id)
    /\ UNCHANGED <<local, cart, booting, auths>>

\* "Tap to edit": the machine takes SELECT_ITEM only once it is on the menu
\* again, while this screen fades out.
handleItemTap ==
    /\ Tap /\ screen = "CART" /\ cart.items > 0
    /\ Send(Simple("SELECT_ITEM"), cart.id)
    /\ UNCHANGED <<local, cart, booting, auths>>

\* Removing the last item does not clear cartHasItems.
handleQuantityChange ==
    /\ Tap /\ screen = "CART" /\ cart.items > 0
    /\ \E n \in {cart.items - 1, cart.items + 1} :
         n <= MaxItems /\ cart' = [cart EXCEPT !.items = n]
    /\ UNCHANGED <<kiosk, local, booting, remote>>

handleBack ==
    /\ Tap /\ screen = "CART" /\ kiosk.stage = "CART"
    /\ Send(Simple("BACK_TO_MENU"), cart.id)
    /\ UNCHANGED <<local, cart, booting, auths>>

handlePay ==
    /\ Tap /\ screen = "CART" /\ kiosk.stage = "CART"
    /\ Len(holdRef) < MaxVisits
    /\ holdRef' = Append(holdRef, None)
    /\ Send(Simple("PROCEED_TO_PAYMENT"), cart.id)
    /\ UNCHANGED <<screen, tapped, dialog, authorizing, holds, cart, booting, auths>>

-----------------------------------------------------------------------------
(* PaymentAuthScreen. *)
visit == Len(holdRef)

MorePayments == Len(auths) + Len(holds) < MaxPayments

\* Shown again, a dialog on its way out is live again.
handleConfirm ==
    /\ Tap /\ screen = "PAYMENT" /\ dialog # "open"
    /\ dialog' = "open"
    /\ UNCHANGED <<kiosk, screen, tapped, authorizing, holdRef, holds, cart, booting,
                   remote>>

(* setShowBiometric(false): AnimatePresence keeps the dialog for its exit, *)
(* as it was last drawn.  If that was while authorizing, its buttons are   *)
(* disabled, and it might as well be gone.                                 *)
hideDialog ==
    IF dialog = "open" THEN IF authorizing THEN "closed" ELSE "exiting" ELSE dialog

\* Mutant: the promise is given up while it is under way.
handleBiometricCancelForgets ==
    /\ Tap /\ screen = "PAYMENT" /\ dialog = "open"
    /\ dialog' = hideDialog /\ authorizing' = FALSE
    /\ UNCHANGED <<kiosk, screen, tapped, holdRef, holds, cart, booting, remote>>

handleBiometricCancel ==
    /\ Tap /\ screen = "PAYMENT" /\ dialog = "open" /\ ~authorizing
    /\ dialog' = hideDialog
    /\ UNCHANGED <<kiosk, screen, tapped, authorizing, holdRef, holds, cart, booting,
                   remote>>

dialogExited ==
    /\ dialog = "exiting"
    /\ dialog' = "closed"
    /\ UNCHANGED <<kiosk, screen, tapped, authorizing, holdRef, holds, cart, booting,
                   remote, present>>

\* Mutant: the authorizing flag is not looked at.
handleBiometricCompleteTwice ==
    /\ Tap /\ screen = "PAYMENT" /\ dialog # "closed" /\ MorePayments
    /\ authorizing' = TRUE
    /\ auths' = Append(auths,
                  [visit |-> visit, session |-> kiosk.sessionId, cart |-> None,
                   amount |-> cart.items, client |-> "checkout", server |-> "none",
                   late |-> dialog = "exiting" \/ kiosk.stage # "PAYMENT"])
    /\ UNCHANGED <<kiosk, screen, tapped, dialog, holdRef, holds, cart, booting, requests>>

(* The flag and the total are those of the render the tapped button is of: *)
(* of an exiting dialog, one that was not authorizing.  The items cannot   *)
(* change while this screen is mounted.                                    *)
handleBiometricComplete ==
    /\ Tap /\ screen = "PAYMENT" /\ MorePayments
    /\ dialog = "exiting" \/ (dialog = "open" /\ ~authorizing)
    /\ authorizing' = TRUE
    /\ auths' = Append(auths,
                  [visit |-> visit, session |-> kiosk.sessionId, cart |-> None,
                   amount |-> cart.items, client |-> "checkout", server |-> "none",
                   late |-> dialog = "exiting" \/ kiosk.stage # "PAYMENT"])
    /\ UNCHANGED <<kiosk, screen, tapped, dialog, holdRef, holds, cart, booting, requests>>

\* checkoutCart answered: processPayment names the cart of that moment.
checkedOut(a) ==
    /\ auths[a].client = "checkout"
    /\ auths' = [auths EXCEPT ![a].client = "pay", ![a].server = "pending",
                              ![a].cart = cart.id]
    /\ UNCHANGED <<kiosk, local, cart, booting, requests, present>>

\* A promise that ends hides the dialog and clears the flag of its own visit's
\* screen, whatever other promise of that visit is under way.
settleDialog(a) ==
    IF screen = "PAYMENT" /\ auths[a].visit = visit
    THEN dialog' = hideDialog /\ authorizing' = FALSE
    ELSE UNCHANGED <<dialog, authorizing>>

\* The promise goes on after its screen is gone and sends its event then.
paymentAnswered(a, status) ==
    /\ auths[a].client = "pay"
    /\ auths' = [auths EXCEPT ![a].client = "done", ![a].server = status]
    /\ settleDialog(a)
    /\ Send(Event("PAYMENT_AUTHORIZED", CardId(a), status), cart.id)
    /\ UNCHANGED <<screen, tapped, holdRef, holds, cart, booting, present>>

\* A failed or timed out call; the charge may have been made all the same.
paymentFailed(a) ==
    /\ auths[a].client # "done"
    /\ auths' = [auths EXCEPT ![a].client = "done"]
    /\ settleDialog(a)
    /\ Send(IF AllowSimulated
            THEN Event("PAYMENT_AUTHORIZED", SimulatedId(a), "authorized")
            ELSE Simple("PAYMENT_FAILED"), cart.id)
    /\ UNCHANGED <<screen, tapped, holdRef, holds, cart, booting, present>>

(* The employee override: an interval per press.  A second finger starts   *)
(* another one and forgets the first; unmounting stops none.               *)
handleEmployeeHoldStart ==
    /\ Tap /\ screen = "PAYMENT" /\ MorePayments
    /\ holds' = Append(holds, [visit |-> visit, on |-> TRUE])
    /\ holdRef' = [holdRef EXCEPT ![visit] = Len(holds) + 1]
    /\ UNCHANGED <<kiosk, screen, tapped, dialog, authorizing, cart, booting, remote>>

\* clearInterval of what the visit's ref holds.
clearHold(v) ==
    [h \in DOMAIN holds |-> IF h = holdRef[v] THEN [holds[h] EXCEPT !.on = FALSE]
                            ELSE holds[h]]

handleEmployeeHoldEnd ==
    /\ Tap /\ screen = "PAYMENT" /\ holdRef[visit] # None
    /\ holds' = clearHold(visit)
    /\ holdRef' = [holdRef EXCEPT ![visit] = None]
    /\ UNCHANGED <<kiosk, screen, tapped, dialog, authorizing, cart, booting, remote>>

employeeHoldFires(h) ==
    /\ holds[h].on
    /\ holds' = clearHold(holds[h].visit)
    /\ Send(Event("PAYMENT_AUTHORIZED", OverrideId(h), "authorized"), cart.id)
    /\ UNCHANGED <<screen, tapped, dialog, authorizing, holdRef, cart, booting,
                   auths, present>>

-----------------------------------------------------------------------------
(* Order creation and the screens after it. *)
\* Mutant: the answer of an actor that was stopped is taken as well.
finalizeDoneStopped(i) ==
    /\ kiosk.stage = "PROCESSING"
    /\ Send(Event("DONE", i, "none"), cart.id)
    /\ UNCHANGED <<local, cart, booting, auths, present>>

\* The promise the machine waits for: an answer of a stopped actor is dropped.
finalizeDone(i) ==
    /\ kiosk.invoked = i
    /\ Send(Event("DONE", i, "none"), cart.id)
    /\ UNCHANGED <<local, cart, booting, auths, present>>

finalizeError(i) ==
    /\ kiosk.invoked = i
    /\ Send(Simple("ERROR"), cart.id)
    /\ UNCHANGED <<local, cart, booting, auths, present>>

\* The error buttons are drawn by the processing screen, while it fades out.
retryOrder ==
    /\ Tap /\ screen = "PROCESSING" /\ kiosk.stage = "PROCESSING_ERROR"
    /\ Len(requests) < MaxRequests
    /\ Send(Simple("RETRY"), cart.id)
    /\ UNCHANGED <<local, cart, booting, auths>>

handleCancel ==
    /\ Tap /\ screen = "PROCESSING" /\ kiosk.stage = "PROCESSING_ERROR"
    /\ Send(Simple("CANCEL_PAYMENT"), cart.id)
    /\ UNCHANGED <<local, cart, booting, auths>>

\* Mutant: no return timer, only the button.
handleStartNewOrderByHand ==
    /\ Tap /\ screen = "RECEIPT" /\ kiosk.stage = "RECEIPT"
    /\ Send(Simple("RECEIPT_ACKNOWLEDGED"), cart.id)
    /\ UNCHANGED <<local, cart, booting, auths>>

\* The return timer of the mounted receipt, or its button.
handleStartNewOrder ==
    /\ screen = "RECEIPT" /\ kiosk.stage = "RECEIPT"
    /\ Send(Simple("RECEIPT_ACKNOWLEDGED"), cart.id)
    /\ UNCHANGED <<local, cart, booting, auths, present>>

-----------------------------------------------------------------------------
(* Idle reclaim.  The warning that precedes it has a button that sends the *)
(* same event a little earlier.                                            *)
IMMUNE_STAGES == {"ATTRACT", "PAYMENT", "PROCESSING", "RECEIPT"}

idleReclaim ==
    /\ ~present /\ kiosk.stage \notin IMMUNE_STAGES
    /\ Send(Simple("RETURN_TO_ATTRACT"), cart.id)
    /\ UNCHANGED <<local, cart, booting, auths, present>>

leave ==
    /\ present /\ present' = FALSE
    /\ UNCHANGED <<kiosk, local, cart, booting, remote>>

\* Somebody touches the screen and the idle clock restarts.
arrive ==
    /\ ~present /\ present' = TRUE
    /\ UNCHANGED <<kiosk, local, cart, booting, remote>>

-----------------------------------------------------------------------------
(* The next-state relation, by the component that makes the step. *)
AttractScreen == beginSession

MenuScreen == handleItemClick \/ handleGoToCart

ItemModal == handleAdd \/ handleClose

\* The lines of the cart screen, and its totals with the buttons below.
CartLines == handleItemTap \/ handleQuantityChange

CartActions == handleBack \/ handlePay

PaymentAuthScreen == handleConfirm

EmployeeOverride == handleEmployeeHoldStart \/ handleEmployeeHoldEnd

BiometricDialog == handleBiometricCancel \/ handleBiometricComplete \/ dialogExited

\* Promises and intervals of the payment screen, mounted or not.
PaymentCallbacks ==
    \/ \E a \in DOMAIN auths :
         \/ checkedOut(a) \/ paymentFailed(a)
         \/ \E status \in PaymentStatus : paymentAnswered(a, status)
    \/ \E h \in DOMAIN holds : employeeHoldFires(h)

OrderAnswers == \E i \in DOMAIN requests : finalizeDone(i) \/ finalizeError(i)

ProcessingScreen == retryOrder \/ handleCancel

ReceiptScreen == handleStartNewOrder

KioskShell == MountScreen \/ initializeCart \/ idleReclaim

People == leave \/ arrive

Next ==
    \/ SelectLanguage \/ AttractScreen \/ MenuScreen \/ ItemModal
    \/ CartLines \/ CartActions
    \/ PaymentAuthScreen \/ EmployeeOverride \/ BiometricDialog \/ PaymentCallbacks
    \/ OrderAnswers \/ ProcessingScreen \/ ReceiptScreen
    \/ KioskShell \/ People

Spec == Init /\ [][Next]_vars

(* Timers fire, animations end, and every API call settles: apiClient      *)
(* aborts it at its timeout.  Nothing is assumed of the people.            *)
Fairness ==
    /\ WF_vars(MountScreen)
    /\ WF_vars(idleReclaim)
    /\ WF_vars(handleStartNewOrder)
    /\ WF_vars(OrderAnswers)
    /\ WF_vars(\E a \in DOMAIN auths : paymentFailed(a)
                 \/ \E status \in PaymentStatus : paymentAnswered(a, status))

FairSpec == Spec /\ Fairness

-----------------------------------------------------------------------------
(* Type invariant of the machine, the screens and the calls in flight. *)
TypeOK ==
    /\ kiosk \in KioskContext
    /\ screen \in Stages
    /\ tapped \in BOOLEAN
    /\ dialog \in {"closed", "open", "exiting"}
    /\ authorizing \in BOOLEAN
    /\ holdRef \in Seq(Nat)
    /\ holds \in Seq([visit : Nat, on : BOOLEAN])
    /\ cart \in [id : Nat, items : Nat]
    /\ booting \in BOOLEAN
    /\ auths \in Seq(Auth)
    /\ requests \in Seq(Request)
    /\ present \in BOOLEAN

\* What makes an authorization id good for an order.
Approved(id) ==
    \/ \E a \in DOMAIN auths : id = CardId(a) /\ auths[a].server = "captured"
    \/ \E a \in DOMAIN auths : id = SimulatedId(a) /\ AllowSimulated
    \/ \E h \in DOMAIN holds : id = OverrideId(h)

(* finalizeOrder never runs, and no order request is ever sent, for an     *)
(* authorization that was declined or never made, however late and from    *)
(* whichever visit of the payment screen its answer came.                  *)
OrdersArePaid ==
    /\ kiosk.stage \in {"PROCESSING", "PROCESSING_ERROR", "RECEIPT"}
         => Approved(kiosk.paymentResult)
    /\ \A i \in DOMAIN requests : Approved(requests[i].payment)

(* The receipt shows the order made from this session's cart and payment:  *)
(* never one a retry, a cancelled attempt or an earlier session asked for. *)
ReceiptIsOwnOrder ==
    kiosk.stage = "RECEIPT" =>
      /\ kiosk.order \in DOMAIN requests
      /\ requests[kiosk.order].payment = kiosk.paymentResult
      /\ requests[kiosk.order].cart = kiosk.cartId

\* Some promise of visit v began with a tap on what was on its way out.
LateTap(v) == \E a \in DOMAIN auths : auths[a].visit = v /\ auths[a].late

(* The authorizing flag keeps a second tap from charging twice: two        *)
(* promises of one visit of the payment screen are in flight together only *)
(* if Authorize was tapped on the dialog or the screen while it faded out, *)
(* where the flag of the closure is an old one.                            *)
OneAuthorizationPerVisit ==
    \A a, b \in DOMAIN auths :
      auths[a].visit = auths[b].visit /\ auths[a].client # "done"
        /\ auths[b].client # "done" /\ a # b => LateTap(auths[a].visit)

(* The card payment an order is finalized with was made in this very       *)
(* session, for what the cart still holds, and on the cart the order names *)
(* if the cart kept its id.  Two things may break that, and nothing else:  *)
(* the employee override, and a tap on Authorize during a fade.            *)
PaidForThisCart ==
    (holds = <<>> /\ (\A a \in DOMAIN auths : ~auths[a].late)
       /\ kiosk.stage \in {"PROCESSING", "PROCESSING_ERROR", "RECEIPT"}
       /\ kiosk.cartId = cart.id) =>
      \A a \in DOMAIN auths : kiosk.paymentResult = CardId(a) =>
        /\ auths[a].session = kiosk.sessionId
        /\ auths[a].amount = cart.items
        /\ auths[a].cart = kiosk.cartId

(* However many promises overlap, from whichever visits, and however often *)
(* order creation is retried: all orders asked for on one card payment     *)
(* name the same cart.  A payment never buys a second one.                 *)
PaymentBuysOneCart ==
    \A i, j \in DOMAIN requests : \A a \in DOMAIN auths :
      requests[i].payment = CardId(a) /\ requests[j].payment = CardId(a)
        => requests[i].cart = requests[j].cart

(* A session its customer walked away from ends by itself, whatever screen *)
(* it was left on.  The payment screen waits for a person: it is immune to *)
(* the reclaim and has no timer of its own.                                *)
AbandonedSessionEnds ==
    ~present /\ kiosk.stage \notin {"LANGUAGE_SELECT", "PAYMENT"}
      ~> present \/ kiosk.stage \in {"ATTRACT", "PAYMENT"}

(* The audit of the screens: "Empty cart - user tries to go to payment:    *)
(* guard cartHasItems blocks PROCEED_TO_PAYMENT".  But the flag says that  *)
(* something was added once, and the pay button is there for no lines too. *)
EmptyCartIsBlocked ==
    [][ kiosk.stage # "PAYMENT" /\ kiosk'.stage = "PAYMENT" => cart.items > 0 ]_vars

(* useIdleReclaim's comment: payment phases are immune so that a session   *)
(* in the middle of one is never silently abandoned.                       *)
PaidSessionNotAbandoned ==
    [][ ~present /\ kiosk'.stage = "ATTRACT" /\ kiosk.order = None =>
          \A a \in DOMAIN auths : kiosk.paymentResult # CardId(a) ]_vars
=============================================================================
