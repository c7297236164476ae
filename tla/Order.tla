------------------------------- MODULE Order --------------------------------
(***************************************************************************)
(* The order-service: orders are created by the CreateOrder RPC and by the *)
(* CartFinalized consumer, paid by the PaymentConfirmed consumer, and      *)
(* moved on by UpdateOrderStatus and FulfillOrder.                         *)
(*                                                                         *)
(* A worker is a consumer goroutine (one message at a time) or an RPC      *)
(* handler; each database transaction and each call to the cart-service is *)
(* one step.  JetStream is external: explicit acks, redelivery on a Nak or *)
(* after AckWait, at most MaxDeliver deliveries.                           *)
(*                                                                         *)
(* The constraints are the migrations': order_id is the primary key, and   *)
(* cart_id has no unique index.  The statements are taken to fit their     *)
(* tables; a row the schema refuses for another reason (the width or the   *)
(* one-second resolution of order_number) is a CallError.                  *)
(***************************************************************************)
EXTENDS Naturals, Sequences, SequencesExt, FiniteSets

CONSTANTS
    Consumers,    \* consumer goroutines, over all replicas
    Rpcs,         \* concurrent CreateOrder handlers
    Carts,
    OrderIds,
    Keys,         \* Idempotency-Key values; NoKey is the empty string
    NoKey, NoCart, NoOrder, NoMessage,
    Messages,     \* messages on the two subjects the consumers filter on
    Body,         \* [Messages -> MessageBody]
    MaxDeliver,   \* 5 in eventbus.Subscribe
    MaxFaults,    \* bound on failed calls and crashes
    Requests,     \* statuses that callers of UpdateOrderStatus ask for
    MaxEvents     \* bound: an order with this many events gets no more requests

MessageBody ==
    [kind : {"cart", "payment"}, readable : BOOLEAN, confirmed : BOOLEAN,
     cart : Carts \union {NoCart}, order : OrderIds]

ASSUME OrderConstants ==
    /\ Consumers \intersect Rpcs = {}
    /\ NoKey \notin Keys /\ NoCart \notin Carts
    /\ NoOrder \notin OrderIds /\ NoMessage \notin Messages
    /\ Body \in [Messages -> MessageBody]
    /\ \A m \in Messages : Body[m].kind = "cart" => Body[m].cart \in Carts
    /\ MaxDeliver \in Nat \ {0} /\ MaxFaults \in Nat /\ MaxEvents \in Nat
    /\ Requests \subseteq {"pending", "paid", "fulfilled", "cancelled", "refunded"}

VARIABLES
    orders,     \* [OrderIds -> row]: the orders table
    idem,       \* [Carts \X Keys -> OrderIds or NoOrder]: idempotency_keys
    outbox,     \* [OrderIds -> Seq(event)]: outbox rows in commit order
    delivery,   \* [Messages -> [state, count]]: the broker's consumer state
    worker,     \* [Workers -> local state of the handler]
    faults

vars == <<orders, idem, outbox, delivery, worker, faults>>

Workers == Consumers \union Rpcs

Status == {"pending", "paid", "fulfilled", "cancelled", "refunded"}

Absent == [cart |-> NoCart, status |-> "absent", paidAt |-> FALSE,
           fulfilledAt |-> FALSE, cancelledAt |-> FALSE]

Row == [cart : Carts, status : Status, paidAt : BOOLEAN,
        fulfilledAt : BOOLEAN, cancelledAt : BOOLEAN]

Event == [type : {"OrderCreated", "OrderPaid", "OrderFulfilled", "OrderStatusChanged"},
          status : Status]

Idle == [pc |-> "idle", msg |-> NoMessage, cart |-> NoCart, key |-> NoKey]

WorkerState ==
    [pc : {"idle", "read", "lookup", "getcart", "insert", "pay", "ack", "nak"},
     msg : Messages \union {NoMessage}, cart : Carts \union {NoCart},
     key : Keys \union {NoKey}]

TypeOK ==
    /\ orders \in [OrderIds -> Row \union {Absent}]
    /\ idem \in [Carts \X Keys -> OrderIds \union {NoOrder}]
    /\ outbox \in [OrderIds -> Seq(Event)]
    /\ delivery \in [Messages -> [state : {"pending", "inflight", "acked"},
                                  count : 0..MaxDeliver]]
    /\ worker \in [Workers -> WorkerState]
    /\ \A w \in Consumers : worker[w].pc # "idle" => worker[w].msg # NoMessage
    /\ faults \in 0..MaxFaults

Init ==
    /\ orders = [o \in OrderIds |-> Absent]
    /\ idem = [ck \in Carts \X Keys |-> NoOrder]
    /\ outbox = [o \in OrderIds |-> <<>>]
    /\ delivery = [m \in Messages |-> [state |-> "pending", count |-> 0]]
    /\ worker = [w \in Workers |-> Idle]
    /\ faults = 0

Exists(o) == orders[o].status # "absent"

HasOrder(c) == \E o \in OrderIds : orders[o].cart = c

Goto(w, pc) == worker' = [worker EXCEPT ![w].pc = pc]

\* Seeded fault: a consumer acknowledges a message its handler failed on.
FailSwallowed(w) ==
    worker' = [worker EXCEPT ![w] =
                  IF w \in Consumers THEN [@ EXCEPT !.pc = "ack"] ELSE Idle]

\* A failed handler: an RPC returns its error, a consumer sends a Nak.
Fail(w) ==
    worker' = [worker EXCEPT ![w] =
                  IF w \in Consumers THEN [@ EXCEPT !.pc = "nak"] ELSE Idle]

\* A successful handler: an RPC returns the order, a consumer sends an Ack.
Succeed(w) ==
    worker' = [worker EXCEPT ![w] =
                  IF w \in Consumers THEN [@ EXCEPT !.pc = "ack"] ELSE Idle]

CountFault == faults < MaxFaults /\ faults' = faults + 1

-----------------------------------------------------------------------------
(* The broker *)

Deliver(w, m) ==
    /\ w \in Consumers /\ worker[w].pc = "idle"
    /\ delivery[m].state = "pending" /\ delivery[m].count < MaxDeliver
    /\ delivery' = [delivery EXCEPT ![m] = [state |-> "inflight", count |-> @.count + 1]]
    /\ worker' = [worker EXCEPT ![w] = [Idle EXCEPT !.pc = "read", !.msg = m]]
    /\ UNCHANGED <<orders, idem, outbox, faults>>

\* 30 s without an ack: the message is due again, though its handler may
\* still be running.
AckWait(m) ==
    /\ delivery[m].state = "inflight"
    /\ delivery' = [delivery EXCEPT ![m].state = "pending"]
    /\ UNCHANGED <<orders, idem, outbox, worker, faults>>

Ack(w) ==
    /\ worker[w].pc = "ack"
    /\ delivery' = [delivery EXCEPT ![worker[w].msg].state = "acked"]
    /\ worker' = [worker EXCEPT ![w] = Idle]
    /\ UNCHANGED <<orders, idem, outbox, faults>>

\* Seeded fault: the consumer terminates a failed message instead of a Nak.
NakTerminates(w) ==
    /\ worker[w].pc = "nak"
    /\ delivery' = [delivery EXCEPT ![worker[w].msg].state = "acked"]
    /\ worker' = [worker EXCEPT ![w] = Idle]
    /\ UNCHANGED <<orders, idem, outbox, faults>>

Nak(w) ==
    /\ worker[w].pc = "nak"
    /\ delivery' = [delivery EXCEPT ![worker[w].msg].state =
                       IF @ = "acked" THEN "acked" ELSE "pending"]
    /\ worker' = [worker EXCEPT ![w] = Idle]
    /\ UNCHANGED <<orders, idem, outbox, faults>>

-----------------------------------------------------------------------------
(* Creating an order *)

(***************************************************************************)
(* The consumer unmarshals the message.  An EventEnvelope, which is what   *)
(* the publishing services write, parses to an event without a cart_id or  *)
(* order_id: the handler fails.  A payment that is not authorized or       *)
(* captured is ignored.                                                    *)
(***************************************************************************)
ReadMessage(w) ==
    LET b == Body[worker[w].msg] IN
    /\ worker[w].pc = "read"
    /\ worker' = [worker EXCEPT ![w] =
          [@ EXCEPT !.cart = IF b.readable THEN b.cart ELSE NoCart,
                    !.pc = CASE ~b.readable -> "nak"
                             [] b.readable /\ b.kind = "cart" -> "lookup"
                             [] b.readable /\ b.kind = "payment" /\ b.confirmed -> "pay"
                             [] OTHER -> "ack"]]
    /\ UNCHANGED <<orders, idem, outbox, delivery, faults>>

\* An RPC arrives; without an idempotency key it skips the lookup.
CreateOrder(w, c, k) ==
    /\ w \in Rpcs /\ worker[w].pc = "idle"
    /\ worker' = [worker EXCEPT ![w] =
          [Idle EXCEPT !.cart = c, !.key = k,
                       !.pc = IF k = NoKey THEN "getcart" ELSE "lookup"]]
    /\ UNCHANGED <<orders, idem, outbox, delivery, faults>>

\* GetOrderByCartID in the consumer, GetOrderByIdempotencyKey in the RPC.
Lookup(w) ==
    /\ worker[w].pc = "lookup"
    /\ IF w \in Consumers THEN HasOrder(worker[w].cart)
                          ELSE idem[<<worker[w].cart, worker[w].key>>] # NoOrder
    /\ Succeed(w)
    /\ UNCHANGED <<orders, idem, outbox, delivery, faults>>

LookupMissed(w) ==
    /\ worker[w].pc = "lookup"
    /\ ~ IF w \in Consumers THEN HasOrder(worker[w].cart)
                            ELSE idem[<<worker[w].cart, worker[w].key>>] # NoOrder
    /\ Goto(w, "getcart")
    /\ UNCHANGED <<orders, idem, outbox, delivery, faults>>

GetCart(w) ==
    /\ worker[w].pc = "getcart"
    /\ Goto(w, "insert")
    /\ UNCHANGED <<orders, idem, outbox, delivery, faults>>

(***************************************************************************)
(* repository.CreateOrder: the order, its idempotency key (ON CONFLICT DO  *)
(* NOTHING) and the OrderCreated event in one transaction.                 *)
(***************************************************************************)
StoreOrder(w, o) ==
    LET ck == <<worker[w].cart, worker[w].key>> IN
    /\ orders' = [orders EXCEPT ![o] = [Absent EXCEPT !.cart = worker[w].cart,
                                                      !.status = "pending"]]
    /\ outbox' = [outbox EXCEPT ![o] = Append(@, [type |-> "OrderCreated",
                                                  status |-> "pending"])]
    /\ idem' = IF ck \in DOMAIN idem /\ idem[ck] = NoOrder
               THEN [idem EXCEPT ![ck] = o] ELSE idem

\* Ids a handler can give its order: the event's for the consumer, a fresh
\* UUID, never one an event names, for an RPC.
Candidates(w) ==
    IF w \in Consumers THEN {Body[worker[w].msg].order}
    ELSE {o \in OrderIds : ~Exists(o) /\ \A m \in Messages : Body[m].order # o}

Insert(w) ==
    /\ worker[w].pc = "insert"
    /\ \E o \in Candidates(w) : ~Exists(o) /\ StoreOrder(w, o)
    /\ Succeed(w)
    /\ UNCHANGED <<delivery, faults>>

\* The primary key rejects a second order with the event's id.
InsertRejected(w) ==
    /\ worker[w].pc = "insert"
    /\ w \in Consumers /\ Exists(Body[worker[w].msg].order)
    /\ Fail(w)
    /\ UNCHANGED <<orders, idem, outbox, delivery, faults>>

\* The commit goes through, but its answer or the reload that follows fails.
InsertUnconfirmed(w) ==
    /\ worker[w].pc = "insert"
    /\ CountFault
    /\ \E o \in Candidates(w) : ~Exists(o) /\ StoreOrder(w, o)
    /\ Fail(w)
    /\ UNCHANGED delivery

\* A lookup, a cart-service call or a transaction fails and writes nothing.
CallError(w) ==
    /\ worker[w].pc \in {"lookup", "getcart", "insert", "pay"}
    /\ CountFault
    /\ Fail(w)
    /\ UNCHANGED <<orders, idem, outbox, delivery>>

\* The process dies; the broker redelivers what was not acknowledged.
Crash(w) ==
    /\ worker[w].pc # "idle"
    /\ CountFault
    /\ worker' = [worker EXCEPT ![w] = Idle]
    /\ UNCHANGED <<orders, idem, outbox, delivery>>

-----------------------------------------------------------------------------
(* Moving an order on: one transaction each, under SELECT ... FOR UPDATE *)

Record(o, type, status) ==
    outbox' = [outbox EXCEPT ![o] = Append(@, [type |-> type, status |-> status])]

\* MarkPaid: pending becomes paid; paid and fulfilled are left as they are.
MarkPaid(w) ==
    LET o == Body[worker[w].msg].order IN
    /\ worker[w].pc = "pay"
    /\ orders[o].status = "pending"
    /\ orders' = [orders EXCEPT ![o].status = "paid", ![o].paidAt = TRUE]
    /\ Record(o, "OrderPaid", "paid")
    /\ Goto(w, "ack")
    /\ UNCHANGED <<idem, delivery, faults>>

\* An order already paid, and one that does not exist (yet), are acknowledged.
MarkPaidIgnored(w) ==
    /\ worker[w].pc = "pay"
    /\ orders[Body[worker[w].msg].order].status \in {"paid", "fulfilled", "absent"}
    /\ Goto(w, "ack")
    /\ UNCHANGED <<orders, idem, outbox, delivery, faults>>

\* A cancelled or refunded order cannot be paid: ErrInvalidStatus, so a Nak.
MarkPaidRefused(w) ==
    /\ worker[w].pc = "pay"
    /\ orders[Body[worker[w].msg].order].status \in {"cancelled", "refunded"}
    /\ Goto(w, "nak")
    /\ UNCHANGED <<orders, idem, outbox, delivery, faults>>

\* Seeded fault: an unchanged status is written and announced again.
UpdateAlways(o, s) ==
    /\ Exists(o)
    /\ Len(outbox[o]) < MaxEvents
    /\ orders' = [orders EXCEPT ![o].status = s, ![o].cancelledAt = (s = "cancelled")]
    /\ Record(o, "OrderStatusChanged", s)
    /\ UNCHANGED <<idem, delivery, worker, faults>>

\* Any status to any other; cancelled_at is set or cleared, and no other stamp.
UpdateOrderStatus(o, s) ==
    /\ Exists(o) /\ orders[o].status # s
    /\ Len(outbox[o]) < MaxEvents
    /\ orders' = [orders EXCEPT ![o].status = s, ![o].cancelledAt = (s = "cancelled")]
    /\ Record(o, "OrderStatusChanged", s)
    /\ UNCHANGED <<idem, delivery, worker, faults>>

FulfillOrder(o) ==
    /\ orders[o].status = "paid"
    /\ orders' = [orders EXCEPT ![o].status = "fulfilled", ![o].fulfilledAt = TRUE]
    /\ Record(o, "OrderFulfilled", "fulfilled")
    /\ UNCHANGED <<idem, delivery, worker, faults>>

-----------------------------------------------------------------------------
Handle(w) ==
    \/ ReadMessage(w) \/ Lookup(w) \/ LookupMissed(w) \/ GetCart(w)
    \/ Insert(w) \/ InsertRejected(w)
    \/ MarkPaid(w) \/ MarkPaidIgnored(w) \/ MarkPaidRefused(w)

Consume(w) == Handle(w) \/ Ack(w) \/ Nak(w) \/ \E m \in Messages : Deliver(w, m)

Serve(w) == Handle(w) \/ \E c \in Carts, k \in Keys \union {NoKey} : CreateOrder(w, c, k)

Next ==
    \/ \E w \in Consumers : Consume(w)
    \/ \E w \in Rpcs : Serve(w)
    \/ \E w \in Workers : InsertUnconfirmed(w) \/ CallError(w) \/ Crash(w)
    \/ \E m \in Messages : AckWait(m)
    \/ \E o \in OrderIds : FulfillOrder(o) \/ \E s \in Requests : UpdateOrderStatus(o, s)

Spec == Init /\ [][Next]_vars

\* Consumer goroutines run as long as their process, and AckWait is a timer.
FairSpec ==
    /\ Spec
    /\ \A w \in Consumers : WF_vars(Consume(w))
    /\ \A m \in Messages : WF_vars(AckWait(m))

-----------------------------------------------------------------------------
\* A CartFinalized message is acknowledged only once its cart has an order,
\* whatever crashed, timed out or was redelivered in between.
AckedCartHasOrder ==
    \A m \in Messages :
        Body[m].kind = "cart" /\ delivery[m].state = "acked" => HasOrder(Body[m].cart)

(***************************************************************************)
(* The outbox replays to the table: an order's first event and no other is *)
(* OrderCreated (redelivered events do not create it twice), each event    *)
(* changes the status, and the last one names the current status.          *)
(***************************************************************************)
EventsReplayStatus ==
    \A o \in OrderIds :
        /\ Exists(o) <=> outbox[o] # <<>>
        /\ Exists(o) => Last(outbox[o]).status = orders[o].status
        /\ \A i \in DOMAIN outbox[o] : outbox[o][i].type = "OrderCreated" <=> i = 1
        /\ \A i \in 2..Len(outbox[o]) : outbox[o][i].status # outbox[o][i - 1].status

(***************************************************************************)
(* A payment confirmation, however often it is delivered, pays a pending   *)
(* order only: it never reopens a cancelled or refunded one, and only a    *)
(* paid order is announced as fulfilled.                                   *)
(***************************************************************************)
LifecycleRespected ==
    \A o \in OrderIds : \A i \in 2..Len(outbox[o]) :
        /\ outbox[o][i].type = "OrderPaid" => outbox[o][i - 1].status = "pending"
        /\ outbox[o][i].type = "OrderFulfilled" => outbox[o][i - 1].status = "paid"

\* The timestamps agree with the history: cancelled_at is set exactly while the
\* order is cancelled, paid_at and fulfilled_at once such an event was written.
StampsMatchHistory ==
    \A o \in OrderIds :
        /\ orders[o].cancelledAt <=> orders[o].status = "cancelled"
        /\ orders[o].paidAt <=> \E i \in DOMAIN outbox[o] : outbox[o][i].type = "OrderPaid"
        /\ orders[o].fulfilledAt <=>
              \E i \in DOMAIN outbox[o] : outbox[o][i].type = "OrderFulfilled"

\* The table, its timestamps and the events in the outbox tell one history.
HistoryIsConsistent == EventsReplayStatus /\ LifecycleRespected /\ StampsMatchHistory

\* Every finalized cart whose event the handler can read becomes an order, as
\* long as fewer deliveries fail than JetStream makes.
ReadableCartBecomesOrder ==
    \A m \in Messages :
        Body[m].kind = "cart" /\ Body[m].readable => <>HasOrder(Body[m].cart)

\* "HandleCartFinalized creates an order when a cart is finalized" (service.go).
FinalizedCartBecomesOrder ==
    \A m \in Messages : Body[m].kind = "cart" => <>HasOrder(Body[m].cart)

\* "The cart_id unique index prevents duplicate orders from a single cart"
\* (repository.go, CreateOrder).
OneOrderPerCart ==
    \A o, p \in OrderIds :
        o # p /\ Exists(o) /\ Exists(p) => orders[o].cart # orders[p].cart
=============================================================================
