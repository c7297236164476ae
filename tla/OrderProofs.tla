---------------------------- MODULE OrderProofs -----------------------------
(***************************************************************************)
(* Proofs about the order-service, for any number of consumers, handlers,  *)
(* messages, carts and orders, and however often the broker redelivers.    *)
(***************************************************************************)
EXTENDS Order, TLAPS

-----------------------------------------------------------------------------
(* The inductive invariant *)

(***************************************************************************)
(* What a consumer knows while it holds a message.  A consumer creates an  *)
(* order for the cart its message names, and by the time it acknowledges a *)
(* finalized cart that cart has an order: orders are never deleted and     *)
(* never change their cart, so this stays true until the broker hears it.  *)
(***************************************************************************)
ConsumerOK(w) ==
    /\ worker[w].pc \in {"lookup", "getcart", "insert"} =>
          /\ Body[worker[w].msg].kind = "cart"
          /\ worker[w].cart = Body[worker[w].msg].cart
    /\ worker[w].pc = "pay" => Body[worker[w].msg].kind = "payment"
    /\ worker[w].pc = "ack" /\ Body[worker[w].msg].kind = "cart" =>
          HasOrder(Body[worker[w].msg].cart)

\* An RPC handler works on a cart and never touches the broker.
RpcOK(w) ==
    /\ worker[w].pc \in {"idle", "lookup", "getcart", "insert"}
    /\ worker[w].pc # "idle" => worker[w].cart \in Carts

OrderInv ==
    /\ TypeOK
    /\ \A w \in Consumers : ConsumerOK(w)
    /\ \A w \in Rpcs : RpcOK(w)
    /\ AckedCartHasOrder
    /\ HistoryIsConsistent

-----------------------------------------------------------------------------
(* Facts the proofs share *)

\* What SMT needs to know of a row, an event and a message.
LEMMA BodyType ==
    ASSUME NEW m \in Messages
    PROVE  /\ Body[m].kind \in {"cart", "payment"}
           /\ Body[m].order \in OrderIds
           /\ Body[m].cart \in Carts \union {NoCart}
           /\ Body[m].readable \in BOOLEAN /\ Body[m].confirmed \in BOOLEAN
           /\ Body[m].kind = "cart" => Body[m].cart \in Carts
  BY OrderConstants DEF MessageBody

\* A consumer that is busy holds a message.
LEMMA BusyConsumer ==
    ASSUME TypeOK, NEW w \in Consumers, worker[w].pc # "idle"
    PROVE  worker[w].msg \in Messages
  BY DEF TypeOK, Workers, WorkerState

\* Appending an event to an order's history.
LEMMA AppendFacts ==
    ASSUME NEW S, NEW s \in Seq(S), NEW e \in S
    PROVE  /\ Append(s, e) \in Seq(S) /\ Append(s, e) # <<>>
           /\ Len(Append(s, e)) = Len(s) + 1 /\ Len(s) \in Nat
           /\ DOMAIN Append(s, e) = 1..Len(s) + 1 /\ DOMAIN s = 1..Len(s)
           /\ Append(s, e)[Len(s) + 1] = e
           /\ \A i \in 1..Len(s) : Append(s, e)[i] = s[i]
           /\ s = <<>> <=> Len(s) = 0
  OBVIOUS

(***************************************************************************)
(* The four writes (create, mark paid, fulfill, update status) all change  *)
(* one row and append one event.  This is what such a pair must satisfy to *)
(* keep the table and the outbox telling the same history.                 *)
(***************************************************************************)
LEMMA HistoryStep ==
    ASSUME TypeOK, HistoryIsConsistent,
           NEW o \in OrderIds, NEW e \in Event, NEW row \in Row,
           orders' = [orders EXCEPT ![o] = row],
           outbox' = [outbox EXCEPT ![o] = Append(@, e)],
           row.status = e.status,
           Exists(o) => e.type # "OrderCreated" /\ e.status # orders[o].status,
           ~Exists(o) => e.type = "OrderCreated",
           e.type = "OrderPaid" => orders[o].status = "pending",
           e.type = "OrderFulfilled" => orders[o].status = "paid",
           row.cancelledAt <=> row.status = "cancelled",
           row.paidAt <=> orders[o].paidAt \/ e.type = "OrderPaid",
           row.fulfilledAt <=> orders[o].fulfilledAt \/ e.type = "OrderFulfilled"
    PROVE  HistoryIsConsistent'
<1> DEFINE s == outbox[o]
           t == Append(s, e)
<1>1. s \in Seq(Event) /\ outbox'[o] = t /\ orders'[o] = row
  BY DEF TypeOK
<1>2. /\ t \in Seq(Event) /\ t # <<>> /\ Len(t) = Len(s) + 1 /\ Len(s) \in Nat
      /\ DOMAIN t = 1..Len(s) + 1 /\ DOMAIN s = 1..Len(s)
      /\ t[Len(s) + 1] = e /\ \A i \in 1..Len(s) : t[i] = s[i]
      /\ s = <<>> <=> Len(s) = 0
  BY <1>1, AppendFacts
<1>3. \A p \in OrderIds : p # o => outbox'[p] = outbox[p] /\ orders'[p] = orders[p]
  BY DEF TypeOK
<1>4. row.status # "absent" /\ (orders'[o].status # "absent")
  BY <1>1 DEF Row, Status
<1>5. Exists(o) <=> Len(s) # 0
  BY <1>2 DEF HistoryIsConsistent, EventsReplayStatus
<1>6. Exists(o) => s[Len(s)].status = orders[o].status
  BY <1>2 DEF HistoryIsConsistent, EventsReplayStatus, Last
<1> HIDE DEF t
<1>7. EventsReplayStatus'
  <2> SUFFICES ASSUME NEW p \in OrderIds
               PROVE  /\ orders'[p].status # "absent" <=> outbox'[p] # <<>>
                      /\ orders'[p].status # "absent" =>
                            outbox'[p][Len(outbox'[p])].status = orders'[p].status
                      /\ \A i \in DOMAIN outbox'[p] :
                            outbox'[p][i].type = "OrderCreated" <=> i = 1
                      /\ \A i \in 2..Len(outbox'[p]) :
                            outbox'[p][i].status # outbox'[p][i - 1].status
    BY DEF EventsReplayStatus, Exists, Last
  <2>1. CASE p # o
    BY <2>1, <1>3 DEF HistoryIsConsistent, EventsReplayStatus, Exists, Last
  <2>2. CASE p = o
    <3>1. \A i \in DOMAIN t : t[i].type = "OrderCreated" <=> i = 1
      <4>1. \A i \in 1..Len(s) : s[i].type = "OrderCreated" <=> i = 1
        BY <1>2 DEF HistoryIsConsistent, EventsReplayStatus
      <4>2. e.type = "OrderCreated" <=> Len(s) + 1 = 1
        BY <1>2, <1>5
      <4>3. \A i \in DOMAIN t : i \in 1..Len(s) \/ i = Len(s) + 1
        BY <1>2
      <4> QED
        BY <1>2, <4>1, <4>2, <4>3
    <3>2. \A i \in 2..Len(t) : t[i].status # t[i - 1].status
      <4>1. \A i \in 2..Len(s) : s[i].status # s[i - 1].status
        BY DEF HistoryIsConsistent, EventsReplayStatus
      <4>2. Len(s) # 0 => e.status # s[Len(s)].status
        BY <1>5, <1>6
      <4> SUFFICES ASSUME NEW i \in 2..Len(t) PROVE t[i].status # t[i - 1].status
        OBVIOUS
      <4>3. CASE i \in 2..Len(s)
        <5>1. i - 1 \in 1..Len(s) /\ i \in 1..Len(s)
          BY <1>2, <4>3
        <5> QED  BY <1>2, <4>1, <4>3, <5>1
      <4>4. CASE i = Len(s) + 1
        <5>1. i - 1 = Len(s) /\ Len(s) # 0 /\ Len(s) \in 1..Len(s)
          BY <1>2, <4>4
        <5> QED  BY <1>2, <4>2, <4>4, <5>1
      <4> QED  BY <1>2, <4>3, <4>4
    <3> QED
      BY <2>2, <1>1, <1>2, <1>4, <3>1, <3>2
  <2> QED
    BY <2>1, <2>2
<1>8. LifecycleRespected'
  <2> SUFFICES ASSUME NEW p \in OrderIds, NEW i \in 2..Len(outbox'[p])
               PROVE  /\ outbox'[p][i].type = "OrderPaid" =>
                            outbox'[p][i - 1].status = "pending"
                      /\ outbox'[p][i].type = "OrderFulfilled" =>
                            outbox'[p][i - 1].status = "paid"
    BY DEF LifecycleRespected
  <2>1. CASE p # o
    BY <2>1, <1>3 DEF HistoryIsConsistent, LifecycleRespected
  <2>2. CASE p = o
    <3>1. \A j \in 2..Len(s) : /\ s[j].type = "OrderPaid" => s[j - 1].status = "pending"
                               /\ s[j].type = "OrderFulfilled" => s[j - 1].status = "paid"
      BY DEF HistoryIsConsistent, LifecycleRespected
    <3> QED
      BY <2>2, <1>1, <1>2, <1>5, <1>6, <3>1
  <2> QED
    BY <2>1, <2>2
<1>9. StampsMatchHistory'
  <2> SUFFICES ASSUME NEW p \in OrderIds
               PROVE  /\ orders'[p].cancelledAt <=> orders'[p].status = "cancelled"
                      /\ orders'[p].paidAt <=>
                            \E i \in DOMAIN outbox'[p] : outbox'[p][i].type = "OrderPaid"
                      /\ orders'[p].fulfilledAt <=>
                            \E i \in DOMAIN outbox'[p] :
                               outbox'[p][i].type = "OrderFulfilled"
    BY DEF StampsMatchHistory
  <2>1. CASE p # o
    BY <2>1, <1>3 DEF HistoryIsConsistent, StampsMatchHistory
  <2>2. CASE p = o
    <3>1. /\ orders[o].paidAt <=> \E i \in 1..Len(s) : s[i].type = "OrderPaid"
          /\ orders[o].fulfilledAt <=> \E i \in 1..Len(s) : s[i].type = "OrderFulfilled"
      BY <1>2 DEF HistoryIsConsistent, StampsMatchHistory
    <3>2. \A k \in {"OrderPaid", "OrderFulfilled"} :
             (\E i \in DOMAIN t : t[i].type = k)
                <=> (\E i \in 1..Len(s) : s[i].type = k) \/ e.type = k
      <4>1. /\ \A i \in DOMAIN t : i \in 1..Len(s) \/ i = Len(s) + 1
            /\ Len(s) + 1 \in DOMAIN t /\ \A i \in 1..Len(s) : i \in DOMAIN t
        BY <1>2
      <4>2. t[Len(s) + 1] = e /\ \A i \in 1..Len(s) : t[i] = s[i]
        BY <1>2
      <4> QED  BY <4>1, <4>2, Zenon
    <3>3. row.paidAt <=> \E i \in DOMAIN t : t[i].type = "OrderPaid"
      BY <3>1, <3>2, Zenon
    <3>4. row.fulfilledAt <=> \E i \in DOMAIN t : t[i].type = "OrderFulfilled"
      BY <3>1, <3>2, Zenon
    <3>5. orders'[p] = row /\ outbox'[p] = t
      BY <2>2, <1>1
    <3>6. orders'[p].cancelledAt <=> orders'[p].status = "cancelled"
      BY <3>5, Zenon
    <3>7. orders'[p].paidAt <=> \E i \in DOMAIN outbox'[p] : outbox'[p][i].type = "OrderPaid"
      BY <3>5, <3>3, Zenon
    <3>8. orders'[p].fulfilledAt <=>
             \E i \in DOMAIN outbox'[p] : outbox'[p][i].type = "OrderFulfilled"
      BY <3>5, <3>4, Zenon
    <3> QED
      BY <3>6, <3>7, <3>8, Zenon
  <2> QED
    BY <2>1, <2>2
<1> QED
  BY <1>7, <1>8, <1>9 DEF HistoryIsConsistent

\* An order keeps its cart: what had an order before a write has one after it.
LEMMA RowKeepsCart ==
    ASSUME TypeOK, NEW o \in OrderIds, NEW row \in Row,
           orders' = [orders EXCEPT ![o] = row],
           orders[o].cart \in {NoCart, row.cart}
    PROVE  \A c \in Carts : HasOrder(c) => HasOrder(c)'
  BY OrderConstants DEF TypeOK, HasOrder

(***************************************************************************)
(* What remains to show of a step once the types and the history are done: *)
(* orders stay, a handler that moved is where its message allows it, and   *)
(* what is newly acknowledged has its order.                               *)
(***************************************************************************)
LEMMA StepKeepsInv ==
    ASSUME OrderInv, TypeOK', HistoryIsConsistent',
           \A c \in Carts : HasOrder(c) => HasOrder(c)',
           \A w \in Consumers : worker'[w] = worker[w] \/ ConsumerOK(w)',
           \A w \in Rpcs : worker'[w] = worker[w] \/ RpcOK(w)',
           \A m \in Messages :
              delivery'[m].state = "acked" =>
                 \/ delivery[m].state = "acked"
                 \/ Body[m].kind = "cart" => HasOrder(Body[m].cart)
    PROVE  OrderInv'
<1>1. \A w \in Consumers : ConsumerOK(w)'
  <2> SUFFICES ASSUME NEW w \in Consumers, worker'[w] = worker[w]
               PROVE  ConsumerOK(w)'
    OBVIOUS
  <2>1. ConsumerOK(w)
    BY DEF OrderInv
  <2>2. worker[w].pc = "ack" /\ Body[worker[w].msg].kind = "cart" =>
           HasOrder(Body[worker[w].msg].cart)'
    <3> SUFFICES ASSUME worker[w].pc = "ack", Body[worker[w].msg].kind = "cart"
                 PROVE  HasOrder(Body[worker[w].msg].cart)'
      OBVIOUS
    <3> DEFINE c == Body[worker[w].msg].cart
    <3>1. c \in Carts
      BY BusyConsumer, BodyType DEF OrderInv
    <3>2. HasOrder(c)
      BY <2>1 DEF ConsumerOK
    <3>3. HasOrder(c)'
      BY <3>1, <3>2
    <3> QED
      BY <3>3 DEF HasOrder
  <2> QED
    BY <2>1, <2>2 DEF ConsumerOK, HasOrder
<1>2. \A w \in Rpcs : RpcOK(w)'
  BY DEF OrderInv, RpcOK
<1>3. AckedCartHasOrder'
  <2> SUFFICES ASSUME NEW m \in Messages, Body[m].kind = "cart",
                      delivery'[m].state = "acked"
               PROVE  HasOrder(Body[m].cart)'
    BY DEF AckedCartHasOrder, HasOrder
  <2>1. Body[m].cart \in Carts /\ HasOrder(Body[m].cart)
    BY BodyType DEF OrderInv, AckedCartHasOrder
  <2> QED
    BY <2>1
<1> QED
  BY <1>1, <1>2, <1>3 DEF OrderInv

-----------------------------------------------------------------------------
(* The initial states and the steps *)

LEMMA InitInv == Init => OrderInv
<1> SUFFICES ASSUME Init PROVE OrderInv
  OBVIOUS
<1>1. TypeOK
  <2>1. orders \in [OrderIds -> Row \union {Absent}]
    BY DEF Init
  <2>2. outbox \in [OrderIds -> Seq(Event)]
    BY DEF Init
  <2>3. idem \in [Carts \X Keys -> OrderIds \union {NoOrder}]
    BY DEF Init
  <2>4. /\ delivery \in [Messages -> [state : {"pending", "inflight", "acked"},
                                     count : 0..MaxDeliver]]
        /\ faults \in 0..MaxFaults
    BY OrderConstants DEF Init
  <2>5. Idle \in WorkerState /\ Idle.pc = "idle"
    BY DEF Idle, WorkerState
  <2>6. /\ worker \in [Workers -> WorkerState]
        /\ \A w \in Consumers : worker[w].pc # "idle" => worker[w].msg # NoMessage
    BY <2>5 DEF Init, Workers
  <2> QED
    BY <2>1, <2>2, <2>3, <2>4, <2>6 DEF TypeOK
<1>2. (\A w \in Consumers : ConsumerOK(w)) /\ (\A w \in Rpcs : RpcOK(w))
  BY DEF Init, ConsumerOK, RpcOK, Idle, Workers
<1>3. AckedCartHasOrder
  BY DEF Init, AckedCartHasOrder
<1>4. HistoryIsConsistent
  <2>1. EventsReplayStatus
    BY DEF Init, EventsReplayStatus, Exists, Absent
  <2>2. LifecycleRespected
    BY DEF Init, LifecycleRespected
  <2>3. StampsMatchHistory
    BY DEF Init, StampsMatchHistory, Absent
  <2> QED
    BY <2>1, <2>2, <2>3 DEF HistoryIsConsistent
<1> QED
  BY <1>1, <1>2, <1>3, <1>4 DEF OrderInv

\* Steps that touch neither the orders nor the outbox.
LEMMA QuietStep ==
    ASSUME OrderInv, UNCHANGED <<orders, outbox>>
    PROVE  HistoryIsConsistent' /\ \A c \in Carts : HasOrder(c) => HasOrder(c)'
  BY DEF OrderInv, HistoryIsConsistent, EventsReplayStatus, LifecycleRespected,
         StampsMatchHistory, Exists, HasOrder

(***************************************************************************)
(* Steps in which one handler moves to another point, and nothing else     *)
(* changes but the fault counter and what the broker knows of messages.    *)
(***************************************************************************)
LEMMA HandlerStep ==
    ASSUME OrderInv, NEW w \in Workers, NEW x \in WorkerState,
           worker' = [worker EXCEPT ![w] = x],
           UNCHANGED <<orders, idem, outbox>>, faults' \in 0..MaxFaults,
           delivery' \in [Messages -> [state : {"pending", "inflight", "acked"},
                                       count : 0..MaxDeliver]],
           w \in Consumers /\ x.pc # "idle" => x.msg # NoMessage,
           w \in Consumers => ConsumerOK(w)',
           w \in Rpcs => RpcOK(w)',
           \A m \in Messages :
              delivery'[m].state = "acked" =>
                 \/ delivery[m].state = "acked"
                 \/ Body[m].kind = "cart" => HasOrder(Body[m].cart)
    PROVE  OrderInv'
<1>1. TypeOK'
  <2>1. worker' \in [Workers -> WorkerState]
    BY DEF OrderInv, TypeOK
  <2>2. \A v \in Consumers : worker'[v].pc # "idle" => worker'[v].msg # NoMessage
    BY DEF OrderInv, TypeOK, Workers
  <2> QED
    BY <2>1, <2>2 DEF OrderInv, TypeOK
<1>2. \A v \in Workers : v # w => worker'[v] = worker[v]
  BY DEF OrderInv, TypeOK
<1>3. /\ \A v \in Consumers : worker'[v] = worker[v] \/ ConsumerOK(v)'
      /\ \A v \in Rpcs : worker'[v] = worker[v] \/ RpcOK(v)'
  BY <1>2 DEF Workers
<1> QED
  BY <1>1, <1>3, QuietStep, StepKeepsInv

LEMMA IdleType == Idle \in WorkerState /\ Idle.pc = "idle"
  BY DEF Idle, WorkerState

\* A handler that ends, or dies, leaves nothing behind that could be wrong.
LEMMA HandlerEnds ==
    ASSUME OrderInv, NEW w \in Workers,
           worker' = [worker EXCEPT ![w] = Idle],
           UNCHANGED <<orders, idem, outbox>>, faults' \in 0..MaxFaults,
           delivery' \in [Messages -> [state : {"pending", "inflight", "acked"},
                                       count : 0..MaxDeliver]],
           \A m \in Messages :
              delivery'[m].state = "acked" =>
                 \/ delivery[m].state = "acked"
                 \/ Body[m].kind = "cart" => HasOrder(Body[m].cart)
    PROVE  OrderInv'
<1>1. worker'[w] = Idle
  BY DEF OrderInv, TypeOK
<1>2. ConsumerOK(w)' /\ RpcOK(w)'
  BY <1>1, IdleType DEF ConsumerOK, RpcOK
<1> QED
  BY <1>2, IdleType, HandlerStep

\* A handler that moves to a point which says nothing about its message.
LEMMA HandlerMoves ==
    ASSUME OrderInv, NEW w \in Workers, worker[w].pc # "idle",
           NEW pc \in {"read", "nak"}, w \in Consumers,
           worker' = [worker EXCEPT ![w].pc = pc],
           UNCHANGED <<orders, idem, outbox, delivery>>, faults' \in 0..MaxFaults
    PROVE  OrderInv'
<1> DEFINE x == [worker[w] EXCEPT !.pc = pc]
<1>1. /\ worker[w] \in WorkerState /\ worker' = [worker EXCEPT ![w] = x]
      /\ worker'[w] = x
  BY DEF OrderInv, TypeOK
<1>2. x \in WorkerState /\ x.pc = pc /\ x.msg = worker[w].msg
  BY <1>1 DEF WorkerState
<1>3. worker[w].msg \in Messages
  BY BusyConsumer DEF OrderInv
<1>4. ConsumerOK(w)'
  BY <1>1, <1>2 DEF ConsumerOK
<1>5. w \notin Rpcs
  BY OrderConstants
<1> QED
  BY <1>1, <1>2, <1>3, <1>4, <1>5, HandlerStep, OrderConstants DEF OrderInv, TypeOK

\* A failed handler, whatever it was doing.
LEMMA FailInv ==
    ASSUME OrderInv, NEW w \in Workers, worker[w].pc # "idle", Fail(w),
           UNCHANGED <<orders, idem, outbox, delivery>>, faults' \in 0..MaxFaults
    PROVE  OrderInv'
<1>1. CASE w \in Consumers
  <2>1. worker' = [worker EXCEPT ![w].pc = "nak"]
    BY <1>1 DEF Fail
  <2> QED
    BY <1>1, <2>1, HandlerMoves
<1>2. CASE w \notin Consumers
  <2>1. worker' = [worker EXCEPT ![w] = Idle]
    BY <1>2 DEF Fail
  <2> QED
    BY <2>1, HandlerEnds DEF OrderInv, TypeOK
<1> QED
  BY <1>1, <1>2

LEMMA DeliverInv ==
    ASSUME OrderInv, NEW w \in Consumers, NEW m \in Messages, Deliver(w, m)
    PROVE  OrderInv'
<1> DEFINE x == [Idle EXCEPT !.pc = "read", !.msg = m]
<1>1. x \in WorkerState /\ x.pc = "read" /\ x.msg = m
  BY DEF Idle, WorkerState
<1>2. worker' = [worker EXCEPT ![w] = x] /\ w \in Workers
  BY DEF Deliver, Workers
<1> HIDE DEF x
<1>3. worker'[w] = x
  BY <1>2 DEF OrderInv, TypeOK
<1>4. ConsumerOK(w)' /\ w \notin Rpcs
  BY <1>1, <1>3, OrderConstants DEF ConsumerOK
<1>5. delivery' \in [Messages -> [state : {"pending", "inflight", "acked"},
                                  count : 0..MaxDeliver]]
  BY OrderConstants DEF OrderInv, TypeOK, Deliver
<1>6. \A n \in Messages : delivery'[n].state = "acked" => delivery[n].state = "acked"
  BY DEF OrderInv, TypeOK, Deliver
<1>7. x.msg # NoMessage
  BY <1>1, OrderConstants
<1>8. UNCHANGED <<orders, idem, outbox>> /\ faults' \in 0..MaxFaults
  BY DEF Deliver, OrderInv, TypeOK
<1> QED
  BY <1>1, <1>2, <1>4, <1>5, <1>6, <1>7, <1>8, HandlerStep

LEMMA AckWaitInv ==
    ASSUME OrderInv, NEW m \in Messages, AckWait(m)
    PROVE  OrderInv'
<1>1. TypeOK'
  BY DEF OrderInv, TypeOK, AckWait
<1>2. \A n \in Messages : delivery'[n].state = "acked" => delivery[n].state = "acked"
  BY DEF OrderInv, TypeOK, AckWait
<1>3. UNCHANGED <<orders, outbox, worker>>
  BY DEF AckWait
<1> QED
  BY <1>1, <1>2, <1>3, QuietStep, StepKeepsInv

LEMMA AckInv ==
    ASSUME OrderInv, NEW w \in Consumers, Ack(w)
    PROVE  OrderInv'
<1>1. worker[w].msg \in Messages
  BY BusyConsumer DEF OrderInv, Ack
<1>2. Body[worker[w].msg].kind = "cart" => HasOrder(Body[worker[w].msg].cart)
  BY DEF OrderInv, ConsumerOK, Ack
<1>3. delivery' \in [Messages -> [state : {"pending", "inflight", "acked"},
                                  count : 0..MaxDeliver]]
  BY <1>1 DEF OrderInv, TypeOK, Ack
<1>4. \A m \in Messages : m # worker[w].msg => delivery'[m] = delivery[m]
  BY <1>1 DEF OrderInv, TypeOK, Ack
<1>5. /\ w \in Workers /\ worker' = [worker EXCEPT ![w] = Idle]
      /\ UNCHANGED <<orders, idem, outbox>> /\ faults' \in 0..MaxFaults
  BY DEF Ack, Workers, OrderInv, TypeOK
<1> QED
  BY <1>1, <1>2, <1>3, <1>4, <1>5, HandlerEnds

LEMMA NakInv ==
    ASSUME OrderInv, NEW w \in Consumers, Nak(w)
    PROVE  OrderInv'
<1>1. worker[w].msg \in Messages
  BY BusyConsumer DEF OrderInv, Nak
<1>2. delivery' \in [Messages -> [state : {"pending", "inflight", "acked"},
                                  count : 0..MaxDeliver]]
  BY <1>1 DEF OrderInv, TypeOK, Nak
<1>3. \A m \in Messages : delivery'[m].state = "acked" => delivery[m].state = "acked"
  BY <1>1 DEF OrderInv, TypeOK, Nak
<1>4. /\ w \in Workers /\ worker' = [worker EXCEPT ![w] = Idle]
      /\ UNCHANGED <<orders, idem, outbox>> /\ faults' \in 0..MaxFaults
  BY DEF Nak, Workers, OrderInv, TypeOK
<1> QED
  BY <1>2, <1>3, <1>4, HandlerEnds

\* Only consumers read, pay, acknowledge and reject.
LEMMA OnlyConsumers ==
    ASSUME OrderInv, NEW w \in Workers, worker[w].pc \in {"read", "pay", "ack", "nak"}
    PROVE  w \in Consumers /\ w \notin Rpcs /\ worker[w].msg \in Messages
<1>1. w \notin Rpcs
  BY DEF OrderInv, RpcOK
<1> QED
  BY <1>1, BusyConsumer DEF Workers, OrderInv

LEMMA ReadMessageInv ==
    ASSUME OrderInv, NEW w \in Workers, ReadMessage(w)
    PROVE  OrderInv'
<1> DEFINE m == worker[w].msg
           b == Body[m]
           x == worker'[w]
<1>1. w \in Consumers /\ w \notin Rpcs /\ m \in Messages
  BY OnlyConsumers DEF ReadMessage
<1>2. /\ b.kind \in {"cart", "payment"} /\ b.cart \in Carts \union {NoCart}
      /\ b.readable \in BOOLEAN /\ b.confirmed \in BOOLEAN
  BY <1>1, BodyType
<1>3. /\ worker[w] \in WorkerState
      /\ worker' = [worker EXCEPT ![w] = x]
      /\ UNCHANGED <<orders, idem, outbox, delivery>> /\ faults' \in 0..MaxFaults
      /\ delivery \in [Messages -> [state : {"pending", "inflight", "acked"},
                                    count : 0..MaxDeliver]]
  BY DEF OrderInv, TypeOK, ReadMessage
<1>4. CASE ~b.readable
  <2>1. x = [worker[w] EXCEPT !.cart = NoCart, !.pc = "nak"]
    BY <1>4 DEF OrderInv, TypeOK, ReadMessage
  <2>2. x \in WorkerState /\ x.msg = m /\ x.pc = "nak"
    BY <2>1, <1>3 DEF WorkerState
  <2>3. ConsumerOK(w)'
    BY <2>2 DEF ConsumerOK
  <2> QED
    BY <1>1, <1>3, <2>2, <2>3, HandlerStep, OrderConstants
<1>5. CASE b.readable /\ b.kind = "cart"
  <2>1. x = [worker[w] EXCEPT !.cart = b.cart, !.pc = "lookup"]
    BY <1>5 DEF OrderInv, TypeOK, ReadMessage
  <2>2. x \in WorkerState /\ x.msg = m /\ x.pc = "lookup" /\ x.cart = b.cart
    BY <2>1, <1>2, <1>3 DEF WorkerState
  <2>3. ConsumerOK(w)'
    BY <2>2, <1>5 DEF ConsumerOK
  <2> QED
    BY <1>1, <1>3, <2>2, <2>3, HandlerStep, OrderConstants
<1>6. CASE b.readable /\ b.kind = "payment"
  <2>1. x = [worker[w] EXCEPT !.cart = b.cart, !.pc = IF b.confirmed THEN "pay" ELSE "ack"]
    BY <1>6, <1>2 DEF OrderInv, TypeOK, ReadMessage
  <2>2. x \in WorkerState /\ x.msg = m /\ x.pc \in {"pay", "ack"}
    BY <2>1, <1>2, <1>3 DEF WorkerState
  <2>3. ConsumerOK(w)'
    BY <2>2, <1>6 DEF ConsumerOK
  <2> QED
    BY <1>1, <1>3, <2>2, <2>3, HandlerStep, OrderConstants
<1> QED
  BY <1>2, <1>4, <1>5, <1>6

LEMMA CreateOrderInv ==
    ASSUME OrderInv, NEW w \in Rpcs, NEW c \in Carts, NEW k \in Keys \union {NoKey},
           CreateOrder(w, c, k)
    PROVE  OrderInv'
<1> DEFINE x == [Idle EXCEPT !.cart = c, !.key = k,
                             !.pc = IF k = NoKey THEN "getcart" ELSE "lookup"]
<1>1. x \in WorkerState /\ x.cart = c /\ x.pc \in {"getcart", "lookup"}
  BY DEF Idle, WorkerState
<1>2. /\ worker' = [worker EXCEPT ![w] = x] /\ w \in Workers
      /\ UNCHANGED <<orders, idem, outbox, delivery>> /\ faults' \in 0..MaxFaults
      /\ delivery \in [Messages -> [state : {"pending", "inflight", "acked"},
                                    count : 0..MaxDeliver]]
  BY DEF CreateOrder, Workers, OrderInv, TypeOK
<1> HIDE DEF x
<1>3. worker'[w] = x
  BY <1>2 DEF OrderInv, TypeOK
<1>4. RpcOK(w)' /\ w \notin Consumers
  BY <1>1, <1>3, OrderConstants DEF RpcOK
<1> QED
  BY <1>1, <1>2, <1>4, HandlerStep

LEMMA LookupInv ==
    ASSUME OrderInv, NEW w \in Workers, Lookup(w)
    PROVE  OrderInv'
<1>1. /\ UNCHANGED <<orders, idem, outbox, delivery>> /\ faults' \in 0..MaxFaults
      /\ delivery \in [Messages -> [state : {"pending", "inflight", "acked"},
                                    count : 0..MaxDeliver]]
      /\ worker[w] \in WorkerState /\ worker[w].pc = "lookup"
  BY DEF Lookup, OrderInv, TypeOK
<1>2. CASE w \in Consumers
  <2> DEFINE x == [worker[w] EXCEPT !.pc = "ack"]
  <2>1. worker' = [worker EXCEPT ![w] = x] /\ worker'[w] = x
    BY <1>2 DEF Lookup, Succeed, OrderInv, TypeOK
  <2>2. /\ x \in WorkerState /\ x.pc = "ack" /\ x.msg = worker[w].msg
        /\ x.msg \in Messages /\ w \notin Rpcs
    BY <1>1, <1>2, BusyConsumer, OrderConstants DEF WorkerState, OrderInv
  <2>3. HasOrder(Body[worker[w].msg].cart)
    BY <1>1, <1>2 DEF Lookup, OrderInv, ConsumerOK
  <2> HIDE DEF x
  <2>4. ConsumerOK(w)'
    BY <2>1, <2>2, <2>3, <1>1 DEF ConsumerOK, HasOrder
  <2> QED
    BY <1>1, <2>1, <2>2, <2>4, HandlerStep, OrderConstants
<1>3. CASE w \notin Consumers
  BY <1>1, <1>3, HandlerEnds DEF Lookup, Succeed
<1> QED
  BY <1>2, <1>3

\* LookupMissed and GetCart: the handler goes on with the cart it works on.
LEMMA GoOnInv ==
    ASSUME OrderInv, NEW w \in Workers, worker[w].pc \in {"lookup", "getcart"},
           NEW pc \in {"getcart", "insert"}, Goto(w, pc),
           UNCHANGED <<orders, idem, outbox, delivery, faults>>
    PROVE  OrderInv'
<1> DEFINE x == [worker[w] EXCEPT !.pc = pc]
<1>1. worker' = [worker EXCEPT ![w] = x] /\ worker'[w] = x /\ worker[w] \in WorkerState
  BY DEF Goto, OrderInv, TypeOK
<1>2. /\ x \in WorkerState /\ x.pc = pc /\ x.msg = worker[w].msg
      /\ x.cart = worker[w].cart
  BY <1>1 DEF WorkerState
<1> HIDE DEF x
<1>3. w \in Consumers => x.msg \in Messages /\ ConsumerOK(w)'
  BY <1>1, <1>2, BusyConsumer DEF OrderInv, ConsumerOK
<1>4. w \in Rpcs => RpcOK(w)'
  BY <1>1, <1>2 DEF OrderInv, RpcOK
<1> QED
  BY <1>1, <1>2, <1>3, <1>4, HandlerStep, OrderConstants DEF OrderInv, TypeOK

LEMMA CallErrorInv ==
    ASSUME OrderInv, NEW w \in Workers, InsertRejected(w) \/ CallError(w)
    PROVE  OrderInv'
<1>1. /\ worker[w].pc # "idle" /\ Fail(w) /\ faults' \in 0..MaxFaults
      /\ UNCHANGED <<orders, idem, outbox, delivery>>
  BY OrderConstants DEF InsertRejected, CallError, CountFault, OrderInv, TypeOK
<1> QED
  BY <1>1, FailInv

LEMMA CrashInv ==
    ASSUME OrderInv, NEW w \in Workers, Crash(w)
    PROVE  OrderInv'
<1>1. /\ worker' = [worker EXCEPT ![w] = Idle] /\ faults' \in 0..MaxFaults
      /\ UNCHANGED <<orders, idem, outbox, delivery>>
      /\ delivery \in [Messages -> [state : {"pending", "inflight", "acked"},
                                    count : 0..MaxDeliver]]
  BY OrderConstants DEF Crash, CountFault, OrderInv, TypeOK
<1> QED
  BY <1>1, HandlerEnds

-----------------------------------------------------------------------------
(* Steps that write an order *)

(***************************************************************************)
(* repository.CreateOrder commits.  Whether the handler hears of it or not *)
(* (Succeed or Fail), its cart has an order from here on.                  *)
(***************************************************************************)
LEMMA StoreInv ==
    ASSUME OrderInv, NEW w \in Workers, worker[w].pc = "insert",
           NEW o \in Candidates(w), ~Exists(o), StoreOrder(w, o),
           Succeed(w) \/ Fail(w), UNCHANGED delivery, faults' \in 0..MaxFaults
    PROVE  OrderInv'
<1> DEFINE c == worker[w].cart
           row == [Absent EXCEPT !.cart = c, !.status = "pending"]
           e == [type |-> "OrderCreated", status |-> "pending"]
<1>1. o \in OrderIds /\ worker[w] \in WorkerState
  BY BusyConsumer, BodyType DEF Candidates, OrderInv, TypeOK
<1>2. c \in Carts
  <2>1. CASE w \in Consumers
    BY <2>1, BusyConsumer, BodyType DEF OrderInv, ConsumerOK
  <2>2. CASE w \in Rpcs
    BY <2>2 DEF OrderInv, RpcOK
  <2> QED
    BY <2>1, <2>2 DEF Workers
<1>3. /\ row \in Row /\ row.cart = c /\ row.status = "pending"
      /\ ~row.paidAt /\ ~row.fulfilledAt /\ ~row.cancelledAt
  BY <1>2 DEF Absent, Row, Status
<1>4. e \in Event /\ e.status = "pending" /\ e.type = "OrderCreated"
  BY DEF Event, Status
<1>5. /\ orders' = [orders EXCEPT ![o] = row]
      /\ outbox' = [outbox EXCEPT ![o] = Append(@, e)]
  BY DEF StoreOrder
<1>6. orders[o] = Absent
  BY <1>1 DEF OrderInv, TypeOK, Row, Status, Exists
<1> HIDE DEF row, e
<1>7. HistoryIsConsistent'
  <2>1. ~orders[o].paidAt /\ ~orders[o].fulfilledAt
    BY <1>6 DEF Absent
  <2> QED
    BY <1>1, <1>3, <1>4, <1>5, <2>1, HistoryStep DEF OrderInv
<1>8. /\ \A d \in Carts : HasOrder(d) => HasOrder(d)'
      /\ \E p \in OrderIds : orders'[p].cart = c
  <2>1. orders[o].cart = NoCart /\ orders'[o].cart = c
    BY <1>1, <1>3, <1>5, <1>6 DEF Absent, OrderInv, TypeOK
  <2>2. \E p \in OrderIds : orders'[p].cart = c
    BY <1>1, <2>1
  <2> QED
    BY <1>1, <1>3, <1>5, <2>1, <2>2, RowKeepsCart DEF OrderInv
<1>9. \E x \in WorkerState :
         /\ worker' = [worker EXCEPT ![w] = x]
         /\ w \in Consumers => x.pc \in {"ack", "nak"} /\ x.msg = worker[w].msg
         /\ w \notin Consumers => x = Idle
  <2>1. CASE w \in Consumers /\ Succeed(w)
    <3>1. worker' = [worker EXCEPT ![w] = [worker[w] EXCEPT !.pc = "ack"]]
      BY <2>1 DEF Succeed
    <3> QED
      BY <3>1, <1>1, <2>1 DEF WorkerState
  <2>2. CASE w \in Consumers /\ Fail(w)
    <3>1. worker' = [worker EXCEPT ![w] = [worker[w] EXCEPT !.pc = "nak"]]
      BY <2>2 DEF Fail
    <3> QED
      BY <3>1, <1>1, <2>2 DEF WorkerState
  <2>3. CASE w \notin Consumers
    BY <2>3, IdleType DEF Succeed, Fail
  <2> QED
    BY <2>1, <2>2, <2>3
<1>10. PICK x \in WorkerState :
         /\ worker' = [worker EXCEPT ![w] = x]
         /\ w \in Consumers => x.pc \in {"ack", "nak"} /\ x.msg = worker[w].msg
         /\ w \notin Consumers => x = Idle
  BY <1>9
<1>11. /\ \A v \in Workers : v # w => worker'[v] = worker[v]
       /\ worker'[w] = x /\ worker' \in [Workers -> WorkerState]
  BY <1>10 DEF OrderInv, TypeOK
<1>12. w \in Consumers => ConsumerOK(w)' /\ x.msg \in Messages
  <2> SUFFICES ASSUME w \in Consumers PROVE ConsumerOK(w)' /\ x.msg \in Messages
    OBVIOUS
  <2>1. x.msg \in Messages /\ Body[x.msg].cart = c
    BY <1>10, BusyConsumer DEF OrderInv, ConsumerOK
  <2> QED
    BY <2>1, <1>8, <1>10, <1>11 DEF ConsumerOK, HasOrder
<1>13. w \in Rpcs => RpcOK(w)'
  BY <1>10, <1>11, IdleType, OrderConstants DEF RpcOK
<1>14. TypeOK'
  <2>1. orders' \in [OrderIds -> Row \union {Absent}]
    BY <1>1, <1>3, <1>5 DEF OrderInv, TypeOK
  <2>2. outbox' \in [OrderIds -> Seq(Event)]
    <3>1. Append(outbox[o], e) \in Seq(Event)
      BY <1>1, <1>4, AppendFacts DEF OrderInv, TypeOK
    <3> QED
      BY <1>1, <1>5, <3>1 DEF OrderInv, TypeOK
  <2>3. idem' \in [Carts \X Keys -> OrderIds \union {NoOrder}]
    BY <1>1 DEF OrderInv, TypeOK, StoreOrder
  <2>4. \A v \in Consumers : worker'[v].pc # "idle" => worker'[v].msg # NoMessage
    BY <1>11, <1>12, OrderConstants DEF OrderInv, TypeOK, Workers
  <2> QED
    BY <2>1, <2>2, <2>3, <2>4, <1>11 DEF OrderInv, TypeOK
<1> QED
  BY <1>7, <1>8, <1>11, <1>12, <1>13, <1>14, StepKeepsInv DEF Workers

LEMMA InsertInv ==
    ASSUME OrderInv, NEW w \in Workers, Insert(w) \/ InsertUnconfirmed(w)
    PROVE  OrderInv'
<1>1. PICK o \in Candidates(w) : ~Exists(o) /\ StoreOrder(w, o)
  BY DEF Insert, InsertUnconfirmed
<1>2. /\ worker[w].pc = "insert" /\ (Succeed(w) \/ Fail(w))
      /\ UNCHANGED delivery /\ faults' \in 0..MaxFaults
  BY OrderConstants DEF Insert, InsertUnconfirmed, CountFault, OrderInv, TypeOK
<1> QED
  BY <1>1, <1>2, StoreInv

\* A write to an order that exists: its cart stays, its status changes.
LEMMA MoveOrder ==
    ASSUME OrderInv, NEW o \in OrderIds, Exists(o),
           NEW row \in Row, NEW e \in Event,
           orders' = [orders EXCEPT ![o] = row], row.cart = orders[o].cart,
           outbox' = [outbox EXCEPT ![o] = Append(@, e)],
           row.status = e.status, e.status # orders[o].status,
           e.type # "OrderCreated",
           e.type = "OrderPaid" => orders[o].status = "pending",
           e.type = "OrderFulfilled" => orders[o].status = "paid",
           row.cancelledAt <=> row.status = "cancelled",
           row.paidAt <=> orders[o].paidAt \/ e.type = "OrderPaid",
           row.fulfilledAt <=> orders[o].fulfilledAt \/ e.type = "OrderFulfilled"
    PROVE  /\ HistoryIsConsistent'
           /\ \A c \in Carts : HasOrder(c) => HasOrder(c)'
           /\ orders' \in [OrderIds -> Row \union {Absent}]
           /\ outbox' \in [OrderIds -> Seq(Event)]
<1>1. HistoryIsConsistent'
  BY HistoryStep DEF OrderInv
<1>2. \A c \in Carts : HasOrder(c) => HasOrder(c)'
  BY RowKeepsCart DEF OrderInv
<1>3. orders' \in [OrderIds -> Row \union {Absent}]
  BY DEF OrderInv, TypeOK
<1>4. Append(outbox[o], e) \in Seq(Event)
  BY AppendFacts DEF OrderInv, TypeOK
<1>5. outbox' \in [OrderIds -> Seq(Event)]
  BY <1>4 DEF OrderInv, TypeOK
<1> QED
  BY <1>1, <1>2, <1>3, <1>5

\* The row of an order that exists, as SMT wants to see it.
LEMMA RowType ==
    ASSUME TypeOK, NEW o \in OrderIds, Exists(o)
    PROVE  /\ orders[o] \in Row
           /\ orders[o].cart \in Carts /\ orders[o].status \in Status
           /\ orders[o].paidAt \in BOOLEAN /\ orders[o].fulfilledAt \in BOOLEAN
           /\ orders[o].cancelledAt \in BOOLEAN
<1>1. orders[o] \in Row
  BY DEF TypeOK, Exists, Absent
<1> QED
  BY <1>1 DEF Row

LEMMA PayHandler ==
    ASSUME OrderInv, NEW w \in Workers, worker[w].pc = "pay",
           NEW pc \in {"ack", "nak"}, Goto(w, pc)
    PROVE  /\ worker' \in [Workers -> WorkerState]
           /\ \A v \in Consumers : worker'[v].pc # "idle" => worker'[v].msg # NoMessage
           /\ \A v \in Consumers : worker'[v] = worker[v] \/ ConsumerOK(v)'
           /\ \A v \in Rpcs : worker'[v] = worker[v]
           /\ Body[worker[w].msg].order \in OrderIds
<1>1. w \in Consumers /\ w \notin Rpcs /\ worker[w].msg \in Messages
  BY OnlyConsumers
<1>2. /\ worker[w] \in WorkerState
      /\ worker' = [worker EXCEPT ![w] = [worker[w] EXCEPT !.pc = pc]]
      /\ worker'[w] = [worker[w] EXCEPT !.pc = pc]
      /\ \A v \in Workers : v # w => worker'[v] = worker[v]
  BY DEF Goto, OrderInv, TypeOK
<1>3. worker'[w] \in WorkerState /\ worker'[w].pc = pc /\ worker'[w].msg = worker[w].msg
  BY <1>2 DEF WorkerState
<1>4. ConsumerOK(w)'
  BY <1>1, <1>3 DEF ConsumerOK, OrderInv
<1>5. worker' \in [Workers -> WorkerState]
  BY <1>2, <1>3 DEF OrderInv, TypeOK
<1>6. \A v \in Consumers : worker'[v].pc # "idle" => worker'[v].msg # NoMessage
  BY <1>1, <1>2, <1>3, OrderConstants DEF OrderInv, TypeOK, Workers
<1> QED
  BY <1>1, <1>2, <1>4, <1>5, <1>6, BodyType DEF Workers

LEMMA MarkPaidInv ==
    ASSUME OrderInv, NEW w \in Workers, MarkPaid(w)
    PROVE  OrderInv'
<1> DEFINE o == Body[worker[w].msg].order
           row == [orders[o] EXCEPT !.status = "paid", !.paidAt = TRUE]
           e == [type |-> "OrderPaid", status |-> "paid"]
<1>1. o \in OrderIds
  BY PayHandler DEF MarkPaid
<1>2. Exists(o) /\ orders[o].status = "pending"
  BY DEF MarkPaid, Exists
<1>3. orders[o] \in Row /\ orders[o].fulfilledAt \in BOOLEAN
  BY <1>1, <1>2, RowType DEF OrderInv
<1>4. /\ row \in Row /\ row.cart = orders[o].cart /\ row.status = "paid" /\ row.paidAt
      /\ row.fulfilledAt = orders[o].fulfilledAt
      /\ row.cancelledAt = orders[o].cancelledAt
  BY <1>3 DEF Row, Status
<1>5. e \in Event /\ e.type = "OrderPaid" /\ e.status = "paid"
  BY DEF Event, Status
<1>6. /\ orders' = [orders EXCEPT ![o] = row]
      /\ outbox' = [outbox EXCEPT ![o] = Append(@, e)]
  BY DEF MarkPaid, Record
<1>7. ~orders[o].cancelledAt
  BY <1>1, <1>2 DEF OrderInv, HistoryIsConsistent, StampsMatchHistory
<1>8. /\ row.cancelledAt <=> row.status = "cancelled"
      /\ row.paidAt <=> orders[o].paidAt \/ e.type = "OrderPaid"
      /\ row.fulfilledAt <=> orders[o].fulfilledAt \/ e.type = "OrderFulfilled"
  BY <1>4, <1>5, <1>7
<1> HIDE DEF o, row, e
<1>9. /\ HistoryIsConsistent'
      /\ \A c \in Carts : HasOrder(c) => HasOrder(c)'
      /\ orders' \in [OrderIds -> Row \union {Absent}]
      /\ outbox' \in [OrderIds -> Seq(Event)]
  BY <1>1, <1>2, <1>4, <1>5, <1>6, <1>8, MoveOrder
<1>10. worker[w].pc = "pay" /\ Goto(w, "ack") /\ UNCHANGED <<idem, delivery, faults>>
  BY DEF MarkPaid
<1>11. /\ worker' \in [Workers -> WorkerState]
       /\ \A v \in Consumers : worker'[v].pc # "idle" => worker'[v].msg # NoMessage
       /\ \A v \in Consumers : worker'[v] = worker[v] \/ ConsumerOK(v)'
       /\ \A v \in Rpcs : worker'[v] = worker[v]
  BY <1>10, PayHandler
<1>12. TypeOK'
  BY <1>9, <1>10, <1>11 DEF OrderInv, TypeOK
<1> QED
  BY <1>9, <1>10, <1>11, <1>12, StepKeepsInv

LEMMA NotPaidInv ==
    ASSUME OrderInv, NEW w \in Workers, MarkPaidIgnored(w) \/ MarkPaidRefused(w)
    PROVE  OrderInv'
<1>1. PICK pc \in {"ack", "nak"} : Goto(w, pc)
  BY DEF MarkPaidIgnored, MarkPaidRefused
<1>2. worker[w].pc = "pay" /\ UNCHANGED <<orders, idem, outbox, delivery, faults>>
  BY DEF MarkPaidIgnored, MarkPaidRefused
<1>3. /\ worker' \in [Workers -> WorkerState]
      /\ \A v \in Consumers : worker'[v].pc # "idle" => worker'[v].msg # NoMessage
      /\ \A v \in Consumers : worker'[v] = worker[v] \/ ConsumerOK(v)'
      /\ \A v \in Rpcs : worker'[v] = worker[v]
  BY <1>1, <1>2, PayHandler
<1>4. TypeOK'
  BY <1>2, <1>3 DEF OrderInv, TypeOK
<1> QED
  BY <1>2, <1>3, <1>4, QuietStep, StepKeepsInv

LEMMA FulfillOrderInv ==
    ASSUME OrderInv, NEW o \in OrderIds, FulfillOrder(o)
    PROVE  OrderInv'
<1> DEFINE row == [orders[o] EXCEPT !.status = "fulfilled", !.fulfilledAt = TRUE]
           e == [type |-> "OrderFulfilled", status |-> "fulfilled"]
<1>1. Exists(o) /\ orders[o].status = "paid"
  BY DEF FulfillOrder, Exists
<1>2. orders[o] \in Row /\ orders[o].paidAt \in BOOLEAN
  BY <1>1, RowType DEF OrderInv
<1>3. /\ row \in Row /\ row.cart = orders[o].cart /\ row.status = "fulfilled"
      /\ row.fulfilledAt /\ row.paidAt = orders[o].paidAt
      /\ row.cancelledAt = orders[o].cancelledAt
  BY <1>2 DEF Row, Status
<1>4. e \in Event /\ e.type = "OrderFulfilled" /\ e.status = "fulfilled"
  BY DEF Event, Status
<1>5. /\ orders' = [orders EXCEPT ![o] = row]
      /\ outbox' = [outbox EXCEPT ![o] = Append(@, e)]
      /\ UNCHANGED <<idem, delivery, worker, faults>>
  BY DEF FulfillOrder, Record
<1>6. ~orders[o].cancelledAt
  BY <1>1 DEF OrderInv, HistoryIsConsistent, StampsMatchHistory
<1>7. /\ row.cancelledAt <=> row.status = "cancelled"
      /\ row.paidAt <=> orders[o].paidAt \/ e.type = "OrderPaid"
      /\ row.fulfilledAt <=> orders[o].fulfilledAt \/ e.type = "OrderFulfilled"
  BY <1>3, <1>4, <1>6
<1> HIDE DEF row, e
<1>8. /\ HistoryIsConsistent'
      /\ \A c \in Carts : HasOrder(c) => HasOrder(c)'
      /\ orders' \in [OrderIds -> Row \union {Absent}]
      /\ outbox' \in [OrderIds -> Seq(Event)]
  BY <1>1, <1>3, <1>4, <1>5, <1>7, MoveOrder
<1>9. TypeOK'
  BY <1>5, <1>8 DEF OrderInv, TypeOK
<1> QED
  BY <1>5, <1>8, <1>9, StepKeepsInv

LEMMA UpdateOrderStatusInv ==
    ASSUME OrderInv, NEW o \in OrderIds, NEW s \in Requests, UpdateOrderStatus(o, s)
    PROVE  OrderInv'
<1> DEFINE row == [orders[o] EXCEPT !.status = s, !.cancelledAt = (s = "cancelled")]
           e == [type |-> "OrderStatusChanged", status |-> s]
<1>1. Exists(o) /\ orders[o].status # s /\ s \in Status
  BY OrderConstants DEF UpdateOrderStatus, Status
<1>2. /\ orders[o] \in Row /\ orders[o].paidAt \in BOOLEAN
      /\ orders[o].fulfilledAt \in BOOLEAN
  BY <1>1, RowType DEF OrderInv
<1>3. /\ row \in Row /\ row.cart = orders[o].cart /\ row.status = s
      /\ row.fulfilledAt = orders[o].fulfilledAt /\ row.paidAt = orders[o].paidAt
      /\ row.cancelledAt = (s = "cancelled")
  BY <1>1, <1>2 DEF Row
<1>4. e \in Event /\ e.type = "OrderStatusChanged" /\ e.status = s
  BY <1>1 DEF Event
<1>5. /\ orders' = [orders EXCEPT ![o] = row]
      /\ outbox' = [outbox EXCEPT ![o] = Append(@, e)]
      /\ UNCHANGED <<idem, delivery, worker, faults>>
  BY DEF UpdateOrderStatus, Record
<1>6. /\ row.cancelledAt <=> row.status = "cancelled"
      /\ row.paidAt <=> orders[o].paidAt \/ e.type = "OrderPaid"
      /\ row.fulfilledAt <=> orders[o].fulfilledAt \/ e.type = "OrderFulfilled"
  BY <1>3, <1>4
<1> HIDE DEF row, e
<1>7. /\ HistoryIsConsistent'
      /\ \A c \in Carts : HasOrder(c) => HasOrder(c)'
      /\ orders' \in [OrderIds -> Row \union {Absent}]
      /\ outbox' \in [OrderIds -> Seq(Event)]
  BY <1>1, <1>3, <1>4, <1>5, <1>6, MoveOrder
<1>8. TypeOK'
  BY <1>5, <1>7 DEF OrderInv, TypeOK
<1> QED
  BY <1>5, <1>7, <1>8, StepKeepsInv

-----------------------------------------------------------------------------
(* The theorems *)

LEMMA NextInv == OrderInv /\ [Next]_vars => OrderInv'
<1> SUFFICES ASSUME OrderInv, [Next]_vars PROVE OrderInv'
  OBVIOUS
<1>1. ASSUME NEW w \in Workers, Handle(w) PROVE OrderInv'
  <2>1. CASE ReadMessage(w)
    BY <2>1, ReadMessageInv
  <2>2. CASE Lookup(w)
    BY <2>2, LookupInv
  <2>3. CASE LookupMissed(w)
    BY <2>3, GoOnInv DEF LookupMissed
  <2>4. CASE GetCart(w)
    BY <2>4, GoOnInv DEF GetCart
  <2>5. CASE Insert(w)
    BY <2>5, InsertInv
  <2>6. CASE InsertRejected(w)
    BY <2>6, CallErrorInv
  <2>7. CASE MarkPaid(w)
    BY <2>7, MarkPaidInv
  <2>8. CASE MarkPaidIgnored(w) \/ MarkPaidRefused(w)
    BY <2>8, NotPaidInv
  <2> QED
    BY <1>1, <2>1, <2>2, <2>3, <2>4, <2>5, <2>6, <2>7, <2>8 DEF Handle
<1>2. ASSUME NEW w \in Consumers, Consume(w) PROVE OrderInv'
  BY <1>1, <1>2, AckInv, NakInv, DeliverInv DEF Consume, Workers
<1>3. ASSUME NEW w \in Rpcs, Serve(w) PROVE OrderInv'
  BY <1>1, <1>3, CreateOrderInv DEF Serve, Workers
<1>4. ASSUME NEW w \in Workers, InsertUnconfirmed(w) \/ CallError(w) \/ Crash(w)
      PROVE  OrderInv'
  BY <1>4, InsertInv, CallErrorInv, CrashInv
<1>5. CASE UNCHANGED vars
  <2>1. UNCHANGED <<orders, idem, outbox, delivery, worker, faults>>
    BY <1>5 DEF vars
  <2>2. TypeOK'
    BY <2>1 DEF OrderInv, TypeOK
  <2> QED
    BY <2>1, <2>2, QuietStep, StepKeepsInv
<1> QED
  BY <1>2, <1>3, <1>4, <1>5, AckWaitInv, FulfillOrderInv, UpdateOrderStatusInv DEF Next

\* The inductive invariant holds of every behaviour of the order-service.
THEOREM OrderInvariant == Spec => []OrderInv
  BY InitInv, NextInv, PTL DEF Spec

(***************************************************************************)
(* Every row, event, delivery count and handler of the order-service stays *)
(* within its type.                                                        *)
(***************************************************************************)
THEOREM OrderTypeCorrect == Spec => []TypeOK
<1>1. OrderInv => TypeOK
  BY DEF OrderInv
<1> QED
  BY <1>1, OrderInvariant, PTL

(***************************************************************************)
(* The CartFinalized consumer acknowledges a message only once its cart    *)
(* has an order, for any number of replicas, redeliveries, failed calls    *)
(* and crashes: an acknowledged cart is never lost.                        *)
(***************************************************************************)
THEOREM AckedCartsHaveOrders == Spec => []AckedCartHasOrder
<1>1. OrderInv => AckedCartHasOrder
  BY DEF OrderInv
<1> QED
  BY <1>1, OrderInvariant, PTL

(***************************************************************************)
(* The orders table, its timestamps and the events in the outbox tell one  *)
(* history, whatever requests and redelivered messages interleave.         *)
(***************************************************************************)
THEOREM HistoriesAgree == Spec => []HistoryIsConsistent
<1>1. OrderInv => HistoryIsConsistent
  BY DEF OrderInv
<1> QED
  BY <1>1, OrderInvariant, PTL
=============================================================================
