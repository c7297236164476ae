--------------------------- MODULE PaymentProofs ----------------------------
(***************************************************************************)
(* Proofs about the payment orchestrator, for any number of handlers,      *)
(* payments and keys.                                                      *)
(***************************************************************************)
EXTENDS Payment, TLAPS

-----------------------------------------------------------------------------
(* The inductive invariant *)

(***************************************************************************)
(* What a handler knows at each step.  The handler acts on what it read a  *)
(* few steps ago; these are the facts about the gateway and the table that *)
(* stay true meanwhile, because the gateway never takes an approval or a   *)
(* capture back and rows are never deleted.                                *)
(***************************************************************************)
InitiateOK(x) ==
    /\ x.pc \in {"authorize", "create"} =>
          /\ x.pid \in PaymentIds /\ requested[x.pid] # NoKey /\ ~Exists(x.pid)
    /\ x.pc \in {"authorize", "create", "unlock"} => x.key \in Keys
    /\ x.pc = "create" =>
          /\ x.to \in {"AUTHORIZING", "FAILED"}
          /\ x.to = "AUTHORIZING" => x.pid \in authorized
    /\ x.pc \in {"authorize", "create"} => x.reason # "refunded"

OperateOK(x) ==
    /\ x.pc \in {"capture", "settle", "refund", "webhook", "update"} =>
          x.pid \in PaymentIds /\ Exists(x.pid)
    /\ x.pc = "capture" => x.read = "AUTHORIZING" /\ x.pid \in authorized
    /\ x.pc = "settle" => x.read = "CAPTURED" /\ x.pid \in captured
    /\ x.pc = "refund" => x.read \in {"CAPTURED", "SETTLED"} /\ x.pid \in captured
    /\ x.pc \in {"capture", "settle", "refund"} => x.reason # "refunded"
    /\ x.pc \in {"webhook", "update"} =>
          /\ x.to \in {"CAPTURED", "SETTLED", "FAILED"}
          /\ x.to # "FAILED" => x.pid \in captured
          /\ x.reason = "refunded" => x.pid \in settled
    /\ x.pc = "update" =>
          /\ x.read \in {"AUTHORIZING", "CAPTURED", "SETTLED"}
          /\ x.read = "SETTLED" => x.to = "FAILED" /\ x.reason = "refunded"

ThreadOK == \A t \in Threads : InitiateOK(thread[t]) /\ OperateOK(thread[t])

\* A payment id is drawn once: no two handlers initiate the same payment.
OneInitiator ==
    \A t, u \in Threads :
        t # u /\ thread[t].pc \in {"authorize", "create"}
              /\ thread[u].pc \in {"authorize", "create"} => thread[t].pid # thread[u].pid

StoredWasRequested == \A p \in PaymentIds : Exists(p) => requested[p] # NoKey

PaymentInv ==
    /\ TypeOK
    /\ ThreadOK
    /\ OneInitiator
    /\ StoredWasRequested
    /\ MoneyMovesInOrder
    /\ RefundedWasReversed
    /\ OnePaymentPerKey

-----------------------------------------------------------------------------
(* Steps of one handler *)

LEMMA IdleType == Idle \in ThreadState /\ Idle.pc = "idle"
BY DEF Idle, ThreadState, PCs, Reasons

Initiating(x) == x.pc \in {"authorize", "create"}

(***************************************************************************)
(* A step of handler t to the local state y keeps the facts about the      *)
(* other handlers as long as the gateway and the table only grow, and only *)
(* the payment that t itself is creating appears.                          *)
(***************************************************************************)
LEMMA ThreadStep ==
    ASSUME PaymentInv, NEW t \in Threads, NEW y \in ThreadState,
           thread' = [thread EXCEPT ![t] = y],
           authorized \subseteq authorized', captured \subseteq captured',
           settled \subseteq settled',
           \A p \in PaymentIds : Exists(p) => Exists(p)',
           \A p \in PaymentIds : requested[p] # NoKey => requested'[p] # NoKey,
           \A p \in PaymentIds : ~Exists(p) /\ Exists(p)' =>
               Initiating(thread[t]) /\ p = thread[t].pid,
           InitiateOK(y)', OperateOK(y)',
           Initiating(y) => \/ Initiating(thread[t]) /\ y.pid = thread[t].pid
                            \/ requested[y.pid] = NoKey
    PROVE  /\ thread' \in [Threads -> ThreadState]
           /\ ThreadOK'
           /\ OneInitiator'
<1>0. thread \in [Threads -> ThreadState]
  BY DEF PaymentInv, TypeOK
<1>1. thread' \in [Threads -> ThreadState]
  BY <1>0
<1>2. \A u \in Threads : thread'[u] = IF u = t THEN y ELSE thread[u]
  BY <1>0
<1>3. ASSUME NEW u \in Threads, u # t
      PROVE  InitiateOK(thread[u])' /\ OperateOK(thread[u])'
  <2>1. InitiateOK(thread[u]) /\ OperateOK(thread[u]) /\ thread'[u] = thread[u]
    BY <1>2, <1>3 DEF PaymentInv, ThreadOK
  <2>2. Initiating(thread[u]) =>
            thread[u].pid \in PaymentIds /\ ~Exists(thread[u].pid)'
    BY <1>3, <2>1 DEF PaymentInv, OneInitiator, Initiating, InitiateOK
  <2>3. InitiateOK(thread[u])'
    BY <2>1, <2>2 DEF InitiateOK, Initiating
  <2>4. OperateOK(thread[u])'
    BY <2>1 DEF OperateOK
  <2> QED  BY <2>3, <2>4
<1>4. InitiateOK(thread[t])' /\ OperateOK(thread[t])'
  <2>1. thread'[t] = y
    BY <1>2
  <2> QED  BY <2>1 DEF InitiateOK, OperateOK
<1>5. ThreadOK'
  BY <1>3, <1>4 DEF ThreadOK
<1>6. ASSUME NEW u \in Threads, u # t, Initiating(y), Initiating(thread[u])
      PROVE  y.pid # thread[u].pid
  <2>1. requested[thread[u].pid] # NoKey
    BY <1>6 DEF PaymentInv, ThreadOK, InitiateOK, Initiating
  <2>2. CASE Initiating(thread[t]) /\ y.pid = thread[t].pid
    BY <1>6, <2>2 DEF PaymentInv, OneInitiator, Initiating
  <2> QED  BY <1>6, <2>1, <2>2
<1>7. OneInitiator'
  <2> SUFFICES ASSUME NEW a \in Threads, NEW b \in Threads, a # b,
                      Initiating(thread'[a]), Initiating(thread'[b])
               PROVE  thread'[a].pid # thread'[b].pid
    BY DEF OneInitiator, Initiating
  <2>1. CASE a = t
    BY <1>2, <1>6, <2>1
  <2>2. CASE b = t
    BY <1>2, <1>6, <2>2
  <2>3. CASE a # t /\ b # t
    BY <1>2, <2>3 DEF PaymentInv, OneInitiator, Initiating
  <2> QED  BY <2>1, <2>2, <2>3
<1> QED  BY <1>1, <1>5, <1>7

\* A step that writes neither the table, nor the outbox, nor the gateway, and
\* draws no payment id.
LEMMA LocalStep ==
    ASSUME PaymentInv, NEW t \in Threads, NEW y \in ThreadState,
           thread' = [thread EXCEPT ![t] = y],
           UNCHANGED <<payments, requested, gateway, outbox>>,
           lock' \subseteq Keys,
           InitiateOK(y), OperateOK(y),
           Initiating(y) => Initiating(thread[t]) /\ y.pid = thread[t].pid
    PROVE  PaymentInv'
<1>1. /\ payments' = payments /\ requested' = requested /\ outbox' = outbox
      /\ authorized' = authorized /\ captured' = captured /\ settled' = settled
  BY DEF gateway
<1>2. \A p \in PaymentIds : Exists(p)' <=> Exists(p)
  BY <1>1 DEF Exists
<1>3. InitiateOK(y)' /\ OperateOK(y)'
  BY <1>1 DEF InitiateOK, OperateOK, Exists
<1>4. thread' \in [Threads -> ThreadState] /\ ThreadOK' /\ OneInitiator'
  BY <1>1, <1>2, <1>3, ThreadStep
<1>5. TypeOK'
  BY <1>1, <1>4 DEF PaymentInv, TypeOK
<1>6. StoredWasRequested' /\ MoneyMovesInOrder' /\ RefundedWasReversed' /\ OnePaymentPerKey'
  BY <1>1 DEF PaymentInv, StoredWasRequested, MoneyMovesInOrder, RefundedWasReversed,
              OnePaymentPerKey, Exists
<1> QED  BY <1>4, <1>5, <1>6 DEF PaymentInv

\* A handler that returns leaves nothing behind.
LEMMA ReturnStep ==
    ASSUME PaymentInv, NEW t \in Threads, Return(t),
           UNCHANGED <<payments, requested, gateway, outbox>>, lock' \subseteq Keys
    PROVE  PaymentInv'
<1>1. InitiateOK(Idle) /\ OperateOK(Idle) /\ ~Initiating(Idle)
  BY IdleType DEF InitiateOK, OperateOK, Initiating
<1> QED  BY <1>1, IdleType, LocalStep DEF Return

-----------------------------------------------------------------------------
(* Initiating a payment *)

LEMMA LockInv ==
    ASSUME PaymentInv, NEW t \in Threads, NEW p \in PaymentIds, NEW k \in Keys,
           Lock(t, p, k)
    PROVE  PaymentInv'
<1>0. TypeOK
  BY DEF PaymentInv
<1>1. PICK y \in ThreadState :
          /\ thread' = [thread EXCEPT ![t] = y]
          /\ y.pc = "authorize" /\ y.pid = p /\ y.key = k /\ y.reason = "none"
  <2> DEFINE z == [Idle EXCEPT !.pc = "authorize", !.pid = p, !.key = k]
  <2>1. z \in ThreadState /\ z.pc = "authorize" /\ z.pid = p /\ z.key = k /\ z.reason = "none"
    BY DEF Idle, ThreadState, PCs, Reasons
  <2>2. thread' = [thread EXCEPT ![t] = z]
    BY DEF Lock
  <2> HIDE DEF z
  <2> QED  BY <2>1, <2>2
<1>2. /\ payments' = payments /\ outbox' = outbox /\ lock' \subseteq Keys
      /\ authorized' = authorized /\ captured' = captured /\ settled' = settled
      /\ requested[p] = NoKey /\ requested' = [requested EXCEPT ![p] = k]
  BY <1>0 DEF Lock, gateway, TypeOK
<1>3. \A q \in PaymentIds : Exists(q)' <=> Exists(q)
  BY <1>2 DEF Exists
<1>4. \A q \in PaymentIds : requested[q] # NoKey => requested'[q] # NoKey
  BY <1>0, <1>2 DEF TypeOK
<1>5. requested'[p] # NoKey /\ ~Exists(p)
  BY <1>0, <1>2, PaymentConstants DEF TypeOK, PaymentInv, StoredWasRequested
<1>6. InitiateOK(y)' /\ OperateOK(y)'
  BY <1>1, <1>3, <1>5 DEF InitiateOK, OperateOK
<1>7. thread' \in [Threads -> ThreadState] /\ ThreadOK' /\ OneInitiator'
  BY <1>1, <1>2, <1>3, <1>4, <1>6, ThreadStep
<1>8. TypeOK'
  BY <1>0, <1>2, <1>7 DEF TypeOK
<1>9. StoredWasRequested'
  BY <1>3, <1>4 DEF PaymentInv, StoredWasRequested
<1>10. MoneyMovesInOrder' /\ RefundedWasReversed' /\ OnePaymentPerKey'
  BY <1>2 DEF PaymentInv, MoneyMovesInOrder, RefundedWasReversed, OnePaymentPerKey, Exists
<1> QED  BY <1>7, <1>8, <1>9, <1>10 DEF PaymentInv

LEMMA AuthorizeInv ==
    ASSUME PaymentInv, NEW t \in Threads, Authorize(t)
    PROVE  PaymentInv'
<1>0. TypeOK /\ InitiateOK(thread[t]) /\ thread[t] \in ThreadState
  BY DEF PaymentInv, ThreadOK, TypeOK
<1>1. thread[t].pid \in PaymentIds /\ requested[thread[t].pid] # NoKey /\ ~Exists(thread[t].pid)
      /\ thread[t].key \in Keys /\ thread[t].pc = "authorize" /\ thread[t].reason # "refunded"
  BY <1>0 DEF Authorize, InitiateOK
<1>2. PICK y \in ThreadState :
          /\ thread' = [thread EXCEPT ![t] = y]
          /\ y.pc = "create" /\ y.pid = thread[t].pid /\ y.key = thread[t].key
          /\ y.reason # "refunded"
          /\ \/ y.to = "AUTHORIZING" /\ y.pid \in authorized'
             \/ y.to = "FAILED"
  <2>1. CASE /\ authorized' = authorized \union {thread[t].pid}
             /\ thread' = [thread EXCEPT ![t].pc = "create", ![t].to = "AUTHORIZING"]
    <3> DEFINE z == [thread[t] EXCEPT !.pc = "create", !.to = "AUTHORIZING"]
    <3>1. z \in ThreadState /\ thread' = [thread EXCEPT ![t] = z]
      BY <1>0, <2>1 DEF ThreadState, PCs, StoredStatus, TypeOK
    <3> QED  BY <1>0, <1>1, <2>1, <3>1 DEF ThreadState
  <2>2. CASE thread' = [thread EXCEPT ![t].pc = "create", ![t].to = "FAILED",
                                      ![t].reason = "declined"]
    <3> DEFINE z == [thread[t] EXCEPT !.pc = "create", !.to = "FAILED", !.reason = "declined"]
    <3>0. "create" \in PCs /\ "FAILED" \in StoredStatus /\ "declined" \in Reasons
      BY DEF PCs, StoredStatus, Reasons
    <3>1. /\ z \in ThreadState /\ z.pc = "create" /\ z.to = "FAILED" /\ z.reason = "declined"
          /\ z.pid = thread[t].pid /\ z.key = thread[t].key
      BY <1>0, <3>0 DEF ThreadState
    <3>2. thread' = [thread EXCEPT ![t] = z]
      BY <1>0, <2>2 DEF TypeOK
    <3> HIDE DEF z
    <3> QED  BY <3>1, <3>2
  <2> QED  BY <2>1, <2>2 DEF Authorize
<1>3. /\ payments' = payments /\ outbox' = outbox /\ lock' = lock /\ requested' = requested
      /\ captured' = captured /\ settled' = settled
      /\ authorized \subseteq authorized' /\ authorized' \subseteq PaymentIds
  BY <1>0, <1>1 DEF Authorize, TypeOK
<1>4. \A q \in PaymentIds : Exists(q)' <=> Exists(q)
  BY <1>3 DEF Exists
<1>5. InitiateOK(y)' /\ OperateOK(y)'
  BY <1>1, <1>2, <1>3, <1>4 DEF InitiateOK, OperateOK
<1>6. thread' \in [Threads -> ThreadState] /\ ThreadOK' /\ OneInitiator'
  BY <1>1, <1>2, <1>3, <1>4, <1>5, ThreadStep DEF Initiating
<1>7. TypeOK'
  BY <1>0, <1>3, <1>6 DEF TypeOK
<1>8. StoredWasRequested' /\ MoneyMovesInOrder' /\ RefundedWasReversed' /\ OnePaymentPerKey'
  BY <1>3 DEF PaymentInv, StoredWasRequested, MoneyMovesInOrder, RefundedWasReversed,
              OnePaymentPerKey, Exists
<1> QED  BY <1>6, <1>7, <1>8 DEF PaymentInv

LEMMA CreateInv ==
    ASSUME PaymentInv, NEW t \in Threads, Create(t)
    PROVE  PaymentInv'
<1> DEFINE p == thread[t].pid
<1> DEFINE row == [key |-> thread[t].key, status |-> thread[t].to, reason |-> thread[t].reason]
<1>0. TypeOK /\ InitiateOK(thread[t]) /\ thread[t] \in ThreadState
  BY DEF PaymentInv, ThreadOK, TypeOK
<1>1. /\ p \in PaymentIds /\ requested[p] # NoKey /\ ~Exists(p)
      /\ thread[t].key \in Keys /\ thread[t].pc = "create" /\ thread[t].reason # "refunded"
      /\ thread[t].to \in {"AUTHORIZING", "FAILED"}
      /\ thread[t].to = "AUTHORIZING" => p \in authorized
  BY <1>0 DEF Create, InitiateOK
<1>2. PICK y \in ThreadState :
          thread' = [thread EXCEPT ![t] = y] /\ y.pc = "unlock" /\ y.key = thread[t].key
  <2> DEFINE z == [Idle EXCEPT !.pc = "unlock", !.key = thread[t].key]
  <2>1. z \in ThreadState /\ z.pc = "unlock" /\ z.key = thread[t].key
    BY <1>1 DEF Idle, ThreadState, PCs, Reasons
  <2>2. thread' = [thread EXCEPT ![t] = z]
    BY DEF Create
  <2> HIDE DEF z
  <2> QED  BY <2>1, <2>2
<1>3. /\ lock' = lock /\ requested' = requested
      /\ authorized' = authorized /\ captured' = captured /\ settled' = settled
  BY DEF Create, gateway
<1>4. InitiateOK(y)' /\ OperateOK(y)' /\ ~Initiating(y)
  BY <1>1, <1>2 DEF InitiateOK, OperateOK, Initiating
<1>5. CASE UNCHANGED <<payments, outbox>>
  <2>1. InitiateOK(y) /\ OperateOK(y)
    BY <1>1, <1>2 DEF InitiateOK, OperateOK
  <2>2. UNCHANGED <<payments, requested, gateway, outbox>> /\ lock' \subseteq Keys
    BY <1>0, <1>3, <1>5 DEF gateway, TypeOK
  <2> QED  BY <1>2, <1>4, <2>1, <2>2, LocalStep
<1>6. CASE /\ ~KeyTaken(thread[t].key)
           /\ payments' = [payments EXCEPT ![p] = row]
           /\ outbox' = [outbox EXCEPT ![p] = Append(@, "PaymentInitiated")]
  <2>1. row \in Row /\ row # Absent
    BY <1>0, <1>1 DEF Row, StoredStatus, ThreadState, Absent
  <2>2. \A q \in PaymentIds : payments'[q] = IF q = p THEN row ELSE payments[q]
    BY <1>0, <1>6 DEF TypeOK
  <2>3. \A q \in PaymentIds : Exists(q)' <=> (Exists(q) \/ q = p)
    BY <1>1, <2>1, <2>2 DEF Exists
  <2>4. thread' \in [Threads -> ThreadState] /\ ThreadOK' /\ OneInitiator'
    BY <1>1, <1>2, <1>3, <1>4, <2>3, ThreadStep DEF Initiating
  <2>5. outbox' \in [PaymentIds -> Seq(EventType)]
    BY <1>0, <1>1, <1>6 DEF TypeOK, EventType
  <2>6. TypeOK'
    BY <1>0, <1>3, <1>6, <2>1, <2>4, <2>5 DEF TypeOK
  <2>7. StoredWasRequested'
    BY <1>1, <1>3, <2>3 DEF PaymentInv, StoredWasRequested
  <2>8. MoneyMovesInOrder'
    BY <1>1, <1>3, <2>2 DEF PaymentInv, MoneyMovesInOrder
  <2>9. RefundedWasReversed'
    BY <1>1, <1>3, <2>2 DEF PaymentInv, RefundedWasReversed
  <2>10. OnePaymentPerKey'
    BY <1>1, <1>6, <2>2, <2>3 DEF PaymentInv, OnePaymentPerKey, KeyTaken
  <2> QED  BY <2>4, <2>6, <2>7, <2>8, <2>9, <2>10 DEF PaymentInv
<1> QED  BY <1>5, <1>6 DEF Create

LEMMA UnlockInv ==
    ASSUME PaymentInv, NEW t \in Threads, Unlock(t)
    PROVE  PaymentInv'
<1>1. lock' \subseteq Keys
  BY DEF Unlock, PaymentInv, TypeOK
<1> QED  BY <1>1, ReturnStep DEF Unlock

LEMMA LockExpireInv ==
    ASSUME PaymentInv, NEW k \in Keys, LockExpire(k)
    PROVE  PaymentInv'
<1>1. /\ payments' = payments /\ requested' = requested /\ outbox' = outbox
      /\ authorized' = authorized /\ captured' = captured /\ settled' = settled
      /\ thread' = thread /\ lock' \subseteq lock
  BY DEF LockExpire, gateway
<1>2. TypeOK'
  BY <1>1 DEF PaymentInv, TypeOK
<1>3. ThreadOK' /\ OneInitiator'
  BY <1>1 DEF PaymentInv, ThreadOK, OneInitiator, InitiateOK, OperateOK, Exists
<1>4. StoredWasRequested' /\ MoneyMovesInOrder' /\ RefundedWasReversed' /\ OnePaymentPerKey'
  BY <1>1 DEF PaymentInv, StoredWasRequested, MoneyMovesInOrder, RefundedWasReversed,
              OnePaymentPerKey, Exists
<1> QED  BY <1>2, <1>3, <1>4 DEF PaymentInv

-----------------------------------------------------------------------------
(* Capture, settle, refund and the webhook *)

\* The guard of an operation says what the gateway has already done.
LEMMA ReadForInv ==
    ASSUME PaymentInv, NEW t \in Threads, NEW p \in PaymentIds,
           NEW pc \in {"capture", "settle", "refund"}, NEW allowed,
           ReadFor(t, p, pc, allowed),
           pc = "capture" => allowed = {"AUTHORIZING"},
           pc = "settle" => allowed = {"CAPTURED"},
           pc = "refund" => allowed = {"CAPTURED", "SETTLED"}
    PROVE  PaymentInv'
<1> DEFINE z == [Idle EXCEPT !.pc = pc, !.pid = p, !.read = payments[p].status]
<1>0. payments[p].status \in {"AUTHORIZING", "CAPTURED", "SETTLED"} /\ payments[p].status \in allowed
  BY DEF ReadFor
<1>1. /\ z \in ThreadState /\ z.pc = pc /\ z.pid = p
      /\ z.read = payments[p].status /\ z.read \in allowed /\ z.reason = "none"
  BY <1>0 DEF Idle, ThreadState, PCs, Reasons, StoredStatus
<1>2. thread' = [thread EXCEPT ![t] = z] /\ UNCHANGED <<payments, requested, gateway, outbox>>
  BY DEF ReadFor
<1> HIDE DEF z
<1>3. Exists(p)
  BY <1>0 DEF Exists, Absent
<1>4. InitiateOK(z) /\ ~Initiating(z)
  BY <1>1 DEF InitiateOK, Initiating
<1>5. OperateOK(z)
  BY <1>0, <1>1, <1>3 DEF OperateOK, PaymentInv, MoneyMovesInOrder
<1>6. lock' \subseteq Keys
  BY DEF ReadFor, PaymentInv, TypeOK
<1> QED  BY <1>1, <1>2, <1>4, <1>5, <1>6, LocalStep

(***************************************************************************)
(* A gateway call changes captured or settled and the caller's local       *)
(* state.                                                                  *)
(***************************************************************************)
LEMMA GatewayStep ==
    ASSUME PaymentInv, NEW t \in Threads, NEW y \in ThreadState,
           thread' = [thread EXCEPT ![t] = y], ~Initiating(y),
           UNCHANGED <<payments, lock, requested, authorized, outbox>>,
           captured \subseteq captured', settled \subseteq settled',
           captured' \subseteq authorized, settled' \subseteq captured',
           InitiateOK(y)', OperateOK(y)'
    PROVE  PaymentInv'
<1>1. \A q \in PaymentIds : Exists(q)' <=> Exists(q)
  BY DEF Exists
<1>2. thread' \in [Threads -> ThreadState] /\ ThreadOK' /\ OneInitiator'
  BY <1>1, ThreadStep
<1>3. captured' \subseteq PaymentIds /\ settled' \subseteq PaymentIds
  BY DEF PaymentInv, TypeOK
<1>4. TypeOK'
  BY <1>2, <1>3 DEF PaymentInv, TypeOK
<1>5. StoredWasRequested' /\ MoneyMovesInOrder' /\ RefundedWasReversed' /\ OnePaymentPerKey'
  BY DEF PaymentInv, StoredWasRequested, MoneyMovesInOrder, RefundedWasReversed,
         OnePaymentPerKey, Exists
<1> QED  BY <1>2, <1>4, <1>5 DEF PaymentInv

\* A returning handler knows nothing that could become false.
LEMMA IdleOK == ~Initiating(Idle) /\ InitiateOK(Idle)' /\ OperateOK(Idle)'
BY IdleType DEF InitiateOK, OperateOK, Initiating

LEMMA GatewayCaptureInv ==
    ASSUME PaymentInv, NEW t \in Threads, GatewayCapture(t)
    PROVE  PaymentInv'
<1> DEFINE p == thread[t].pid
<1>0. TypeOK /\ OperateOK(thread[t]) /\ thread[t] \in ThreadState /\ thread[t].pc = "capture"
  BY DEF PaymentInv, ThreadOK, TypeOK, GatewayCapture
<1>1. /\ p \in PaymentIds /\ Exists(p) /\ p \in authorized
      /\ thread[t].read = "AUTHORIZING" /\ thread[t].reason # "refunded"
  BY <1>0 DEF OperateOK
<1>2. /\ UNCHANGED <<payments, lock, requested, authorized, outbox>> /\ settled' = settled
      /\ captured \subseteq captured' /\ captured' \subseteq captured \union {p}
  BY DEF GatewayCapture
<1>3. captured' \subseteq authorized /\ settled' \subseteq captured'
  BY <1>1, <1>2 DEF PaymentInv, MoneyMovesInOrder
<1>4. CASE Return(t)
  BY <1>2, <1>3, <1>4, IdleType, IdleOK, GatewayStep DEF Return
<1>5. CASE /\ captured' = captured \union {p}
           /\ thread' = [thread EXCEPT ![t].pc = "update", ![t].to = "CAPTURED"]
  <2> DEFINE z == [thread[t] EXCEPT !.pc = "update", !.to = "CAPTURED"]
  <2>1. z \in ThreadState /\ thread' = [thread EXCEPT ![t] = z]
    BY <1>0, <1>5 DEF ThreadState, PCs, StoredStatus, TypeOK
  <2>2. /\ z.pc = "update" /\ z.to = "CAPTURED" /\ z.pid = p
        /\ z.read = "AUTHORIZING" /\ z.reason # "refunded"
    BY <1>0, <1>1 DEF ThreadState
  <2>3. PICK y \in ThreadState : y = z
    BY <2>1
  <2> HIDE DEF z
  <2>4. InitiateOK(y)' /\ ~Initiating(y)
    BY <2>2, <2>3 DEF InitiateOK, Initiating
  <2>5. OperateOK(y)'
    BY <1>1, <1>2, <1>5, <2>2, <2>3 DEF OperateOK, Exists
  <2> QED  BY <1>2, <1>3, <2>1, <2>3, <2>4, <2>5, GatewayStep
<1> QED  BY <1>4, <1>5 DEF GatewayCapture

LEMMA GatewaySettleInv ==
    ASSUME PaymentInv, NEW t \in Threads, GatewaySettle(t)
    PROVE  PaymentInv'
<1> DEFINE p == thread[t].pid
<1>0. TypeOK /\ OperateOK(thread[t]) /\ thread[t] \in ThreadState
      /\ thread[t].pc \in {"settle", "refund"}
  BY DEF PaymentInv, ThreadOK, TypeOK, GatewaySettle
<1>1. /\ p \in PaymentIds /\ Exists(p) /\ p \in captured
      /\ thread[t].pc = "settle" => thread[t].read = "CAPTURED"
      /\ thread[t].pc = "refund" => thread[t].read \in {"CAPTURED", "SETTLED"}
      /\ thread[t].reason # "refunded"
  BY <1>0 DEF OperateOK
<1>2. /\ UNCHANGED <<payments, lock, requested, authorized, outbox>> /\ captured' = captured
      /\ settled \subseteq settled' /\ settled' \subseteq settled \union {p}
  BY DEF GatewaySettle
<1>3. captured' \subseteq authorized /\ settled' \subseteq captured'
  BY <1>1, <1>2 DEF PaymentInv, MoneyMovesInOrder
<1>4. CASE Return(t)
  BY <1>2, <1>3, <1>4, IdleType, IdleOK, GatewayStep DEF Return
<1> DEFINE z == IF thread[t].pc = "settle"
                THEN [thread[t] EXCEPT !.pc = "update", !.to = "SETTLED"]
                ELSE [thread[t] EXCEPT !.pc = "update", !.to = "FAILED", !.reason = "refunded"]
<1>5. CASE settled' = settled \union {p} /\ thread' = [thread EXCEPT ![t] = z]
  <2>0. /\ "update" \in PCs /\ "SETTLED" \in StoredStatus /\ "FAILED" \in StoredStatus
        /\ "refunded" \in Reasons
    BY DEF PCs, StoredStatus, Reasons
  <2>1. z \in ThreadState
    BY <1>0, <2>0 DEF ThreadState
  <2>2. /\ z.pc = "update" /\ z.pid = p /\ z.read \in {"CAPTURED", "SETTLED"}
        /\ z.to \in {"SETTLED", "FAILED"}
        /\ z.read = "SETTLED" => z.to = "FAILED" /\ z.reason = "refunded"
    BY <1>0, <1>1 DEF ThreadState
  <2>3. PICK y \in ThreadState : y = z
    BY <2>1
  <2> HIDE DEF z
  <2>4. InitiateOK(y)' /\ ~Initiating(y)
    BY <2>2, <2>3 DEF InitiateOK, Initiating
  <2>5. OperateOK(y)'
    BY <1>1, <1>2, <1>5, <2>2, <2>3 DEF OperateOK, Exists
  <2> QED  BY <1>2, <1>3, <1>5, <2>3, <2>4, <2>5, GatewayStep
<1> QED  BY <1>0, <1>4, <1>5 DEF GatewaySettle

LEMMA WebhookInv ==
    ASSUME PaymentInv, NEW t \in Threads, NEW p \in PaymentIds, Webhook(t, p)
    PROVE  PaymentInv'
<1>1. PICK s \in Reported(p) :
          thread' = [thread EXCEPT ![t] =
             [Idle EXCEPT !.pc = "webhook", !.pid = p, !.to = s,
                          !.reason = IF s = "FAILED" THEN "declined" ELSE "none"]]
  BY DEF Webhook
<1> DEFINE z == [Idle EXCEPT !.pc = "webhook", !.pid = p, !.to = s,
                             !.reason = IF s = "FAILED" THEN "declined" ELSE "none"]
<1>2. s \in {"FAILED", "CAPTURED", "SETTLED"} /\ (s # "FAILED" => p \in captured)
  BY DEF Reported, PaymentInv, MoneyMovesInOrder
<1>3. z \in ThreadState /\ z.pc = "webhook" /\ z.pid = p /\ z.to = s /\ z.reason # "refunded"
  BY <1>2 DEF Idle, ThreadState, PCs, Reasons, StoredStatus
<1>4. thread' = [thread EXCEPT ![t] = z]
  BY <1>1
<1> HIDE DEF z
<1>5. InitiateOK(z) /\ OperateOK(z) /\ ~Initiating(z)
  BY <1>2, <1>3 DEF InitiateOK, OperateOK, Initiating, Webhook
<1>6. UNCHANGED <<payments, requested, gateway, outbox>> /\ lock' \subseteq Keys
  BY DEF Webhook, PaymentInv, TypeOK
<1> QED  BY <1>3, <1>4, <1>5, <1>6, LocalStep

LEMMA WebhookReadInv ==
    ASSUME PaymentInv, NEW t \in Threads, WebhookRead(t)
    PROVE  PaymentInv'
<1> DEFINE p == thread[t].pid
<1>0. TypeOK /\ OperateOK(thread[t]) /\ thread[t] \in ThreadState /\ thread[t].pc = "webhook"
  BY DEF PaymentInv, ThreadOK, TypeOK, WebhookRead
<1>1. p \in PaymentIds /\ Exists(p)
  BY <1>0 DEF OperateOK
<1>2. payments[p].status \in StoredStatus
  BY <1>0, <1>1 DEF TypeOK, Exists, Row
<1>3. UNCHANGED <<payments, requested, gateway, outbox>> /\ lock' \subseteq Keys
  BY <1>0 DEF WebhookRead, TypeOK
<1>4. CASE IsTerminal(payments[p].status)
  BY <1>3, <1>4, ReturnStep DEF WebhookRead
<1>5. CASE ~IsTerminal(payments[p].status)
  <2> DEFINE z == [thread[t] EXCEPT !.pc = "update", !.read = payments[p].status]
  <2>1. z \in ThreadState /\ thread' = [thread EXCEPT ![t] = z]
    BY <1>0, <1>2, <1>5 DEF WebhookRead, ThreadState, PCs, TypeOK
  <2>2. /\ z.pc = "update" /\ z.pid = p /\ z.to = thread[t].to /\ z.reason = thread[t].reason
        /\ z.read \in {"AUTHORIZING", "CAPTURED"}
    BY <1>0, <1>2, <1>5 DEF ThreadState, IsTerminal, StoredStatus
  <2> HIDE DEF z
  <2>3. InitiateOK(z) /\ ~Initiating(z)
    BY <2>2 DEF InitiateOK, Initiating
  <2>4. OperateOK(z)
    BY <1>0, <2>2 DEF OperateOK
  <2> QED  BY <1>3, <2>1, <2>3, <2>4, LocalStep
<1> QED  BY <1>4, <1>5

LEMMA UpdateStatusInv ==
    ASSUME PaymentInv, NEW t \in Threads, UpdateStatus(t)
    PROVE  PaymentInv'
<1> DEFINE p == thread[t].pid
<1>0. TypeOK /\ OperateOK(thread[t]) /\ thread[t] \in ThreadState /\ thread[t].pc = "update"
  BY DEF PaymentInv, ThreadOK, TypeOK, UpdateStatus
<1>1. /\ p \in PaymentIds /\ Exists(p)
      /\ thread[t].to \in {"CAPTURED", "SETTLED", "FAILED"}
      /\ thread[t].to # "FAILED" => p \in captured
      /\ thread[t].reason = "refunded" => p \in settled
  BY <1>0 DEF OperateOK
<1>2. /\ lock' = lock /\ requested' = requested /\ Return(t)
      /\ authorized' = authorized /\ captured' = captured /\ settled' = settled
  BY DEF UpdateStatus, gateway
<1>3. CASE UNCHANGED <<payments, outbox>>
  <2>1. UNCHANGED <<payments, requested, gateway, outbox>> /\ lock' \subseteq Keys
    BY <1>0, <1>2, <1>3 DEF gateway, TypeOK
  <2> QED  BY <1>2, <2>1, ReturnStep
<1>4. CASE /\ payments' = [payments EXCEPT ![p].status = thread[t].to,
                                           ![p].reason = thread[t].reason]
           /\ outbox' = [outbox EXCEPT ![p] = Append(@, thread[t].to)]
  <2> DEFINE row == [payments[p] EXCEPT !.status = thread[t].to, !.reason = thread[t].reason]
  <2>1. payments[p] \in Row
    BY <1>0, <1>1 DEF TypeOK, Exists
  <2>2. /\ row \in Row /\ row.key = payments[p].key /\ row.status = thread[t].to
        /\ row.reason = thread[t].reason
    BY <1>0, <1>1, <2>1 DEF Row, StoredStatus, ThreadState
  <2>3. payments' = [payments EXCEPT ![p] = row]
    BY <1>0, <1>1, <1>4 DEF TypeOK
  <2> HIDE DEF row
  <2>4. row # Absent
    BY <2>2, PaymentConstants DEF Row, Absent
  <2>5. \A q \in PaymentIds : payments'[q] = IF q = p THEN row ELSE payments[q]
    BY <1>0, <2>3 DEF TypeOK
  <2>6. \A q \in PaymentIds : Exists(q)' <=> Exists(q)
    BY <1>1, <2>4, <2>5 DEF Exists
  <2>7. thread' \in [Threads -> ThreadState] /\ ThreadOK' /\ OneInitiator'
    BY <1>2, <2>6, IdleType, IdleOK, ThreadStep DEF Return
  <2>8. outbox' \in [PaymentIds -> Seq(EventType)]
    <3>1. thread[t].to \in EventType
      BY <1>1 DEF EventType
    <3> QED  BY <1>0, <1>1, <1>4, <3>1 DEF TypeOK
  <2>9. TypeOK'
    BY <1>0, <1>2, <2>2, <2>3, <2>7, <2>8 DEF TypeOK
  <2>10. StoredWasRequested'
    BY <1>2, <2>6 DEF PaymentInv, StoredWasRequested
  <2>11. MoneyMovesInOrder'
    BY <1>1, <1>2, <2>2, <2>5 DEF PaymentInv, MoneyMovesInOrder
  <2>12. RefundedWasReversed'
    BY <1>1, <1>2, <2>2, <2>5 DEF PaymentInv, RefundedWasReversed
  <2>13. OnePaymentPerKey'
    BY <2>2, <2>5, <2>6 DEF PaymentInv, OnePaymentPerKey
  <2> QED  BY <2>7, <2>9, <2>10, <2>11, <2>12, <2>13 DEF PaymentInv
<1> QED  BY <1>3, <1>4 DEF UpdateStatus

LEMMA CrashInv ==
    ASSUME PaymentInv, NEW t \in Threads, Crash(t)
    PROVE  PaymentInv'
<1>1. lock' \subseteq Keys
  BY DEF Crash, PaymentInv, TypeOK
<1> QED  BY <1>1, ReturnStep DEF Crash

-----------------------------------------------------------------------------
(* The theorems *)

LEMMA InitPaymentInv == Init => PaymentInv
<1> SUFFICES ASSUME Init PROVE PaymentInv
  OBVIOUS
<1>1. \A p \in PaymentIds : payments[p] = Absent /\ ~Exists(p) /\ outbox[p] = <<>>
  BY DEF Init, Exists
<1>2. \A t \in Threads : thread[t] = Idle
  BY DEF Init
<1>3. TypeOK
  <2>1. <<>> \in Seq(EventType)
    OBVIOUS
  <2> QED  BY <2>1, IdleType DEF Init, TypeOK
<1>4. ThreadOK /\ OneInitiator
  BY <1>2, IdleType DEF ThreadOK, OneInitiator, InitiateOK, OperateOK
<1>5. StoredWasRequested /\ OnePaymentPerKey
  BY <1>1 DEF StoredWasRequested, OnePaymentPerKey
<1>6. MoneyMovesInOrder /\ RefundedWasReversed
  BY <1>1 DEF Init, MoneyMovesInOrder, RefundedWasReversed, Absent
<1> QED  BY <1>3, <1>4, <1>5, <1>6 DEF PaymentInv

LEMMA NextPaymentInv == PaymentInv /\ [Next]_vars => PaymentInv'
<1> SUFFICES ASSUME PaymentInv, [Next]_vars PROVE PaymentInv'
  OBVIOUS
<1>1. ASSUME NEW t \in Threads, Initiate(t) PROVE PaymentInv'
  BY <1>1, LockInv, AuthorizeInv, CreateInv, UnlockInv DEF Initiate
<1>2. ASSUME NEW t \in Threads, Operate(t) PROVE PaymentInv'
  <2>1. ASSUME NEW p \in PaymentIds,
               CapturePayment(t, p) \/ SettlePayment(t, p) \/ RefundPayment(t, p)
        PROVE  PaymentInv'
    BY <2>1, ReadForInv DEF CapturePayment, SettlePayment, RefundPayment
  <2>2. ASSUME NEW p \in PaymentIds, Webhook(t, p) PROVE PaymentInv'
    BY <2>2, WebhookInv
  <2> QED  BY <1>2, <2>1, <2>2, GatewayCaptureInv, GatewaySettleInv, WebhookReadInv,
              UpdateStatusInv DEF Operate
<1>3. ASSUME NEW t \in Threads, Crash(t) PROVE PaymentInv'
  BY <1>3, CrashInv
<1>4. ASSUME NEW k \in Keys, LockExpire(k) PROVE PaymentInv'
  BY <1>4, LockExpireInv
<1>5. CASE UNCHANGED vars
  <2>1. /\ payments' = payments /\ requested' = requested /\ outbox' = outbox
        /\ authorized' = authorized /\ captured' = captured /\ settled' = settled
        /\ thread' = thread /\ lock' = lock
    BY <1>5 DEF vars
  <2>2. TypeOK'
    BY <2>1 DEF PaymentInv, TypeOK
  <2>3. ThreadOK' /\ OneInitiator'
    BY <2>1 DEF PaymentInv, ThreadOK, OneInitiator, InitiateOK, OperateOK, Exists
  <2>4. StoredWasRequested' /\ MoneyMovesInOrder' /\ RefundedWasReversed' /\ OnePaymentPerKey'
    BY <2>1 DEF PaymentInv, StoredWasRequested, MoneyMovesInOrder, RefundedWasReversed,
                OnePaymentPerKey, Exists
  <2> QED  BY <2>2, <2>3, <2>4 DEF PaymentInv
<1> QED  BY <1>1, <1>2, <1>3, <1>4, <1>5 DEF Next

LEMMA PaymentInvariant == Spec => []PaymentInv
BY InitPaymentInv, NextPaymentInv, PTL DEF Spec

\* Type correctness of the orchestrator.
THEOREM PaymentTypeCorrect == Spec => []TypeOK
BY PaymentInvariant, PTL DEF PaymentInv

\* One payment per idempotency key, for any number of racing handlers, crashes
\* and lock expirations: it rests on the table alone, never on the Redis lock.
THEOREM IdempotentCreation == Spec => []OnePaymentPerKey
BY PaymentInvariant, PTL DEF PaymentInv

\* The gateway captures what it approved and reverses or settles what it
\* captured, although every handler acts on a status it read earlier.
THEOREM MoneyInOrder == Spec => []MoneyMovesInOrder
BY PaymentInvariant, PTL DEF PaymentInv

\* A payment marked refunded was reversed at the gateway.
THEOREM RefundsReversed == Spec => []RefundedWasReversed
BY PaymentInvariant, PTL DEF PaymentInv

-----------------------------------------------------------------------------
(* Finished payments *)

FinishedStep(p) ==
    /\ payments[p].status = "FAILED" => payments'[p] = payments[p]
    /\ payments[p].status = "SETTLED" /\ payments'[p] # payments[p]
          => payments'[p].status = "FAILED" /\ payments'[p].reason = "refunded"

LEMMA FinishedSteps ==
    ASSUME PaymentInv, [Next]_vars
    PROVE  \A p \in PaymentIds : FinishedStep(p)
<1>0. payments \in [PaymentIds -> Row \union {Absent}]
  BY DEF PaymentInv, TypeOK
<1>1. CASE payments' = payments
  BY <1>1 DEF FinishedStep
<1>2. ASSUME NEW t \in Threads, Create(t) PROVE \A p \in PaymentIds : FinishedStep(p)
  <2>1. ~Exists(thread[t].pid) /\ thread[t].pid \in PaymentIds
    BY <1>2 DEF Create, PaymentInv, ThreadOK, InitiateOK
  <2>2. payments[thread[t].pid].status = "absent"
    BY <2>1 DEF Exists, Absent
  <2>3. \A q \in PaymentIds : q # thread[t].pid => payments'[q] = payments[q]
    BY <1>0, <1>2 DEF Create
  <2> QED  BY <2>2, <2>3 DEF FinishedStep
<1>3. ASSUME NEW t \in Threads, UpdateStatus(t) PROVE \A p \in PaymentIds : FinishedStep(p)
  <2> DEFINE p == thread[t].pid
  <2>0. CASE payments' = payments
    BY <2>0 DEF FinishedStep
  <2>1. CASE /\ payments[p].status = thread[t].read
             /\ payments' = [payments EXCEPT ![p].status = thread[t].to,
                                             ![p].reason = thread[t].reason]
    <3>1. /\ p \in PaymentIds /\ Exists(p)
          /\ thread[t].read \in {"AUTHORIZING", "CAPTURED", "SETTLED"}
          /\ thread[t].read = "SETTLED" => thread[t].to = "FAILED" /\ thread[t].reason = "refunded"
      BY <1>3 DEF UpdateStatus, PaymentInv, ThreadOK, OperateOK
    <3>2. payments[p] \in Row
      BY <1>0, <3>1 DEF Exists
    <3>3. /\ payments'[p].status = thread[t].to /\ payments'[p].reason = thread[t].reason
          /\ \A q \in PaymentIds : q # p => payments'[q] = payments[q]
      BY <1>0, <2>1, <3>1, <3>2 DEF Row
    <3> QED  BY <2>1, <3>1, <3>3 DEF FinishedStep
  <2> QED  BY <1>3, <2>0, <2>1 DEF UpdateStatus
<1>4. ASSUME NEW t \in Threads, Initiate(t) PROVE payments' = payments \/ Create(t)
  BY <1>4 DEF Initiate, Lock, Authorize, Unlock
<1>5. ASSUME NEW t \in Threads, Operate(t) PROVE payments' = payments \/ UpdateStatus(t)
  BY <1>5 DEF Operate, CapturePayment, SettlePayment, RefundPayment, ReadFor, Webhook,
              GatewayCapture, GatewaySettle, WebhookRead
<1>6. ASSUME NEW t \in Threads, Crash(t) PROVE payments' = payments
  BY <1>6 DEF Crash
<1>7. ASSUME NEW k \in Keys, LockExpire(k) PROVE payments' = payments
  BY <1>7 DEF LockExpire
<1>8. CASE UNCHANGED vars
  BY <1>1, <1>8 DEF vars
<1> QED  BY <1>1, <1>2, <1>3, <1>4, <1>5, <1>6, <1>7, <1>8 DEF Next

\* No handler, however late, revives a failed payment or changes a settled one
\* other than by a refund.
THEOREM FinishedForGood == Spec => FinishedStaysFinished
<1>1. PaymentInv /\ [Next]_vars => [\A p \in PaymentIds :
          /\ payments[p].status = "FAILED" => payments'[p] = payments[p]
          /\ payments[p].status = "SETTLED" /\ payments'[p] # payments[p]
                => payments'[p].status = "FAILED" /\ payments'[p].reason = "refunded"
          ]_payments
  BY FinishedSteps DEF FinishedStep
<1> QED  BY <1>1, PaymentInvariant, PTL DEF Spec, FinishedStaysFinished

-----------------------------------------------------------------------------
(* The status events *)

\* The events s tell the story of the row x.
Told(x, s) ==
    /\ x = Absent <=> s = <<>>
    /\ x # Absent => s[1] = "PaymentInitiated"
    /\ Len(s) = 1 => x.status \in {"AUTHORIZING", "FAILED"}
    /\ Len(s) > 1 => x.status = Last(s)

LEMMA ToldByEvents ==
    EventsMatchStatus <=> \A p \in PaymentIds : Told(payments[p], outbox[p])
  BY DEF EventsMatchStatus, Told, Exists

\* An update appends the event of the status it writes.
LEMMA ToldUpdate ==
    ASSUME NEW x, x # Absent, NEW y, y # Absent, NEW s \in Seq(EventType),
           NEW e \in EventType, Told(x, s), y.status = e
    PROVE  Told(y, Append(s, e))
<1>1. s # <<>> /\ s[1] = "PaymentInitiated"
  BY DEF Told
<1>2. Len(s) \in Nat /\ Len(s) # 0
  BY <1>1
<1> DEFINE t == Append(s, e)
<1>3. /\ t \in Seq(EventType) /\ Len(t) = Len(s) + 1 /\ t # <<>> /\ t[Len(s) + 1] = e
      /\ \A i \in 1..Len(s) : t[i] = s[i]
  OBVIOUS
<1> HIDE DEF t
<1>4. t[1] = "PaymentInitiated" /\ Len(t) > 1
  BY <1>1, <1>2, <1>3
<1>5. Last(t) = e
  BY <1>3 DEF Last
<1> QED
  BY <1>2, <1>3, <1>4, <1>5 DEF Told, t

LEMMA ToldCreate ==
    ASSUME NEW s \in Seq(EventType), Told(Absent, s), NEW y, y # Absent,
           y.status \in {"AUTHORIZING", "FAILED"}
    PROVE  Told(y, Append(s, "PaymentInitiated"))
<1>1. s = <<>>
  BY DEF Told
<1>2. Append(s, "PaymentInitiated") = <<"PaymentInitiated">>
  BY <1>1
<1> QED
  BY <1>2 DEF Told

LEMMA ToldSteps ==
    ASSUME PaymentInv, EventsMatchStatus, [Next]_vars
    PROVE  EventsMatchStatus'
<1>0. /\ payments \in [PaymentIds -> Row \union {Absent}]
      /\ outbox \in [PaymentIds -> Seq(EventType)]
  BY DEF PaymentInv, TypeOK
<1>1. CASE UNCHANGED <<payments, outbox>>
  BY <1>1 DEF EventsMatchStatus, Exists
\* A step that writes one row and appends one event.
<1>2. ASSUME NEW p \in PaymentIds, NEW row, NEW e,
             payments' = [payments EXCEPT ![p] = row],
             outbox' = [outbox EXCEPT ![p] = Append(@, e)],
             Told(row, Append(outbox[p], e))
      PROVE  EventsMatchStatus'
  <2>1. \A q \in PaymentIds :
           /\ payments'[q] = IF q = p THEN row ELSE payments[q]
           /\ outbox'[q] = IF q = p THEN Append(outbox[p], e) ELSE outbox[q]
    BY <1>0, <1>2
  <2>2. \A q \in PaymentIds : Told(payments[q], outbox[q])
    BY ToldByEvents
  <2>3. ASSUME NEW q \in PaymentIds PROVE Told(payments'[q], outbox'[q])
    BY <1>2, <2>1, <2>2
  <2> QED
    BY <2>3, ToldByEvents DEF EventsMatchStatus, Told, Exists
<1>3. ASSUME NEW t \in Threads, Create(t) PROVE EventsMatchStatus'
  <2> DEFINE p == thread[t].pid
             row == [key |-> thread[t].key, status |-> thread[t].to,
                     reason |-> thread[t].reason]
  <2>1. /\ p \in PaymentIds /\ ~Exists(p) /\ thread[t].key \in Keys
        /\ thread[t].to \in {"AUTHORIZING", "FAILED"}
    BY <1>3 DEF Create, PaymentInv, ThreadOK, InitiateOK
  <2>2. CASE /\ payments' = [payments EXCEPT ![p] = row]
             /\ outbox' = [outbox EXCEPT ![p] = Append(@, "PaymentInitiated")]
    <3>1. row # Absent /\ row.status \in {"AUTHORIZING", "FAILED"}
      BY <2>1 DEF Absent
    <3>2. Told(Absent, outbox[p]) /\ outbox[p] \in Seq(EventType)
      BY <1>0, <2>1, ToldByEvents DEF Exists
    <3> HIDE DEF row
    <3>3. Told(row, Append(outbox[p], "PaymentInitiated"))
      BY <3>1, <3>2, ToldCreate
    <3> QED
      BY <1>2, <2>1, <2>2, <3>3
  <2> QED
    BY <1>1, <1>3, <2>2 DEF Create
<1>4. ASSUME NEW t \in Threads, UpdateStatus(t) PROVE EventsMatchStatus'
  <2> DEFINE p == thread[t].pid
             row == [payments[p] EXCEPT !.status = thread[t].to, !.reason = thread[t].reason]
  <2>1. /\ p \in PaymentIds /\ Exists(p) /\ thread[t].to \in {"CAPTURED", "SETTLED", "FAILED"}
    BY <1>4 DEF UpdateStatus, PaymentInv, ThreadOK, OperateOK
  <2>2. CASE /\ payments' = [payments EXCEPT ![p].status = thread[t].to,
                                             ![p].reason = thread[t].reason]
             /\ outbox' = [outbox EXCEPT ![p] = Append(@, thread[t].to)]
    <3>1. payments[p] \in Row /\ thread[t].to \in EventType
      BY <1>0, <2>1 DEF Exists, EventType
    <3>2. row.status = thread[t].to /\ row.key = payments[p].key
      BY <3>1 DEF Row
    <3>3. row # Absent
      BY <3>1, <3>2, PaymentConstants DEF Row, Absent
    <3>4. payments' = [payments EXCEPT ![p] = row]
      BY <1>0, <2>1, <2>2
    <3>5. Told(payments[p], outbox[p]) /\ outbox[p] \in Seq(EventType) /\ payments[p] # Absent
      BY <1>0, <2>1, ToldByEvents DEF Exists
    <3> HIDE DEF row
    <3>6. Told(row, Append(outbox[p], thread[t].to))
      BY <3>1, <3>2, <3>3, <3>5, ToldUpdate
    <3> QED
      BY <1>2, <2>1, <2>2, <3>4, <3>6
  <2> QED
    BY <1>1, <1>4, <2>2 DEF UpdateStatus
<1>5. ASSUME NEW t \in Threads, Initiate(t) PROVE UNCHANGED <<payments, outbox>> \/ Create(t)
  BY <1>5 DEF Initiate, Lock, Authorize, Unlock
<1>6. ASSUME NEW t \in Threads, Operate(t) PROVE UNCHANGED <<payments, outbox>> \/ UpdateStatus(t)
  BY <1>6 DEF Operate, CapturePayment, SettlePayment, RefundPayment, ReadFor, Webhook,
              GatewayCapture, GatewaySettle, WebhookRead
<1>7. ASSUME NEW t \in Threads, Crash(t) PROVE UNCHANGED <<payments, outbox>>
  BY <1>7 DEF Crash
<1>8. ASSUME NEW k \in Keys, LockExpire(k) PROVE UNCHANGED <<payments, outbox>>
  BY <1>8 DEF LockExpire
<1>9. CASE UNCHANGED vars
  BY <1>1, <1>9 DEF vars
<1> QED  BY <1>1, <1>3, <1>4, <1>5, <1>6, <1>7, <1>8, <1>9 DEF Next

\* The outbox tells the story of every row, whichever handlers lose the race
\* on its status or crash before they write.
THEOREM EventsTellStatus == Spec => []EventsMatchStatus
<1>1. Init => EventsMatchStatus
  BY DEF Init, EventsMatchStatus, Exists
<1>2. PaymentInv /\ EventsMatchStatus /\ [Next]_vars => EventsMatchStatus'
  BY ToldSteps
<1> QED  BY <1>1, <1>2, PaymentInvariant, PTL DEF Spec

=============================================================================
