------------------------------ MODULE Payment -------------------------------
(***************************************************************************)
(* The payment orchestrator (services/payment-orchestrator): request       *)
(* handlers that run concurrently against one payments table, the Redis    *)
(* idempotency lock, the Verifone gateway and the outbox.                  *)
(*                                                                         *)
(* A handler is a thread that takes the steps between which others run:    *)
(* each database statement, gateway call and Redis command is one step.    *)
(* The gateway, Redis and Postgres are external: they are modelled by what *)
(* the orchestrator's calls rely on.                                       *)
(***************************************************************************)
EXTENDS Naturals, Sequences, SequencesExt, FiniteSets

CONSTANTS
    Threads,      \* concurrent request handlers, over all replicas
    PaymentIds,   \* payment ids: CreatePayment draws a fresh one per request
    Keys,         \* Idempotency-Key header values
    NoKey, NoPayment,
    MaxEvents     \* bound on the outbox events of one payment

ASSUME PaymentConstants ==
    /\ NoKey \notin Keys
    /\ NoPayment \notin PaymentIds
    /\ MaxEvents \in Nat \ {0}

VARIABLES
    payments,    \* [PaymentIds -> row or Absent]: the payments table
    lock,        \* keys locked in Redis (idempotency:lock:<key>)
    requested,   \* [PaymentIds -> key it was drawn for, or NoKey]
    authorized,  \* payment ids whose card authorization the gateway approved
    captured,    \* payment ids the gateway captured
    settled,     \* payment ids for which the gateway ran Settle
    outbox,      \* [PaymentIds -> Seq(event)]: status events in commit order
    thread       \* [Threads -> local state of the handler]

vars == <<payments, lock, requested, authorized, captured, settled, outbox, thread>>

gateway == <<authorized, captured, settled>>

-----------------------------------------------------------------------------
(* Statuses of a stored payment (PENDING is never stored). *)
StoredStatus == {"AUTHORIZING", "CAPTURED", "SETTLED", "FAILED"}

Absent == [key |-> NoKey, status |-> "absent", reason |-> "none"]

Reasons == {"none", "declined", "refunded"}

Row == [key : Keys, status : StoredStatus, reason : Reasons]

Idle == [pc |-> "idle", pid |-> NoPayment, key |-> NoKey,
         read |-> "absent", to |-> "absent", reason |-> "none"]

PCs == {"idle", "authorize", "create", "unlock",
        "capture", "refund", "settle", "webhook", "update"}

ThreadState ==
    [pc : PCs, pid : PaymentIds \union {NoPayment}, key : Keys \union {NoKey},
     read : StoredStatus \union {"absent"}, to : StoredStatus \union {"absent"},
     reason : Reasons]

EventType == {"PaymentInitiated", "CAPTURED", "SETTLED", "FAILED"}

TypeOK ==
    /\ payments \in [PaymentIds -> Row \union {Absent}]
    /\ lock \subseteq Keys
    /\ requested \in [PaymentIds -> Keys \union {NoKey}]
    /\ authorized \subseteq PaymentIds
    /\ captured \subseteq PaymentIds
    /\ settled \subseteq PaymentIds
    /\ outbox \in [PaymentIds -> Seq(EventType)]
    /\ thread \in [Threads -> ThreadState]

Init ==
    /\ payments = [p \in PaymentIds |-> Absent]
    /\ lock = {}
    /\ requested = [p \in PaymentIds |-> NoKey]
    /\ authorized = {}
    /\ captured = {}
    /\ settled = {}
    /\ outbox = [p \in PaymentIds |-> <<>>]
    /\ thread = [t \in Threads |-> Idle]

Exists(p) == payments[p] # Absent

Return(t) == thread' = [thread EXCEPT ![t] = Idle]

-----------------------------------------------------------------------------
(* InitiatePayment *)

(***************************************************************************)
(* REST CreatePayment draws a fresh payment id and takes the Redis lock of *)
(* its idempotency key; while another request holds it the call returns    *)
(* AlreadyExists (a stuttering step, so it is left out).                   *)
(***************************************************************************)
Lock(t, p, k) ==
    /\ thread[t].pc = "idle"
    /\ requested[p] = NoKey
    /\ k \notin lock
    /\ lock' = lock \union {k}
    /\ requested' = [requested EXCEPT ![p] = k]
    /\ thread' = [thread EXCEPT ![t] = [Idle EXCEPT !.pc = "authorize",
                                                    !.pid = p, !.key = k]]
    /\ UNCHANGED <<payments, gateway, outbox>>

\* The lock's 30 s TTL runs out, whether or not its holder is still at work.
LockExpire(k) ==
    /\ k \in lock
    /\ lock' = lock \ {k}
    /\ UNCHANGED <<payments, requested, gateway, outbox, thread>>

(***************************************************************************)
(* The gateway call, made before anything is stored.  Approval leads to    *)
(* AUTHORIZING, a decline or any error to FAILED; an error may hide an     *)
(* approval whose answer was lost.                                         *)
(***************************************************************************)
Authorize(t) ==
    LET p == thread[t].pid IN
    /\ thread[t].pc = "authorize"
    /\ \/ /\ authorized' = authorized \union {p}
          /\ thread' = [thread EXCEPT ![t].pc = "create", ![t].to = "AUTHORIZING"]
       \/ /\ authorized' \in {authorized, authorized \union {p}}
          /\ thread' = [thread EXCEPT ![t].pc = "create", ![t].to = "FAILED",
                                      ![t].reason = "declined"]
    /\ UNCHANGED <<payments, lock, requested, captured, settled, outbox>>

\* Seeded fault: no lookup of the key and no unique constraint.
KeyNeverTaken(k) == FALSE

KeyTaken(k) == \E q \in PaymentIds : Exists(q) /\ payments[q].key = k

(***************************************************************************)
(* repository.Create: inserts the payment and its PaymentInitiated event.  *)
(* It writes nothing when a payment already has the key (the SELECT, or    *)
(* the unique constraint when two transactions race) or on any database    *)
(* error.                                                                  *)
(***************************************************************************)
Create(t) ==
    LET p == thread[t].pid IN
    /\ thread[t].pc = "create"
    /\ \/ /\ ~KeyTaken(thread[t].key)
          /\ payments' = [payments EXCEPT ![p] = [key |-> thread[t].key,
                                                  status |-> thread[t].to,
                                                  reason |-> thread[t].reason]]
          /\ outbox' = [outbox EXCEPT ![p] = Append(@, "PaymentInitiated")]
       \/ UNCHANGED <<payments, outbox>>
    /\ thread' = [thread EXCEPT ![t] = [Idle EXCEPT !.pc = "unlock",
                                                    !.key = thread[t].key]]
    /\ UNCHANGED <<lock, requested, gateway>>

\* The deferred Unlock: a DEL of the key, whoever holds the lock by now.
Unlock(t) ==
    /\ thread[t].pc = "unlock"
    /\ lock' = lock \ {thread[t].key}
    /\ Return(t)
    /\ UNCHANGED <<payments, requested, gateway, outbox>>

-----------------------------------------------------------------------------
(* Capture, settle and refund: read the row, call the gateway, then update *)

\* GetByID and the status guard; any other status returns an error.
ReadFor(t, p, pc, allowed) ==
    /\ thread[t].pc = "idle"
    /\ payments[p].status \in allowed
    /\ thread' = [thread EXCEPT ![t] = [Idle EXCEPT !.pc = pc, !.pid = p,
                                                    !.read = payments[p].status]]
    /\ UNCHANGED <<payments, lock, requested, gateway, outbox>>

\* Seeded fault: a capture is accepted in any open or failed state.
CaptureUnguarded(t, p) == ReadFor(t, p, "capture", {"AUTHORIZING", "FAILED"})

CapturePayment(t, p) == ReadFor(t, p, "capture", {"AUTHORIZING"})
SettlePayment(t, p) == ReadFor(t, p, "settle", {"CAPTURED"})
RefundPayment(t, p) == ReadFor(t, p, "refund", {"CAPTURED", "SETTLED"})

(***************************************************************************)
(* The gateway call.  On success the handler goes on to the update; on an  *)
(* error it returns, and the gateway may have acted all the same.          *)
(***************************************************************************)
GatewayCapture(t) ==
    /\ thread[t].pc = "capture"
    /\ \/ /\ captured' = captured \union {thread[t].pid}
          /\ thread' = [thread EXCEPT ![t].pc = "update", ![t].to = "CAPTURED"]
       \/ /\ captured' \in {captured, captured \union {thread[t].pid}}
          /\ Return(t)
    /\ UNCHANGED <<payments, lock, requested, authorized, settled, outbox>>

\* Refunds go through the gateway's Settle as well.
GatewaySettle(t) ==
    /\ thread[t].pc \in {"settle", "refund"}
    /\ \/ /\ settled' = settled \union {thread[t].pid}
          /\ thread' = [thread EXCEPT ![t] =
                IF @.pc = "settle"
                THEN [@ EXCEPT !.pc = "update", !.to = "SETTLED"]
                ELSE [@ EXCEPT !.pc = "update", !.to = "FAILED", !.reason = "refunded"]]
       \/ /\ settled' \in {settled, settled \union {thread[t].pid}}
          /\ Return(t)
    /\ UNCHANGED <<payments, lock, requested, authorized, captured, outbox>>

(***************************************************************************)
(* The Verifone webhook.  The signature is checked, so a notification is   *)
(* the sidecar's: CAPTURED and SETTLED report what the gateway did.  The   *)
(* handler's own terminal check reads SETTLED as AUTHORIZED (mapStatus)    *)
(* and stops FAILED payments only; the service's second read catches both. *)
(***************************************************************************)
Reported(p) ==
    {"FAILED"} \union (IF p \in captured THEN {"CAPTURED"} ELSE {})
               \union (IF p \in settled THEN {"SETTLED"} ELSE {})

Webhook(t, p) ==
    /\ thread[t].pc = "idle"
    /\ Exists(p)
    /\ payments[p].status # "FAILED"
    /\ \E s \in Reported(p) :
          thread' = [thread EXCEPT ![t] =
             [Idle EXCEPT !.pc = "webhook", !.pid = p, !.to = s,
                          !.reason = IF s = "FAILED" THEN "declined" ELSE "none"]]
    /\ UNCHANGED <<payments, lock, requested, gateway, outbox>>

IsTerminal(s) == s \in {"SETTLED", "FAILED"}

\* service.UpdateStatus reads the payment again and ignores terminal ones.
WebhookRead(t) ==
    LET s == payments[thread[t].pid].status IN
    /\ thread[t].pc = "webhook"
    /\ IF IsTerminal(s)
       THEN Return(t)
       ELSE thread' = [thread EXCEPT ![t].pc = "update", ![t].read = s]
    /\ UNCHANGED <<payments, lock, requested, gateway, outbox>>

\* Seeded fault: the UPDATE does not compare the status with the one read.
UpdateWithoutCompare(t) ==
    LET p == thread[t].pid IN
    /\ thread[t].pc = "update"
    /\ Len(outbox[p]) < MaxEvents
    /\ payments' = [payments EXCEPT ![p].status = thread[t].to,
                                    ![p].reason = thread[t].reason]
    /\ outbox' = [outbox EXCEPT ![p] = Append(@, thread[t].to)]
    /\ Return(t)
    /\ UNCHANGED <<lock, requested, gateway>>

\* Seeded fault: the event is written whether or not a row was updated.
UpdateAlwaysEmits(t) ==
    LET p == thread[t].pid IN
    /\ thread[t].pc = "update"
    /\ Len(outbox[p]) < MaxEvents
    /\ payments' = IF payments[p].status = thread[t].read
                   THEN [payments EXCEPT ![p].status = thread[t].to,
                                         ![p].reason = thread[t].reason]
                   ELSE payments
    /\ outbox' = [outbox EXCEPT ![p] = Append(@, thread[t].to)]
    /\ Return(t)
    /\ UNCHANGED <<lock, requested, gateway>>

(***************************************************************************)
(* repository.UpdateStatus: UPDATE ... WHERE status = from.  No row        *)
(* matches when another handler changed the status since it was read; then *)
(* nothing is written.  Otherwise the status event joins the transaction.  *)
(***************************************************************************)
UpdateStatus(t) ==
    LET p == thread[t].pid IN
    /\ thread[t].pc = "update"
    /\ \/ /\ payments[p].status = thread[t].read
          /\ Len(outbox[p]) < MaxEvents
          /\ payments' = [payments EXCEPT ![p].status = thread[t].to,
                                          ![p].reason = thread[t].reason]
          /\ outbox' = [outbox EXCEPT ![p] = Append(@, thread[t].to)]
       \/ /\ payments[p].status # thread[t].read
          /\ UNCHANGED <<payments, outbox>>
    /\ Return(t)
    /\ UNCHANGED <<lock, requested, gateway>>

\* The process crashes (or its context ends) between two steps; the deferred
\* Unlock does not run and the lock stays until its TTL.
Crash(t) ==
    /\ thread[t].pc # "idle"
    /\ Return(t)
    /\ UNCHANGED <<payments, lock, requested, gateway, outbox>>

-----------------------------------------------------------------------------
Initiate(t) ==
    \/ \E p \in PaymentIds, k \in Keys : Lock(t, p, k)
    \/ Authorize(t)
    \/ Create(t)
    \/ Unlock(t)

Operate(t) ==
    \/ \E p \in PaymentIds :
          \/ CapturePayment(t, p)
          \/ SettlePayment(t, p)
          \/ RefundPayment(t, p)
          \/ Webhook(t, p)
    \/ GatewayCapture(t)
    \/ GatewaySettle(t)
    \/ WebhookRead(t)
    \/ UpdateStatus(t)

Next ==
    \/ \E t \in Threads : Initiate(t) \/ Operate(t) \/ Crash(t)
    \/ \E k \in Keys : LockExpire(k)

Spec == Init /\ [][Next]_vars

\* Redis expires a lock 30 s after SETNX, whatever the orchestrator does.
FairSpec == Spec /\ \A k \in Keys : WF_vars(LockExpire(k))

-----------------------------------------------------------------------------
(***************************************************************************)
(* Requests that share an idempotency key never leave two payments, not    *)
(* even when the lock expired under the first one or was deleted by        *)
(* another request's Unlock.                                               *)
(***************************************************************************)
OnePaymentPerKey ==
    \A p, q \in PaymentIds :
        p # q /\ Exists(p) /\ Exists(q) => payments[p].key # payments[q].key

(***************************************************************************)
(* The status events in the outbox tell the story of the row: a payment's  *)
(* last status event names its current status, and one with no status      *)
(* event yet is as InitiatePayment stored it.  Handlers that lost the race *)
(* on the status write no event.                                           *)
(***************************************************************************)
EventsMatchStatus ==
    \A p \in PaymentIds :
        /\ ~Exists(p) <=> outbox[p] = <<>>
        /\ Exists(p) => outbox[p][1] = "PaymentInitiated"
        /\ Len(outbox[p]) = 1 => payments[p].status \in {"AUTHORIZING", "FAILED"}
        /\ Len(outbox[p]) > 1 => payments[p].status = Last(outbox[p])

(***************************************************************************)
(* Money moves in order: the gateway captures only what it approved and    *)
(* settles or reverses only what it captured, and the table says CAPTURED  *)
(* or SETTLED only of payments the gateway captured.                       *)
(***************************************************************************)
MoneyMovesInOrder ==
    /\ captured \subseteq authorized
    /\ settled \subseteq captured
    /\ \A p \in PaymentIds :
          /\ payments[p].status = "AUTHORIZING" => p \in authorized
          /\ payments[p].status \in {"CAPTURED", "SETTLED"} => p \in captured

\* A payment recorded as refunded went through the gateway's reversal.
RefundedWasReversed ==
    \A p \in PaymentIds : payments[p].reason = "refunded" => p \in settled

(***************************************************************************)
(* No late answer, webhook or racing handler revives a finished payment: a *)
(* FAILED row never changes and a SETTLED one changes only by a refund.    *)
(***************************************************************************)
FinishedStaysFinished ==
    [][\A p \in PaymentIds :
          /\ payments[p].status = "FAILED" => payments'[p] = payments[p]
          /\ payments[p].status = "SETTLED" /\ payments'[p] # payments[p]
                => payments'[p].status = "FAILED" /\ payments'[p].reason = "refunded"
      ]_payments

(***************************************************************************)
(* "Idempotency keyed on Idempotency-Key (Redis lock + Postgres            *)
(* uniqueness)" (README): a key is charged once, however often the kiosk   *)
(* retries the request.                                                    *)
(***************************************************************************)
AuthorizedOncePerKey ==
    \A p, q \in authorized : p # q => requested[p] # requested[q]
=============================================================================
