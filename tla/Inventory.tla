------------------------------ MODULE Inventory -----------------------------
(***************************************************************************)
(* The inventory-service: soft reservations and the insert-only ledger of  *)
(* one item in one store, under concurrent Read Committed transactions.    *)
(*                                                                         *)
(* A handler is one transaction, and each of its statements a step.  None  *)
(* of them locks the inventory row; the unique key (store, item, cart) and *)
(* the row lock of a DELETE make transactions on one cart's reservation    *)
(* wait for each other.  What a transaction wrote is seen once it commits. *)
(*                                                                         *)
(* created_at of a ledger row is now(), which in PostgreSQL is the start   *)
(* of the transaction: the latest row is that of the transaction that      *)
(* began last.  The Redis copy of a stock level is left out.               *)
(***************************************************************************)
EXTENDS Integers, FiniteSets, Functions

CONSTANTS
    Handlers,      \* concurrent handlers, over all replicas
    Carts,
    NoCart, NoHandler,
    MaxQuantity,   \* bound on the quantity of a reservation request
    Deltas,        \* adjustments that callers ask for
    MaxTx          \* bound on the transactions begun

ASSUME InventoryConstants ==
    /\ IsFiniteSet(Carts)
    /\ NoCart \notin Carts /\ NoHandler \notin Handlers
    /\ MaxQuantity \in Nat \ {0} /\ MaxTx \in Nat \ {0}
    /\ Deltas \subseteq Int

VARIABLES
    rows,        \* inventory_transactions: set of ledger rows
    held,        \* [Carts -> Nat]: quantity reserved; 0 when there is no row
    expired,     \* carts whose reservation is past expires_at_ms
    lock,        \* [Carts -> handler whose transaction wrote the reservation]
    clock,       \* transactions begun so far
    overlapped,  \* have two transactions ever been open at once?
    handler      \* [Handlers -> local state of the transaction]

vars == <<rows, held, expired, lock, clock, overlapped, handler>>

Idle == [pc |-> "idle", op |-> "none", cart |-> NoCart, delta |-> 0,
         stamp |-> 0, read |-> 0]

LedgerRow == [stamp : 1..MaxTx, cart : Carts \union {NoCart}, delta : Int, balance : Nat]

HandlerState ==
    [pc : {"idle", "balance", "check", "hold", "delete", "sweep", "previous", "commit"},
     op : {"none", "reserve", "release", "adjust", "sweep"},
     cart : Carts \union {NoCart}, delta : Int, stamp : 0..MaxTx, read : Int]

\* Ledger balances are naturals: ApplyDelta lets no negative one through.
TypeOK ==
    /\ rows \subseteq LedgerRow
    /\ held \in [Carts -> Nat]
    /\ expired \subseteq Carts
    /\ lock \in [Carts -> Handlers \union {NoHandler}]
    /\ clock \in 0..MaxTx
    /\ overlapped \in BOOLEAN
    /\ handler \in [Handlers -> HandlerState]

Init ==
    /\ rows = {}
    /\ held = [c \in Carts |-> 0]
    /\ expired = {}
    /\ lock = [c \in Carts |-> NoHandler]
    /\ clock = 0
    /\ overlapped = FALSE
    /\ handler = [h \in Handlers |-> Idle]

-----------------------------------------------------------------------------
\* Seeded fault: the ledger is read in ascending order.
FirstBalance ==
    IF rows = {} THEN 0
    ELSE (CHOOSE r \in rows : \A q \in rows : r.stamp <= q.stamp).balance

\* ORDER BY created_at DESC LIMIT 1, over the committed rows.
LastBalance ==
    IF rows = {} THEN 0
    ELSE (CHOOSE r \in rows : \A q \in rows : q.stamp <= r.stamp).balance

TotalHeld == SumFunctionOnSet(held, Carts)

SumOf(S) == SumFunctionOnSet([r \in S |-> r.delta], S)

\* ledger.ApplyDelta: the balance may not become negative.
ApplyDelta(current, delta) == current + delta >= 0

\* ledger.Available: what the service takes to be free.
Available(physical, reserved) == IF physical < reserved THEN 0 ELSE physical - reserved

Open(h) == handler[h].pc # "idle"

\* Seeded fault: an error path returns without the deferred Rollback.
RollbackForgotten(h) ==
    /\ handler' = [handler EXCEPT ![h] = Idle]
    /\ UNCHANGED <<rows, held, expired, lock, clock, overlapped>>

\* The deferred Rollback: nothing was written, and the locks are gone.
Rollback(h) ==
    /\ handler' = [handler EXCEPT ![h] = Idle]
    /\ lock' = [c \in Carts |-> IF lock[c] = h THEN NoHandler ELSE lock[c]]
    /\ UNCHANGED <<rows, held, expired, clock, overlapped>>

-----------------------------------------------------------------------------
(* Requests *)

\* BeginTx fixes the transaction's now().
Begin(h, request) ==
    /\ ~Open(h) /\ clock < MaxTx
    /\ clock' = clock + 1
    /\ handler' = [handler EXCEPT ![h] = [request EXCEPT !.stamp = clock + 1]]
    /\ overlapped' = (overlapped \/ \E g \in Handlers : Open(g))
    /\ UNCHANGED <<rows, held, expired, lock>>

ReserveStock(h) ==
    \E c \in Carts, q \in 1..MaxQuantity :
        Begin(h, [Idle EXCEPT !.pc = "balance", !.op = "reserve", !.cart = c, !.delta = -q])

ReleaseStock(h) ==
    \E c \in Carts :
        Begin(h, [Idle EXCEPT !.pc = "delete", !.op = "release", !.cart = c])

AdjustStock(h) ==
    \E d \in Deltas :
        Begin(h, [Idle EXCEPT !.pc = "previous", !.op = "adjust", !.delta = d])

-----------------------------------------------------------------------------
(* Statements *)

\* getStockWithinTx: the latest balance ...
ReadBalance(h) ==
    /\ handler[h].pc = "balance"
    /\ handler' = [handler EXCEPT ![h].pc = "check", ![h].read = LastBalance]
    /\ UNCHANGED <<rows, held, expired, lock, clock, overlapped>>

\* ... then the reservations, and the check of the requested quantity.
CheckStock(h) ==
    /\ handler[h].pc = "check"
    /\ IF Available(handler[h].read, TotalHeld) < -handler[h].delta
       THEN Rollback(h)
       ELSE /\ handler' = [handler EXCEPT ![h].pc = "hold"]
            /\ UNCHANGED <<rows, held, expired, lock, clock, overlapped>>

\* INSERT ... ON CONFLICT DO UPDATE; waits for the transaction that wrote the key.
Hold(h) ==
    /\ handler[h].pc = "hold"
    /\ lock[handler[h].cart] = NoHandler
    /\ lock' = [lock EXCEPT ![handler[h].cart] = h]
    /\ handler' = [handler EXCEPT ![h].pc = "previous"]
    /\ UNCHANGED <<rows, held, expired, clock, overlapped>>

\* Seeded fault: the reservation is read without the lock of a DELETE.
DeleteUnlocked(h) ==
    LET c == handler[h].cart IN
    /\ handler[h].pc = "delete"
    /\ held[c] > 0
    /\ handler' = [handler EXCEPT ![h].pc = "previous", ![h].delta = held[c]]
    /\ UNCHANGED <<rows, held, expired, lock, clock, overlapped>>

\* DELETE ... RETURNING quantity; waits for a transaction that wrote the row.
Delete(h) ==
    LET c == handler[h].cart IN
    /\ handler[h].pc = "delete"
    /\ held[c] > 0 /\ lock[c] = NoHandler
    /\ lock' = [lock EXCEPT ![c] = h]
    /\ handler' = [handler EXCEPT ![h].pc = "previous", ![h].delta = held[c]]
    /\ UNCHANGED <<rows, held, expired, clock, overlapped>>

\* No committed reservation: the current level is returned without an error.
DeleteMissed(h) ==
    /\ handler[h].pc = "delete"
    /\ held[handler[h].cart] = 0
    /\ Rollback(h)

\* insertTransactionWithinTx reads the balance it adds to once more.
ReadPrevious(h) ==
    /\ handler[h].pc = "previous"
    /\ IF ApplyDelta(LastBalance, handler[h].delta)
       THEN /\ handler' = [handler EXCEPT ![h].pc = "commit", ![h].read = LastBalance]
            /\ UNCHANGED <<rows, held, expired, lock, clock, overlapped>>
       ELSE Rollback(h)

\* The ledger row and the change to the reservation become visible.
Commit(h) ==
    LET t == handler[h] IN
    /\ t.pc = "commit"
    /\ rows' = rows \union {[stamp |-> t.stamp, cart |-> t.cart, delta |-> t.delta,
                             balance |-> t.read + t.delta]}
    /\ held' = [c \in Carts |-> CASE c # t.cart -> held[c]
                                  [] c = t.cart /\ t.op = "reserve" -> held[c] - t.delta
                                  [] OTHER -> 0]
    /\ expired' = expired \ {t.cart}
    /\ lock' = [c \in Carts |-> IF lock[c] = h THEN NoHandler ELSE lock[c]]
    /\ handler' = [handler EXCEPT ![h] = Idle]
    /\ UNCHANGED <<clock, overlapped>>

\* A statement fails, the caller's context ends, or the process dies.
Abort(h) == Open(h) /\ Rollback(h)

-----------------------------------------------------------------------------
(* The expiry worker *)

\* Five minutes without another ReserveStock of the cart.
TTLPasses(c) ==
    /\ held[c] > 0 /\ c \notin expired
    /\ expired' = expired \union {c}
    /\ UNCHANGED <<rows, held, lock, clock, overlapped, handler>>

\* ExpireReservations deletes what has expired, waiting for other writers.
Sweep(h) ==
    /\ expired # {} /\ \A c \in expired : lock[c] = NoHandler
    /\ ~Open(h)
    /\ lock' = [c \in Carts |-> IF c \in expired THEN h ELSE lock[c]]
    /\ handler' = [handler EXCEPT ![h] = [Idle EXCEPT !.pc = "sweep", !.op = "sweep"]]
    /\ overlapped' = (overlapped \/ \E g \in Handlers : Open(g))
    /\ UNCHANGED <<rows, held, expired, clock>>

\* The ledger entry is written while the deleted rows are still being read: the
\* connection is busy, the statement fails and the sweep is rolled back.
SweepFails(h) == handler[h].pc = "sweep" /\ Rollback(h)

-----------------------------------------------------------------------------
Request(h) == ReserveStock(h) \/ ReleaseStock(h) \/ AdjustStock(h) \/ Sweep(h)

Statement(h) ==
    \/ ReadBalance(h) \/ CheckStock(h) \/ Hold(h)
    \/ Delete(h) \/ DeleteMissed(h)
    \/ ReadPrevious(h) \/ Commit(h) \/ SweepFails(h)

Next ==
    \/ \E h \in Handlers : Request(h) \/ Statement(h) \/ Abort(h)
    \/ \E c \in Carts : TTLPasses(c)

Spec == Init /\ [][Next]_vars

\* PostgreSQL serves those who wait for a lock in turn, so a statement that can
\* run again and again does; the worker sweeps every 30 s while its process lives.
FairSpec ==
    /\ Spec
    /\ \A h \in Handlers : SF_vars(Statement(h)) /\ WF_vars(Sweep(h))

-----------------------------------------------------------------------------
(***************************************************************************)
(* A cart holds exactly what the ledger says was taken for it and not yet  *)
(* given back, however reservations, releases and failures of the same     *)
(* cart interleave: nothing is given back twice, no addition is lost.      *)
(***************************************************************************)
ReservationsMatchLedger ==
    \A c \in Carts : held[c] + SumOf({r \in rows : r.cart = c}) = 0

(***************************************************************************)
(* As long as no two transactions were open at once the ledger is exact:   *)
(* the latest running balance is the sum of all deltas, and no more is     *)
(* reserved than was put in stock.                                         *)
(***************************************************************************)
OnHand == SumOf({r \in rows : r.cart = NoCart})

SerialLedgerExact == ~overlapped => LastBalance = SumOf(rows) /\ TotalHeld <= OnHand

(***************************************************************************)
(* Who has the lock of a reservation is a transaction that is open and     *)
(* waits for no lock itself: transactions never wait in a circle, and on   *)
(* every way out of a handler its locks go.                                *)
(***************************************************************************)
LockHoldersDoNotWait ==
    \A c \in Carts : lock[c] # NoHandler =>
        handler[lock[c]].pc \in {"previous", "commit", "sweep"}

\* No transaction waits for ever on another's reservation lock.
HandlersFinish == \A h \in Handlers : Open(h) ~> ~Open(h)

(***************************************************************************)
(* "Inventory uses row-level locking (SELECT ... FOR UPDATE) during        *)
(* reservation" (docs/database/entities.md), "to prevent overselling"      *)
(* (docs/API-BACKEND-ASTRA.md): carts never hold more than is in stock.    *)
(***************************************************************************)
NeverOversold == TotalHeld <= OnHand

(***************************************************************************)
(* "stock is held for a cart with a TTL and released by a background       *)
(* worker when the TTL expires" (inventory-service README).                *)
(***************************************************************************)
ExpiredAreReleased == \A c \in Carts : c \in expired ~> held[c] = 0
=============================================================================
