------------------------------ MODULE CartSync ------------------------------
(***************************************************************************)
(* How the kiosk mirrors its cart to the cart API: the local cartProxy,    *)
(* CartService (debounced and retried flushes), ApiCart (attempts, timeout *)
(* and cart re-creation) and apiClient's requests.                         *)
(*                                                                         *)
(* A flush re-adds every local line, one request per line, to whatever     *)
(* cart id ApiCart has at that moment; several flushes can be under way    *)
(* and share that id.  A cart is the quantity of each item in it.  The API *)
(* is external: a request is carried out or not and answered or not.       *)
(***************************************************************************)
EXTENDS Naturals, FiniteSets, Functions

CONSTANTS
    Items,        \* menu items
    Flushes,      \* flushes that may be under way at once
    MaxQuantity,  \* bound on the quantity of an item in the local cart
    MaxChanges,   \* bound on changes of the local cart
    MaxFaults     \* bound on failed or lost requests and expired carts

ASSUME CartSyncConstants ==
    /\ MaxQuantity \in Nat /\ MaxChanges \in Nat
    /\ MaxFaults \in Nat

VARIABLES
    local,     \* cartProxy.lines
    server,    \* the server's cart of ApiCart.cartId, if it has one
    booting,   \* initializeCart's createCart is under way
    online,    \* CartService.isOnline
    debounce,  \* syncDebounceTimer is set
    retry,     \* retryTimer is set
    latest,    \* flush that drew pendingSyncVersion last, or none
    flush,     \* [Flushes -> local state of flushSync]
    strays,    \* loops that go on although their attempt timed out
    changes, faults,
    dirty,     \* history: changed since the flush that last succeeded began
    raced      \* history: the cart id changed under a flush under way

vars == <<local, server, booting, online, debounce, retry, latest,
          flush, strays, changes, faults, dirty, raced>>

MAX_ATTEMPTS == 3

NoFlush == "none"

Empty == [i \in Items |-> 0]

Quantities == [Items -> 0..MaxQuantity]

\* What is on the server counts up to one more than a local cart can hold.
Cap(n) == IF n > MaxQuantity THEN MaxQuantity + 1 ELSE n

\* read: apiClient may still hold the answer of a GET of this cart.
ServerCart == [exists : BOOLEAN, read : BOOLEAN,
               lines : [Items -> 0..MaxQuantity + 1]]

NoCart == [exists |-> FALSE, read |-> FALSE, lines |-> Empty]

\* Steps of a flush: adding a line, reading the cart back, re-creating it,
\* waiting before the next attempt.
Idle == [pc |-> "idle", lines |-> Empty, todo |-> {}, attempt |-> 0, fresh |-> FALSE]

FlushState ==
    [pc : {"idle", "add", "get", "recreate", "backoff"}, lines : Quantities,
     todo : SUBSET Items, attempt : 0..MAX_ATTEMPTS - 1, fresh : BOOLEAN]

busy == {f \in Flushes : flush[f].pc # "idle"}

Init ==
    /\ local = Empty
    /\ server = NoCart
    /\ booting = TRUE
    /\ online = TRUE
    /\ debounce = FALSE /\ retry = FALSE
    /\ latest = NoFlush
    /\ flush = [f \in Flushes |-> Idle]
    /\ strays = {}
    /\ changes = 0 /\ faults = 0
    /\ dirty = FALSE /\ raced = FALSE

api == <<server, booting, raced>>

service == <<online, debounce, retry, latest, flush, strays, dirty>>

Fault == faults < MaxFaults /\ faults' = faults + 1

-----------------------------------------------------------------------------
(* The cart API and apiClient.request *)

\* addItemToCart: the server merges equal lines by adding their quantities.
Added(i, n) == [server EXCEPT !.lines[i] = Cap(@ + n)]

\* The server drops the cart when its expiry passes.
expireCart ==
    /\ Fault
    /\ server.exists
    /\ server' = [NoCart EXCEPT !.read = server.read]
    /\ UNCHANGED <<local, booting, service, changes, raced>>

(* ApiCart.createCart: ApiCart moves to a new cart, and nothing refers to  *)
(* the one it leaves.  A failure keeps the id it has (createLocalCart).    *)
createCart ==
    \/ /\ server' = [NoCart EXCEPT !.exists = TRUE]
       /\ UNCHANGED faults
    \/ /\ Fault
       /\ UNCHANGED server

initializeCart ==
    /\ booting
    /\ booting' = FALSE
    /\ createCart
    /\ raced' = (raced \/ busy # {} \/ server # NoCart)
    /\ UNCHANGED <<local, service, changes>>

-----------------------------------------------------------------------------
(* CartService: local changes, timers, network events *)

\* addItem, updateQuantity, removeItem: markDirty restarts the debounce.
changeCart ==
    /\ changes < MaxChanges
    /\ changes' = changes + 1
    /\ \E i \in Items, n \in 0..MaxQuantity :
         n # local[i] /\ local' = [local EXCEPT ![i] = n]
    /\ debounce' = TRUE
    /\ dirty' = TRUE
    /\ flush' = [f \in Flushes |-> IF f \in busy THEN [flush[f] EXCEPT !.fresh = FALSE]
                                ELSE flush[f]]
    /\ UNCHANGED <<api, online, retry, latest, strays, faults>>

\* A new session empties the proxy only: timers and ApiCart go on as they are.
resetCart ==
    /\ local # Empty
    /\ local' = Empty
    /\ UNCHANGED <<api, service, changes, faults>>

\* flushSync: draw a version, snapshot the lines, start the first attempt.
flushSync(isOnline) ==
    IF isOnline
    THEN \E f \in Flushes :
           /\ flush[f] = Idle
           /\ flush' = [flush EXCEPT ![f] =
                 [pc |-> "add", lines |-> local, todo |-> {i \in Items : local[i] > 0},
                  attempt |-> 0, fresh |-> TRUE]]
           /\ latest' = f
           /\ debounce' = FALSE
    ELSE UNCHANGED <<flush, latest, debounce>>

debounceElapsed ==
    /\ debounce
    /\ flushSync(online)
    /\ UNCHANGED <<local, api, online, retry, strays, changes, faults, dirty>>

retryElapsed ==
    /\ retry
    /\ retry' = FALSE
    /\ flushSync(online)
    /\ UNCHANGED <<local, api, online, strays, changes, faults, dirty>>

handleOnline ==
    /\ ~online
    /\ online' = TRUE
    /\ flushSync(TRUE)
    /\ UNCHANGED <<local, api, retry, strays, changes, faults, dirty>>

handleOffline ==
    /\ online
    /\ Fault
    /\ online' = FALSE
    /\ debounce' = FALSE /\ retry' = FALSE
    /\ UNCHANGED <<local, api, latest, flush, strays, changes, dirty>>

-----------------------------------------------------------------------------
(* ApiCart.execute and updateCart *)

\* Mutant: a flush that gives up asks for no retry.
failedForGood(f, retryable) ==
    IF retryable /\ flush[f].attempt < MAX_ATTEMPTS - 1
    THEN /\ flush' = [flush EXCEPT ![f].pc = "backoff"]
         /\ UNCHANGED retry
    ELSE /\ flush' = [flush EXCEPT ![f] = Idle]
         /\ UNCHANGED retry

\* A caught error: the next attempt after a pause, or the flush gives up and
\* asks for a retry unless a later flush has taken over.
failed(f, retryable) ==
    IF retryable /\ flush[f].attempt < MAX_ATTEMPTS - 1
    THEN /\ flush' = [flush EXCEPT ![f].pc = "backoff"]
         /\ UNCHANGED retry
    ELSE /\ flush' = [flush EXCEPT ![f] = Idle]
         /\ retry' = (retry \/ f = latest)

\* 404 and 409 re-create the cart unless this was the last attempt.
missing(f) ==
    IF flush[f].attempt < MAX_ATTEMPTS - 1
    THEN flush' = [flush EXCEPT ![f].pc = "recreate"] /\ UNCHANGED retry
    ELSE failed(f, TRUE)

\* Mutant: the next attempt goes on where the last one stopped.
nextAttemptResumes(f) == [flush[f] EXCEPT !.pc = "add", !.attempt = @ + 1]

nextAttempt(f) ==
    [flush[f] EXCEPT !.pc = "add", !.attempt = @ + 1,
                     !.todo = {i \in Items : flush[f].lines[i] > 0}]

\* One line is sent to the cart ApiCart has now.
addLine(f) ==
    /\ flush[f].pc = "add"
    /\ \E i \in flush[f].todo :
         IF server.exists
         THEN \/ /\ server' = Added(i, flush[f].lines[i])
                 /\ flush' = [flush EXCEPT ![f].todo = @ \ {i}]
                 /\ UNCHANGED <<retry, faults>>
              \/ /\ Fault
                 /\ server' \in {server, Added(i, flush[f].lines[i])}
                 /\ \E retryable \in BOOLEAN : failed(f, retryable)
         ELSE missing(f) /\ UNCHANGED <<server, faults>>
    /\ UNCHANGED <<local, booting, raced, online, debounce, latest, strays, changes, dirty>>

\* Two flushes write the same cart: the server refuses one with 409.
conflict(f) ==
    /\ Fault
    /\ flush[f].pc = "add" /\ flush[f].todo # {} /\ busy # {f}
    /\ server.exists
    /\ missing(f)
    /\ UNCHANGED <<local, api, online, debounce, latest, strays, changes, dirty>>

\* The cart is read back, from the server or from apiClient's cache.
readBack(f) ==
    /\ flush[f].pc = "add" /\ flush[f].todo = {}
    /\ \/ /\ server.exists \/ server.read
          /\ server' = [server EXCEPT !.read = TRUE]
          /\ flush' = [flush EXCEPT ![f] = Idle]
          /\ dirty' = (dirty /\ ~flush[f].fresh)
          /\ UNCHANGED <<retry, faults>>
       \/ /\ ~server.exists
          /\ missing(f)
          /\ UNCHANGED <<server, faults, dirty>>
       \/ /\ Fault
          /\ \E retryable \in BOOLEAN : failed(f, retryable)
          /\ UNCHANGED <<server, dirty>>
    /\ UNCHANGED <<local, booting, raced, online, debounce, latest, strays, changes>>

Pending(loops) == {s \in loops : s.todo # {}}

\* withTimeout rejects, but the loop it waited for goes on.
attemptTimesOut(f) ==
    /\ Fault
    /\ flush[f].pc = "add"
    /\ strays' = Pending(strays \union {[lines |-> flush[f].lines, todo |-> flush[f].todo]})
    /\ failed(f, TRUE)
    /\ UNCHANGED <<local, api, online, debounce, latest, changes, dirty>>

strayAdds(s) ==
    /\ \/ \E i \in s.todo :
            /\ server.exists
            /\ server' = Added(i, s.lines[i])
            /\ strays' = Pending((strays \ {s}) \union {[s EXCEPT !.todo = @ \ {i}]})
       \/ /\ ~server.exists
          /\ strays' = strays \ {s}
          /\ UNCHANGED server
    /\ UNCHANGED <<local, booting, raced, online, debounce, retry, latest,
                   flush, changes, faults, dirty>>

backoffElapsed(f) ==
    /\ flush[f].pc = "backoff"
    /\ flush' = [flush EXCEPT ![f] = nextAttempt(f)]
    /\ UNCHANGED <<local, api, online, debounce, retry, latest, strays, changes, faults, dirty>>

\* The new id is adopted by every flush under way.
recreateCart(f) ==
    /\ flush[f].pc = "recreate"
    /\ createCart
    /\ flush' = [flush EXCEPT ![f] = nextAttempt(f)]
    /\ raced' = (raced \/ busy # {f} \/ f # latest)
    /\ UNCHANGED <<local, booting, online, debounce, retry, latest, strays, changes, dirty>>

-----------------------------------------------------------------------------
FlushStep(f) ==
    \/ addLine(f) \/ readBack(f) \/ backoffElapsed(f) \/ recreateCart(f)

Next ==
    \/ initializeCart \/ expireCart
    \/ changeCart \/ resetCart
    \/ debounceElapsed \/ retryElapsed \/ handleOnline \/ handleOffline
    \/ \E f \in Flushes : FlushStep(f) \/ conflict(f) \/ attemptTimesOut(f)
    \/ \E s \in strays : strayAdds(s)

Spec == Init /\ [][Next]_vars

(* Timers fire and requests are answered; faults are bounded by MaxFaults. *)
Fairness ==
    /\ WF_vars(initializeCart)
    /\ WF_vars(debounceElapsed)
    /\ WF_vars(retryElapsed)
    /\ \A f \in Flushes : WF_vars(FlushStep(f))

FairSpec == Spec /\ Fairness

-----------------------------------------------------------------------------
(* Type invariant of the local cart, the server and the flushes. *)
TypeOK ==
    /\ local \in Quantities
    /\ server \in ServerCart
    /\ {booting, online, debounce, retry, dirty, raced} \subseteq BOOLEAN
    /\ latest \in Flushes \union {NoFlush}
    /\ flush \in [Flushes -> FlushState]
    /\ strays \subseteq [lines : Quantities, todo : SUBSET Items]
    /\ changes \in 0..MaxChanges /\ faults \in 0..MaxFaults

\* Nothing of the sync is under way: no flush, and no timer that would start one.
AtRest == online /\ ~debounce /\ ~retry /\ busy = {}

(* A sync that came to rest did its work: whatever failed, was repeated or *)
(* timed out on the way, and whichever of several flushes finished last,   *)
(* the cart ApiCart is on holds every line of the local cart.  Excepted    *)
(* are carts that were re-created while another flush was under way.       *)
SyncedCartHasLines ==
    (AtRest /\ ~raced /\ server.exists) =>
      \A i \in Items : local[i] <= server.lines[i]

(* A change the server may not have yet is somebody's task while the kiosk *)
(* is online: a timer will start a flush, or the flush that drew the last  *)
(* version is under way.  An earlier flush that fails leaves it to that    *)
(* one, and that one, when it gives up, to the retry timer.                *)
NoChangeIsStranded == (online /\ dirty) => (debounce \/ retry \/ latest \in busy)

(* A flaky backend never breaks the sync loop for good: once it answers    *)
(* again, every change reaches it while the kiosk is online.               *)
SyncLoopRecovers == dirty ~> (~dirty \/ ~online)
=============================================================================
