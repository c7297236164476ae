-------------------------------- MODULE Cart --------------------------------
(***************************************************************************)
(* The cart-service: concurrent RPC handlers on the carts and cart_lines   *)
(* tables, with optimistic locking on carts.version.                       *)
(*                                                                         *)
(* A handler reads the cart's row and then its lines (two statements, no   *)
(* transaction), changes its private copy, and saves it in one transaction *)
(* that succeeds only if the version is still the one it read.  The Redis  *)
(* copy of a cart is written but never read by the service: left out.      *)
(*                                                                         *)
(* A line's item stands for its fingerprint (menu item and modifiers); its *)
(* unit price, which AddItem leaves to its caller, is one, so a total is a *)
(* sum of quantities.                                                      *)
(***************************************************************************)
EXTENDS Naturals, FiniteSets, FiniteSetsExt, Sequences

CONSTANTS
    Handlers,     \* concurrent RPC handlers, over all replicas
    Carts,        \* cart ids
    Items,        \* line fingerprints
    NoCart, NoItem,
    MaxQuantity,  \* bound on the quantity of one request
    MaxLine,      \* bound on line ids, which are drawn in time order
    MaxVersion    \* bound on cart versions

ASSUME CartConstants ==
    /\ NoCart \notin Carts /\ NoItem \notin Items
    /\ MaxQuantity \in Nat \ {0} /\ MaxLine \in Nat \ {0} /\ MaxVersion \in Nat

VARIABLES
    carts,      \* [Carts -> [state, version, total]]: the carts table
    lines,      \* [Carts -> set of lines]: cart_lines by cart
    nextLine,   \* next line id: uuid and added_at_ms of a new line
    reserved,   \* carts with rows in inventory_reservations
    finalized,  \* [Carts -> Seq(total)]: CartFinalized outbox events
    handler     \* [Handlers -> local state]

vars == <<carts, lines, nextLine, reserved, finalized, handler>>

tables == <<carts, lines, nextLine, reserved, finalized>>

\* at is added_at_ms, which a merge may raise above that of a younger line.
Line == [id : Nat, at : Nat, item : Items, qty : Nat]

CartState == {"absent", "active", "finalized", "deleted"}

Ops == {"add", "update", "remove", "finalize", "merge"}

Idle == [pc |-> "idle", op |-> "none", cart |-> NoCart, ghost |-> NoCart,
         item |-> NoItem, line |-> 0, qty |-> 0,
         version |-> 0, state |-> "absent", total |-> 0, view |-> {}]

HandlerState ==
    [pc : {"idle", "lines", "ghost", "ghostLines", "reserve", "save", "delete"},
     op : Ops \union {"none"}, cart : Carts \union {NoCart},
     ghost : Carts \union {NoCart}, item : Items \union {NoItem},
     line : 0..MaxLine, qty : 0..MaxQuantity, version : 0..MaxVersion,
     state : CartState, total : Nat, view : SUBSET Line]

TypeOK ==
    /\ carts \in [Carts -> [state : CartState, version : 0..MaxVersion, total : Nat]]
    /\ lines \in [Carts -> SUBSET Line]
    /\ nextLine \in 1..(MaxLine + 1)
    /\ reserved \subseteq Carts
    /\ finalized \in [Carts -> Seq(Nat)]
    /\ handler \in [Handlers -> HandlerState]

Init ==
    /\ carts = [c \in Carts |-> [state |-> "absent", version |-> 0, total |-> 0]]
    /\ lines = [c \in Carts |-> {}]
    /\ nextLine = 1
    /\ reserved = {}
    /\ finalized = [c \in Carts |-> <<>>]
    /\ handler = [h \in Handlers |-> Idle]

Exists(c) == carts[c].state \in {"active", "finalized"}

Return(h) == handler' = [handler EXCEPT ![h] = Idle]

\* recomputeTotals: the quantities of a set of lines, added up.
Total(S) == MapThenSumSet(LAMBDA l : l.qty, S)

-----------------------------------------------------------------------------
CreateCart(c) ==
    /\ carts[c].state = "absent"
    /\ carts' = [carts EXCEPT ![c].state = "active"]
    /\ UNCHANGED <<lines, nextLine, reserved, finalized, handler>>

(***************************************************************************)
(* A request arrives and reads the cart's row; NotFound returns at once.   *)
(* loadAndLock takes no lock.                                              *)
(***************************************************************************)
LoadCart(h, request) ==
    LET c == request.cart IN
    /\ handler[h].pc = "idle"
    /\ Exists(c) /\ carts[c].version < MaxVersion
    /\ handler' = [handler EXCEPT ![h] = [request EXCEPT !.pc = "lines",
                                                         !.version = carts[c].version,
                                                         !.state = carts[c].state,
                                                         !.total = carts[c].total]]
    /\ UNCHANGED tables

AddItem(h, c) ==
    \E i \in Items, q \in 1..MaxQuantity :
        LoadCart(h, [Idle EXCEPT !.op = "add", !.cart = c, !.item = i, !.qty = q])

\* The request's modifiers replace the line's: its item may be another one.
UpdateItem(h, c) ==
    \E l \in 1..(nextLine - 1), q \in 0..MaxQuantity, i \in Items :
        LoadCart(h, [Idle EXCEPT !.op = "update", !.cart = c, !.line = l, !.qty = q,
                                 !.item = IF q = 0 THEN NoItem ELSE i])

RemoveItem(h, c) ==
    \E l \in 1..(nextLine - 1) :
        LoadCart(h, [Idle EXCEPT !.op = "remove", !.cart = c, !.line = l])

FinalizeCart(h, c) == LoadCart(h, [Idle EXCEPT !.op = "finalize", !.cart = c])

MergeGhostCart(h, c) ==
    \E g \in Carts :
        LoadCart(h, [Idle EXCEPT !.op = "merge", !.cart = c, !.ghost = g])

-----------------------------------------------------------------------------
(* The second read, and the change to the private copy *)

\* Seeded fault: edits do not look at the finalized flag.
ReadAny(h, op) == handler[h].pc = "lines" /\ handler[h].op = op

\* A finalized cart (by the row read) is refused, except by a merge.
ReadOpen(h, op) ==
    /\ handler[h].pc = "lines" /\ handler[h].op = op
    /\ handler[h].state # "finalized"

SetView(h, view, pc) ==
    handler' = [handler EXCEPT ![h].view = view, ![h].pc = pc]

\* AddLine: a new line, then the inventory reservation.
AddLine(h) ==
    /\ ReadOpen(h, "add")
    /\ nextLine <= MaxLine
    /\ SetView(h, lines[handler[h].cart] \union
                  {[id |-> nextLine, at |-> nextLine, item |-> handler[h].item,
                    qty |-> handler[h].qty]},
               "reserve")
    /\ nextLine' = nextLine + 1
    /\ UNCHANGED <<carts, lines, reserved, finalized>>

\* UpdateLine: a quantity of zero removes the line; stock is not re-reserved.
UpdateLine(h) ==
    /\ ReadOpen(h, "update") /\ handler[h].qty > 0
    /\ \E l \in lines[handler[h].cart] :
          /\ l.id = handler[h].line
          /\ SetView(h, (lines[handler[h].cart] \ {l}) \union
                        {[l EXCEPT !.qty = handler[h].qty, !.item = handler[h].item]}, "save")
    /\ UNCHANGED tables

RemoveLine(h) ==
    /\ ReadOpen(h, "remove") \/ (ReadOpen(h, "update") /\ handler[h].qty = 0)
    /\ \E l \in lines[handler[h].cart] :
          /\ l.id = handler[h].line
          /\ SetView(h, lines[handler[h].cart] \ {l}, "save")
    /\ UNCHANGED tables

Finalize(h) ==
    /\ ReadOpen(h, "finalize")
    /\ SetView(h, lines[handler[h].cart], "save")
    /\ UNCHANGED tables

ReadTarget(h) ==
    /\ handler[h].pc = "lines" /\ handler[h].op = "merge"
    /\ SetView(h, lines[handler[h].cart], "ghost")
    /\ UNCHANGED tables

\* ErrCartFinalized, or the line is not among those read.
Refused(h) ==
    /\ handler[h].pc = "lines" /\ handler[h].op # "merge"
    /\ \/ handler[h].state = "finalized"
       \/ /\ handler[h].op \in {"update", "remove"}
          /\ \A l \in lines[handler[h].cart] : l.id # handler[h].line
    /\ Return(h)
    /\ UNCHANGED tables

-----------------------------------------------------------------------------
(* Ghost carts *)

\* The ghost's row, then its lines; a ghost that is gone ends the call.
ReadGhost(h) ==
    /\ handler[h].pc = "ghost"
    /\ IF Exists(handler[h].ghost)
       THEN handler' = [handler EXCEPT ![h].pc = "ghostLines"]
       ELSE Return(h)
    /\ UNCHANGED tables

(***************************************************************************)
(* crdt.MergeCarts: lines are grouped by item.  Of several target lines    *)
(* with one item the last added takes the group over; the ghost's          *)
(* quantities are added to it.  A ghost item the target lacks brings its   *)
(* own line, id included.                                                  *)
(***************************************************************************)
OfItem(S, i) == {l \in S : l.item = i}

Before(k, l) == k.at < l.at \/ (k.at = l.at /\ k.id <= l.id)

Base(target, ghost, i) ==
    IF OfItem(target, i) # {}
    THEN CHOOSE l \in OfItem(target, i) : \A k \in OfItem(target, i) : Before(k, l)
    ELSE CHOOSE l \in OfItem(ghost, i) : \A k \in OfItem(ghost, i) : Before(l, k)

MergedLine(target, ghost, i) ==
    LET b == Base(target, ghost, i) IN
    [b EXCEPT !.at = Max({@} \union {l.at : l \in OfItem(ghost, i)}),
              !.qty = IF OfItem(target, i) # {} THEN @ + Total(OfItem(ghost, i))
                                                ELSE Total(OfItem(ghost, i))]

MergeCarts(target, ghost) ==
    {MergedLine(target, ghost, i) : i \in {l.item : l \in target \union ghost}}

Merge(h) ==
    /\ handler[h].pc = "ghostLines"
    /\ SetView(h, MergeCarts(handler[h].view, lines[handler[h].ghost]), "save")
    /\ UNCHANGED tables

\* Once the target is saved the ghost is deleted, whatever version it has by
\* then.  Reservations reference the cart: as long as there are any the DELETE
\* fails, as it may for other reasons; the merge is not undone.
DeleteGhost(h) ==
    LET g == handler[h].ghost IN
    /\ handler[h].pc = "delete"
    /\ \/ /\ g \notin reserved
          /\ carts' = [carts EXCEPT ![g].state = "deleted"]
          /\ lines' = [lines EXCEPT ![g] = {}]
       \/ UNCHANGED <<carts, lines>>
    /\ Return(h)
    /\ UNCHANGED <<nextLine, reserved, finalized>>

-----------------------------------------------------------------------------
\* inventory.Reserve before the save: a later conflict does not release it.
Reserve(h) ==
    /\ handler[h].pc = "reserve"
    /\ \/ /\ reserved' = reserved \union {handler[h].cart}
          /\ handler' = [handler EXCEPT ![h].pc = "save"]
       \/ UNCHANGED reserved /\ Return(h)
    /\ UNCHANGED <<carts, lines, nextLine, finalized>>

\* The inventory-service gives back what a cart holds (ReleaseStock).
ReservationsReleased(c) ==
    /\ c \in reserved
    /\ reserved' = reserved \ {c}
    /\ UNCHANGED <<carts, lines, nextLine, finalized, handler>>

\* line_id is the primary key of cart_lines: no line of another cart has it.
KeysFree(c, view) ==
    \A d \in Carts \ {c} : \A l \in view : \A k \in lines[d] : l.id # k.id

\* Seeded fault: the UPDATE does not compare the version.
SaveUnversioned(h) ==
    Exists(handler[h].cart) /\ KeysFree(handler[h].cart, handler[h].view)

CanSave(h) ==
    LET c == handler[h].cart IN
    /\ Exists(c)
    /\ carts[c].version = handler[h].version
    /\ KeysFree(c, handler[h].view)

\* The total to be stored.  Finalize alone keeps that of the row it read; every
\* other change recomputes it from the lines.
NewTotal(h) ==
    IF handler[h].op = "finalize" THEN handler[h].total ELSE Total(handler[h].view)

(***************************************************************************)
(* SaveCart: UPDATE ... WHERE version = the one read, then the lines are   *)
(* replaced and the event inserted, in one transaction.                    *)
(***************************************************************************)
SaveCart(h) ==
    LET c == handler[h].cart IN
    /\ handler[h].pc = "save"
    /\ CanSave(h)
    /\ carts' = [carts EXCEPT ![c] =
          [state |-> IF handler[h].op = "finalize" THEN "finalized" ELSE handler[h].state,
           version |-> handler[h].version + 1,
           total |-> NewTotal(h)]]
    /\ lines' = [lines EXCEPT ![c] = handler[h].view]
    /\ finalized' = IF handler[h].op = "finalize"
                    THEN [finalized EXCEPT ![c] = Append(@, handler[h].total)]
                    ELSE finalized
    /\ IF handler[h].op = "merge"
       THEN handler' = [handler EXCEPT ![h].pc = "delete"]
       ELSE Return(h)
    /\ UNCHANGED <<nextLine, reserved>>

\* ErrVersionConflict (also for a deleted cart), or a duplicate line id.
SaveConflict(h) ==
    /\ handler[h].pc = "save"
    /\ ~CanSave(h)
    /\ Return(h)
    /\ UNCHANGED tables

\* The process dies, or a statement fails and its transaction rolls back.
Crash(h) ==
    /\ handler[h].pc # "idle"
    /\ Return(h)
    /\ UNCHANGED tables

-----------------------------------------------------------------------------
Request(h) ==
    \E c \in Carts : AddItem(h, c) \/ UpdateItem(h, c) \/ RemoveItem(h, c)
                     \/ FinalizeCart(h, c) \/ MergeGhostCart(h, c)

Step(h) ==
    \/ AddLine(h) \/ UpdateLine(h) \/ RemoveLine(h) \/ Finalize(h) \/ Refused(h)
    \/ ReadTarget(h) \/ ReadGhost(h) \/ Merge(h) \/ DeleteGhost(h)
    \/ Reserve(h) \/ SaveCart(h) \/ SaveConflict(h) \/ Crash(h)

Next ==
    \/ \E c \in Carts : CreateCart(c) \/ ReservationsReleased(c)
    \/ \E h \in Handlers : Request(h) \/ Step(h)

Spec == Init /\ [][Next]_vars

-----------------------------------------------------------------------------
(***************************************************************************)
(* A cart's row and its lines never drift apart, although handlers read    *)
(* them in two statements between which others save: the total is that of  *)
(* the lines stored with it.                                               *)
(***************************************************************************)
TotalMatchesLines ==
    \A c \in Carts : Exists(c) => carts[c].total = Total(lines[c])

\* No line is in two carts, not even when a merge brings a ghost's lines over.
LinesInOneCart ==
    \A c, d \in Carts : c # d =>
        \A l \in lines[c], k \in lines[d] : l.id # k.id

(***************************************************************************)
(* Racing FinalizeCart calls announce a cart once: CartFinalized is in the *)
(* outbox exactly once for a finalized cart and never for an open one, so  *)
(* the order-service is asked for one order.                               *)
(***************************************************************************)
FinalizedOnce ==
    \A c \in Carts :
        /\ carts[c].state = "finalized" => Len(finalized[c]) = 1
        /\ carts[c].state \in {"absent", "active"} => finalized[c] = <<>>

\* The row, the lines and the announcement of every cart agree.
CartIsConsistent == TotalMatchesLines /\ LinesInOneCart /\ FinalizedOnce

\* A merge of ghost cart and target, which regroups the lines, is under way.
Merging(c) == \E h \in Handlers : handler[h].op = "merge" /\ c \in {handler[h].cart, handler[h].ghost}

(***************************************************************************)
(* No lost update, and no edit of a finalized cart: a save changes the     *)
(* cart it finds by one line at most, so it never takes back what another  *)
(* handler saved meanwhile, and an edit loaded before FinalizeCart         *)
(* committed is never applied after it.  Merges are left out; a deletion   *)
(* empties the cart.                                                       *)
(***************************************************************************)
SavesAreIsolated ==
    [][\A c \in Carts : ~Merging(c) =>
          /\ lines'[c] # lines[c] => \E id \in 1..MaxLine :
                {l \in lines[c] : l.id # id} = {l \in lines'[c] : l.id # id}
          /\ carts[c].state = "finalized" => carts'[c] = carts[c] /\ lines'[c] = lines[c]
      ]_vars

(***************************************************************************)
(* "Finalize transitions the cart to an immutable finalized state"         *)
(* (cart.go): the total that CartFinalized announced stays the cart's.     *)
(***************************************************************************)
FinalizedIsImmutable ==
    \A c \in Carts : carts[c].state = "finalized" => carts[c].total = finalized[c][1]
=============================================================================
