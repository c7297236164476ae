------------------------------ MODULE Pricing -------------------------------
(***************************************************************************)
(* What the customer is shown to pay: the item sheet (routes/ItemModal),   *)
(* the lines it adds, and the totals of packages/cart-engine that the cart *)
(* and payment micro-frontends show (useCartTotals), computed on the spot  *)
(* for a small cart and by a web worker for a large one.                   *)
(***************************************************************************)
EXTENDS Integers, Sequences, SequencesExt

CONSTANTS
    OptionIds,   \* ids of modifier options
    Groups,      \* item.modifierGroups
    PriceCents,  \* price of the item
    Threshold,   \* WORKER_OFFLOAD_THRESHOLD
    MaxQuantity, \* bound on the stepper
    MaxEdits     \* bound on changes of the cart

ModifierOption == [id : OptionIds, priceDeltaCents : Int, isDefault : BOOLEAN]

ModifierGroup == [minSelect : Nat, maxSelect : Nat, options : Seq(ModifierOption)]

ASSUME PricingConstants ==
    /\ Groups \in Seq(ModifierGroup)
    /\ \A g \in DOMAIN Groups : \A i, j \in DOMAIN Groups[g].options :
          Groups[g].options[i].id = Groups[g].options[j].id => i = j
    /\ {PriceCents, Threshold, MaxQuantity, MaxEdits} \subseteq Nat

VARIABLES
    modal,     \* the sheet is open
    selections,\* group -> ids chosen, in the order of the taps
    quantity,  \* of the sheet
    lines,     \* cartProxy.lines: [unit, quantity] and the number and the
               \*   total of the modifiers
    edits,     \* changes of the cart so far
    rendered,  \* the lines of the last render of useCartTotals
    listener,  \* the request the mounted effect listens for, 0: none
    posted,    \* requests the worker has not answered: [id, lines]
    workerTotals  \* state of the hook: total in cents, -1: null

pricingVars == <<modal, selections, quantity, lines, edits,
                 rendered, listener, posted, workerTotals>>

-----------------------------------------------------------------------------
(* The item sheet *)

Sum(s) == FoldLeft(LAMBDA a, b : a + b, 0, s)

\* Defaults, no more of them than the group allows.
initializeSelections ==
    [g \in DOMAIN Groups |->
       LET opts == Groups[g].options
           ids == FlattenSeq([i \in DOMAIN opts |->
                                IF opts[i].isDefault THEN <<opts[i].id>> ELSE <<>>])
       IN  SubSeq(ids, 1, IF Len(ids) < Groups[g].maxSelect THEN Len(ids)
                                                            ELSE Groups[g].maxSelect)]

PricingInit ==
    /\ modal = FALSE
    /\ selections = initializeSelections
    /\ quantity = 1
    /\ lines = <<>> /\ rendered = <<>>
    /\ edits = 0
    /\ listener = 0 /\ posted = <<>> /\ workerTotals = -1

totalsVars == <<rendered, listener, posted, workerTotals>>

open ==
    /\ ~modal
    /\ edits < MaxEdits
    /\ modal' = TRUE
    /\ UNCHANGED <<selections, quantity, lines, edits, totalsVars>>

\* The state of the sheet goes when it is unmounted, and is made anew.
unmount ==
    /\ modal' = FALSE
    /\ selections' = initializeSelections
    /\ quantity' = 1

\* Mutant: a chosen option is chosen again.
toggleOptionTwice(g, id) ==
    IF Len(selections[g]) < Groups[g].maxSelect THEN Append(selections[g], id)
    ELSE selections[g]

toggleOption(g, id) ==
    IF Contains(selections[g], id) THEN RemoveFirst(selections[g], id)
    ELSE IF Len(selections[g]) < Groups[g].maxSelect THEN Append(selections[g], id)
    ELSE selections[g]

tapOption(g, i) ==
    /\ modal
    /\ selections' = [selections EXCEPT ![g] = toggleOption(g, Groups[g].options[i].id)]
    /\ UNCHANGED <<modal, quantity, lines, edits, totalsVars>>

setQuantity ==
    /\ modal
    /\ \/ quantity' = IF quantity > 1 THEN quantity - 1 ELSE 1
       \/ quantity < MaxQuantity /\ quantity' = quantity + 1
    /\ UNCHANGED <<modal, selections, lines, edits, totalsVars>>

\* On the button: every option whose id is among the chosen ones.
totalCents ==
    LET delta(g) == Sum([i \in DOMAIN Groups[g].options |->
                          IF Contains(selections[g], Groups[g].options[i].id)
                          THEN Groups[g].options[i].priceDeltaCents ELSE 0])
    IN  (PriceCents + Sum([g \in DOMAIN Groups |-> delta(g)])) * quantity

isValid ==
    \A g \in DOMAIN Groups :
       Len(selections[g]) \in Groups[g].minSelect..Groups[g].maxSelect

\* In the line: every chosen id, with the price of its option.
buildModifierSelections ==
    LET find(g, id) == CHOOSE i \in DOMAIN Groups[g].options : Groups[g].options[i].id = id
        deltas(g) == [k \in DOMAIN selections[g] |->
                        Groups[g].options[find(g, selections[g][k])].priceDeltaCents]
    IN  FlattenSeq([g \in DOMAIN Groups |-> deltas(g)])

handleAdd ==
    /\ modal /\ isValid
    /\ lines' = Append(lines, [unit |-> PriceCents, quantity |-> quantity,
                               modifiers |-> Len(buildModifierSelections),
                               deltas |-> Sum(buildModifierSelections)])
    /\ edits' = edits + 1
    /\ unmount
    /\ UNCHANGED totalsVars

handleClose ==
    /\ modal
    /\ unmount
    /\ UNCHANGED <<lines, edits, totalsVars>>

\* One more, one less (the last one removes the line), or removeLineItem.
updateLineQuantity(i, q) ==
    /\ ~modal
    /\ edits < MaxEdits
    /\ q <= MaxQuantity
    /\ edits' = edits + 1
    /\ lines' = IF q <= 0 THEN RemoveAt(lines, i) ELSE [lines EXCEPT ![i].quantity = q]
    /\ UNCHANGED <<modal, selections, quantity, totalsVars>>

-----------------------------------------------------------------------------
(* Totals *)

LineCents(line) == line.quantity * (line.unit + line.deltas)

\* Math.round of a percentage of a whole number of cents.
percent(rate, cents) == (rate * cents + 50) \div 100

\* 7 % tax after a 5 % loyalty discount, 5 cents of fee on each piece.
computeCartTotals(ls, hasLoyaltyAccount) ==
    LET subtotal == Sum([i \in DOMAIN ls |-> LineCents(ls[i])])
        fee == 5 * Sum([i \in DOMAIN ls |-> ls[i].quantity])
        loyalty == IF hasLoyaltyAccount THEN percent(5, subtotal) ELSE 0
    IN  subtotal - loyalty + percent(7, subtotal - loyalty) + fee

complexity(ls) == Sum([i \in DOMAIN ls |-> 1 + ls[i].modifiers])

\* Mutant: the effect only runs when the cart becomes large.
renderOnce ==
    /\ rendered # lines
    /\ rendered' = lines
    /\ IF complexity(lines) > Threshold /\ complexity(rendered) <= Threshold
       THEN /\ listener' = edits
            /\ posted' = Append(posted, [id |-> edits, lines |-> lines])
       ELSE UNCHANGED <<listener, posted>>
    /\ UNCHANGED <<modal, selections, quantity, lines, edits, workerTotals>>

\* A render with its effect: the listener of the last one is removed; a
\* large cart is posted to the worker, with a request id of its own.
render ==
    /\ rendered # lines
    /\ rendered' = lines
    /\ IF complexity(lines) > Threshold
       THEN /\ listener' = edits
            /\ posted' = Append(posted, [id |-> edits, lines |-> lines])
       ELSE listener' = 0 /\ UNCHANGED posted
    /\ UNCHANGED <<modal, selections, quantity, lines, edits, workerTotals>>

\* The worker answers in order; who still listens for the id takes it.
workerAnswers ==
    /\ posted # <<>>
    /\ posted' = Tail(posted)
    /\ workerTotals' = IF Head(posted).id = listener
                       THEN computeCartTotals(Head(posted).lines, FALSE) ELSE workerTotals
    /\ UNCHANGED <<modal, selections, quantity, lines, edits, rendered, listener>>

\* What the hook returns to the screen.
shownTotal ==
    IF complexity(rendered) > Threshold /\ workerTotals # -1
    THEN workerTotals ELSE computeCartTotals(rendered, FALSE)

\* The buttons of the cart micro-frontend.
CartApp ==
    \E i \in DOMAIN lines :
       \E q \in {lines[i].quantity - 1, lines[i].quantity + 1, 0} : updateLineQuantity(i, q)

PricingNext ==
    \/ open \/ handleAdd \/ handleClose \/ setQuantity
    \/ \E g \in DOMAIN Groups : \E i \in DOMAIN Groups[g].options : tapOption(g, i)
    \/ CartApp
    \/ render
    \/ workerAnswers

PricingSpec == PricingInit /\ [][PricingNext]_pricingVars

-----------------------------------------------------------------------------
(* Properties *)

\* The price on the button is what the line costs: however options were
\* tapped on and off, the two ways the sheet adds them up agree.
QuoteIsCharged ==
    [][ Len(lines') > Len(lines) => LineCents(Last(lines')) = totalCents ]_pricingVars

\* The total on the screen is that of the lines on the screen, or the worker
\* still owes the answer to the request that the hook listens for, which is
\* for these lines: an answer for an earlier cart is not taken for this one's.
TotalIsCurrentOrAwaited ==
    \/ shownTotal = computeCartTotals(rendered, FALSE)
    \/ \E i \in DOMAIN posted : posted[i].id = listener /\ posted[i].lines = rendered

\* Once the customer stops, the total on the screen becomes, and stays, that
\* of the cart: an answer for an earlier cart is never what remains.
TotalsCatchUp == <>[](rendered = lines /\ shownTotal = computeCartTotals(lines, FALSE))
=============================================================================
