------------------------------- MODULE MCData -------------------------------
(***************************************************************************)
(* Five models of data that share no state: the database schema, the row   *)
(* descriptions, the replicated set, the catalogue of the Andino proxy,    *)
(* and prices.  A behaviour exercises the one `part` names.                *)
(***************************************************************************)
EXTENDS Schema, Rows, Crdt, Catalogue, Pricing

VARIABLE part

vars == <<schemaVars, row, crdtVars, catalogueVars, pricingVars, part>>

Product(i, name) == [id |-> i, category |-> name]

MCLunch == <<Product(1, "hot"), Product(2, "cold"), Product(3, "hot")>>

\* A product in front of the others moves them to later pages; one of the
\* shorter catalogue has no id.
MCCatalogues ==
    { MCLunch,
      <<Product(4, "cold")>> \o MCLunch,
      <<Product(0, "Uncategorized"), Product(2, "cold")>> }

Option(i, cents, default) == [id |-> i, priceDeltaCents |-> cents, isDefault |-> default]

\* More defaults than may be chosen, and a group that may stay empty.
MCGroups ==
    << [minSelect |-> 1, maxSelect |-> 1,
        options |-> <<Option("oat", 30, TRUE), Option("soy", 20, TRUE)>>],
       [minSelect |-> 0, maxSelect |-> 2,
        options |-> <<Option("shot", 75, FALSE), Option("cream", 45, FALSE)>>] >>

\* The catalogue a behaviour starts with only matters to its own part.
Init ==
    /\ SchemaInit /\ RowsInit /\ CrdtInit /\ CatalogueInit /\ PricingInit
    /\ part \in {"schema", "rows", "crdt", "catalogue", "pricing"}
    /\ part # "catalogue" => catalogue = MCLunch

Storing(A) == part = "schema" /\ A /\ UNCHANGED <<row, crdtVars, catalogueVars, pricingVars, part>>

Describing(A) == part = "rows" /\ A /\ UNCHANGED <<schemaVars, crdtVars, catalogueVars, pricingVars, part>>

Replicating(A) == part = "crdt" /\ A /\ UNCHANGED <<schemaVars, row, catalogueVars, pricingVars, part>>

Fetching(A) == part = "catalogue" /\ A /\ UNCHANGED <<schemaVars, row, crdtVars, pricingVars, part>>

Ordering(A) == part = "pricing" /\ A /\ UNCHANGED <<schemaVars, row, crdtVars, catalogueVars, part>>

Next ==
    \/ Storing(SchemaNext)
    \/ Describing(RowsNext)
    \/ Replicating(CrdtNext)
    \/ Fetching(CatalogueNext)
    \/ Ordering(PricingNext)

\* React renders, and the worker answers.
Fairness == WF_vars(Ordering(render)) /\ WF_vars(Ordering(workerAnswers))

FairSpec == Init /\ [][Next]_vars /\ Fairness
=============================================================================
