---------------------------- MODULE MCInventory -----------------------------
(* Two concurrent transactions on one item, and two carts. *)
EXTENDS Inventory

\* Goods received, and goods written off.
MCDeltas == {2, -1}
=============================================================================
