------------------------------- MODULE MCCart -------------------------------
(***************************************************************************)
(* Two handlers on two carts, either of which may be the other's ghost.    *)
(* Handlers, carts and items are interchangeable.                          *)
(***************************************************************************)
EXTENDS Cart, TLC

Symmetry == Permutations(Handlers) \union Permutations(Carts) \union Permutations(Items)
=============================================================================
