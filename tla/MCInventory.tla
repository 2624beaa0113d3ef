----------------------------- MODULE MCInventory -----------------------------
(* Model values for Inventory, which are alike but for what they stand for;*)
(* and its bounds: three generations of the primary context and no context *)
(* made, or two generations and a context of each session at one address.  *)
EXTENDS Inventory, TLC

EachBound == {[gens |-> MaxGen, ctxs |-> {}], [gens |-> MaxGen - 1, ctxs |-> CtxAddrs]}

Alike == Permutations(Sessions) \union Permutations(Handles)
=============================================================================
