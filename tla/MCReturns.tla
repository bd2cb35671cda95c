------------------------------- MODULE MCReturns -------------------------------
(***************************************************************************)
(* One purchase of two boards for three cents, one sale and three returns, *)
(* of either or of neither.                                                *)
(***************************************************************************)
EXTENDS Returns, TLC

MCAmounts == {[boards |-> 2, worth |-> 3]}

Symmetry == Permutations(Handlers) \cup Permutations(Returns)
=============================================================================
