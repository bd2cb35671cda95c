------------------------------- MODULE MCRevisions -------------------------------
(***************************************************************************)
(* Two purchases and a sale of one variant; two revisions at a time.       *)
(***************************************************************************)
EXTENDS InvoiceRevisions, TLC

MCReceipts == {<<1, 0>>, <<1, 4>>, <<2, 4>>}

Symmetry == Permutations(Handlers) \cup Permutations(Purchases) \cup Permutations(Keys)
=============================================================================
