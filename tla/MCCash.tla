--------------------------------- MODULE MCCash ---------------------------------
(***************************************************************************)
(* A treasury of one branch and another to be created, in either of two;   *)
(* one transfer, and two vouchers that compete for an invoice of two       *)
(* pounds, which a revision may halve.                                     *)
(***************************************************************************)
EXTENDS ReceiptVouchers, TLC

CONSTANTS x1, v1, v2, b1

MCFirst     == [t \in Treasuries |-> IF t = 1 THEN b1 ELSE Nowhere]
MCTotal     == [i \in Invoices |-> 2]
MCDocuments == Treasuries \cup {x1, v1, v2}

AVoucher(t, n, a) == [treasury |-> t, amount |-> n, allocated |-> [i \in Invoices |-> a]]

MCBodies == {AVoucher(1, 1, 1), AVoucher(1, 2, 2)}

Symmetry == Permutations(Handlers) \cup Permutations(Vouchers)
=============================================================================
