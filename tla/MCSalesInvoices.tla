---------------------------- MODULE MCSalesInvoices ----------------------------
(***************************************************************************)
(* Two invoices that sell one or two boards with or without tax, of a      *)
(* variant whose average cost is nothing or one.  Handlers and invoices    *)
(* are interchangeable.                                                    *)
(***************************************************************************)
EXTENDS SalesInvoices, TLC

Symmetry == Permutations(Clients) \cup Permutations(Invoices)
=============================================================================
