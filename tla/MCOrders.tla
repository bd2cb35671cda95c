------------------------------- MODULE MCOrders -------------------------------
(***************************************************************************)
(* Two orders on one balance row, o1 for one board and three pounds, o2    *)
(* for two boards and two pounds.                                          *)
(***************************************************************************)
EXTENDS Orders

CONSTANTS o1, o2

MCRequired == [o \in Orders |-> IF o = o1 THEN 3 ELSE 2]
MCBoards   == [o \in Orders |-> IF o = o1 THEN 1 ELSE 2]
=============================================================================
