----------------------------- MODULE MCTransfers -----------------------------
(***************************************************************************)
(* Two branches that send each other boards, one variant or both, and two  *)
(* or three handlers.                                                      *)
(***************************************************************************)
EXTENDS InventoryTransfers

Boards(a, b) == [v \in Variants |-> IF v = 1 THEN a ELSE b]

MCBodies == {[from |-> 1, to |-> 2, boards |-> Boards(1, 1)],
             [from |-> 2, to |-> 1, boards |-> Boards(1, 1)]}

Move(op, b, v, n) == [op |-> op, row |-> <<b, v>>, boards |-> n]

MCTrades == {Move("engine", 1, 1, 1), Move("costing", 3, 2, -1)}

MCOpening     == [r \in Rows |-> IF r[1] = 1 THEN 2 ELSE 1]
MCOpeningCost == [v \in Variants |-> 1]
=============================================================================
