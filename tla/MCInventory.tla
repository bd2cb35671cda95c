----------------------------- MODULE MCInventory -----------------------------
(***************************************************************************)
(* Two handlers on two rows.  The variant of r1 measures one metre a board,*)
(* the variant of r2 two.                                                  *)
(***************************************************************************)
EXTENDS InventoryEngine

CONSTANTS r1, r2

MCSize == [r \in Rows |-> IF r = r1 THEN 1 ELSE 2]

Boarded(r, n)    == [row |-> r, kind |-> "boards", boards |-> n, meters |-> 0]
Sized(r, n, m)   == [row |-> r, kind |-> "area", boards |-> n, meters |-> m]
Counted(r, n)    == [row |-> r, kind |-> "count", boards |-> n, meters |-> 0]

MCRequests == {
    <<Boarded(r1, 2)>>,                       \* a receipt
    <<Boarded(r2, 1), Boarded(r1, 1)>>,       \* a receipt of two rows
    <<Boarded(r1, -1), Boarded(r2, -1)>>,     \* a document, rows in one order
    <<Boarded(r2, -1), Boarded(r1, -2)>>,     \* a document, the other order
    <<Sized(r1, -1, -2)>>,                    \* a line with its own area
    <<Counted(r1, 1), Counted(r2, 0)>>,       \* a daily count
    <<Counted(r1, 1), Counted(r1, 2)>>,       \* a row counted twice
    <<Boarded(r1, 1), Boarded(r1, 0)>>        \* a zero delta after a good line
}
=============================================================================
