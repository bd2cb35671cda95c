------------------------------ MODULE MCPosting ------------------------------
(***************************************************************************)
(* Two treasuries, 1 (no-negative) and 2 (may be overdrawn), one other     *)
(* account; documents fund 1, move money either way, pay from both at once *)
(* and post lines that do not balance.                                     *)
(***************************************************************************)
EXTENDS Posting

CONSTANT other

D(a, n) == [account |-> a, net |-> n]

MCDocuments == {"fund", "forth", "back", "both", "odd"}
MCLinesOf == [d \in Documents |->
    CASE d = "fund"  -> <<D(1, 1), D(other, -1)>>
      [] d = "forth" -> <<D(2, 1), D(1, -1)>>
      [] d = "back"  -> <<D(1, 1), D(2, -1)>>
      [] d = "both"  -> <<D(2, -1), D(1, -1), D(other, 2)>>
      [] d = "odd"   -> <<D(1, 1), D(other, -2)>>]
MCMonthOf == [d \in Documents |-> "july"]
MCPayments == {<<D(other, 1), D(1, -1)>>}
MCDirect   == {<<D(other, 1), D(1, -1)>>}
=============================================================================
