----------------------------- MODULE StockLedger -----------------------------
(***************************************************************************)
(* What the stock engine promises, without transactions, locks or callers: *)
(* every branch/variant row has a balance and an append-only sequence of   *)
(* movements, each movement records the quantity it moved and the balance  *)
(* it left behind, and no movement ever leaves a negative balance.         *)
(* InventoryEngine implements this specification.                          *)
(***************************************************************************)
EXTENDS Integers, Sequences, SequencesExt

CONSTANT Rows            \* rows of branch_inventory_balances: branch x variant

VARIABLES
    balance,             \* boards and metres on hand of each row
    ledger               \* inventory_movements of each row, oldest first

ledgerVars == <<balance, ledger>>

Quantity == [boards : Int, meters : Int]
Zero     == [boards |-> 0, meters |-> 0]

Plus(q, d) == [boards |-> q.boards + d.boards, meters |-> q.meters + d.meters]

Sufficient(q) == q.boards >= 0 /\ q.meters >= 0

(* A movement with the balance the audit row of the same transaction holds *)
(* next to it.                                                             *)
Movement == [delta : Quantity, after : Quantity]

(* The balance at the end of the movements s that started from `opening`.  *)
Closing(s, opening) == IF s = <<>> THEN opening ELSE s[Len(s)].after

(* Every movement of s leaves what the one before it left plus its own     *)
(* quantity, and never less than nothing.                                  *)
RunningTotals(s, opening) ==
    \A i \in 1..Len(s) :
        /\ s[i].after = Plus(IF i = 1 THEN opening ELSE s[i - 1].after, s[i].delta)
        /\ Sufficient(s[i].after)

-----------------------------------------------------------------------------

Init ==
    /\ balance = [r \in Rows |-> Zero]
    /\ ledger  = [r \in Rows |-> <<>>]

(* A committed transaction appends movements to one row or to several.     *)
Post ==
    /\ \A r \in Rows : IsPrefix(ledger[r], ledger'[r])
    /\ \A r \in Rows : RunningTotals(ledger'[r], Zero)
    /\ balance' = [r \in Rows |-> Closing(ledger'[r], Zero)]

Spec == Init /\ [][Post]_ledgerVars

=============================================================================
