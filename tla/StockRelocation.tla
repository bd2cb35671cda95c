---------------------------- MODULE StockRelocation ----------------------------
(***************************************************************************)
(* What a transfer between two branches promises, without handlers, locks, *)
(* drafts, approvals or retries: the goods of a document leave one branch  *)
(* and arrive at another in one step, once; a cancellation takes exactly   *)
(* those goods back, once; and the company's goods and their average cost  *)
(* change by trade only.  InventoryTransfers implements this specification.*)
(***************************************************************************)
EXTENDS Integers

CONSTANTS Transfers, Branches, Variants

VARIABLES
    status,          \* of each transfer
    shipped,         \* boards its confirmation moved into each row
    returned,        \* boards its cancellation moved into each row
    stock,           \* boards on hand of each row
    wac              \* average cost of each variant, shared by all branches

relocationVars == <<status, shipped, returned, stock, wac>>

Rows    == Branches \X Variants
Nothing == [r \in Rows |-> 0]

Plus(s, d)  == [r \in Rows |-> s[r] + d[r]]
Minus(s, d) == [r \in Rows |-> s[r] - d[r]]

(* d takes from one branch what it brings to another, variant by variant.  *)
Balanced(d) ==
    \E from, to \in Branches :
        /\ from # to
        /\ \A v \in Variants : d[<<to, v>>] >= 0 /\ d[<<from, v>>] = -d[<<to, v>>]
        /\ \A b \in Branches \ {from, to}, v \in Variants : d[<<b, v>>] = 0

-----------------------------------------------------------------------------

Init ==
    /\ status   = [t \in Transfers |-> "NONE"]
    /\ shipped  = [t \in Transfers |-> Nothing]
    /\ returned = [t \in Transfers |-> Nothing]
    /\ stock \in [Rows -> Nat]
    /\ wac \in [Variants -> Nat]

(* Drafts come and go; nothing moves.                                      *)
Draft(t) ==
    /\ \/ status[t] = "NONE"  /\ status' = [status EXCEPT ![t] = "DRAFT"]
       \/ status[t] = "DRAFT" /\ status' = [status EXCEPT ![t] = "DELETED"]
    /\ UNCHANGED <<shipped, returned, stock, wac>>

Ship(t) ==
    /\ status[t] = "DRAFT"
    /\ status' = [status EXCEPT ![t] = "CONFIRMED"]
    /\ Balanced(shipped'[t])
    /\ shipped' = [shipped EXCEPT ![t] = shipped'[t]]
    /\ stock' = Plus(stock, shipped'[t])
    /\ \A r \in Rows : stock'[r] >= 0
    /\ UNCHANGED <<returned, wac>>

Return(t) ==
    /\ status[t] = "CONFIRMED"
    /\ status' = [status EXCEPT ![t] = "CANCELLED"]
    /\ returned' = [returned EXCEPT ![t] = Minus(Nothing, shipped[t])]
    /\ stock' = Minus(stock, shipped[t])
    /\ \A r \in Rows : stock'[r] >= 0
    /\ UNCHANGED <<shipped, wac>>

(* A sale, a receipt, a purchase: one row, and the cost of its variant.    *)
Trade(r) ==
    /\ stock'[r] >= 0
    /\ stock' = [stock EXCEPT ![r] = stock'[r]]
    /\ wac'   = [wac EXCEPT ![r[2]] = wac'[r[2]]]
    /\ UNCHANGED <<status, shipped, returned>>

Next ==
    \/ \E t \in Transfers : Draft(t) \/ Ship(t) \/ Return(t)
    \/ \E r \in Rows : Trade(r)

Spec == Init /\ [][Next]_relocationVars

=============================================================================
