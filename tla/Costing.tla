-------------------------------- MODULE Costing --------------------------------
(***************************************************************************)
(* The arithmetic of the moving weighted average and of returned amounts   *)
(* (purchase-invoices/costing.ts, returns/return-allocation.ts and the     *)
(* core of returns/return-stock.service.ts), with its rounding: money has  *)
(* whole cents, an average has Scale ticks to the cent and is stored in    *)
(* whole ticks, both rounded half up.                                      *)
(***************************************************************************)
EXTENDS Integers, Functions

CONSTANT Scale       \* ticks of an average to a cent

ASSUME ScaleAssumption == Scale \in Nat \ {0}

(* n / d, rounded half up.                                                 *)
HalfUp(n, d) == (2 * n + d) \div (2 * d)

(* What boards at an average of ticks are worth in cents.                  *)
Cents(boards, ticks) == HalfUp(boards * ticks, Scale)

(* What stock is worth in ticks after boards worth cents came or, if       *)
(* negative, went.                                                         *)
ValueAfter(onHand, ticks, cents) == onHand * ticks + cents * Scale

(* The average after that.  Nothing on hand has no average.                *)
AverageAfter(onHand, ticks, boards, cents) ==
    IF onHand + boards > 0
    THEN HalfUp(ValueAfter(onHand, ticks, cents), onHand + boards)
    ELSE 0

(* Boards cannot be taken out of stock, or value out of stock's value.     *)
Sufficient(onHand, ticks, boards, cents) ==
    onHand + boards >= 0 /\ ValueAfter(onHand, ticks, cents) >= 0

Boards(lines) == SumFunction([k \in DOMAIN lines |-> lines[k].boards])
Worth(lines)  == SumFunction([k \in DOMAIN lines |-> lines[k].worth])

(* Slip: every return is worth its share, also the last one.               *)
AllocatedByShare(original, already, boards) == HalfUp(original.worth * boards, original.boards)

(* What boards of an original line are worth when they are returned: their *)
(* share, but what is left of it when they complete the line.              *)
Allocated(original, already, boards) ==
    IF already.boards + boards >= original.boards
    THEN original.worth - already.worth
    ELSE HalfUp(original.worth * boards, original.boards)

=============================================================================
