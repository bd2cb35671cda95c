-------------------------------- MODULE Orders --------------------------------
(***************************************************************************)
(* Customer orders: creation, price approval, confirmation, collections    *)
(* and cancellation (modules/orders).                                      *)
(*                                                                         *)
(* Every handler runs in one READ COMMITTED transaction that first reads   *)
(* the order WITHOUT locking it, decides on what it read and then writes.  *)
(* A handler is therefore two steps here: Read, and the write that commits.*)
(* The stock part of a write is one engine call, atomic at the commit (see *)
(* InventoryEngine); all orders of the model draw on one balance row.      *)
(***************************************************************************)
EXTENDS Integers, Sequences, Functions

CONSTANTS
    Clients,          \* concurrent request handlers
    Orders,           \* order ids
    Required,         \* required_amount of each order
    Boards,           \* boards_quantity of each order
    Amounts,          \* amounts a client may collect
    InitialStock,     \* boards on hand at the start
    MaxStock,         \* bound: boards on hand after a receipt
    MaxRequests       \* bound: requests started in a behaviour

ASSUME OrderAssumption ==
    /\ Required \in [Orders -> Nat \ {0}]
    /\ Boards \in [Orders -> Nat \ {0}]
    /\ Amounts \subseteq Nat \ {0}
    /\ InitialStock \in Nat /\ MaxStock \in Nat /\ MaxRequests \in Nat

VARIABLES
    order,            \* customer_orders
    collections,      \* order_collections of each order; refunds are negative
    moved,            \* boards moved in the name of each order, sales negative
    balance,          \* boards on hand
    tx,               \* what each handler is doing, and the order as it read it
    overlapped,       \* history: orders two handlers have worked on at once
    started           \* requests started so far

vars == <<order, collections, moved, balance, tx, overlapped, started>>

Statuses == {"DRAFT", "PENDING_PRICE_APPROVAL", "CONFIRMED",
             "PARTIALLY_COLLECTED", "PAID", "CANCELLED"}
Live     == {"CONFIRMED", "PARTIALLY_COLLECTED", "PAID"}
Pricing  == {"WITHIN_TOLERANCE", "PENDING_APPROVAL", "APPROVED"}

NoOrder == [status |-> "NONE", price |-> "WITHIN_TOLERANCE", collected |-> 0, remaining |-> 0]
Idle    == [op |-> "idle"]

-----------------------------------------------------------------------------
(* order-status-machine.ts                                                 *)

Allowed(from) ==
    CASE from = "DRAFT"                  -> {"PENDING_PRICE_APPROVAL", "CONFIRMED"}
      [] from = "PENDING_PRICE_APPROVAL" -> {"CONFIRMED", "CANCELLED"}
      [] from = "CONFIRMED"              -> {"PARTIALLY_COLLECTED", "PAID", "CANCELLED"}
      [] from = "PARTIALLY_COLLECTED"    -> {"PAID", "CANCELLED"}
      [] from = "PAID"                   -> {"CANCELLED"}
      [] OTHER                           -> {}

ClassifyAfterCollection(required, collected) ==
    CASE collected <= 0        -> "CONFIRMED"
      [] collected >= required -> "PAID"
      [] OTHER                 -> "PARTIALLY_COLLECTED"

-----------------------------------------------------------------------------

Init ==
    /\ order       = [o \in Orders |-> NoOrder]
    /\ collections = [o \in Orders |-> <<>>]
    /\ moved       = [o \in Orders |-> 0]
    /\ balance     = InitialStock
    /\ tx          = [c \in Clients |-> Idle]
    /\ overlapped  = {}
    /\ started     = 0

(* A new order, with an advance when the client collected one.  Nobody     *)
(* else knows its id yet: one step.                                        *)
Create(o) ==
    /\ order[o] = NoOrder
    /\ started < MaxRequests
    /\ started' = started + 1
    /\ \E within \in BOOLEAN, initial \in Amounts \cup {0} :
         /\ initial <= Required[o]
         /\ order' = [order EXCEPT ![o] =
              [status    |-> IF within THEN "DRAFT" ELSE "PENDING_PRICE_APPROVAL",
               price     |-> IF within THEN "WITHIN_TOLERANCE" ELSE "PENDING_APPROVAL",
               collected |-> initial,
               remaining |-> Required[o] - initial]]
         /\ collections' = [collections EXCEPT ![o] =
              IF initial > 0 THEN <<[amount |-> initial, posted |-> FALSE]>> ELSE <<>>]
    /\ UNCHANGED <<moved, balance, tx, overlapped>>

(* Stock arrives through the other callers of the engine.                  *)
Receive ==
    /\ balance < MaxStock
    /\ balance' = balance + 1
    /\ UNCHANGED <<order, collections, moved, tx, overlapped, started>>

(* The unlocked read every handler starts with.                            *)
Read(c, o, request) ==
    /\ tx[c] = Idle
    /\ order[o] # NoOrder
    /\ started < MaxRequests
    /\ started' = started + 1
    /\ tx' = [tx EXCEPT ![c] = request]
    /\ overlapped' = IF \E d \in Clients \ {c} : tx[d] # Idle /\ tx[d].order = o
                     THEN overlapped \cup {o} ELSE overlapped
    /\ UNCHANGED <<order, collections, moved, balance>>

(* Slip: an unapproved price does not hold the confirmation up.            *)
MayConfirmAtAnyPrice(seen) == "CONFIRMED" \in Allowed(seen.status)

MayConfirm(seen) == "CONFIRMED" \in Allowed(seen.status) /\ seen.price # "PENDING_APPROVAL"

(* Slip: an owner cancels whatever the state machine says.                 *)
MayCancelAnything(seen, role) == role = "OWNER" \/ seen.status = "CONFIRMED"

MayCancel(seen, role) ==
    /\ role = "OWNER" \/ seen.status = "CONFIRMED"
    /\ "CANCELLED" \in Allowed(seen.status)

(* Slip: the advance already collected does not count towards the limit.   *)
MayCollectAgain(o, seen, amount) ==
    seen.status \notin {"CANCELLED", "PAID"} /\ amount <= Required[o]

MayCollect(o, seen, amount) ==
    /\ seen.status \notin {"CANCELLED", "PAID"}
    /\ seen.collected + amount <= Required[o]

ReadForConfirm(c, o) ==
    /\ MayConfirm(order[o])
    /\ Read(c, o, [op |-> "confirm", order |-> o, seen |-> order[o]])

ReadForCancel(c, o) ==
    /\ \E role \in {"OWNER", "BRANCH_MANAGER"} : MayCancel(order[o], role)
    /\ Read(c, o, [op |-> "cancel", order |-> o, seen |-> order[o]])

ReadForCollect(c, o) ==
    \E amount \in Amounts, posted \in BOOLEAN :
        /\ MayCollect(o, order[o], amount)
        /\ Read(c, o, [op |-> "collect", order |-> o, seen |-> order[o],
                       amount |-> amount, posted |-> posted])

(* The approval checks neither the status nor the pricing of the order.    *)
ReadForApprove(c, o) ==
    Read(c, o, [op |-> "approve", order |-> o, seen |-> order[o]])

Done(c) == tx' = [tx EXCEPT ![c] = Idle]

(* Slip: stock goes out whether or not there is any.                       *)
SaleFitsAnyway(o) == TRUE
SaleFits(o) == balance >= Boards[o]

(* The engine deducts the boards, then the status of the order as it was   *)
(* read is advanced, by two transitions when there was an advance.         *)
Confirm(c) ==
    /\ tx[c].op = "confirm"
    /\ LET o == tx[c].order
       IN  /\ SaleFits(o)
           /\ balance' = balance - Boards[o]
           /\ moved'   = [moved EXCEPT ![o] = @ - Boards[o]]
           /\ order'   = [order EXCEPT ![o].status =
                            ClassifyAfterCollection(Required[o], tx[c].seen.collected)]
    /\ Done(c)
    /\ UNCHANGED <<collections, overlapped, started>>

InsufficientStock(c) ==
    /\ tx[c].op = "confirm"
    /\ ~SaleFits(tx[c].order)
    /\ Done(c)
    /\ UNCHANGED <<order, collections, moved, balance, overlapped, started>>

(* Slip: a paid order is taken for one that never left the warehouse.      *)
HeldBackUnlessPaid(seen) == seen.status \in Live \ {"PAID"}
SaleWasPosted(seen) == seen.status \in Live

(* A confirmed order gives its boards back and what was collected is       *)
(* refunded; an order still waiting for its price only changes status.     *)
Cancel(c) ==
    /\ tx[c].op = "cancel"
    /\ LET o    == tx[c].order
           seen == tx[c].seen
       IN  IF SaleWasPosted(seen)
           THEN /\ balance' = balance + Boards[o]
                /\ moved' = [moved EXCEPT ![o] = @ + Boards[o]]
                /\ IF seen.collected > 0
                   THEN /\ order' = [order EXCEPT ![o].status = "CANCELLED",
                                                  ![o].collected = 0,
                                                  ![o].remaining = Required[o]]
                        /\ collections' = [collections EXCEPT ![o] =
                             Append(@, [amount |-> -seen.collected, posted |-> FALSE])]
                   ELSE /\ order' = [order EXCEPT ![o].status = "CANCELLED"]
                        /\ UNCHANGED collections
           ELSE /\ order' = [order EXCEPT ![o].status = "CANCELLED"]
                /\ UNCHANGED <<collections, moved, balance>>
    /\ Done(c)
    /\ UNCHANGED <<overlapped, started>>

(* An advance on a draft leaves the status alone, otherwise the amount     *)
(* collected so far decides it.                                            *)
StatusAfter(o, seen, total) ==
    IF seen.status \in {"CONFIRMED", "PARTIALLY_COLLECTED"}
    THEN ClassifyAfterCollection(Required[o], total)
    ELSE seen.status

(* The amounts written are computed from the order as it was read.         *)
Collect(c) ==
    /\ tx[c].op = "collect"
    /\ LET o     == tx[c].order
           total == tx[c].seen.collected + tx[c].amount
       IN  /\ collections' = [collections EXCEPT ![o] =
                Append(@, [amount |-> tx[c].amount, posted |-> tx[c].posted])]
           /\ order' = [order EXCEPT ![o].collected = total,
                                     ![o].remaining = Required[o] - total,
                                     ![o].status = StatusAfter(o, tx[c].seen, total)]
    /\ Done(c)
    /\ UNCHANGED <<moved, balance, overlapped, started>>

Approve(c) ==
    /\ tx[c].op = "approve"
    /\ order' = [order EXCEPT ![tx[c].order].price = "APPROVED"]
    /\ Done(c)
    /\ UNCHANGED <<collections, moved, balance, overlapped, started>>

(* A transaction may also time out or lose its connection.                 *)
Abort(c) ==
    /\ tx[c] # Idle
    /\ Done(c)
    /\ UNCHANGED <<order, collections, moved, balance, overlapped, started>>

Next ==
    \/ Receive
    \/ \E o \in Orders : Create(o)
    \/ \E c \in Clients, o \in Orders :
         \/ ReadForConfirm(c, o) \/ ReadForCancel(c, o)
         \/ ReadForCollect(c, o) \/ ReadForApprove(c, o)
    \/ \E c \in Clients :
         \/ Confirm(c) \/ InsufficientStock(c) \/ Cancel(c)
         \/ Collect(c) \/ Approve(c) \/ Abort(c)

Spec == Init /\ [][Next]_vars

-----------------------------------------------------------------------------
(* Correctness.                                                            *)

Record  == [status : Statuses, price : Pricing, collected : Nat, remaining : Nat]
Request == [op : {"confirm", "cancel", "approve"}, order : Orders, seen : Record]
             \cup [op : {"collect"}, order : Orders, seen : Record,
                   amount : Nat \ {0}, posted : BOOLEAN]

(* Every variable has its type; boards on hand are never negative.         *)
TypeOK ==
    /\ order \in [Orders -> Record \cup {NoOrder}]
    /\ collections \in [Orders -> Seq([amount : Int, posted : BOOLEAN])]
    /\ moved \in [Orders -> Int]
    /\ balance \in Nat
    /\ tx \in [Clients -> {Idle} \cup Request]
    /\ overlapped \subseteq Orders
    /\ started \in 0..MaxRequests

(* The sum of the rows of an order, a refund being negative.               *)
Total(rows) == SumFunction([k \in DOMAIN rows |-> rows[k].amount])

(* Whatever handlers race on an order, what it shows as collected and what *)
(* it shows as remaining add up to what is required, and never exceed it.  *)
AmountsAddUp ==
    \A o \in Orders : order[o] # NoOrder =>
        /\ order[o].collected \in 0..Required[o]
        /\ order[o].remaining = Required[o] - order[o].collected

(* No board leaves, and no order is confirmed, at a price nobody approved, *)
(* whatever handlers race on the order (the pricing gate of the            *)
(* confirmation).                                                          *)
SoldAtApprovedPrice ==
    \A o \in Orders : moved[o] # 0 \/ order[o].status \in Live
                        => order[o].price # "PENDING_APPROVAL"

(* The inductive invariant behind the theorems: what a handler has read is *)
(* still a safe base for what it is about to write, because amounts within *)
(* the required one were read and an approved price stays approved.        *)
ReadStillSafe ==
    \A c \in Clients : tx[c] # Idle =>
        LET o == tx[c].order
            seen == tx[c].seen
        IN  /\ order[o] # NoOrder
            /\ seen.collected <= Required[o]
            /\ seen.remaining = Required[o] - seen.collected
            /\ tx[c].op = "collect" => seen.collected + tx[c].amount <= Required[o]
            /\ seen.status \in Live \/ tx[c].op = "confirm"
                 => order[o].price # "PENDING_APPROVAL"

NothingMovedYet == \A o \in Orders : order[o] = NoOrder => moved[o] = 0

IInv == TypeOK /\ AmountsAddUp /\ SoldAtApprovedPrice /\ ReadStillSafe /\ NothingMovedYet

(* An order no two handlers have worked on at once holds exactly the boards*)
(* it sells while it is confirmed, and none before and after: confirmation *)
(* deducts once, cancellation gives back exactly what was deducted.  It    *)
(* shows as collected the sum of its collections, refunds included, and    *)
(* its status says how much of it is paid.                                 *)
BooksOf(o) ==
    /\ moved[o] = IF order[o].status \in Live THEN -Boards[o] ELSE 0
    /\ order[o].collected = Total(collections[o])
    /\ order[o].status \in Live =>
         order[o].status = CASE order[o].collected = 0           -> "CONFIRMED"
                             [] order[o].collected = Required[o] -> "PAID"
                             [] OTHER                            -> "PARTIALLY_COLLECTED"

RaceFreeBooks == \A o \in Orders \ overlapped : BooksOf(o)

(* What makes it inductive: until two handlers meet on an order, the one at*)
(* work is alone and holds what the row still says, so the check it made   *)
(* when it read is as good as one made now.                                *)
FreshReads ==
    \A c \in Clients : tx[c] # Idle /\ tx[c].order \notin overlapped =>
        LET seen == tx[c].seen
        IN  /\ seen = order[tx[c].order]
            /\ \A d \in Clients \ {c} : tx[d] # Idle => tx[d].order # tx[c].order
            /\ tx[c].op = "confirm" => "CONFIRMED" \in Allowed(seen.status)
            /\ tx[c].op = "cancel"  => "CANCELLED" \in Allowed(seen.status)
            /\ tx[c].op = "collect" => seen.status \notin {"CANCELLED", "PAID"}

(* Such an order only makes the transitions of the state machine, a        *)
(* confirmation with an advance making two of them at once; a cancelled    *)
(* order never changes status again.                                       *)
Transition(from, to) ==
    \/ from = to
    \/ from = "NONE" /\ to \in {"DRAFT", "PENDING_PRICE_APPROVAL"}
    \/ to \in Allowed(from)
    \/ "CONFIRMED" \in Allowed(from) /\ to \in Allowed("CONFIRMED") \ {"CANCELLED"}

RaceFreeLifecycle ==
    [][\A o \in Orders \ overlapped : Transition(order[o].status, order'[o].status)]_vars

(* data-model.md: collected_amount is the sum of the OrderCollection rows. *)
(* Two collections that both read the order first keep both rows and only  *)
(* one of the amounts.                                                     *)
CollectedIsSumOfRows ==
    \A o \in Orders : order[o].collected = Total(collections[o])

(* cancel.controller.ts: a refund row makes the collections of a cancelled *)
(* order net to zero.  An advance on an order still waiting for its price  *)
(* is not refunded.                                                        *)
CancelledNetsToZero ==
    \A o \in Orders : order[o].status = "CANCELLED" => Total(collections[o]) = 0

=============================================================================
