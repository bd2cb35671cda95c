----------------------------- MODULE OrdersProofs -----------------------------
(***************************************************************************)
(* Proofs about Orders for any clients, orders, amounts and stock: the     *)
(* types, the two claims that hold although no handler locks the order it  *)
(* read (amounts add up, and nothing is sold at an unapproved price), and  *)
(* the books and the life cycle of an order no two handlers met on.        *)
(*                                                                         *)
(* The invariant under races is ReadStillSafe: a write is computed from    *)
(* the order as the handler read it, so what has to survive the other      *)
(* handlers is not what was read but what makes it safe to write.  Without *)
(* races it is FreshReads: what was read is what is there.                 *)
(***************************************************************************)
EXTENDS Orders, SumLemmas, TLAPS

(* The initial state satisfies the invariant.                              *)
LEMMA InvInit == Init => IInv
<1> SUFFICES ASSUME Init PROVE IInv
  OBVIOUS
<1>1. TypeOK
  BY OrderAssumption DEF Init, TypeOK, NoOrder, Idle, Request, Record
<1>2. AmountsAddUp /\ SoldAtApprovedPrice
  BY DEF Init, AmountsAddUp, SoldAtApprovedPrice, NoOrder, Live
<1>3. ReadStillSafe /\ NothingMovedYet
  BY DEF Init, ReadStillSafe, NothingMovedYet
<1> QED  BY <1>1, <1>2, <1>3 DEF IInv

(* A new order satisfies the invariant; no handler knows it yet.           *)
LEMMA CreateKeepsInv ==
    ASSUME IInv, NEW o \in Orders, Create(o)
    PROVE  IInv'
<1> USE OrderAssumption
<1> USE DEF IInv
<1>1. PICK within \in BOOLEAN, initial \in Amounts \cup {0} :
        /\ initial <= Required[o]
        /\ order' = [order EXCEPT ![o] =
              [status    |-> IF within THEN "DRAFT" ELSE "PENDING_PRICE_APPROVAL",
               price     |-> IF within THEN "WITHIN_TOLERANCE" ELSE "PENDING_APPROVAL",
               collected |-> initial,
               remaining |-> Required[o] - initial]]
        /\ collections' = [collections EXCEPT ![o] =
              IF initial > 0 THEN <<[amount |-> initial, posted |-> FALSE]>> ELSE <<>>]
  BY DEF Create
<1>2. initial \in Nat /\ Required[o] \in Nat
  OBVIOUS
<1> DEFINE new == [status    |-> IF within THEN "DRAFT" ELSE "PENDING_PRICE_APPROVAL",
                   price     |-> IF within THEN "WITHIN_TOLERANCE" ELSE "PENDING_APPROVAL",
                   collected |-> initial,
                   remaining |-> Required[o] - initial]
<1>3. new \in Record /\ new.status \notin Live
  BY <1>1, <1>2 DEF Record, Statuses, Pricing, Live
<1>4. TypeOK'
  <2>1. order' \in [Orders -> Record \cup {NoOrder}]
    BY <1>1, <1>3 DEF TypeOK
  <2> DEFINE Row == [amount : Int, posted : BOOLEAN]
  <2>3. [amount |-> initial, posted |-> FALSE] \in Row
    BY <1>2
  <2>4. <<[amount |-> initial, posted |-> FALSE]>> \in Seq(Row) /\ <<>> \in Seq(Row)
    <3> HIDE DEF Row
    <3> QED  BY <2>3
  <2>2. collections' \in [Orders -> Seq(Row)]
    <3> HIDE DEF Row
    <3>1. collections \in [Orders -> Seq(Row)]
      BY DEF TypeOK, Row
    <3> QED  BY <1>1, <2>4, <3>1
  <2> QED  BY <2>1, <2>2 DEF TypeOK, Create
<1>5. AmountsAddUp'
  BY <1>1, <1>2 DEF AmountsAddUp, TypeOK
<1>6. moved[o] = 0 /\ order'[o] = new
  BY <1>1 DEF NothingMovedYet, Create, TypeOK
<1>7. SoldAtApprovedPrice'
  BY <1>1, <1>3, <1>6 DEF SoldAtApprovedPrice, TypeOK, Create
<1>8. ReadStillSafe'
  BY <1>1 DEF ReadStillSafe, TypeOK, Create
<1>9. NothingMovedYet'
  BY <1>1, <1>6 DEF NothingMovedYet, TypeOK, Create
<1> QED  BY <1>4, <1>5, <1>7, <1>8, <1>9

(* The unlocked read of a handler is safe at the moment it is made.        *)
LEMMA ReadKeepsInv ==
    ASSUME IInv, NEW c \in Clients, NEW o \in Orders, NEW request \in Request,
           Read(c, o, request), request.order = o, request.seen = order[o],
           request.op = "collect" => order[o].collected + request.amount <= Required[o],
           request.op = "confirm" => order[o].price # "PENDING_APPROVAL"
    PROVE  IInv'
<1> USE OrderAssumption
<1> USE DEF IInv
<1>1. TypeOK'
  BY DEF TypeOK, Read
<1>2. AmountsAddUp' /\ SoldAtApprovedPrice' /\ NothingMovedYet'
  BY DEF AmountsAddUp, SoldAtApprovedPrice, NothingMovedYet, Read
<1>3. /\ order[o] # NoOrder
      /\ order[o].collected <= Required[o]
      /\ order[o].remaining = Required[o] - order[o].collected
      /\ order[o].status \in Live => order[o].price # "PENDING_APPROVAL"
  BY DEF Read, AmountsAddUp, SoldAtApprovedPrice
<1>4. ReadStillSafe'
  <2> SUFFICES ASSUME NEW d \in Clients, tx'[d] # Idle
               PROVE  (LET p == tx[d].order
                           seen == tx[d].seen
                       IN  /\ order[p] # NoOrder
                           /\ seen.collected <= Required[p]
                           /\ seen.remaining = Required[p] - seen.collected
                           /\ tx[d].op = "collect" => seen.collected + tx[d].amount <= Required[p]
                           /\ seen.status \in Live \/ tx[d].op = "confirm"
                                => order[p].price # "PENDING_APPROVAL")'
    BY DEF ReadStillSafe
  <2>1. CASE d = c
    BY <2>1, <1>3 DEF Read, TypeOK
  <2>2. CASE d # c
    BY <2>2 DEF Read, TypeOK, ReadStillSafe
  <2> QED  BY <2>1, <2>2
<1> QED  BY <1>1, <1>2, <1>4

(* A handler that finishes without touching orders or stock moved keeps    *)
(* the invariant (a refused confirmation, an aborted transaction).         *)
LEMMA EndKeepsInv ==
    ASSUME IInv, NEW c \in Clients, Done(c),
           UNCHANGED <<order, collections, moved, balance, overlapped, started>>
    PROVE  IInv'
<1> USE DEF IInv
<1>1. TypeOK'
  BY DEF TypeOK, Done
<1>2. AmountsAddUp' /\ SoldAtApprovedPrice' /\ NothingMovedYet'
  BY DEF AmountsAddUp, SoldAtApprovedPrice, NothingMovedYet
<1>3. ReadStillSafe'
  BY DEF ReadStillSafe, TypeOK, Done
<1> QED  BY <1>1, <1>2, <1>3

(* A handler's write keeps the invariant when it keeps the types, writes   *)
(* amounts that add up, does not take an approval back, and neither sells  *)
(* nor confirms at an unapproved price.                                    *)
LEMMA WriteKeepsInv ==
    ASSUME IInv, NEW c \in Clients, tx[c] # Idle, Done(c), TypeOK',
           NEW new \in Record,
           order' = [order EXCEPT ![tx[c].order] = new],
           new.collected <= Required[tx[c].order],
           new.remaining = Required[tx[c].order] - new.collected,
           new.price = "PENDING_APPROVAL" => order[tx[c].order].price = "PENDING_APPROVAL",
           \A o \in Orders \ {tx[c].order} : moved'[o] = moved[o],
           moved'[tx[c].order] # 0 \/ new.status \in Live => new.price # "PENDING_APPROVAL"
    PROVE  IInv'
<1> USE OrderAssumption
<1> USE DEF IInv
<1> DEFINE o == tx[c].order
<1>1. o \in Orders /\ order[o] # NoOrder
  BY DEF TypeOK, ReadStillSafe, Request
<1>2. order'[o] = new /\ \A p \in Orders \ {o} : order'[p] = order[p]
  BY <1>1 DEF TypeOK
<1>3. new # NoOrder
  BY DEF Record, Statuses, NoOrder
<1>4. AmountsAddUp'
  <2>1. new.collected \in 0..Required[o] /\ new.remaining = Required[o] - new.collected
    <3>1. new.collected \in Nat
      BY DEF Record
    <3>2. Required[o] \in Nat
      BY <1>1
    <3> QED  BY <3>1, <3>2
  <2> QED  BY <1>2, <2>1 DEF AmountsAddUp
<1>5. SoldAtApprovedPrice'
  BY <1>1, <1>2 DEF SoldAtApprovedPrice
<1>6. NothingMovedYet'
  BY <1>1, <1>2, <1>3 DEF NothingMovedYet
<1>7. ReadStillSafe'
  <2>1. \A d \in Clients : tx'[d] # Idle => tx'[d] = tx[d] /\ tx[d] # Idle
    BY DEF Done, TypeOK
  <2>2. \A p \in Orders : order[p] # NoOrder => order'[p] # NoOrder
    BY <1>2, <1>3
  <2>3. \A p \in Orders : order[p].price # "PENDING_APPROVAL" => order'[p].price # "PENDING_APPROVAL"
    BY <1>2
  <2>4. \A d \in Clients : tx[d] # Idle => tx[d].order \in Orders
    BY DEF TypeOK, Request
  <2> QED  BY <2>1, <2>2, <2>3, <2>4 DEF ReadStillSafe
<1> QED  BY <1>4, <1>5, <1>6, <1>7

(* What is known of the order a running handler is about to write.         *)
LEMMA RunningOrder ==
    ASSUME IInv, NEW c \in Clients, tx[c] # Idle
    PROVE  /\ tx[c].order \in Orders /\ tx[c].seen \in Record
           /\ order[tx[c].order] \in Record
           /\ order[tx[c].order].collected <= Required[tx[c].order]
           /\ order[tx[c].order].remaining = Required[tx[c].order] - order[tx[c].order].collected
           /\ Required[tx[c].order] \in Nat /\ Boards[tx[c].order] \in Nat
<1>1. tx[c].order \in Orders /\ tx[c].seen \in Record /\ order[tx[c].order] # NoOrder
  BY DEF IInv, TypeOK, ReadStillSafe, Request
<1> QED  BY <1>1, OrderAssumption DEF IInv, TypeOK, AmountsAddUp

(* Every status the classifier returns is one.                             *)
LEMMA ClassifyType ==
    ASSUME NEW r \in Nat, NEW k \in Int
    PROVE  ClassifyAfterCollection(r, k) \in Live
BY DEF ClassifyAfterCollection, Live

(* A confirmation keeps the invariant: the price it read approved stays    *)
(* approved.                                                               *)
LEMMA ConfirmKeepsInv ==
    ASSUME IInv, NEW c \in Clients, Confirm(c)
    PROVE  IInv'
<1> USE OrderAssumption
<1> DEFINE o == tx[c].order
<1> DEFINE new == [order[o] EXCEPT !.status =
                     ClassifyAfterCollection(Required[o], tx[c].seen.collected)]
<1>1. tx[c].op = "confirm" /\ tx[c] # Idle
  BY DEF Confirm, Idle
<1>2. /\ o \in Orders /\ tx[c].seen \in Record /\ order[o] \in Record
      /\ order[o].collected <= Required[o]
      /\ order[o].remaining = Required[o] - order[o].collected
      /\ Required[o] \in Nat /\ Boards[o] \in Nat
  BY <1>1, RunningOrder
<1>3. new \in Record
  <2>1. ClassifyAfterCollection(Required[o], tx[c].seen.collected) \in Statuses
    BY <1>2, ClassifyType DEF Record, Live, Statuses
  <2> QED  BY <1>2, <2>1 DEF Record
<1>4. order' = [order EXCEPT ![o] = new]
  BY <1>2 DEF Confirm, IInv, TypeOK
<1>5. TypeOK'
  <2>1. balance' \in Nat
    <3>1. balance \in Nat /\ balance >= Boards[o] /\ balance' = balance - Boards[o]
      BY DEF Confirm, SaleFits, IInv, TypeOK
    <3> QED  BY <1>2, <3>1
  <2>2. moved' \in [Orders -> Int]
    <3>1. moved \in [Orders -> Int] /\ moved' = [moved EXCEPT ![o] = @ - Boards[o]]
      BY DEF Confirm, IInv, TypeOK
    <3> QED  BY <1>2, <3>1
  <2>3. order' \in [Orders -> Record \cup {NoOrder}]
    <3> HIDE DEF new
    <3> QED  BY <1>2, <1>3, <1>4 DEF IInv, TypeOK
  <2>4. /\ tx' \in [Clients -> {Idle} \cup Request]
        /\ UNCHANGED <<collections, overlapped, started>>
    BY DEF Confirm, Done, IInv, TypeOK
  <2> QED  BY <2>1, <2>2, <2>3, <2>4 DEF IInv, TypeOK
<1>6. \A p \in Orders \ {o} : moved'[p] = moved[p]
  BY DEF Confirm, IInv, TypeOK
<1>7. order[o].price # "PENDING_APPROVAL"
  BY <1>1 DEF IInv, ReadStillSafe
<1> QED
  BY <1>1, <1>2, <1>3, <1>4, <1>5, <1>6, <1>7, WriteKeepsInv DEF Confirm, Record

(* An approval keeps the invariant.                                        *)
LEMMA ApproveKeepsInv ==
    ASSUME IInv, NEW c \in Clients, Approve(c)
    PROVE  IInv'
<1> USE OrderAssumption
<1> DEFINE o == tx[c].order
<1> DEFINE new == [order[o] EXCEPT !.price = "APPROVED"]
<1>1. tx[c].op = "approve" /\ tx[c] # Idle
  BY DEF Approve, Idle
<1>2. /\ o \in Orders /\ tx[c].seen \in Record /\ order[o] \in Record
      /\ order[o].collected <= Required[o]
      /\ order[o].remaining = Required[o] - order[o].collected
      /\ Required[o] \in Nat /\ Boards[o] \in Nat
  BY <1>1, RunningOrder
<1>3. new \in Record
  BY <1>2 DEF Record, Pricing
<1>4. order' = [order EXCEPT ![o] = new]
  BY <1>2 DEF Approve, IInv, TypeOK
<1>5. TypeOK'
  BY <1>2, <1>3, <1>4 DEF Approve, Done, IInv, TypeOK
<1> QED
  BY <1>1, <1>2, <1>3, <1>4, <1>5, WriteKeepsInv DEF Approve, Record

(* A collection keeps the invariant: the amount it read plus the amount it *)
(* adds stays within the required one, even when another handler's         *)
(* collection is overwritten.                                              *)
LEMMA CollectKeepsInv ==
    ASSUME IInv, NEW c \in Clients, Collect(c)
    PROVE  IInv'
<1> USE OrderAssumption
<1> DEFINE o == tx[c].order
<1> DEFINE total == tx[c].seen.collected + tx[c].amount
<1> DEFINE new == [order[o] EXCEPT !.collected = total,
                                   !.remaining = Required[o] - total,
                                   !.status = StatusAfter(o, tx[c].seen, total)]
<1>1. tx[c].op = "collect" /\ tx[c] # Idle
  BY DEF Collect, Idle
<1>2. /\ o \in Orders /\ tx[c].seen \in Record /\ order[o] \in Record
      /\ Required[o] \in Nat /\ Boards[o] \in Nat
  BY <1>1, RunningOrder
<1>3. tx[c].amount \in Nat /\ tx[c].posted \in BOOLEAN
  <2>1. tx[c] \in Request
    BY <1>1 DEF IInv, TypeOK
  <2>2. tx[c] \in [op : {"collect"}, order : Orders, seen : Record,
                   amount : Nat \ {0}, posted : BOOLEAN]
    BY <1>1, <2>1 DEF Request
  <2> QED  BY <2>2
<1>4. total \in Nat /\ total <= Required[o]
  <2>1. tx[c].seen.collected \in Nat
    BY <1>2 DEF Record
  <2>2. total <= Required[o]
    BY <1>1 DEF IInv, ReadStillSafe
  <2> QED  BY <1>3, <2>1, <2>2
<1>5. StatusAfter(o, tx[c].seen, total) \in Statuses
  BY <1>2, <1>4, ClassifyType DEF StatusAfter, Live, Statuses, Record
<1>6. new \in Record
  <2>1. Required[o] - total \in Nat
    BY <1>2, <1>4
  <2> DEFINE status == StatusAfter(o, tx[c].seen, total)
  <2>2. status \in Statuses
    BY <1>5
  <2> HIDE DEF total, status
  <2> QED  BY <1>2, <1>4, <2>1, <2>2 DEF Record, status
<1>7. order' = [order EXCEPT ![o] = new]
  BY <1>2 DEF Collect, IInv, TypeOK
<1>8. TypeOK'
  <2> DEFINE Row == [amount : Int, posted : BOOLEAN]
  <2>1. [amount |-> tx[c].amount, posted |-> tx[c].posted] \in Row
    BY <1>3
  <2>2. collections' \in [Orders -> Seq(Row)]
    <3>1. collections \in [Orders -> Seq(Row)]
      BY DEF IInv, TypeOK
    <3>2. collections' = [collections EXCEPT ![o] =
              Append(@, [amount |-> tx[c].amount, posted |-> tx[c].posted])]
      BY DEF Collect
    <3> DEFINE row == [amount |-> tx[c].amount, posted |-> tx[c].posted]
    <3>3. collections' = [collections EXCEPT ![o] = Append(@, row)] /\ row \in Row
      BY <2>1, <3>2
    <3> HIDE DEF Row, row
    <3>4. Append(collections[o], row) \in Seq(Row)
      BY <1>2, <3>1, <3>3
    <3> QED  BY <1>2, <3>1, <3>3, <3>4
  <2>3. order' \in [Orders -> Record \cup {NoOrder}]
    <3> HIDE DEF new
    <3> QED  BY <1>2, <1>6, <1>7 DEF IInv, TypeOK
  <2>4. /\ tx' \in [Clients -> {Idle} \cup Request]
        /\ UNCHANGED <<moved, balance, overlapped, started>>
    BY DEF Collect, Done, IInv, TypeOK
  <2> QED  BY <2>2, <2>3, <2>4 DEF IInv, TypeOK
<1>9. new.status \in Live => order[o].price # "PENDING_APPROVAL"
  <2>1. new.status = StatusAfter(o, tx[c].seen, total)
    BY <1>6, <1>2 DEF Record
  <2>2. new.status \in Live => tx[c].seen.status \in Live
    BY <2>1 DEF StatusAfter, Live
  <2> QED  BY <1>1, <2>2 DEF IInv, ReadStillSafe
<1>10. new.price = order[o].price /\ new.collected = total /\ new.remaining = Required[o] - total
  BY <1>2 DEF Record
<1>11. moved[o] # 0 => order[o].price # "PENDING_APPROVAL"
  BY <1>2 DEF IInv, SoldAtApprovedPrice
<1>12. Done(c) /\ moved' = moved
  BY DEF Collect
<1> HIDE DEF new, total
<1> QED
  BY <1>1, <1>2, <1>4, <1>6, <1>7, <1>8, <1>9, <1>10, <1>11, <1>12, WriteKeepsInv

(* A cancellation keeps the invariant: the refund brings the order back to *)
(* nothing collected, whatever was collected meanwhile.                    *)
LEMMA CancelKeepsInv ==
    ASSUME IInv, NEW c \in Clients, Cancel(c)
    PROVE  IInv'
<1> USE OrderAssumption
<1> DEFINE o    == tx[c].order
<1> DEFINE seen == tx[c].seen
<1> DEFINE refund == SaleWasPosted(seen) /\ seen.collected > 0
<1> DEFINE new  == IF refund
                   THEN [order[o] EXCEPT !.status = "CANCELLED", !.collected = 0,
                                         !.remaining = Required[o]]
                   ELSE [order[o] EXCEPT !.status = "CANCELLED"]
<1>1. tx[c].op = "cancel" /\ tx[c] # Idle
  BY DEF Cancel, Idle
<1>2. /\ o \in Orders /\ seen \in Record /\ order[o] \in Record
      /\ order[o].collected <= Required[o]
      /\ order[o].remaining = Required[o] - order[o].collected
      /\ Required[o] \in Nat /\ Boards[o] \in Nat
  BY <1>1, RunningOrder
<1>3. new \in Record
  BY <1>2 DEF Record, Statuses
<1>4. order' = [order EXCEPT ![o] = new]
  BY <1>2 DEF Cancel, IInv, TypeOK
<1>5. collections' \in [Orders -> Seq([amount : Int, posted : BOOLEAN])]
  <2> DEFINE Row == [amount : Int, posted : BOOLEAN]
  <2>1. [amount |-> -seen.collected, posted |-> FALSE] \in Row
    BY <1>2 DEF Record
  <2>2. collections \in [Orders -> Seq(Row)]
    BY DEF IInv, TypeOK
  <2>3. \/ collections' = collections
        \/ collections' = [collections EXCEPT ![o] =
              Append(@, [amount |-> -seen.collected, posted |-> FALSE])]
    BY DEF Cancel
  <2>4. collections' \in [Orders -> Seq(Row)]
    <3> DEFINE row == [amount |-> -seen.collected, posted |-> FALSE]
    <3>1. row \in Row /\ (collections' = collections \/
                          collections' = [collections EXCEPT ![o] = Append(@, row)])
      BY <2>1, <2>3
    <3> HIDE DEF Row, row
    <3>2. Append(collections[o], row) \in Seq(Row)
      BY <1>2, <2>2, <3>1
    <3>3. CASE collections' = collections
      BY <2>2, <3>3
    <3>4. CASE collections' = [collections EXCEPT ![o] = Append(@, row)]
      BY <1>2, <2>2, <3>2, <3>4
    <3> QED  BY <3>1, <3>3, <3>4
  <2> QED  BY <2>4 DEF Row
<1>6. balance' \in Nat /\ moved' \in [Orders -> Int]
  <2>1. balance \in Nat /\ moved \in [Orders -> Int]
    BY DEF IInv, TypeOK
  <2>2. \/ UNCHANGED <<moved, balance>>
        \/ balance' = balance + Boards[o] /\ moved' = [moved EXCEPT ![o] = @ + Boards[o]]
    BY DEF Cancel
  <2>3. CASE balance' = balance + Boards[o] /\ moved' = [moved EXCEPT ![o] = @ + Boards[o]]
    BY <1>2, <2>1, <2>3
  <2> QED  BY <2>1, <2>2, <2>3
<1>7. TypeOK'
  <2>1. order' \in [Orders -> Record \cup {NoOrder}]
    <3> HIDE DEF new
    <3> QED  BY <1>2, <1>3, <1>4 DEF IInv, TypeOK
  <2>2. /\ tx' \in [Clients -> {Idle} \cup Request]
        /\ UNCHANGED <<overlapped, started>>
    BY DEF Cancel, Done, IInv, TypeOK
  <2> QED  BY <1>5, <1>6, <2>1, <2>2 DEF IInv, TypeOK
<1>8. \A p \in Orders \ {o} : moved'[p] = moved[p]
  BY DEF Cancel, IInv, TypeOK
<1>9. new.price = order[o].price /\ new.status = "CANCELLED"
  BY <1>2 DEF Record
<1>10. new.collected <= Required[o] /\ new.remaining = Required[o] - new.collected
  BY <1>2 DEF Record
<1>11. moved'[o] # 0 => order[o].price # "PENDING_APPROVAL"
  <2>1. CASE SaleWasPosted(seen)
    BY <1>1, <2>1 DEF SaleWasPosted, IInv, ReadStillSafe
  <2>2. CASE ~SaleWasPosted(seen)
    <3>1. moved' = moved
      BY <2>2 DEF Cancel
    <3> QED  BY <1>2, <3>1 DEF IInv, SoldAtApprovedPrice
  <2> QED  BY <2>1, <2>2
<1>12. Done(c)
  BY DEF Cancel
<1> HIDE DEF new
<1> QED
  BY <1>1, <1>2, <1>3, <1>4, <1>7, <1>8, <1>9, <1>10, <1>11, <1>12, WriteKeepsInv DEF Live

(* Every step keeps the invariant.                                         *)
LEMMA InvNext == IInv /\ [Next]_vars => IInv'
<1> SUFFICES ASSUME IInv, [Next]_vars PROVE IInv'
  OBVIOUS
<1> USE OrderAssumption
<1>1. CASE UNCHANGED vars
  BY <1>1 DEF vars, IInv, TypeOK, AmountsAddUp, SoldAtApprovedPrice, ReadStillSafe, NothingMovedYet
<1>2. CASE Receive
  BY <1>2 DEF Receive, IInv, TypeOK, AmountsAddUp, SoldAtApprovedPrice, ReadStillSafe, NothingMovedYet
<1>3. ASSUME NEW o \in Orders, Create(o) PROVE IInv'
  BY <1>3, CreateKeepsInv
<1>4. ASSUME NEW c \in Clients, NEW o \in Orders,
             ReadForConfirm(c, o) \/ ReadForCancel(c, o) \/ ReadForApprove(c, o)
      PROVE  IInv'
  <2>1. PICK op \in {"confirm", "cancel", "approve"} :
           /\ Read(c, o, [op |-> op, order |-> o, seen |-> order[o]])
           /\ op = "confirm" => order[o].price # "PENDING_APPROVAL"
    BY <1>4 DEF ReadForConfirm, ReadForCancel, ReadForApprove, MayConfirm
  <2>2. order[o] \in Record
    BY <2>1 DEF Read, IInv, TypeOK
  <2>3. [op |-> op, order |-> o, seen |-> order[o]] \in Request
    BY <2>2 DEF Request
  <2> QED  BY <2>1, <2>3, ReadKeepsInv
<1>5. ASSUME NEW c \in Clients, NEW o \in Orders, ReadForCollect(c, o)
      PROVE  IInv'
  <2>1. PICK amount \in Amounts, posted \in BOOLEAN :
           /\ MayCollect(o, order[o], amount)
           /\ Read(c, o, [op |-> "collect", order |-> o, seen |-> order[o],
                          amount |-> amount, posted |-> posted])
    BY <1>5 DEF ReadForCollect
  <2>2. order[o] \in Record
    BY <2>1 DEF Read, IInv, TypeOK
  <2>3. [op |-> "collect", order |-> o, seen |-> order[o],
         amount |-> amount, posted |-> posted] \in Request
    BY <2>2 DEF Request
  <2> QED  BY <2>1, <2>3, ReadKeepsInv DEF MayCollect
<1>6. ASSUME NEW c \in Clients, InsufficientStock(c) \/ Abort(c)
      PROVE  IInv'
  BY <1>6, EndKeepsInv DEF InsufficientStock, Abort
<1>7. ASSUME NEW c \in Clients, Confirm(c) \/ Cancel(c) \/ Collect(c) \/ Approve(c)
      PROVE  IInv'
  BY <1>7, ConfirmKeepsInv, CancelKeepsInv, CollectKeepsInv, ApproveKeepsInv
<1> QED  BY <1>1, <1>2, <1>3, <1>4, <1>5, <1>6, <1>7 DEF Next

(* The invariant holds in every state, for any clients, orders and stock.  *)
THEOREM OrdersInvariant == Spec => []IInv
BY InvInit, InvNext, PTL DEF Spec

(* Whatever handlers race on an order, its collected and remaining amounts *)
(* add up to the required one and never exceed it.                         *)
THEOREM AmountsAlwaysAddUp == Spec => []AmountsAddUp
<1>1. IInv => AmountsAddUp
  BY DEF IInv
<1> QED  BY OrdersInvariant, <1>1, PTL

(* No board is sold and no order confirmed at a price nobody approved.     *)
THEOREM PriceAlwaysApproved == Spec => []SoldAtApprovedPrice
<1>1. IInv => SoldAtApprovedPrice
  BY DEF IInv
<1> QED  BY OrdersInvariant, <1>1, PTL

(* Types are kept, and with them the boards on hand non-negative.          *)
THEOREM OrdersTypeCorrect == Spec => []TypeOK
<1>1. IInv => TypeOK
  BY DEF IInv
<1> QED  BY OrdersInvariant, <1>1, PTL

-----------------------------------------------------------------------------
(* Orders no two handlers have met on: their books and their life cycle.   *)

RaceFree == FreshReads /\ RaceFreeBooks

(* The sum of no rows, and of one more row.                                *)
LEMMA TotalEmpty == Total(<<>>) = 0
<1> DEFINE f == [k \in DOMAIN <<>> |-> <<>>[k].amount]
<1>1. DOMAIN f = {}
  OBVIOUS
<1>2. Total(<<>>) = SumFunctionOnSet(f, {})
  <2>1. Total(<<>>) = SumFunction(f)
    BY DEF Total
  <2> HIDE DEF f
  <2> QED  BY <1>1, <2>1 DEF SumFunction, SumFunctionOnSet, FoldFunction
<1> QED  BY <1>2, SumEmpty

LEMMA TotalAppend ==
    ASSUME NEW Row, NEW rows \in Seq(Row), NEW row,
           row.amount \in Int, \A r \in Row : r.amount \in Int
    PROVE  Total(Append(rows, row)) = Total(rows) + row.amount
<1> DEFINE f == [k \in DOMAIN rows |-> rows[k].amount]
           more == Append(rows, row)
           g == [k \in DOMAIN more |-> more[k].amount]
           n == Len(rows) + 1
<1>1. /\ DOMAIN rows = 1..Len(rows) /\ Len(rows) \in Nat
      /\ DOMAIN more = DOMAIN rows \cup {n} /\ n \notin DOMAIN rows
      /\ more[n] = row /\ \A k \in DOMAIN rows : more[k] = rows[k]
  OBVIOUS
<1>2. IsFiniteSet(DOMAIN rows)
  BY <1>1, FS_Interval
<1>3. \A k \in DOMAIN rows : g[k] \in Int /\ f[k] = g[k]
  BY <1>1
<1>4. g[n] = row.amount
  BY <1>1
<1>5. Total(rows) = SumFunctionOnSet(f, DOMAIN rows) /\ Total(more) = SumFunctionOnSet(g, DOMAIN more)
  <2>1. Total(rows) = SumFunction(f) /\ Total(more) = SumFunction(g)
    BY DEF Total
  <2>2. DOMAIN f = DOMAIN rows /\ DOMAIN g = DOMAIN more
    OBVIOUS
  <2> HIDE DEF f, g, more
  <2> QED  BY <2>1, <2>2 DEF SumFunction, SumFunctionOnSet, FoldFunction
<1> HIDE DEF f, g, more, n
<1>6. SumFunctionOnSet(g, DOMAIN rows \cup {n}) = SumFunctionOnSet(f, DOMAIN rows) + g[n]
  <2>1. g[n] \in Int /\ \A k \in DOMAIN rows : g[k] \in Int /\ f[k] = g[k]
    BY <1>3, <1>4
  <2>2. n \notin DOMAIN rows
    BY <1>1
  <2> DEFINE S == DOMAIN rows
  <2>3. IsFiniteSet(S) /\ n \notin S /\ g[n] \in Int /\ \A k \in S : g[k] \in Int /\ f[k] = g[k]
    BY <1>2, <2>1, <2>2
  <2>4. SumFunctionOnSet(g, S \cup {n}) = SumFunctionOnSet(f, S) + g[n]
    <3> HIDE DEF S
    <3> QED  BY <2>3, SumAdd
  <2> QED  BY <2>4
<1> QED  BY <1>1, <1>4, <1>5, <1>6 DEF more

(* A write disturbs no order but its own, and of an order nobody raced on  *)
(* it is the only one.                                                     *)
LEMMA WriteKeepsRaceFree ==
    ASSUME IInv, RaceFree, NEW c \in Clients, tx[c] # Idle, Done(c), overlapped' = overlapped,
           NEW o \in Orders, o = tx[c].order,
           \A p \in Orders \ {o} : /\ order'[p] = order[p] /\ moved'[p] = moved[p]
                                   /\ collections'[p] = collections[p],
           o \notin overlapped => BooksOf(o)'
    PROVE  RaceFree'
<1>1. ASSUME NEW d \in Clients, tx'[d] # Idle
      PROVE  d # c /\ tx'[d] = tx[d] /\ tx[d] # Idle /\ tx[d].order \in Orders
  BY <1>1 DEF Done, IInv, TypeOK, Request
<1>2. FreshReads'
  <2> SUFFICES ASSUME NEW d \in Clients, tx'[d] # Idle, tx'[d].order \notin overlapped
               PROVE  LET seen == tx'[d].seen
                      IN  /\ seen = order'[tx'[d].order]
                          /\ \A e \in Clients \ {d} : tx'[e] # Idle => tx'[e].order # tx'[d].order
                          /\ tx'[d].op = "confirm" => "CONFIRMED" \in Allowed(seen.status)
                          /\ tx'[d].op = "cancel"  => "CANCELLED" \in Allowed(seen.status)
                          /\ tx'[d].op = "collect" => seen.status \notin {"CANCELLED", "PAID"}
    BY DEF FreshReads
  <2>1. tx[c].order # tx[d].order
    BY <1>1 DEF RaceFree, FreshReads
  <2>2. order'[tx[d].order] = order[tx[d].order]
    BY <1>1, <2>1
  <2> QED  BY <1>1, <2>2 DEF RaceFree, FreshReads
<1>3. RaceFreeBooks'
  <2> SUFFICES ASSUME NEW p \in Orders, p \notin overlapped PROVE BooksOf(p)'
    BY DEF RaceFreeBooks
  <2>1. CASE p = o
    BY <2>1
  <2>2. CASE p # o
    BY <2>2 DEF RaceFree, RaceFreeBooks, BooksOf
  <2> QED  BY <2>1, <2>2
<1> QED  BY <1>2, <1>3 DEF RaceFree

(* An order no two handlers have met on, as the one that writes it sees it.*)
LEMMA AloneWithOrder ==
    ASSUME IInv, RaceFree, NEW c \in Clients, tx[c] # Idle, tx[c].order \notin overlapped
    PROVE  LET o == tx[c].order
           IN  /\ tx[c].seen = order[o] /\ BooksOf(o)
               /\ order[o].collected \in Nat /\ order[o].collected <= Required[o]
               /\ Required[o] \in Nat \ {0} /\ Boards[o] \in Nat /\ moved[o] \in Int
               /\ collections[o] \in Seq([amount : Int, posted : BOOLEAN])
               /\ order[o].status \in Statuses
<1>1. tx[c].order \in Orders /\ order[tx[c].order] \in Record
  BY RunningOrder
<1> QED
  BY <1>1, RunningOrder, OrderAssumption DEF RaceFree, FreshReads, RaceFreeBooks, IInv, TypeOK, Record

LEMMA ConfirmKeepsRaceFree ==
    ASSUME IInv, RaceFree, NEW c \in Clients, Confirm(c)
    PROVE  RaceFree'
<1>0. PICK o : o = tx[c].order
  OBVIOUS
<1>1. tx[c].op = "confirm" /\ tx[c] # Idle
  BY DEF Confirm, Idle
<1>2. o \in Orders /\ order[o] \in Record
  BY <1>0, <1>1, RunningOrder
<1>3. \A p \in Orders \ {o} : /\ order'[p] = order[p] /\ moved'[p] = moved[p]
                              /\ collections'[p] = collections[p]
  BY <1>0 DEF Confirm, IInv, TypeOK
<1>4. ASSUME o \notin overlapped PROVE BooksOf(o)'
  <2>1. /\ tx[c].seen = order[o] /\ BooksOf(o)
        /\ order[o].collected \in Nat /\ order[o].collected <= Required[o]
        /\ Required[o] \in Nat \ {0} /\ Boards[o] \in Nat /\ moved[o] \in Int
    BY <1>0, <1>1, <1>4, AloneWithOrder
  <2>2. "CONFIRMED" \in Allowed(order[o].status)
    BY <1>0, <1>1, <1>4, <2>1 DEF RaceFree, FreshReads
  <2>3. moved[o] = 0
    BY <2>1, <2>2 DEF BooksOf, Allowed, Live
  <2>4. moved'[o] = -Boards[o] /\ collections' = collections
    BY <1>0, <1>2, <2>1, <2>3 DEF Confirm, IInv, TypeOK
  <2>5. /\ order'[o].collected = order[o].collected
        /\ order'[o].status = ClassifyAfterCollection(Required[o], order[o].collected)
    BY <1>0, <1>2, <2>1 DEF Confirm, IInv, TypeOK, Record
  <2> QED  BY <2>1, <2>4, <2>5 DEF BooksOf, ClassifyAfterCollection, Live
<1> QED  BY <1>0, <1>1, <1>2, <1>3, <1>4, WriteKeepsRaceFree DEF Confirm

LEMMA ApproveKeepsRaceFree ==
    ASSUME IInv, RaceFree, NEW c \in Clients, Approve(c)
    PROVE  RaceFree'
<1>0. PICK o : o = tx[c].order
  OBVIOUS
<1>1. tx[c].op = "approve" /\ tx[c] # Idle
  BY DEF Approve, Idle
<1>2. o \in Orders /\ order[o] \in Record
  BY <1>0, <1>1, RunningOrder
<1>3. \A p \in Orders \ {o} : /\ order'[p] = order[p] /\ moved'[p] = moved[p]
                              /\ collections'[p] = collections[p]
  BY <1>0 DEF Approve, IInv, TypeOK
<1>4. ASSUME o \notin overlapped PROVE BooksOf(o)'
  <2>1. BooksOf(o)
    BY <1>0, <1>1, <1>4, AloneWithOrder
  <2>2. order'[o].status = order[o].status /\ order'[o].collected = order[o].collected
    BY <1>0, <1>2 DEF Approve, IInv, TypeOK, Record
  <2> QED  BY <2>1, <2>2 DEF BooksOf, Approve
<1> QED  BY <1>0, <1>1, <1>2, <1>3, <1>4, WriteKeepsRaceFree DEF Approve

LEMMA CollectKeepsRaceFree ==
    ASSUME IInv, RaceFree, NEW c \in Clients, Collect(c)
    PROVE  RaceFree'
<1>0. PICK o : o = tx[c].order
  OBVIOUS
<1> DEFINE row == [amount |-> tx[c].amount, posted |-> tx[c].posted]
<1>1. tx[c].op = "collect" /\ tx[c] # Idle
  BY DEF Collect, Idle
<1>2. o \in Orders /\ order[o] \in Record
  BY <1>0, <1>1, RunningOrder
<1>3. \A p \in Orders \ {o} : /\ order'[p] = order[p] /\ moved'[p] = moved[p]
                              /\ collections'[p] = collections[p]
  BY <1>0 DEF Collect, IInv, TypeOK
<1>4. ASSUME o \notin overlapped PROVE BooksOf(o)'
  <2>1. /\ tx[c].seen = order[o] /\ BooksOf(o)
        /\ order[o].collected \in Nat /\ order[o].collected <= Required[o]
        /\ Required[o] \in Nat \ {0}
        /\ collections[o] \in Seq([amount : Int, posted : BOOLEAN])
        /\ order[o].status \in Statuses
    BY <1>0, <1>1, <1>4, AloneWithOrder
  <2>2. order[o].status \notin {"CANCELLED", "PAID"}
    BY <1>0, <1>1, <1>4, <2>1 DEF RaceFree, FreshReads
  <2>3. tx[c].amount \in Nat \ {0}
    <3>1. tx[c] \in [op : {"collect"}, order : Orders, seen : Record,
                     amount : Nat \ {0}, posted : BOOLEAN]
      BY <1>1 DEF IInv, TypeOK, Request
    <3> QED  BY <3>1
  <2> DEFINE total == order[o].collected + tx[c].amount
  <2>4. total \in Nat \ {0} /\ total <= Required[o]
    <3>1. tx[c].seen.collected + tx[c].amount <= Required[tx[c].order]
      BY <1>1 DEF IInv, ReadStillSafe
    <3>2. total <= Required[o]
      BY <1>0, <2>1, <3>1
    <3>3. total \in Nat \ {0}
      BY <2>1, <2>3
    <3> QED  BY <3>2, <3>3
  <2>5. /\ order'[o].collected = total
        /\ order'[o].status = StatusAfter(o, order[o], total)
    BY <1>0, <1>2, <2>1 DEF Collect, IInv, TypeOK, Record
  <2>6. Total(collections'[o]) = total
    <3>1. collections'[o] = Append(collections[o], row)
      BY <1>0, <1>2 DEF Collect, IInv, TypeOK
    <3>2. row.amount = tx[c].amount /\ row.amount \in Int
      BY <2>3
    <3> DEFINE Row == [amount : Int, posted : BOOLEAN]
    <3>3. collections[o] \in Seq(Row) /\ \A r \in Row : r.amount \in Int
      BY <2>1
    <3> HIDE DEF row, Row
    <3>4. Total(Append(collections[o], row)) = Total(collections[o]) + row.amount
      BY <3>2, <3>3, TotalAppend
    <3> QED  BY <2>1, <3>1, <3>2, <3>4 DEF BooksOf
  <2>7. moved' = moved
    BY DEF Collect
  <2>8. order'[o].status \in Live <=> order[o].status \in Live
    BY <2>2, <2>4, <2>5 DEF StatusAfter, ClassifyAfterCollection, Live
  <2>9. order'[o].status \in Live =>
          order'[o].status = IF total = Required[o] THEN "PAID" ELSE "PARTIALLY_COLLECTED"
    BY <2>1, <2>2, <2>4, <2>5 DEF StatusAfter, ClassifyAfterCollection, Live
  <2> HIDE DEF total
  <2> QED  BY <2>1, <2>4, <2>5, <2>6, <2>7, <2>8, <2>9 DEF BooksOf
<1> QED  BY <1>0, <1>1, <1>2, <1>3, <1>4, WriteKeepsRaceFree DEF Collect

LEMMA CancelKeepsRaceFree ==
    ASSUME IInv, RaceFree, NEW c \in Clients, Cancel(c)
    PROVE  RaceFree'
<1>0. PICK o : o = tx[c].order
  OBVIOUS
<1>1. tx[c].op = "cancel" /\ tx[c] # Idle
  BY DEF Cancel, Idle
<1>2. o \in Orders /\ order[o] \in Record
  BY <1>0, <1>1, RunningOrder
<1>3. \A p \in Orders \ {o} : /\ order'[p] = order[p] /\ moved'[p] = moved[p]
                              /\ collections'[p] = collections[p]
  BY <1>0 DEF Cancel, IInv, TypeOK
<1>4. ASSUME o \notin overlapped PROVE BooksOf(o)'
  <2>1. /\ tx[c].seen = order[o] /\ BooksOf(o)
        /\ order[o].collected \in Nat
        /\ Boards[o] \in Nat /\ moved[o] \in Int
        /\ collections[o] \in Seq([amount : Int, posted : BOOLEAN])
    BY <1>0, <1>1, <1>4, AloneWithOrder
  <2>2. order'[o].status = "CANCELLED"
    BY <1>0, <1>2 DEF Cancel, IInv, TypeOK, Record
  <2>3. moved'[o] = 0
    <3>1. CASE SaleWasPosted(order[o])
      BY <1>0, <1>2, <2>1, <3>1 DEF Cancel, IInv, TypeOK, BooksOf, SaleWasPosted
    <3>2. CASE ~SaleWasPosted(order[o])
      BY <1>0, <1>2, <2>1, <3>2 DEF Cancel, BooksOf, SaleWasPosted
    <3> QED  BY <3>1, <3>2
  <2>4. order'[o].collected = Total(collections'[o])
    <3>1. CASE SaleWasPosted(order[o]) /\ order[o].collected > 0
      <4> DEFINE row == [amount |-> -order[o].collected, posted |-> FALSE]
                 Row == [amount : Int, posted : BOOLEAN]
      <4>1. order'[o].collected = 0 /\ collections'[o] = Append(collections[o], row)
        BY <1>0, <1>2, <2>1, <3>1 DEF Cancel, IInv, TypeOK, Record
      <4>2. row.amount = -order[o].collected /\ row.amount \in Int
        BY <2>1
      <4>3. collections[o] \in Seq(Row) /\ \A r \in Row : r.amount \in Int
        BY <2>1
      <4> HIDE DEF row, Row
      <4>4. Total(Append(collections[o], row)) = Total(collections[o]) + row.amount
        BY <4>2, <4>3, TotalAppend
      <4> QED  BY <2>1, <4>1, <4>2, <4>4 DEF BooksOf
    <3>2. CASE ~(SaleWasPosted(order[o]) /\ order[o].collected > 0)
      <4>1. order'[o].collected = order[o].collected /\ collections' = collections
        BY <1>0, <1>2, <2>1, <3>2 DEF Cancel, IInv, TypeOK, Record
      <4> QED  BY <2>1, <4>1 DEF BooksOf
    <3> QED  BY <3>1, <3>2
  <2> QED  BY <2>2, <2>3, <2>4 DEF BooksOf, Live
<1> QED  BY <1>0, <1>1, <1>2, <1>3, <1>4, WriteKeepsRaceFree DEF Cancel

(* The read of a handler is fresh; if another one is at work on the order, *)
(* the two have met.                                                       *)
LEMMA ReadKeepsRaceFree ==
    ASSUME IInv, RaceFree, NEW c \in Clients, NEW o \in Orders, NEW request \in Request,
           Read(c, o, request), request.order = o, request.seen = order[o],
           request.op = "confirm" => "CONFIRMED" \in Allowed(order[o].status),
           request.op = "cancel"  => "CANCELLED" \in Allowed(order[o].status),
           request.op = "collect" => order[o].status \notin {"CANCELLED", "PAID"}
    PROVE  RaceFree'
<1>1. tx'[c] = request /\ \A d \in Clients \ {c} : tx'[d] = tx[d]
  BY DEF Read, IInv, TypeOK
<1>2. overlapped \subseteq overlapped' /\ UNCHANGED <<order, collections, moved>>
  BY DEF Read
<1>3. o \notin overlapped' => \A d \in Clients \ {c} : tx[d] # Idle => tx[d].order # o
  BY DEF Read
<1>4. RaceFreeBooks'
  BY <1>2 DEF RaceFree, RaceFreeBooks, BooksOf
<1>5. FreshReads'
  <2> SUFFICES ASSUME NEW d \in Clients, tx'[d] # Idle, tx'[d].order \notin overlapped'
               PROVE  LET seen == tx'[d].seen
                      IN  /\ seen = order'[tx'[d].order]
                          /\ \A e \in Clients \ {d} : tx'[e] # Idle => tx'[e].order # tx'[d].order
                          /\ tx'[d].op = "confirm" => "CONFIRMED" \in Allowed(seen.status)
                          /\ tx'[d].op = "cancel"  => "CANCELLED" \in Allowed(seen.status)
                          /\ tx'[d].op = "collect" => seen.status \notin {"CANCELLED", "PAID"}
    BY DEF FreshReads
  <2>1. CASE d = c
    BY <1>1, <1>2, <1>3, <2>1
  <2>2. CASE d # c
    BY <1>1, <1>2, <1>3, <2>2 DEF RaceFree, FreshReads
  <2> QED  BY <2>1, <2>2
<1> QED  BY <1>4, <1>5 DEF RaceFree

(* A handler that ends without writing leaves everything as it was.        *)
LEMMA EndKeepsRaceFree ==
    ASSUME IInv, RaceFree, NEW c \in Clients, Done(c),
           UNCHANGED <<order, collections, moved, overlapped>>
    PROVE  RaceFree'
<1>1. \A d \in Clients : tx'[d] # Idle => tx'[d] = tx[d]
  BY DEF Done, IInv, TypeOK
<1> QED  BY <1>1 DEF RaceFree, FreshReads, RaceFreeBooks, BooksOf

(* A new order shows its advance, if any, and nothing has moved yet.       *)
LEMMA CreateKeepsRaceFree ==
    ASSUME IInv, RaceFree, NEW o \in Orders, Create(o)
    PROVE  RaceFree'
<1>1. PICK within \in BOOLEAN, initial \in Amounts \cup {0} :
        /\ order' = [order EXCEPT ![o] =
              [status    |-> IF within THEN "DRAFT" ELSE "PENDING_PRICE_APPROVAL",
               price     |-> IF within THEN "WITHIN_TOLERANCE" ELSE "PENDING_APPROVAL",
               collected |-> initial,
               remaining |-> Required[o] - initial]]
        /\ collections' = [collections EXCEPT ![o] =
              IF initial > 0 THEN <<[amount |-> initial, posted |-> FALSE]>> ELSE <<>>]
  BY DEF Create
<1>2. initial \in Nat
  BY OrderAssumption
<1>3. /\ order[o] = NoOrder /\ moved[o] = 0
      /\ UNCHANGED <<moved, tx, overlapped>>
      /\ \A p \in Orders \ {o} : order'[p] = order[p] /\ collections'[p] = collections[p]
  BY <1>1 DEF Create, IInv, TypeOK, NothingMovedYet
<1>4. \A c \in Clients : tx[c] # Idle => tx[c].order # o /\ tx[c].order \in Orders
  BY <1>3 DEF IInv, ReadStillSafe, TypeOK, Request
<1>5. FreshReads'
  BY <1>3, <1>4 DEF RaceFree, FreshReads
<1>6. BooksOf(o)'
  <2>1. /\ order'[o].collected = initial
        /\ order'[o].status \notin Live
        /\ collections'[o] = IF initial > 0 THEN <<[amount |-> initial, posted |-> FALSE]>> ELSE <<>>
    BY <1>1 DEF IInv, TypeOK, Live
  <2>2. Total(collections'[o]) = initial
    <3>1. CASE initial > 0
      <4> DEFINE row == [amount |-> initial, posted |-> FALSE]
                 Row == [amount : Int, posted : BOOLEAN]
      <4>1. /\ row \in Row /\ row.amount = initial /\ row.amount \in Int
            /\ \A r \in Row : r.amount \in Int
        BY <1>2
      <4>2. collections'[o] = <<row>>
        BY <2>1, <3>1
      <4> HIDE DEF row, Row
      <4>3. <<row>> = Append(<<>>, row) /\ <<>> \in Seq(Row)
        OBVIOUS
      <4>4. Total(Append(<<>>, row)) = Total(<<>>) + row.amount
        BY <4>1, <4>3, TotalAppend
      <4> QED  BY <1>2, <4>1, <4>2, <4>3, <4>4, TotalEmpty
    <3>2. CASE ~(initial > 0)
      BY <1>2, <2>1, <3>2, TotalEmpty
    <3> QED  BY <3>1, <3>2
  <2> QED  BY <1>3, <2>1, <2>2 DEF BooksOf
<1>7. RaceFreeBooks'
  BY <1>3, <1>6 DEF RaceFree, RaceFreeBooks, BooksOf
<1> QED  BY <1>5, <1>7 DEF RaceFree

LEMMA RaceFreeInit == Init => RaceFree
<1> SUFFICES ASSUME Init PROVE RaceFree
  OBVIOUS
<1>1. FreshReads
  BY DEF Init, FreshReads
<1>2. RaceFreeBooks
  BY TotalEmpty DEF Init, RaceFreeBooks, BooksOf, NoOrder, Live
<1> QED  BY <1>1, <1>2 DEF RaceFree

LEMMA RaceFreeNext == IInv /\ RaceFree /\ [Next]_vars => RaceFree'
<1> SUFFICES ASSUME IInv, RaceFree, [Next]_vars PROVE RaceFree'
  OBVIOUS
<1>1. CASE UNCHANGED vars
  BY <1>1 DEF vars, RaceFree, FreshReads, RaceFreeBooks, BooksOf
<1>2. CASE Receive
  BY <1>2 DEF Receive, RaceFree, FreshReads, RaceFreeBooks, BooksOf
<1>3. ASSUME NEW o \in Orders, Create(o) PROVE RaceFree'
  BY <1>3, CreateKeepsRaceFree
<1>4. ASSUME NEW c \in Clients, NEW o \in Orders,
             ReadForConfirm(c, o) \/ ReadForCancel(c, o) \/ ReadForApprove(c, o)
      PROVE  RaceFree'
  <2>1. PICK op \in {"confirm", "cancel", "approve"} :
           /\ Read(c, o, [op |-> op, order |-> o, seen |-> order[o]])
           /\ op = "confirm" => "CONFIRMED" \in Allowed(order[o].status)
           /\ op = "cancel" => "CANCELLED" \in Allowed(order[o].status)
    BY <1>4 DEF ReadForConfirm, ReadForCancel, ReadForApprove, MayConfirm, MayCancel
  <2>2. order[o] \in Record
    BY <2>1 DEF Read, IInv, TypeOK
  <2>3. [op |-> op, order |-> o, seen |-> order[o]] \in Request
    BY <2>2 DEF Request
  <2> QED  BY <2>1, <2>3, ReadKeepsRaceFree
<1>5. ASSUME NEW c \in Clients, NEW o \in Orders, ReadForCollect(c, o)
      PROVE  RaceFree'
  <2>1. PICK amount \in Amounts, posted \in BOOLEAN :
           /\ MayCollect(o, order[o], amount)
           /\ Read(c, o, [op |-> "collect", order |-> o, seen |-> order[o],
                          amount |-> amount, posted |-> posted])
    BY <1>5 DEF ReadForCollect
  <2>2. order[o] \in Record
    BY <2>1 DEF Read, IInv, TypeOK
  <2>3. [op |-> "collect", order |-> o, seen |-> order[o],
         amount |-> amount, posted |-> posted] \in Request
    BY <2>2, OrderAssumption DEF Request
  <2> QED  BY <2>1, <2>3, ReadKeepsRaceFree DEF MayCollect
<1>6. ASSUME NEW c \in Clients, InsufficientStock(c) \/ Abort(c)
      PROVE  RaceFree'
  BY <1>6, EndKeepsRaceFree DEF InsufficientStock, Abort
<1>7. ASSUME NEW c \in Clients, Confirm(c) \/ Cancel(c) \/ Collect(c) \/ Approve(c)
      PROVE  RaceFree'
  BY <1>7, ConfirmKeepsRaceFree, CancelKeepsRaceFree, CollectKeepsRaceFree, ApproveKeepsRaceFree
<1> QED  BY <1>1, <1>2, <1>3, <1>4, <1>5, <1>6, <1>7 DEF Next

(* An order no two handlers have met on has the boards, the amounts and the*)
(* status its collections and its confirmation say.                        *)
THEOREM BooksOfUnracedOrders == Spec => []RaceFreeBooks
<1>1. IInv /\ RaceFree /\ [Next]_vars => (IInv /\ RaceFree)'
  BY InvNext, RaceFreeNext
<1>2. Init => IInv /\ RaceFree
  BY InvInit, RaceFreeInit
<1>3. RaceFree => RaceFreeBooks
  BY DEF RaceFree
<1> QED  BY <1>1, <1>2, <1>3, PTL DEF Spec

(* A step writes the status of an order nobody raced on only along the     *)
(* state machine.                                                          *)
LEMMA StatusFollowsMachine ==
    ASSUME IInv, RaceFree, [Next]_vars, NEW o \in Orders, o \notin overlapped
    PROVE  Transition(order[o].status, order'[o].status)
<1>1. CASE order'[o] = order[o]
  BY <1>1 DEF Transition
<1>2. ASSUME NEW p \in Orders, Create(p) PROVE Transition(order[o].status, order'[o].status)
  <2>1. CASE p # o
    BY <1>1, <1>2, <2>1 DEF Create, IInv, TypeOK
  <2>2. CASE p = o
    <3>1. order[o].status = "NONE"
      BY <1>2, <2>2 DEF Create, NoOrder
    <3>2. order'[o].status \in {"DRAFT", "PENDING_PRICE_APPROVAL"}
      BY <1>2, <2>2 DEF Create, IInv, TypeOK
    <3> QED  BY <3>1, <3>2 DEF Transition
  <2> QED  BY <2>1, <2>2
<1>3. ASSUME NEW c \in Clients, Confirm(c) \/ Cancel(c) \/ Collect(c) \/ Approve(c)
      PROVE  Transition(order[o].status, order'[o].status)
  <2>1. tx[c] # Idle
    <3>1. tx[c].op \in {"confirm", "cancel", "collect", "approve"}
      <4>1. Confirm(c) => tx[c].op = "confirm"
        BY DEF Confirm
      <4>2. Cancel(c) => tx[c].op = "cancel"
        BY DEF Cancel
      <4>3. Collect(c) => tx[c].op = "collect"
        BY DEF Collect
      <4>4. Approve(c) => tx[c].op = "approve"
        BY DEF Approve
      <4> QED  BY <1>3, <4>1, <4>2, <4>3, <4>4
    <3> QED  BY <3>1 DEF Idle
  <2>2. CASE tx[c].order # o
    BY <1>1, <1>3, <2>2 DEF Confirm, Cancel, Collect, Approve, IInv, TypeOK
  <2>3. CASE tx[c].order = o
    <3>1. /\ tx[c].seen = order[o] /\ BooksOf(o)
          /\ order[o].collected \in Nat /\ order[o].collected <= Required[o]
          /\ Required[o] \in Nat \ {0} /\ order[o].status \in Statuses
      BY <2>1, <2>3, AloneWithOrder
    <3>2. order[o] \in Record
      BY <2>1, <2>3, RunningOrder
    <3>3. CASE Confirm(c)
      <4>1. "CONFIRMED" \in Allowed(order[o].status)
        BY <2>1, <2>3, <3>1, <3>3 DEF Confirm, RaceFree, FreshReads
      <4>2. order'[o].status \in Live
        BY <2>3, <3>1, <3>2, <3>3, ClassifyType DEF Confirm, IInv, TypeOK, Record
      <4>3. Live = {"CONFIRMED"} \cup (Allowed("CONFIRMED") \ {"CANCELLED"})
        BY DEF Live, Allowed
      <4> QED  BY <4>1, <4>2, <4>3 DEF Transition
    <3>4. CASE Cancel(c)
      <4>1. "CANCELLED" \in Allowed(order[o].status)
        BY <2>1, <2>3, <3>1, <3>4 DEF Cancel, RaceFree, FreshReads
      <4>2. order'[o].status = "CANCELLED"
        BY <2>3, <3>2, <3>4 DEF Cancel, IInv, TypeOK, Record
      <4> QED  BY <4>1, <4>2 DEF Transition
    <3>5. CASE Collect(c)
      <4> DEFINE total == order[o].collected + tx[c].amount
      <4>1. tx[c].amount \in Nat \ {0}
        <5>1. tx[c] \in [op : {"collect"}, order : Orders, seen : Record,
                         amount : Nat \ {0}, posted : BOOLEAN]
          BY <2>1, <3>5 DEF Collect, IInv, TypeOK, Request
        <5> QED  BY <5>1
      <4>2. total \in Nat \ {0}
        BY <3>1, <4>1
      <4>3. order'[o].status = StatusAfter(o, order[o], total)
        BY <2>3, <3>1, <3>2, <3>5 DEF Collect, IInv, TypeOK, Record
      <4> HIDE DEF total
      <4>4. \/ order'[o].status = order[o].status
            \/ /\ order[o].status \in {"CONFIRMED", "PARTIALLY_COLLECTED"}
               /\ order'[o].status \in {"PAID", "PARTIALLY_COLLECTED"}
        BY <3>1, <4>2, <4>3 DEF StatusAfter, ClassifyAfterCollection
      <4>5. /\ Allowed("CONFIRMED") = {"PARTIALLY_COLLECTED", "PAID", "CANCELLED"}
            /\ Allowed("PARTIALLY_COLLECTED") = {"PAID", "CANCELLED"}
        BY DEF Allowed
      <4> QED  BY <4>4, <4>5 DEF Transition
    <3>6. CASE Approve(c)
      <4>1. order'[o].status = order[o].status
        BY <2>3, <3>2, <3>6 DEF Approve, IInv, TypeOK, Record
      <4> QED  BY <4>1 DEF Transition
    <3> QED  BY <1>3, <3>3, <3>4, <3>5, <3>6
  <2> QED  BY <2>2, <2>3
<1>4. CASE order' = order
  BY <1>1, <1>4
<1> QED
  BY <1>2, <1>3, <1>4 DEF Next, vars, Receive, ReadForConfirm, ReadForCancel, ReadForCollect,
     ReadForApprove, Read, InsufficientStock, Abort

(* Such an order only makes the transitions of the state machine.          *)
THEOREM LifecycleOfUnracedOrders == Spec => RaceFreeLifecycle
<1>1. IInv /\ RaceFree /\ [Next]_vars => (IInv /\ RaceFree)'
  BY InvNext, RaceFreeNext
<1>2. Init => IInv /\ RaceFree
  BY InvInit, RaceFreeInit
<1>3. IInv /\ RaceFree /\ [Next]_vars =>
        [\A o \in Orders \ overlapped : Transition(order[o].status, order'[o].status)]_vars
  BY StatusFollowsMachine
<1> QED  BY <1>1, <1>2, <1>3, PTL DEF Spec, RaceFreeLifecycle

=============================================================================
