-------------------------------- MODULE Returns --------------------------------
(***************************************************************************)
(* What moves the average cost of a variant: purchase invoices, sales      *)
(* invoices, returns of either and returns without an invoice              *)
(* (modules/purchase-invoices, modules/returns; sales as far as they meet  *)
(* them).  One variant in one branch, a board to a metre; a document has   *)
(* one line unless two edits of it have met.                               *)
(*                                                                         *)
(* A handler reads its document and checks the status before it opens its  *)
(* transaction (Start).  Then, inside it, a return locks the invoice it    *)
(* returns, or itself if it has none, and looks again; whatever computes   *)
(* an average locks the variant and reads stock and average under that     *)
(* lock; the rest of the transaction is one step, the commit.              *)
(* Refusals the model has no state for (periods, accounts, time-outs) are  *)
(* the choice Abort.                                                       *)
(***************************************************************************)
EXTENDS Costing, Sequences, FiniteSets

CONSTANTS
    Handlers,        \* concurrent request handlers
    Purchases,       \* purchase invoice ids
    Sales,           \* sales invoice ids
    Returns,         \* ids of returns of all kinds
    NoOne,           \* owner of a free lock; the invoice of a legacy return
    Amounts,         \* boards and net amount a purchase line may have
    SaleBoards,      \* boards a sale may have
    LegacyBoards,    \* boards a return without an invoice may have
    Opening,         \* boards on hand at the start
    OpeningAvg,      \* and their average cost
    MaxRequests      \* bound: requests started in a behaviour

Invoices  == Purchases \cup Sales
Documents == Invoices \cup Returns

ASSUME DocumentAssumption ==
    /\ Purchases \cap Sales = {} /\ Invoices \cap Returns = {}
    /\ IsFiniteSet(Documents) /\ NoOne \notin Handlers \cup Documents
    /\ Amounts \subseteq [boards : Nat \ {0}, worth : Nat \ {0}]
    /\ SaleBoards \subseteq Nat \ {0} /\ LegacyBoards \subseteq Nat \ {0}
    /\ Opening \in Nat /\ OpeningAvg \in Nat /\ MaxRequests \in Nat

VARIABLES
    onHand,          \* the balance row
    avg,             \* avg_cost_per_meter of the variant
    doc,             \* invoices and returns with their lines
    original,        \* boards the RECEIPT or SALE movements of an invoice moved
    moved,           \* boards all movements of a document moved
    entry,           \* the journal entry under the key of each document
    lock,            \* holder of each invoice or return FOR UPDATE
    variantLock,     \* holder of the variant FOR UPDATE
    pc,              \* where each handler is
    job,             \* what it does, on what it read
    overlapped,      \* history: documents two handlers have worked on at once
    edited,          \* history: those of them that one of the two was editing
    started          \* requests started so far

stored == <<onHand, avg, doc, original, moved, entry>>
vars   == <<stored, lock, variantLock, pc, job, overlapped, edited, started>>

NoDocument == [status |-> "NONE", invoice |-> NoOne, lines |-> <<>>]
NotPosted  == [status |-> "NONE", amount |-> 0]
Idle       == [op |-> "idle"]

(* worth: the net amount of a purchase line, the cost a sales line was     *)
(* posted with, the value a return line moves; valued: it has such a cost. *)
Line(boards, worth, valued) == [boards |-> boards, worth |-> worth, valued |-> valued]

IsReturn(d)   == d \in Returns
IsLegacy(d)   == IsReturn(d) /\ doc[d].invoice = NoOne

(* Confirming adds to stock, or takes from it.                             *)
Direction(d) == IF d \in Sales \/ (IsReturn(d) /\ doc[d].invoice \in Purchases) THEN -1 ELSE 1

Init ==
    /\ onHand      = Opening
    /\ avg         = OpeningAvg
    /\ doc         = [d \in Documents |-> NoDocument]
    /\ original    = [d \in Invoices |-> 0]
    /\ moved       = [d \in Documents |-> 0]
    /\ entry       = [d \in Documents |-> NotPosted]
    /\ lock        = [d \in Documents |-> NoOne]
    /\ variantLock = NoOne
    /\ pc          = [c \in Handlers |-> "idle"]
    /\ job         = [c \in Handlers |-> Idle]
    /\ overlapped  = {}
    /\ edited      = {}
    /\ started     = 0

-----------------------------------------------------------------------------
(* What has been returned of an invoice: the lines of its CONFIRMED        *)
(* returns.                                                                *)

ReturnsOf(i) == {r \in Returns : doc[r].invoice = i}
Confirmed(i) == {r \in ReturnsOf(i) : doc[r].status = "CONFIRMED"}

Already(i) == [boards |-> SumFunctionOnSet([r \in Returns |-> Boards(doc[r].lines)], Confirmed(i)),
               worth  |-> SumFunctionOnSet([r \in Returns |-> Worth(doc[r].lines)], Confirmed(i))]

Returnable(i, boards) ==
    /\ doc[i].status = "CONFIRMED"
    /\ Already(i).boards + boards <= doc[i].lines[1].boards

ReturnLine(i, boards) == Line(boards, Allocated(doc[i].lines[1], Already(i), boards), TRUE)

(* Lines a draft return may be given.                                      *)
DraftLines(i) ==
    IF i = NoOne THEN {<<Line(b, 0, FALSE)>> : b \in LegacyBoards}
    ELSE {<<ReturnLine(i, b)>> : b \in {n \in 1 .. doc[i].lines[1].boards : Returnable(i, n)}}

-----------------------------------------------------------------------------
(* Drafts.                                                                 *)

Created(d, invoice, lines) ==
    /\ doc[d].status = "NONE"
    /\ doc' = [doc EXCEPT ![d] = [status |-> "DRAFT", invoice |-> invoice, lines |-> lines]]
    /\ UNCHANGED <<onHand, avg, original, moved, entry, lock, variantLock, pc, job, overlapped,
                   edited, started>>

CreatePurchase(d) == \E a \in Amounts : Created(d, NoOne, <<Line(a.boards, a.worth, TRUE)>>)
CreateSale(d)     == \E b \in SaleBoards : Created(d, NoOne, <<Line(b, 0, TRUE)>>)

CreateReturn(d) ==
    \E i \in {j \in Invoices : doc[j].status = "CONFIRMED"} \cup {NoOne} :
        \E lines \in DraftLines(i) : Created(d, i, lines)

-----------------------------------------------------------------------------
(* The read before the transaction.                                        *)

Start(c, d, where, request) ==
    /\ pc[c] = "idle"
    /\ started < MaxRequests
    /\ started' = started + 1
    /\ pc'  = [pc EXCEPT ![c] = where]
    /\ job' = [job EXCEPT ![c] = request]
    /\ LET others == {b \in Handlers \ {c} : pc[b] # "idle" /\ job[b].doc = d}
           editors == {b \in others : "update" \in {job[b].op, request.op}}
       IN  /\ overlapped' = overlapped \cup {job[b].doc : b \in others}
           /\ edited'     = edited \cup {job[b].doc : b \in editors}
    /\ UNCHANGED <<stored, lock, variantLock>>

(* lines: what the handler will write or move; there: the lines its DELETE *)
(* will see at least; ticks, boards: average and stock as they were read.  *)
Job(op, d, lines) ==
    [op |-> op, doc |-> d, seen |-> doc[d].status, lines |-> lines, there |-> doc[d].lines,
     ticks |-> avg, boards |-> onHand]

(* Two sets of lines on one document are two of the same original line,    *)
(* which a return refuses.                                                 *)
StartConfirm(c, d) ==
    /\ doc[d].status = "DRAFT"
    /\ IsReturn(d) /\ ~IsLegacy(d) => Len(doc[d].lines) = 1
    /\ Start(c, d, IF IsReturn(d) THEN "lock" ELSE IF d \in Purchases THEN "cost" ELSE "commit",
             Job("confirm", d, doc[d].lines))

StartCancel(c, d) ==
    /\ doc[d].status \in IF IsReturn(d) THEN {"CONFIRMED"} ELSE {"DRAFT", "CONFIRMED"}
    /\ Start(c, d, IF IsLegacy(d) THEN "lock" ELSE IF IsReturn(d) THEN "cost" ELSE "commit",
             Job("cancel", d, doc[d].lines))

StartUpdate(c, r) ==
    /\ doc[r].status = "DRAFT"
    /\ \E lines \in DraftLines(doc[r].invoice) : Start(c, r, "write", Job("update", r, lines))

StartRemove(c, i) ==
    /\ doc[i].status = "DRAFT"
    /\ Start(c, i, "write", Job("remove", i, doc[i].lines))

-----------------------------------------------------------------------------

Goto(c, where) == pc' = [pc EXCEPT ![c] = where]

End(c) ==
    /\ lock' = [d \in Documents |-> IF lock[d] = c THEN NoOne ELSE lock[d]]
    /\ variantLock' = IF variantLock = c THEN NoOne ELSE variantLock
    /\ pc'  = [pc EXCEPT ![c] = "idle"]
    /\ job' = [job EXCEPT ![c] = Idle]
    /\ UNCHANGED <<overlapped, edited, started>>

Rollback(c) == End(c) /\ UNCHANGED stored

Free(c, d) == lock[d] \in {c, NoOne}

(* Slip: the invoice is not locked, the returns of it do not wait.         *)
LockedItself(c) == job[c].doc

LockedBy(c) == IF IsLegacy(job[c].doc) THEN job[c].doc ELSE doc[job[c].doc].invoice

(* FOR UPDATE on the original invoice, then buildLines again: the lines    *)
(* that were read against what other returns have taken by now.  A legacy  *)
(* return looks at itself again, and has nothing to do if another handler  *)
(* was faster.                                                             *)
LockInvoice(c) ==
    LET d == job[c].doc
        i == doc[d].invoice
        b == job[c].lines[1].boards
    IN  /\ pc[c] = "lock" /\ ~IsLegacy(d)
        /\ Free(c, LockedBy(c))
        /\ IF Returnable(i, b)
           THEN /\ lock' = [lock EXCEPT ![LockedBy(c)] = c]
                /\ job'  = [job EXCEPT ![c].lines = <<ReturnLine(i, b)>>, ![c].there = doc[d].lines]
                /\ Goto(c, "cost")
                /\ UNCHANGED <<stored, variantLock, overlapped, edited, started>>
           ELSE Rollback(c)

(* Slip: the status that was read before the transaction is good enough.   *)
AsReadAnyway(c) == TRUE

AsRead(c) == doc[job[c].doc].status = job[c].seen

LockLegacy(c) ==
    LET d == job[c].doc
    IN  /\ pc[c] = "lock" /\ IsLegacy(d)
        /\ Free(c, d)
        /\ IF AsRead(c)
           THEN /\ lock' = [lock EXCEPT ![LockedBy(c)] = c]
                /\ job'  = [job EXCEPT ![c].lines = doc[d].lines, ![c].there = doc[d].lines]
                /\ Goto(c, "cost")
                /\ UNCHANGED <<stored, variantLock, overlapped, edited, started>>
           ELSE Rollback(c)

(* The cost policy of returns without an invoice: today's average, or no   *)
(* cost at all.                                                            *)
AtCurrentCost(lines, ticks) ==
    [k \in DOMAIN lines |-> Line(lines[k].boards, Cents(lines[k].boards, ticks), ticks > 0)]

(* Slip: stock and average are read without FOR UPDATE.                    *)
VariantFreeAnyway(c) == TRUE

VariantFree(c) == variantLock \in {c, NoOne}

(* The costing lock, and what is read under it.                            *)
LockVariant(c) ==
    /\ pc[c] = "cost"
    /\ VariantFree(c)
    /\ variantLock' = c
    /\ job' = [job EXCEPT ![c].ticks = avg, ![c].boards = onHand,
                          ![c].lines = IF IsLegacy(job[c].doc) /\ job[c].op = "confirm"
                                       THEN AtCurrentCost(@, avg) ELSE @]
    /\ Goto(c, "commit")
    /\ UNCHANGED <<stored, lock, overlapped, edited, started>>

-----------------------------------------------------------------------------
(* Commits.                                                                *)

(* Slip: the engine lets stock go negative.                                *)
AvailableAnyway(boards) == TRUE

(* The engine's own check.                                                 *)
Available(boards) == onHand + boards >= 0

Move(d, boards) ==
    /\ Available(boards)
    /\ onHand' = onHand + boards
    /\ moved'  = [moved EXCEPT ![d] = @ + boards]

Average(c, boards, worth) == avg' = AverageAfter(job[c].boards, job[c].ticks, boards, worth)

(* post: once per key, and nothing if there is no amount.                  *)
Post(d, amount) ==
    entry' = IF entry[d] = NotPosted /\ amount # 0
             THEN [entry EXCEPT ![d] = [status |-> "POSTED", amount |-> amount]] ELSE entry

(* reverse: the mirrored entry, once.                                      *)
Reverse(d) ==
    entry' = IF entry[d].status = "POSTED" THEN [entry EXCEPT ![d].status = "REVERSED"] ELSE entry

(* The lines d has after a DELETE and an INSERT.  Lines another handler    *)
(* wrote since may stay: the DELETE did not see them when it began.        *)
Rewritten(c, d, lines) ==
    {lines} \cup IF doc[d].lines # job[c].there THEN {doc[d].lines \o lines} ELSE {}

(* A purchase, and the weighted average it leads to.                       *)
ConfirmPurchase(c) ==
    LET d == job[c].doc
        l == job[c].lines[1]
    IN  /\ pc[c] = "commit" /\ d \in Purchases /\ job[c].op = "confirm"
        /\ Free(c, d) /\ doc[d].status # "DELETED"
        /\ Move(d, l.boards)
        /\ original' = [original EXCEPT ![d] = @ + l.boards]
        /\ Average(c, l.boards, l.worth)
        /\ Post(d, l.worth)
        /\ doc' = [doc EXCEPT ![d].status = "CONFIRMED"]
        /\ End(c)

(* A sale is posted at the average that was read before its transaction.   *)
ConfirmSale(c) ==
    LET d    == job[c].doc
        b    == job[c].lines[1].boards
        cogs == Cents(b, job[c].ticks)
    IN  /\ pc[c] = "commit" /\ d \in Sales /\ job[c].op = "confirm"
        /\ Free(c, d) /\ VariantFree(c) /\ doc[d].status # "DELETED"
        /\ Move(d, -b)
        /\ original' = [original EXCEPT ![d] = @ - b]
        /\ Post(d, -cogs)
        /\ doc' = [doc EXCEPT ![d].status = "CONFIRMED", ![d].lines = <<Line(b, cogs, TRUE)>>]
        /\ UNCHANGED avg
        /\ End(c)

(* Every RECEIPT or SALE movement is compensated, returns or not; the      *)
(* average stays.  A sale's second cancellation finds its statement row    *)
(* gone, which the status stands for here: stronger than the code for a    *)
(* sale that two handlers have confirmed, which has a row of each and can  *)
(* be cancelled twice (SalesInvoices has the rows).                        *)
CancelInvoice(c) ==
    LET d == job[c].doc
    IN  /\ pc[c] = "commit" /\ d \in Invoices /\ job[c].op = "cancel"
        /\ Free(c, d) /\ VariantFree(c) /\ doc[d].status # "DELETED"
        /\ IF job[c].seen = "CONFIRMED"
           THEN /\ d \in Sales => doc[d].status = "CONFIRMED"
                /\ Move(d, -original[d])
                /\ Reverse(d)
           ELSE UNCHANGED <<onHand, moved, entry>>
        /\ doc' = [doc EXCEPT ![d].status = "CANCELLED"]
        /\ UNCHANGED <<avg, original>>
        /\ End(c)

(* Whether the lines of a document have a cost; a mixture is refused.      *)
CostBasis(lines) == {lines[k].valued : k \in DOMAIN lines}

(* ReturnStockService.apply, applyPurchaseReturnToStock: boards and value  *)
(* move together; boards without a cost leave the average alone.           *)
ApplyToStock(c, sign) ==
    LET d      == job[c].doc
        boards == sign * Boards(job[c].lines)
        worth  == sign * Worth(job[c].lines)
    IN  /\ Move(d, boards)
        /\ \/ /\ CostBasis(job[c].lines) = {TRUE}
              /\ Sufficient(job[c].boards, job[c].ticks, boards, worth)
              /\ Average(c, boards, worth)
           \/ /\ CostBasis(job[c].lines) = {FALSE}
              /\ UNCHANGED avg

ConfirmReturn(c) ==
    LET d == job[c].doc
    IN  /\ pc[c] = "commit" /\ IsReturn(d) /\ job[c].op = "confirm"
        /\ ApplyToStock(c, Direction(d))
        /\ Post(d, Direction(d) * Worth(job[c].lines))
        /\ \E lines \in IF IsLegacy(d) THEN {job[c].lines} ELSE Rewritten(c, d, job[c].lines) :
             doc' = [doc EXCEPT ![d].status = "CONFIRMED", ![d].lines = lines]
        /\ UNCHANGED original
        /\ End(c)

CancelReturn(c) ==
    LET d == job[c].doc
    IN  /\ pc[c] = "commit" /\ IsReturn(d) /\ job[c].op = "cancel"
        /\ ApplyToStock(c, -Direction(d))
        /\ Reverse(d)
        /\ doc' = [doc EXCEPT ![d].status = "CANCELLED"]
        /\ UNCHANGED original
        /\ End(c)

(* New lines for a return, whatever has become of it.                      *)
UpdateReturn(c) ==
    LET r == job[c].doc
    IN  /\ pc[c] = "write" /\ job[c].op = "update"
        /\ Free(c, r)
        /\ \E lines \in Rewritten(c, r, job[c].lines) : doc' = [doc EXCEPT ![r].lines = lines]
        /\ UNCHANGED <<onHand, avg, original, moved, entry>>
        /\ End(c)

(* An invoice a return refers to cannot be deleted.                        *)
RemoveInvoice(c) ==
    LET i == job[c].doc
    IN  /\ pc[c] = "write" /\ job[c].op = "remove"
        /\ Free(c, i) /\ ReturnsOf(i) = {} /\ doc[i].status # "DELETED"
        /\ doc' = [doc EXCEPT ![i].status = "DELETED"]
        /\ UNCHANGED <<onHand, avg, original, moved, entry>>
        /\ End(c)

(* Short stock or value, a document deleted meanwhile, a closed period.    *)
Abort(c) == pc[c] # "idle" /\ Rollback(c)

Next ==
    \/ \E d \in Purchases : CreatePurchase(d)
    \/ \E d \in Sales : CreateSale(d)
    \/ \E d \in Returns : CreateReturn(d)
    \/ \E c \in Handlers :
         \/ \E d \in Documents : StartConfirm(c, d) \/ StartCancel(c, d)
         \/ \E r \in Returns : StartUpdate(c, r)
         \/ \E i \in Invoices : StartRemove(c, i)
         \/ LockInvoice(c) \/ LockLegacy(c) \/ LockVariant(c)
         \/ ConfirmPurchase(c) \/ ConfirmSale(c) \/ CancelInvoice(c)
         \/ ConfirmReturn(c) \/ CancelReturn(c) \/ UpdateReturn(c) \/ RemoveInvoice(c)
         \/ Abort(c)

Spec == Init /\ [][Next]_vars

-----------------------------------------------------------------------------
(* Correctness.                                                            *)

ALine    == [boards : Nat, worth : Int, valued : BOOLEAN]
Document == [status : {"NONE", "DRAFT", "CONFIRMED", "CANCELLED", "DELETED"},
             invoice : Invoices \cup {NoOne}, lines : Seq(ALine)]

(* Every variable has its type; above all, stock and the average cost the  *)
(* handlers of purchases and returns write never become negative.          *)
TypeOK ==
    /\ onHand \in Nat /\ avg \in Nat
    /\ doc \in [Documents -> Document]
    /\ original \in [Invoices -> Int] /\ moved \in [Documents -> Int]
    /\ entry \in [Documents -> [status : {"NONE", "POSTED", "REVERSED"}, amount : Int]]
    /\ lock \in [Documents -> Handlers \cup {NoOne}]
    /\ variantLock \in Handlers \cup {NoOne}
    /\ overlapped \subseteq Documents /\ edited \subseteq overlapped /\ started \in Nat
    /\ \A c \in Handlers :
         \/ pc[c] = "idle" /\ job[c] = Idle
         \/ /\ pc[c] \in {"lock", "cost", "commit", "write"}
            /\ job[c].op \in {"confirm", "cancel", "update", "remove"}
            /\ job[c].doc \in Documents
            /\ job[c].lines \in Seq(ALine)

(* Documents no two handlers have worked on at once.                       *)
Unraced(D) == D \cap overlapped = {}

(* However many returns of one invoice are confirmed next to each other,   *)
(* together they never take back more than it has ("neither can            *)
(* double-spend the remaining quantity", sales-returns.service.ts:345).    *)
ReturnedWithinInvoice ==
    \A i \in Invoices : Confirmed(i) # {} /\ Unraced(ReturnsOf(i)) =>
        Already(i).boards <= doc[i].lines[1].boards

(* When an invoice has been returned in full, in parts of any size and     *)
(* with cancellations between them, the parts are worth exactly what the   *)
(* invoice is: no cent is lost to rounding (return-allocation.ts).         *)
FullReturnReconciles ==
    \A i \in Invoices : Confirmed(i) # {} /\ Unraced({i} \cup ReturnsOf(i)) =>
        (Already(i).boards = doc[i].lines[1].boards => Already(i).worth = doc[i].lines[1].worth)

(* A return without an invoice reads itself again under its lock: it       *)
(* behaves like a document nobody raced for unless one of the handlers     *)
(* edits it.                                                               *)
Quiet(d) == d \notin IF IsLegacy(d) THEN edited ELSE overlapped

(* Such a document has moved exactly the boards its status says, and its   *)
(* entry stands exactly while it is confirmed: "a second click finds it    *)
(* already CONFIRMED and returns that, rather than posting twice"          *)
(* (legacy-returns.service.ts:308).                                        *)
EffectsOf(d) ==
    LET confirmed == doc[d].status = "CONFIRMED"
    IN  /\ moved[d] = IF confirmed THEN Direction(d) * Boards(doc[d].lines) ELSE 0
        /\ entry[d].status = "POSTED" => confirmed
        /\ confirmed => entry[d].status # "REVERSED"
        /\ confirmed /\ entry[d] # NotPosted => entry[d].amount = Direction(d) * Worth(doc[d].lines)

EffectsFollowStatus == \A d \in Documents : Quiet(d) => EffectsOf(d)

(* The inventory account of the general ledger.                            *)
Booked(e) == IF e.status = "POSTED" THEN e.amount ELSE 0

Ledger == SumFunction([d \in Documents |-> Booked(entry[d])])

(* The handlers that are about to commit what they computed of the average.*)
Costed(c) ==
    /\ pc[c] = "commit"
    /\ IsReturn(job[c].doc) \/ (job[c].doc \in Purchases /\ job[c].op = "confirm")

Within(n, bound) == -bound <= n /\ n <= bound

(* A purchase or a return changes the inventory account by what it changes *)
(* the value of stock by, up to half a tick a board, next to any other     *)
(* document ("so the GL inventory value and the operational WAC never      *)
(* diverge", sales-returns.service.ts:197), as long as boards are left and *)
(* the goods have a cost.                                                  *)
FollowsLedger(c) ==
    Costed(c) /\ Quiet(job[c].doc) /\ onHand' # onHand /\ onHand' > 0 /\ job[c].lines[1].valued =>
      Within(2 * (Scale * (Ledger' - Ledger) - (onHand' * avg' - onHand * avg)), onHand')

(* A return without an invoice does not move the average, but for the      *)
(* rounding of its value to cents, and not at all if it has no cost,       *)
(* neither when it comes nor when it goes ("goods coming in at the current *)
(* average cannot move it", return-stock.service.ts:67).                   *)
KeptByLegacy(c) ==
    Costed(c) /\ IsLegacy(job[c].doc) /\ Quiet(job[c].doc) /\ onHand' # onHand =>
      IF ~job[c].lines[1].valued THEN avg' = avg
      ELSE job[c].op = "confirm" => Within(2 * onHand' * (avg' - avg), Scale + onHand')

(* Both hold of every commit that computed an average, however the reading *)
(* of the average and the commit of others were interleaved.               *)
AverageFollowsGoods == [][\A c \in Handlers : FollowsLedger(c) /\ KeptByLegacy(c)]_vars

=============================================================================
