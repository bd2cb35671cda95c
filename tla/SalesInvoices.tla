---------------------------- MODULE SalesInvoices ----------------------------
(***************************************************************************)
(* Sales invoices: drafts, editing, confirmation, cancellation, deletion   *)
(* (modules/sales-invoices), with what a confirmation leaves in the other  *)
(* parts of the system: a row of the customer's legacy statement, a        *)
(* revenue entry and a cost entry in the journal, SALE movements of stock. *)
(*                                                                         *)
(* Every handler reads the invoice and checks its status BEFORE it opens   *)
(* its transaction, and never again: a handler is a Read and a commit.     *)
(* Transactions that touch one invoice are serialized by its row, which    *)
(* all of them update, so each commit is one step; what a statement sees   *)
(* before it waits for that row is a choice of the step (UpdateLines).     *)
(* Two confirmations that both miss the idempotency key collide on its     *)
(* unique index: one of them aborts.  All invoices sell boards of one      *)
(* balance row.                                                            *)
(*                                                                         *)
(* These are the requests of SalesInvoicesController.  A sales revision    *)
(* (sales-invoice-revision.service.ts) also writes these rows: it replaces *)
(* the lines and the totals of a CONFIRMED invoice (1117-1155, 1291-1318), *)
(* under its row lock.  Revisions are the subject of InvoiceRevisions and  *)
(* are not steps here: every property of this module is one of invoices    *)
(* that were never revised.                                                *)
(***************************************************************************)
EXTENDS Integers, FiniteSets

CONSTANTS
    Clients,         \* concurrent request handlers
    Invoices,        \* invoice ids
    Quantities,      \* boards a draft may sell, at one pound a board
    Rates,           \* tax rates, as pounds of tax per pound
    Costs,           \* average costs per metre purchases may lead to
    MaxStock,        \* bound: boards on hand after a purchase
    MaxRequests      \* bound: requests started in a behaviour

ASSUME InvoiceAssumption ==
    /\ Quantities \subseteq Nat \ {0}
    /\ Rates \subseteq Nat /\ 0 \in Rates
    /\ Costs \subseteq Nat /\ 0 \in Costs
    /\ MaxStock \in Nat /\ MaxRequests \in Nat

VARIABLES
    invoice,         \* sales_invoices with their lines
    statement,       \* customer_transactions of each invoice
    entry,           \* journal entries under the two keys of each invoice
    sold, restored,  \* boards moved out by SALE and back by ADJUSTMENT
    balance, cost,   \* boards on hand and average cost of the variant
    tx,              \* what each handler is doing, on what it read
    confirms,        \* history: confirmations committed for each invoice
    restocks,        \* history: cancellations that gave its boards back
    overlapped,      \* history: invoices two handlers have worked on at once
    started          \* requests started so far

effects == <<statement, entry, sold, restored, balance, confirms, restocks>>
vars    == <<invoice, effects, cost, tx, overlapped, started>>

Statuses == {"NONE", "DRAFT", "CONFIRMED", "CANCELLED", "DELETED"}

(* lines: the sets of lines an invoice has, named by the edit that wrote   *)
(* them; boards: what they sell together.                                  *)
NoInvoice == [status |-> "NONE", boards |-> 0, lines |-> {}, edits |-> 0, subtotal |-> 0,
              rate |-> 0, total |-> 0, customerTx |-> 0, totalCost |-> 0,
              cogsEntry |-> FALSE]
NotPosted == [status |-> "NONE", amount |-> 0]
Idle      == [op |-> "idle"]

(* Rows that exist; a deleted invoice takes its lines with it.             *)
Exists(i) == invoice[i].status \notin {"NONE", "DELETED"}

Total(subtotal, rate) == subtotal + subtotal * rate

-----------------------------------------------------------------------------

Init ==
    /\ invoice    = [i \in Invoices |-> NoInvoice]
    /\ statement  = [i \in Invoices |-> {}]
    /\ entry      = [i \in Invoices |-> [revenue |-> NotPosted, cogs |-> NotPosted]]
    /\ sold       = [i \in Invoices |-> 0]
    /\ restored   = [i \in Invoices |-> 0]
    /\ balance    = 0
    /\ cost       = 0
    /\ tx         = [c \in Clients |-> Idle]
    /\ confirms   = [i \in Invoices |-> 0]
    /\ restocks   = [i \in Invoices |-> 0]
    /\ overlapped = {}
    /\ started    = 0

(* A purchase brings a board and moves the average cost.                   *)
Purchase ==
    /\ balance < MaxStock
    /\ balance' = balance + 1
    /\ cost' \in Costs
    /\ UNCHANGED <<invoice, statement, entry, sold, restored, tx, confirms, restocks,
                   overlapped, started>>

Create(i) ==
    /\ invoice[i] = NoInvoice
    /\ started < MaxRequests
    /\ started' = started + 1
    /\ \E q \in Quantities, r \in Rates :
         invoice' = [invoice EXCEPT ![i] =
           [status |-> "DRAFT", boards |-> q, lines |-> {0}, edits |-> 0, subtotal |-> q,
            rate |-> r, total |-> Total(q, r), customerTx |-> 0, totalCost |-> 0,
            cogsEntry |-> FALSE]]
    /\ UNCHANGED <<effects, cost, tx, overlapped>>

(* The read of every handler, outside its transaction, with the costs a    *)
(* confirmation will post.                                                 *)
Read(c, i, request) ==
    /\ tx[c] = Idle
    /\ started < MaxRequests
    /\ started' = started + 1
    /\ tx' = [tx EXCEPT ![c] = request]
    /\ overlapped' = IF \E d \in Clients \ {c} : tx[d] # Idle /\ tx[d].invoice = i
                     THEN overlapped \cup {i} ELSE overlapped
    /\ UNCHANGED <<invoice, effects, cost>>

Request(op, i) == [op |-> op, invoice |-> i, seen |-> invoice[i], cost |-> cost]

(* Slip: a confirmed invoice is edited too.                                *)
MayEditAny(seen) == seen.status \in {"DRAFT", "CONFIRMED"}
MayEdit(seen)    == seen.status = "DRAFT"

MayCancel(seen) == seen.status \in {"DRAFT", "CONFIRMED"}

ReadForUpdate(c, i)  == MayEdit(invoice[i]) /\ Read(c, i, Request("update", i))
ReadForConfirm(c, i) == invoice[i].status = "DRAFT" /\ Read(c, i, Request("confirm", i))
ReadForCancel(c, i)  == MayCancel(invoice[i]) /\ Read(c, i, Request("cancel", i))
ReadForDelete(c, i)  == invoice[i].status = "DRAFT" /\ Read(c, i, Request("delete", i))

Done(c) == tx' = [tx EXCEPT ![c] = Idle] /\ UNCHANGED <<cost, overlapped, started>>

Rollback(c) == Done(c) /\ UNCHANGED <<invoice, effects>>

-----------------------------------------------------------------------------
(* Editing.  New lines replace the old ones and give the subtotal; without *)
(* them every amount is written back as it was read, a new rate excepted.  *)
(* The cost a draft's lines claim is zero here; it is never posted.        *)

(* Slip: the tax of new lines is still computed on the old subtotal.       *)
OldTotal(seen, boards, rate) == boards + seen.subtotal * rate
NewTotal(seen, boards, rate) == Total(boards, rate)

(* Lines that others wrote after this handler read the invoice may escape  *)
(* its deletion, when its DELETE began before they were committed.  How    *)
(* many boards each set of lines sells is not recorded: a proper part of   *)
(* the sets sells any proper part of the boards.                           *)
Escape(c, kept, boards) ==
    LET row == invoice[tx[c].invoice]
    IN  /\ kept \subseteq row.lines \ tx[c].seen.lines
        /\ kept = {} <=> boards = 0
        /\ kept = row.lines <=> boards = row.boards

UpdateLines(c) ==
    LET i    == tx[c].invoice
        seen == tx[c].seen
    IN  /\ tx[c].op = "update"
        /\ Exists(i)
        /\ \E q \in Quantities, r \in Rates \cup {seen.rate},
              kept \in SUBSET invoice[i].lines, n \in 0..invoice[i].boards :
             /\ Escape(c, kept, n)
             /\ invoice' = [invoice EXCEPT ![i].boards = q + n,
                                        ![i].lines = kept \cup {invoice[i].edits + 1},
                                        ![i].edits = @ + 1, ![i].subtotal = q, ![i].rate = r,
                                        ![i].total = NewTotal(seen, q, r),
                                        ![i].totalCost = 0]
        /\ Done(c)
        /\ UNCHANGED effects

UpdateHeader(c) ==
    LET i    == tx[c].invoice
        seen == tx[c].seen
    IN  /\ tx[c].op = "update"
        /\ Exists(i)
        /\ \E r \in Rates \cup {seen.rate} :
             invoice' = [invoice EXCEPT ![i].subtotal = seen.subtotal, ![i].rate = r,
                                        ![i].total = Total(seen.subtotal, r),
                                        ![i].totalCost = seen.totalCost]
        /\ Done(c)
        /\ UNCHANGED effects

-----------------------------------------------------------------------------
(* Confirmation.                                                           *)

(* PostingEngine.post: a key that is taken posts nothing.                  *)
Post(old, amount) ==
    IF old = NotPosted THEN [status |-> "POSTED", amount |-> amount] ELSE old

Cogs(c) == tx[c].seen.boards * tx[c].cost

(* Slip: a board that is not on hand is sold.                              *)
ConfirmableAnyway(c) ==
    /\ Exists(tx[c].invoice)
    /\ tx[c].seen.lines \subseteq invoice[tx[c].invoice].lines

(* The lines that were read must still be there to be stamped with their   *)
(* cost, and their boards must be on hand.                                 *)
Confirmable(c) ==
    /\ Exists(tx[c].invoice)
    /\ tx[c].seen.lines \subseteq invoice[tx[c].invoice].lines
    /\ balance >= tx[c].seen.boards

Confirm(c) ==
    LET i    == tx[c].invoice
        seen == tx[c].seen
        id   == confirms[i] + 1
    IN  /\ tx[c].op = "confirm"
        /\ Confirmable(c)
        /\ statement' = [statement EXCEPT ![i] = @ \cup {[id |-> id, amount |-> seen.total]}]
        /\ entry' = [entry EXCEPT
                       ![i].revenue = Post(@, seen.total),
                       ![i].cogs = IF Cogs(c) > 0 THEN Post(@, Cogs(c)) ELSE @]
        /\ balance' = balance - seen.boards
        /\ sold'    = [sold EXCEPT ![i] = @ + seen.boards]
        /\ invoice' = [invoice EXCEPT ![i].status = "CONFIRMED", ![i].customerTx = id,
                                      ![i].totalCost = Cogs(c), ![i].cogsEntry = Cogs(c) > 0]
        /\ confirms' = [confirms EXCEPT ![i] = id]
        /\ Done(c)
        /\ UNCHANGED <<restored, restocks>>

RefuseConfirm(c) == tx[c].op = "confirm" /\ ~Confirmable(c) /\ Rollback(c)

-----------------------------------------------------------------------------
(* Cancellation and deletion.                                              *)

(* Slip: the cost entry is left standing.                                  *)
ReverseRevenueOnly(e, withCogs) == [e EXCEPT !.revenue.status = "REVERSED"]

(* ReversalService.reverse on the linked entries; a repeat is a no-op.     *)
Reversed(e, withCogs) ==
    [e EXCEPT !.revenue.status = "REVERSED",
              !.cogs.status = IF withCogs THEN "REVERSED" ELSE @]

(* Slip: deleteMany, which does not mind that the row is gone.             *)
StatementRowThereOrNot(i, id) == TRUE

(* customerTransaction.delete fails when its row is gone.                  *)
StatementRowThere(i, id) == \E row \in statement[i] : row.id = id

CancelDraft(c) ==
    /\ tx[c].op = "cancel"
    /\ tx[c].seen.status # "CONFIRMED"
    /\ Exists(tx[c].invoice)
    /\ invoice' = [invoice EXCEPT ![tx[c].invoice].status = "CANCELLED",
                                  ![tx[c].invoice].customerTx = 0]
    /\ Done(c)
    /\ UNCHANGED effects

(* Every SALE movement of the invoice is compensated.                      *)
CancelConfirmed(c) ==
    LET i    == tx[c].invoice
        seen == tx[c].seen
    IN  /\ tx[c].op = "cancel"
        /\ seen.status = "CONFIRMED"
        /\ Exists(i)
        /\ StatementRowThere(i, seen.customerTx)
        /\ invoice'   = [invoice EXCEPT ![i].status = "CANCELLED", ![i].customerTx = 0]
        /\ entry'     = [entry EXCEPT ![i] = Reversed(@, seen.cogsEntry)]
        /\ statement' = [statement EXCEPT ![i] = {row \in @ : row.id # seen.customerTx}]
        /\ balance'   = balance + sold[i]
        /\ restored'  = [restored EXCEPT ![i] = @ + sold[i]]
        /\ restocks'  = [restocks EXCEPT ![i] = @ + 1]
        /\ Done(c)
        /\ UNCHANGED <<sold, confirms>>

Delete(c) ==
    /\ tx[c].op = "delete"
    /\ Exists(tx[c].invoice)
    /\ invoice' = [invoice EXCEPT ![tx[c].invoice].status = "DELETED"]
    /\ Done(c)
    /\ UNCHANGED effects

(* The row is gone, or the statement row is: Prisma throws.  A transaction *)
(* may also time out, lose its connection or collide on a key.             *)
Abort(c) == tx[c] # Idle /\ Rollback(c)

Next ==
    \/ Purchase
    \/ \E i \in Invoices : Create(i)
    \/ \E c \in Clients, i \in Invoices :
         \/ ReadForUpdate(c, i) \/ ReadForConfirm(c, i)
         \/ ReadForCancel(c, i) \/ ReadForDelete(c, i)
    \/ \E c \in Clients :
         \/ UpdateLines(c) \/ UpdateHeader(c) \/ Confirm(c) \/ RefuseConfirm(c)
         \/ CancelDraft(c) \/ CancelConfirmed(c) \/ Delete(c) \/ Abort(c)

Spec == Init /\ [][Next]_vars

-----------------------------------------------------------------------------
(* Correctness.                                                            *)

Record == [status : Statuses, boards : Nat, lines : SUBSET Nat, edits : Nat, subtotal : Nat,
           rate : Nat, total : Nat, customerTx : Nat, totalCost : Nat, cogsEntry : BOOLEAN]
EntryRecord == [status : {"NONE", "POSTED", "REVERSED"}, amount : Nat]

(* Every variable has its type; boards on hand are never negative.         *)
TypeOK ==
    /\ invoice \in [Invoices -> Record]
    /\ statement \in [Invoices -> SUBSET [id : Nat, amount : Nat]]
    /\ entry \in [Invoices -> [revenue : EntryRecord, cogs : EntryRecord]]
    /\ sold \in [Invoices -> Nat] /\ restored \in [Invoices -> Nat]
    /\ balance \in Nat /\ cost \in Nat
    /\ tx \in [Clients -> {Idle} \cup
                 [op : {"update", "confirm", "cancel", "delete"}, invoice : Invoices,
                  seen : Record, cost : Nat]]
    /\ confirms \in [Invoices -> Nat] /\ restocks \in [Invoices -> Nat]
    /\ overlapped \subseteq Invoices
    /\ started \in 0..MaxRequests

(* Whatever handlers race, cancellations that gave boards back and rows of  *)
(* the customer's statement together count the confirmations: a cancelled  *)
(* confirmation leaves no row, any other leaves one.  No status guard      *)
(* ensures it: the row, which can be deleted once, does.  The boards of an *)
(* invoice confirmed at most once then come back at most once.  (Of one    *)
(* that two handlers confirmed, each of two cancellations gives back the   *)
(* boards of both confirmations.)                                          *)
CancelledOncePerConfirmation ==
    \A i \in Invoices :
        /\ restocks[i] + Cardinality(statement[i]) = confirms[i]
        /\ confirms[i] <= 1 => restored[i] <= sold[i]

(* A draft has left no trace anywhere, and an invoice no two handlers have *)
(* worked on at once is in the statement, in the journal and in stock      *)
(* exactly as its status and its amounts say.                              *)
Untouched(i) ==
    /\ statement[i] = {} /\ sold[i] = 0 /\ restored[i] = 0
    /\ entry[i] = [revenue |-> NotPosted, cogs |-> NotPosted]

Standing(i) ==
    /\ statement[i] = {[id |-> invoice[i].customerTx, amount |-> invoice[i].total]}
    /\ sold[i] = invoice[i].boards /\ restored[i] = 0
    /\ entry[i].revenue = [status |-> "POSTED", amount |-> invoice[i].total]
    /\ invoice[i].cogsEntry <=> invoice[i].totalCost > 0
    /\ entry[i].cogs = IF invoice[i].cogsEntry
                       THEN [status |-> "POSTED", amount |-> invoice[i].totalCost]
                       ELSE NotPosted

Undone(i) ==
    /\ statement[i] = {} /\ restored[i] = sold[i]
    /\ entry[i].revenue.status # "POSTED" /\ entry[i].cogs.status # "POSTED"

EffectsMatchStatus ==
    \A i \in Invoices :
        /\ invoice[i].status \in {"NONE", "DRAFT"} => Untouched(i)
        /\ i \notin overlapped =>
             /\ invoice[i].status = "DELETED" => Untouched(i)
             /\ invoice[i].status = "CONFIRMED" => Standing(i)
             /\ invoice[i].status = "CANCELLED" => Undone(i)

(* The amounts of an invoice no two handlers have worked on at once are    *)
(* those of its lines and its rate, however often the draft was edited.    *)
AmountsMatchLines ==
    \A i \in Invoices \ overlapped :
        /\ invoice[i].subtotal = invoice[i].boards
        /\ invoice[i].total = Total(invoice[i].boards, invoice[i].rate)

(* Constitution, principle VII, for the requests of this module: none of   *)
(* them edits or deletes a confirmed invoice, they only cancel it.  (A     *)
(* revision does rewrite its lines and totals: see InvoiceRevisions.)      *)
Kept(i) ==
    invoice[i].status = "CONFIRMED" =>
        \/ invoice'[i] = invoice[i]
        \/ invoice'[i] = [invoice[i] EXCEPT !.status = "CANCELLED", !.customerTx = 0]

PostedKeptUnraced == [][\A i \in Invoices \ overlapped : Kept(i)]_vars

PostedImmutable == [][\A i \in Invoices : Kept(i)]_vars

=============================================================================
