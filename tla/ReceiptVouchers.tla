---------------------------- MODULE ReceiptVouchers ----------------------------
(***************************************************************************)
(* Receipt vouchers (modules/receipt-vouchers): money a customer brings to *)
(* a treasury, allocated to his sales invoices; next to the treasuries and *)
(* transfers whose accounts they share, and to the revision and the        *)
(* cancellation of the invoices.                                           *)
(*                                                                         *)
(* Every handler of a voucher holds its row from the first statement on.   *)
(* Posting locks the invoices it is allocated to in order, looks at what   *)
(* other posted vouchers have left of them, and commits; each lock is a    *)
(* step.  The allocations of a draft are provisional: they are looked at   *)
(* when they are written, and looked at again when they count.             *)
(***************************************************************************)
EXTENDS Treasuries

CONSTANTS
    Vouchers,        \* voucher ids
    Invoices,        \* sales invoices of the customer, ordered
    Total,           \* grand total each invoice is confirmed with
    Revised,         \* grand totals a revision may give it
    Bodies           \* what a voucher may say: treasury, amount, allocations

Body == [treasury : Treasuries, amount : Nat, allocated : [Invoices -> Nat]]

ASSUME VoucherAssumption ==
    /\ Vouchers \subseteq Documents \ (Treasuries \cup Transfers)
    /\ Invoices \subseteq Nat /\ IsFiniteSet(Invoices) /\ IsFiniteSet(Vouchers)
    /\ Total \in [Invoices -> Nat] /\ Revised \subseteq Nat
    /\ Bodies \subseteq Body /\ Bodies # {}

VARIABLES
    voucher,         \* receipt_vouchers with their allocations
    invoice,         \* sales_invoices: status and grand total
    invoiceLock      \* holder of each invoice row FOR UPDATE

voucherVars == <<voucher, invoice, invoiceLock>>
vars        == <<treasuryVars, voucherVars>>

NoVoucher == [status |-> "NONE", body |-> CHOOSE b \in Bodies : TRUE]

Init ==
    /\ TreasuryInit
    /\ voucher     = [v \in Vouchers |-> NoVoucher]
    /\ invoice     = [i \in Invoices |-> [status |-> "CONFIRMED", total |-> Total[i]]]
    /\ invoiceLock = [i \in Invoices |-> NoOne]

(* Only posted vouchers consume an invoice.                                *)
Consumed(i) ==
    [v \in Vouchers |-> IF voucher[v].status = "POSTED" THEN voucher[v].body.allocated[i] ELSE 0]

Allocated(i, vouchers) == SumFunctionOnSet(Consumed(i), vouchers)

Targets(body) == {i \in Invoices : body.allocated[i] > 0}

(* validateAllocations.                                                    *)
Fits(v, body) ==
    /\ MapThenSumSet(LAMBDA i : body.allocated[i], Invoices) <= body.amount
    /\ \A i \in Targets(body) :
         /\ invoice[i].status # "CANCELLED"
         /\ body.allocated[i] <= invoice[i].total - Allocated(i, Vouchers \ {v})

-----------------------------------------------------------------------------

CreateVoucher(v) ==
    /\ voucher[v].status = "NONE"
    /\ \E b \in Bodies :
         /\ Usable(b.treasury) /\ Fits(v, b)
         /\ voucher' = [voucher EXCEPT ![v] = [status |-> "DRAFT", body |-> b]]
    /\ UNCHANGED <<stored, invoice, invoiceLock>> /\ AtOnce

(* Nobody looks whether the treasury is active any more.                   *)
UpdateVoucher(v) ==
    /\ DocumentFree(v)
    /\ voucher[v].status = "DRAFT"
    /\ \E b \in Bodies : Fits(v, b) /\ voucher' = [voucher EXCEPT ![v].body = b]
    /\ UNCHANGED <<stored, invoice, invoiceLock>> /\ AtOnce

RemoveVoucher(v) ==
    /\ DocumentFree(v)
    /\ voucher[v].status = "DRAFT"
    /\ voucher' = [voucher EXCEPT ![v] = [NoVoucher EXCEPT !.status = "DELETED"]]
    /\ UNCHANGED <<stored, invoice, invoiceLock>> /\ AtOnce

(* FOR UPDATE on the voucher, which is read with its allocations.          *)
StartPostVoucher(c, v) ==
    /\ DocumentFree(v)
    /\ voucher[v].status = "DRAFT"
    /\ LockDocument(c, v)
    /\ Start(c, IF Targets(voucher[v].body) = {} THEN "post" ELSE "invoices",
             [op |-> "voucher", doc |-> v, body |-> voucher[v].body])
    /\ UNCHANGED <<stored, rowLock, accountLock, raced, voucherVars>>

(* Slip: the invoices are read without FOR UPDATE.                         *)
InvoiceFreeAnyway(c, i) == TRUE

InvoiceFree(c, i) == invoiceLock[i] \in {c, NoOne}

(* The invoices in order; under the last lock the allocations are looked   *)
(* at again.                                                               *)
LockInvoice(c) ==
    LET open == {i \in Targets(job[c].body) : invoiceLock[i] # c}
        last == Cardinality(open) = 1
    IN  /\ pc[c] = "invoices"
        /\ InvoiceFree(c, Min(open))
        /\ invoiceLock' = [invoiceLock EXCEPT ![Min(open)] = c]
        /\ last => Fits(job[c].doc, job[c].body)
        /\ Goto(c, IF last THEN "post" ELSE "invoices")
        /\ UNCHANGED <<stored, locks, job, raced, started, voucher, invoice>>

PostVoucher(c) ==
    LET v == job[c].doc
    IN  /\ pc[c] = "post"
        /\ Post(c, v, Entry(Nowhere, job[c].body.treasury, job[c].body.amount))
        /\ voucher' = [voucher EXCEPT ![v].status = "POSTED"]
        /\ invoiceLock' = Released(invoiceLock, c)
        /\ UNCHANGED <<treasury, transfer, invoice>>
        /\ End(c)

ReverseVoucher(v) ==
    /\ DocumentFree(v)
    /\ voucher[v].status = "POSTED"
    /\ Reverse(NoOne, v)
    /\ voucher' = [voucher EXCEPT ![v].status = "REVERSED"]
    /\ UNCHANGED <<treasury, transfer, invoice, invoiceLock>> /\ AtOnce

(* A refused voucher, or any other failure of a handler.                   *)
AbortVoucher(c) ==
    /\ pc[c] \in {"invoices", "post"}
    /\ invoiceLock' = Released(invoiceLock, c)
    /\ UNCHANGED <<voucher, invoice>>
    /\ Rollback(c)

(* The sales invoices are cancelled, allocations or not.                   *)
CancelInvoice(i) ==
    /\ invoiceLock[i] = NoOne
    /\ invoice[i].status = "CONFIRMED"
    /\ invoice' = [invoice EXCEPT ![i].status = "CANCELLED"]
    /\ UNCHANGED <<stored, voucher, invoiceLock>> /\ AtOnce

(* A revision (InvoiceRevisions has its steps) takes the invoice FOR       *)
(* UPDATE and gives it another total.  One below what posted vouchers have *)
(* taken is a warning that the owner acknowledges.                         *)
ReviseInvoice(i) ==
    /\ invoiceLock[i] = NoOne
    /\ invoice[i].status = "CONFIRMED"
    /\ \E n \in Revised \ {invoice[i].total} : invoice' = [invoice EXCEPT ![i].total = n]
    /\ started < MaxRequests /\ started' = started + 1
    /\ UNCHANGED <<stored, locks, pc, job, raced, voucher, invoiceLock>>

Next ==
    \/ TreasuryNext /\ UNCHANGED voucherVars
    \/ \E v \in Vouchers : CreateVoucher(v) \/ UpdateVoucher(v) \/ RemoveVoucher(v) \/ ReverseVoucher(v)
    \/ \E c \in Handlers :
         \/ \E v \in Vouchers : StartPostVoucher(c, v)
         \/ LockInvoice(c) \/ PostVoucher(c) \/ AbortVoucher(c)
    \/ \E i \in Invoices : CancelInvoice(i) \/ ReviseInvoice(i)

Spec == Init /\ [][Next]_vars

-----------------------------------------------------------------------------
(* Correctness.                                                            *)

(* The vouchers and invoices have their types, the treasuries theirs, and  *)
(* a lock of an invoice is held by a handler that is posting a voucher     *)
(* (receipt-vouchers.service.ts).                                          *)
TypeOK ==
    /\ TreasuryTypeOK
    /\ voucher \in [Vouchers -> [status : {"NONE", "DRAFT", "POSTED", "REVERSED", "DELETED"},
                                 body : Bodies]]
    /\ invoice \in [Invoices -> [status : {"CONFIRMED", "CANCELLED"}, total : Nat]]
    /\ \A i \in Invoices : invoiceLock[i] # NoOne => pc[invoiceLock[i]] \in {"invoices", "post"}

(* What posted vouchers allocate to an invoice grows only to what fits its *)
(* total at that moment, whichever of them are posted at once and whatever *)
(* is revised in between ("the second blocks until the first commits its   *)
(* POSTED allocation, then re-checks and is rejected if it would           *)
(* over-allocate", receipt-vouchers.service.ts:308).  A revision may leave *)
(* an invoice with more than its total; then nothing more is added.        *)
AllocatedWithinInvoice ==
    [][\A i \in Invoices :
         Allocated(i, Vouchers)' > Allocated(i, Vouchers)
         => Allocated(i, Vouchers)' <= invoice'[i].total]_vars

(* What the journal says of every transfer and voucher is what the         *)
(* document says, down to treasuries and amount: so the treasuries'        *)
(* balances are explained by openings, transfers and vouchers, and nothing *)
(* a client does to a document while it is posted splits the two.          *)
EntriesFollowDocuments ==
    /\ \A x \in Transfers :
         EntryFollows(x, transfer[x].status = "CONFIRMED", transfer[x].from, transfer[x].to,
                      transfer[x].amount)
    /\ \A v \in Vouchers :
         EntryFollows(v, voucher[v].status = "POSTED", Nowhere, voucher[v].body.treasury,
                      voucher[v].body.amount)

=============================================================================
