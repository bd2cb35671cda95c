# Verification project for the Shorok ERP

TLA+ models, TLC configurations and TLAPS proofs about the API of the Shorok ERP
(`src/shorok-erp-app/apps/api`), a NestJS application over PostgreSQL that keeps the stock, the
orders, the invoices, the treasuries and the general ledger of a trading company with several
branches. Paths below are relative to `apps/api/src/modules` unless they say otherwise.

## 1. The system

Every write is a request handler that runs `PrismaService.runInTransaction`: one PostgreSQL
transaction at READ COMMITTED with a ten-second timeout. There is no other concurrency (no queues,
no workers), and no state outside the database: what is hard in this code is what two handlers do
to each other between a read and a write, and what a handler that fails half-way leaves behind.
A row is protected only where a handler says `SELECT ... FOR UPDATE`, where an `UPDATE` of the row
comes first, by unique indexes, and by foreign keys, which lock the referenced row in share mode.

| component | state | operations | behaviours that are hard | what makes it correct |
|---|---|---|---|---|
| inventory engine, receipts, adjustments, counts (`inventory/`) | balance row per branch and variant, append-only movements, `last_counted_at` | `apply`, receive, adjust, count | concurrent movements of a row, a count racing a sale, multi-line requests that fail late, opposite lock orders | stock never negative; balance = sum of movements; count targets hold; all lines or none |
| orders (`orders/`) | status, price approval, collected and remaining amounts, collection rows | create, approve, confirm, collect, cancel | every handler reads without a lock | amounts add up, no sale at an unapproved price, one deduction per confirmation, refunds |
| posting engine, reversals, treasury guard (`posting/`), periods (`periods/`), supplier payments (`payments/`) | journal entries and lines, period status | post, reverse, pay, create/close/reopen a period | retried posts, double reversal, two outflows of one treasury, deadlocks, closing a period under a post | balanced, once per key, reversals in pairs, treasuries not overdrawn against policy |
| sales invoices (`sales-invoices/`) | draft/confirmed/cancelled, lines, links to entries, customer transaction | create, update, confirm, cancel, delete | status and cost are read outside the transaction | one posting, one set of movements, one customer transaction per invoice |
| purchase invoices and costing (`purchase-invoices/`) | the same, and the weighted average cost of a variant | create, update, confirm, cancel, delete | the same, and variant locks against stock locks | average cost explained by stock and purchases |
| returns (`returns/`) | return documents, stock and cost they give back | create, confirm, cancel | several returns of one invoice at once | never more returned than sold |
| receipt vouchers (`receipt-vouchers/`) | vouchers and allocations | create, post, reverse | two vouchers for one invoice, cancellation of an allocated invoice | never more allocated than owed |
| treasuries, transfers (`treasuries/`) | treasuries, default flags, opening balances, transfers | create, activate, open, transfer, cancel | opening after a reversal, deactivation against a transfer | one opening, money conserved |
| inventory transfers (`inventory-transfers/`) | drafts with versions, previews, confirmations | draft, preview, confirm, cancel | retries after deadlocks and lost answers, stale previews | boards and metres conserved, moved once |
| invoice revisions, valuation replay (`invoice-revisions/`) | revisions of confirmed invoices | preview, apply | a fingerprint that went stale | the replay explains stock value |
| factory ledger (`factory-ledger/`) | supplier entries with a running balance | purchase, payment, edit, delete | share-then-exclusive lock of the supplier | balance = running sum |
| expenses (`expenses/`), fixed assets (`fixed-assets/`), manual journal (`journal/`) | documents that post one entry each | post, edit, reverse, depreciate | edits of posted documents, a month depreciated twice | document and journal agree |
| idempotency middleware (`common/middleware/`) | stored responses by key | look up, store | the store is not awaited, concurrent retries | a retried request takes effect once |
| master data, configuration, auth, audit, reports, PDF, import, web client | | | none of protocol character | not modelled |

Interactions: documents call the inventory engine and the posting engine inside their own
transaction (`tx` is passed down), so a document's effects commit together. The treasury guard is
called by the posting engine and directly by supplier payments. Order collections, factory payments
and depreciation create journal entries without either; that legacy path is why the models have
a `direct` writer. Every state change writes an audit row in the same transaction; the models
identify the audit row with the write it accompanies.

## 2. Modules

| module | role |
|---|---|
| `StockLedger` | abstract specification: balances and append-only movements with running balances |
| `InventoryEngine` | the engine and its callers, with transactions, row locks, rollback and deadlock detection; implements `StockLedger` |
| `InventoryEngineProofs` | proofs about it |
| `Orders` | the order handlers, each an unlocked read and a commit |
| `OrdersProofs` | proofs about it |
| `GeneralLedger` | abstract specification: balanced entries, once per key, mirrored reversals |
| `Posting` | engine, reversal service, guard, periods and the writers that bypass them; implements `GeneralLedger` |
| `PostingProofs` | proofs about it |
| `SumLemmas` | proofs about sums over finite sets, for the modules that balance something |
| `SalesInvoices` | the sales invoice handlers and what they leave in statement, journal and stock |
| `StockRelocation` | abstract specification: goods of a document move between two branches once and come back once |
| `InventoryTransfers` | previews, approvals, drafts, postings with their locks, keys and retries, next to trade; implements `StockRelocation` |
| `InventoryTransfersProofs` | proofs about them, the conservation of stock and the order of locks included |
| `Costing` | arithmetic of the weighted average and of returned amounts, with its rounding |
| `Returns` | purchases, sales, their returns and returns without an invoice, and the average cost they share |
| `ReturnsProofs` | proofs about it, and about the rounding of `Costing` |
| `Treasuries` | treasuries, defaults, opening balances and transfers |
| `ReceiptVouchers` | vouchers and their allocations, composed with `Treasuries` |
| `ReceiptVouchersProofs` | proofs about both: types, locks and entries, allocations, default flags and balances |
| `Fractions` | exact fractions, for the unrounded decimals of a valuation |
| `ValuationReplay` | the replay algorithm: rewind, replay, comparison of two timelines |
| `InvoiceRevisions` | revisions of confirmed invoices next to everything else that moves their pool |
| `InvoiceProofs` | proofs about `SalesInvoices` and `InvoiceRevisions`, and about the folds and fractions of `ValuationReplay` |
| `MCInventory`, `MCOrders`, `MCPosting`, `MCSalesInvoices`, `MCTransfers`, `MCReturns`, `MCCash`, `MCRevisions` | the values TLC runs with |

Conventions. A handler is a *client* with a program counter (or a `tx` record); a step is what the
database makes atomic. Uncommitted writes are private (`work` in `InventoryEngine`, the `lines` of
`tx` in `Posting`) and appear at the commit; locks are explicit and are released by commit and by
rollback. A definition whose comment says *slip* is a plausible mistake in that place, which no
action uses: each property is known to fail when the slip replaces the definition after it.

### InventoryEngine

`balance`, `ledger` and `lastCounted` are `branch_inventory_balances`, `inventory_movements` and
`last_counted_at`. `LockRow` is the upsert and `FOR UPDATE` of `applyInTx`, `ApplyMovement` the
check, balance update, movement and audit row, `InsufficientStock` the throw that rolls the request
back, `CountLock`/`NoVariance` the count handler around the engine. Requests are sequences of lines;
the order of locks is the order of the lines, which the client chooses, so `DeadlockVictim` (the
database's detector) is needed for termination. Metres follow the variant's size or, for a document
line, its own area: boards and metres are separate quantities with separate checks.

### Orders

The handlers read the order with a plain `findUnique` and write it in the same transaction: under
READ COMMITTED that is two steps, `ReadFor...` and the write. `tx[c].seen` is the order as it was
read, and amounts and statuses are computed from it as the code does. `overlapped` is a history
variable: the orders two handlers have ever worked on at once. What the code promises of an order
holds of the others (`RaceFree...`), and some of it survives the races: this is what the run and the
theorems separate. All orders draw on one balance row, so a confirmation may run out of stock.

### Posting

A request goes through `key` (idempotency look-up and validation), `period`, `guard` (locks on the
treasuries with a net outflow in sorted order, each balance read under its lock and remembered as
`offending` if it would not do, then the decision), `lines` (the entry is inserted under the unique
index, each line shares its account through the foreign key) and the commit. `held` and `shared` are the two lock modes of an account row. Supplier payments start at
`guard`; order collections, factory payments and depreciation do so with no guard at all. A reversal
is a post of the mirrored lines under the key of the original, linked and marked at the commit. The
balance the guard read stays true until its commit, since every insert on the account needs a share
of its row; this is what `OutflowsAlwaysGuarded` proves.

### SalesInvoices

Every handler reads the invoice and checks its status before it opens its transaction, and never
again. The transactions that touch one invoice all update its row, so each commit is one step and
`tx[c].seen` is what was read; a handler that is overtaken writes what it computed from that.
`statement` is the customer's legacy statement (`customer_transactions`), `entry` what stands under
the two idempotency keys of the invoice, `sold` and `restored` its SALE and ADJUSTMENT movements.
Nothing but the deletion of the statement row (`StatementRowThere`) keeps a second cancellation from
giving the boards back again, and nothing but the lines that were read having been replaced, or the
stock being out, keeps a late confirmation from repeating the movements: the journal alone is
idempotent. `Escape` is what READ COMMITTED lets two edits of one draft do: a `DELETE` that began
before the other edit committed does not see its lines, so both sets stay. `overlapped` marks the
invoices two handlers have met on, as in `Orders`. The engines are abstracted to their effect
(`Post`, `Reversed`, a balance that must suffice); `Posting` and `InventoryEngine` have the detail.
The steps are the requests of `SalesInvoicesController`. A sales revision writes the same rows (it replaces the
lines and totals of a confirmed invoice) and is no step here: what the module says, it says of invoices that
were never revised, and `InvoiceRevisions` has the others.

### InventoryTransfers

A posting (confirmation or cancellation) is one transaction in steps: the key look-up outside it
(`ReadForPosting`), the document (`LockDocument`), the variants in order (`LockVariant`), the
balance rows in order (`LockRow`), the preview once more under the locks (`Check`), and the commit
with `assertConservation` (`Post`). `approvals` are the fingerprints users hold: they are taken at
any time and sent at any later time, any number of times. A fingerprint is identified with what it
is a hash of, the preview. `DeadlockVictim` is the database's choice and `withDeadlockRetry`
together. `StartTrade` and the `Trade...` steps are what the other modules do to the same rows: the
engine alone (row, then variant in share mode, through the foreign key of the movement), or a
purchase or return (variant, then row, and the average). `posted` and `returned` are the movements
under the two source types of a transfer. An edit checks only what it read before its transaction; it
locks the line rows by deleting them (`DeleteLines`) and then waits for the document (`Update`). A deletion
locks the document (`LockForDelete`), where the trigger looks at its status (`Deletable`), and then its lines by
the cascade (`Delete`); a posting holds the document from its start and writes the lines last (`Post`). An
edit may therefore deadlock with either, and only a posting is retried.

### Costing and Returns

`Costing` has the three formulas with their half-up rounding, in whole ticks of an average and whole
cents. In `Returns` every handler reads its document before its transaction (`Start...`); then a
return of an invoice locks the invoice (`LockInvoice`) and looks at the remaining quantity, a return
without an invoice locks and re-reads itself (`LockLegacy`), whatever computes an average locks the
variant and reads stock and average (`LockVariant`), and the rest is the commit (`ConfirmPurchase`,
`ConfirmSale`, `CancelInvoice`, `ConfirmReturn`, `CancelReturn`, ...). `entry` is signed: what the
document's entry does to the inventory account. A line is `valued` if its goods have a cost (the
basis of a legacy return may be `COST_UNAVAILABLE`). `overlapped` and `edited` are history variables
as in `Orders`.

### Treasuries and ReceiptVouchers

A treasury stands for its linked account; a balance is what the standing entries say. `entry[d]` is
the entry under the key of document `d` (a treasury's opening balance, a transfer, a voucher).
Confirming a transfer takes the document, then both accounts in order; under the last one the
handler's and the guard's look at the balance are one step, since nothing can change it any more.
Creating, updating and (de)activating a treasury read without locks (`CreateTreasury`,
`UpdateTreasury`, `SetActive`), unset the old default with an `UPDATE` that waits for the row
(`Unset`) and write under the partial unique index (`SaveTreasury`). Voucher posting locks the
invoices it is allocated to in order and validates again (`LockInvoice`). Meanwhile an invoice may be
cancelled or, when nobody has it locked, given another total by a revision (`ReviseInvoice`), below what has
been allocated too. Anything may be reversed from the journal as well (`ReverseInJournal`).

### ValuationReplay and InvoiceRevisions

`Rewind` takes the present pool back through the movements, `Replay` goes forward, `Compare` does so
for what happened and for what should have happened; folds with exact fractions, since the code
rounds only what it stores. `Classified` is the classification of movements, whose receipts are worth
what the lines say now and whose sales have the rate of their line. A revision takes the invoice
and calculates (`StartRevise...`), then locks the variant and commits (`RevisePurchase`,
`ReviseSale`): between the two others move the pool, and what the code then compares is only the
metres. A request names the revision its owner has seen and a key: `Current` is the look at both under the
lock of the invoice (a key that has made a revision is answered with it, another revision is refused), `Enter` the
row of the new revision under the unique index of keys. Everything else
that moves the pool is a step each, its races being the business of `Returns`. `AsIf` is the reference
a replay is held against: the pool in one go over all movements, had every receipt always been as the
lines say.

## 3. Runs

| run | bounds | what it shows |
|---|---|---|
| `inventory` | 2 clients, 2 rows of different board size, 8 kinds of request, 4 requests | atomic requests, honoured counts, refinement of `StockLedger`, termination |
| `orders` | 2 clients, 2 orders, amounts {1, 2}, 5 requests, at most 3 boards | amounts add up and nothing is sold at an unapproved price under every race; books and life cycle of an order nobody raced on |
| `posting` | 2 clients, a treasury with a floor and one without, 5 documents, 1 month, 3 requests | reversal pairs, guarded outflows, refinement of `GeneralLedger`, termination |
| `sales_invoices` | 2 handlers, 2 invoices, 1 or 2 boards, with and without tax, cost 0 or 1, 2 boards on hand, 5 requests | each confirmation undone by at most one cancellation under every race; effects and amounts of an invoice nobody raced on follow its status; the controller keeps a posted one |
| `inventory_transfers` | 2 handlers, 2 transfers in opposite directions over 2 variants, a third branch, an engine trade and a costing trade, 1 key, 2 tries, 2 previews, 3 requests | what is posted is what was approved; conservation never fails; only the engine's lock order and edits deadlock; refinement of `StockRelocation`; every request is answered |
| `returns` | 2 handlers, a purchase of 2 boards for 3 cents, a sale of 2, 3 returns of any kind, 5 requests | never more returned than invoiced; a full return in parts is worth the invoice to the cent; effects follow status; the average follows the goods and the ledger |
| `cash` | 2 handlers, 2 treasuries (one to be created), 2 branches, a transfer, 2 vouchers competing for an invoice whose total may be lowered, 3 requests with a lock sequence | no posting over-allocates an invoice, entries follow documents, one default per branch, no overdraft |
| `invoice_revisions` | 2 revisions at a time, 2 purchases, a sale, 3 receipts, 1 or 2 metres, 3 keys, 3 revisions of an invoice, 5 requests | revisions take turns, one per revision seen, one entry in force per invoice; a replay is what would have been; a revision moves goods and ledger alike |
| `orders_collect_race` | as `orders` | *violation*: `collected_amount` is not the sum of the rows after a race |
| `orders_pending_advance` | as `orders`, 1 client | *violation*: the advance of a cancelled pending order is not refunded |
| `sales_invoice_posted` | as `sales_invoices` | *violation*: an edit that read a draft rewrites the posted invoice |
| `revised_cancelled` | as `invoice_revisions`, 4 requests | *violation*: cancelling a revised invoice leaves the entries of the revision |

Why these bounds: every race of the code is between two handlers (a third adds waiting, not a new
order of reads and writes); two rows or two treasuries are what opposite lock orders need; the
requests per behaviour allow one to prepare the state (a receipt, a funding entry), two to race
and, in `inventory`, `orders` and `sales_invoices`, one or two more to observe it. The board sizes differ so that
boards and metres cannot be confused, and the request list has a line whose own area exceeds its
boards. In `returns` the
purchase costs an odd number of cents, so every division is rounded; three returns are what two
parts and a cancelled one, or two rivals and a legacy one, need. In `invoice_revisions` the receipts differ in
price alone and in both price and quantity, and one costs nothing, for which the way back of a replay is
a case of its own; three keys are one for a request that is repeated, one for its rival and one for the next
revision. `inventory_transfers` has one idempotency key: a second
doubles the run and adds only requests that differ in nothing but the key; the interesting ones, that two requests use the
same key, need one. Transfers within the trading branches and a trade in the third are what show that
conservation is about the whole company. Where a run has no liveness property, what is
interchangeable is a symmetry set (`sales_invoices`, `returns`, `cash`, `invoice_revisions`).
`CHECK_DEADLOCK FALSE`: behaviours end when the bound on requests is used up; that nobody waits for
ever is what `Terminates` and `Answered` are for.

Fairness. A handler that has started keeps running (`WF` of its unblocked steps): Node runs it to
the end. Lock requests get `SF`: PostgreSQL queues waiters, so a lock that is freed again and
again is eventually granted. The deadlock detector gets `WF`: it runs after `deadlock_timeout`. In
`InventoryTransfers` the three are one `SF` per handler, because a retried posting comes back to the
same locks; the retries are bounded, so it cannot go round for ever.
Nothing is assumed about requests arriving, transactions timing out or periods being closed.

What the violation runs say of the code: (1) two collections of one order can both succeed and
leave one amount out of `collected_amount`; (2) cancelling a pending order keeps its advance,
against the comment in `orders/cancel.controller.ts`; (3) an update of a sales invoice that read a
draft is applied to the confirmed invoice, whose lines and amounts then differ from its entries,
against principle VII of the constitution; (4) a revision leaves the invoice's `journalEntryId` at
the entry of the confirmation, so cancelling a revised invoice reverses an entry that is reversed
already and leaves what the revision posted.

## 4. Proofs

Checked by TLAPS for all values of the constants that satisfy the modules' assumptions.

`InventoryEngineProofs`: `TypeCorrect`, `EngineInvariant`, `StockNeverNegative`,
`EngineImplementsLedger`, `AllOrNone`, `CountsAreHonoured`. Non-negative stock is not inductive by itself: a commit installs
balances computed earlier. The invariant `IInv` adds that only the holder of a row's lock has
uncommitted movements of it (`LockDiscipline`), that committed movements run up to the balance
(`CommittedTotals`) and that uncommitted movements continue from the committed balance
(`UncommittedTotals`). A commit changes only rows its client holds, so nobody else's
uncommitted totals are disturbed; that a prefix of running totals extended by running totals has
running totals again is a lemma on sequences. The refinement follows: every step leaves the
committed data alone or is a `Post` of the ledger. For `AllOrNone` and `CountsAreHonoured` the
invariant says how far a request is (`Progress`): its uncommitted movements are, per row and in
order, those of the lines it has done, and a row it has counted has what was last counted until the
commit, since the holder of its lock alone can write it. Assumed: `SizeAssumption`, `NoOneAssumption`,
`RequestAssumption`, `BoundAssumption`.

`OrdersProofs`: `OrdersInvariant`, `OrdersTypeCorrect`, `AmountsAlwaysAddUp`,
`PriceAlwaysApproved`, `BooksOfUnracedOrders`, `LifecycleOfUnracedOrders`. The invariant has to speak about what handlers have read: `ReadStillSafe`
says that the amounts in `seen` are within the required amount (so whatever is written from them is
too, even over somebody else's write), and that a handler that will confirm, or that read a live
order, works on an order whose price is not pending, which no step can undo. For the orders nobody
raced on it adds `FreshReads`: the one handler at work holds what the row still says, so its look at
status and amounts is as good as one made at the write. Assumed: `OrderAssumption`.

`InvoiceProofs`, about `SalesInvoices`: `InvoicesInvariant`, `InvoicesTypeCorrect`, `CancelledOnce`,
`EffectsFollowStatus`, `AmountsFollowLines`, `PostedIsKept`: every property the run checks. For the
races the invariant adds `RowsNumbered` (statement rows are finitely many, numbered apart, none
above the count of confirmations): a confirmation adds exactly one row, a cancellation removes
exactly one, so `restocks + |statement| = confirms` is kept. `BoardsOf` says what that is worth in boards: while an invoice
has been confirmed at most once, what came back is at most what went out; after a second confirmation nothing
is claimed (section 5 says why). For the invoices without races it adds
`FreshReads`: until two handlers meet on an invoice, the one at work holds what the row still says;
so it writes back amounts that agree, and cancels only what it saw posted. The invariant speaks of
one invoice at a time (`RowsOf`, `BoardsOf`, `EffectsOf`, `AmountsOf`), and `WriteKeepsInv` reduces each action
to the invoice it writes. `PostedIsKept` is about the requests of the controller: revisions are no steps of the
module. Assumed: `InvoiceAssumption`.

`InvoiceProofs`, about `InvoiceRevisions`: `RevisionsInvariant`, `RevisionsTypeCorrect`,
`OneEntryInForce`, `RevisedOncePerLook`, `RevisionsTakeTurns`, `RevisionsMoveBoth`, `RevisedAsIfEntered`: every property the run checks, for any
number of handlers, invoices, lines and revisions. `RevisionInv` says that a handler that has calculated
holds its invoice (`LocksFit`), which is therefore still confirmed, of the revision it was and with no
more returned than the new body asks for (`JobFits`); that every invoice has exactly one movement of its
confirmation (`FirstsFit`); and of what was calculated only what the comparison of two replays tells
(`Calculated`). That is the lemma `ComparisonTells`: two replays from one anchor that differ in one receipt
end with metres that differ as the receipts do, and their known values differ by that of the receipts.
With `Conserves`, which the code checks before it accepts a comparison, the ending is then worth what was
there, plus the difference of the receipts, plus what has left the pool of it, and this is what the
entries and the adjustment post: `RevisionsMoveBoth`. For `RevisedOncePerLook` the invariant `SeenInv` says that
the rows of an invoice are made of the revisions before its current one, each once (`MadeUpTo`), and that
whoever has taken the invoice has seen the current one: the lock is what keeps that true until the commit.

`RevisedAsIfEntered` needs a second invariant, `ReplayInv`. While no revision has been made, there is a
history of the pool (`Chronicle`): one time per movement, each following from the one before by the
lines as they are now; every action but a revision extends it by one time, since the lines of a
confirmed invoice change only by revisions, and a calculation whose pool nobody has moved is what it
would be now (`JobsFresh`). Back from the present, a replay is at each movement at the metres of the
history and at its worth, or has lost it at an empty pool (`BackStep`); a receipt that was worth something
is not undone from a pool that has lost its worth, because that would leave less than nothing, so the
way back ends where the history was before the receipt (`Anchored`). Up to there `AsIf` and the
history agree (`AgreesBefore`), and from there the other receipt and all that follows it lead a replay
and `AsIf` to the same pool (`ReplayedOnwards`).

Both rest on laws of the fractions and of folds. A fraction is reduced by a recursive function over pairs
of numbers; that this function is well-defined and that reduced fractions add, multiply and compare as
fractions do (`AddOver`, `TimesOver`, `SameOver`, `SignOver`) is proved from the least number of a set for
which it fails (`SmallestNumber`), where an induction would be the usual way. The same serves for the folds of the community modules, whose
recursion over index sets has stages (`LeftStages`, `RightStages`), and whose value is therefore that of
its last one. Assumed: `RevisionAssumption`.

`ReceiptVouchersProofs`: `CashInvariant`, `CashTypeCorrect`, `EntriesAlwaysFollow`,
`AllocationsFit`, `DefaultsInvariant`, `OneDefaultAlways`, `NeverOverdrawn`: every property
of the run but its liveness. A handler posts
what it read at its first statement, so that entries follow documents needs to know that the document
is still what was read: `HeldDocuments`. That is so because the handler holds it from that statement on, and
nobody else does (`Locks`, `AtPlace`, together `Control`); every other writer of a document waits for
its row. `Journal` adds that a draft has no entry yet, without which a posting could find an old one under
its key. For the allocations: whoever is ready to post holds every invoice he allocates to, and
what he takes of each is still there (`Ready`), since every other voucher that takes of one, and every revision of its total, has to hold it;
posting adds exactly his own part to the sum (`SumLemmas`). For the defaults: the unique index
(`Unique`) looks at what is stored, and a handler writes what it planned earlier. `Planned` says that
the plan still suits the branch: the treasury is still of it, what was unset is too, and, while nobody
else has worked on the branch (`Alone`), a handler that takes no default leaves one. `AtMostOne` holds
under every race, because a default is written only where the handler has unset all others.
`NeverOverdrawn` needs that the balance a confirmation looked at is still there at its commit
(`Funded`): it holds the account by then, and every entry on an account is written under it. Assumed:
`TreasuryAssumption`, `VoucherAssumption`.

`ReturnsProofs`: `ReturnsInvariant`, `ReturnsTypeCorrect`, `ReturnedAlwaysWithinInvoice`,
`FullReturnsReconcile`, `ReturnEffectsFollowStatus`, `AverageAlwaysFollows`: every property of the run,
for any number of documents and handlers and any `Scale`. A handler commits what it read or
calculated earlier, so the invariant says how far that still holds. By locks: whoever commits an
average holds the variant, and stock and average are as it read them (`Holds`). By nobody else having
been there: two handlers at one document have left it in `overlapped` or `edited` (`Met`), so what was
read of a document in neither still stands (`Settled`), and what it has moved and posted is what its status
says (`Kept`). A return without an invoice may meet others: it holds itself from its lock on, and only an
edit writes without asking.

For the returns of an invoice, `Returned` says that what is confirmed fits it, and so does what is
confirmed together with what any handler past the lock is about to confirm (`Fit`: not more boards, and all
boards have all the worth). The second half is the point: it makes the commit safe, and it stays true while
the handler waits for the variant, because only the holder of the invoice's lock can confirm; a
cancellation in between takes no such lock but leaves strictly fewer boards, of which nothing has to
be exact. That the line calculated under the lock fits is the arithmetic of `Allocated`
(`ReturnLineGood`): the last part gets what is left.

`AverageAlwaysFollows` is about single steps. While a handler is about to commit an average, no other
step moves stock (`OnlyItsCommit`): whoever would has to hold the variant or, as sales and
cancellations do, share its row. So its own commit is all that happened since it read, and the
bounds are those of rounding half up (`HalfUpBounds`), applied once to the average and, for a return
without an invoice, once more to its cents; the ledger moves by exactly the worth of the commit
(`PostBooks`, `LedgerMoved`), since a document without races has no old entry under its key. Assumed:
`DocumentAssumption`, `ScaleAssumption`.

`InventoryTransfersProofs`: `TransfersInvariant`, `TransfersTypeCorrect`, `ApprovalAlwaysStands`,
`TransfersRelocate`, `ConservationAlwaysHolds`, `DisciplineAvoidsDeadlock`: every safety property of
the run. The invariant says of a handler at each place what it holds (`Handled`: the document, the
variants so far, the rows so far) and of a preview under the locks that it is still what another look
would show; a step of a handler leaves alone what another one holds (`OthersKeep`), and where boards
are is kept per document (`Posts`, `Moved`). `CompanyInv` adds that what the company had of a variant
before a posting is what it has at its end: to change it a trade needs the variant, exclusively or in
share mode, and the posting holds it; moving boards between two branches keeps the sum
(`SumLemmas`). `OrderInv` is the lock discipline of `lockForPosting`: what a handler holds comes
before everything it has still to lock. In a cycle without the engine and without edits somebody waits for the greatest
row, or variant, anybody in it waits for; its holder waits for a greater one. Assumed:
`TransferAssumption`.

`PostingProofs`: `PostingInvariant`, `PostingTypeCorrect`, `ReversalsPair`, `PostingImplementsLedger`,
`OutflowsAlwaysGuarded`: every safety property of the run. The invariant has the shape of the journal
(`Linked`: a reversed entry and its one mirror image; `Keyed`: a key has one entry), of the requests
(`Requested`: what each has checked and has still to do), and of the locks (`Exclusive`). For
the guard, `Watched` says that a treasury looked at is held until the commit and its balance is
what was seen, and `Cleared` that a request past the guard overdraws none: whoever else would write a
line on the account needs a share of its row. Assumed: `PostingAssumption`.

`SumLemmas` has what the others need of sums over finite sets (one more element, one element
changed, two changed in opposite directions, a sum of naturals is a natural). Induction
over sets cannot be instantiated in this prover; the lemmas take a smallest subset of which the claim fails
instead, which exists because proper inclusion is well-founded on the subsets of a finite set.

Only model-checked: liveness (`Terminates`, `Answered`), which is out of the prover's reach, and the
counterexamples of the violation runs. Every invariant and every safety action property that a passing run
checks is a theorem.

The proof of `RevisedAsIfEntered` found the property false as it had been stated, for goods that cost nothing
(a unit price of 0 is allowed, `packages/shared/src/schemas/api/purchase-invoices.ts:38`), which the
values TLC ran with did not contain. Buy a metre for 4 and another for nothing, sell one at the average of 2, count
the other away, and revise the second receipt to two metres: on the way back the count is met at an
empty pool with no value and no recorded rate, and `valuation-replay.ts:138` takes the pool
before it for one that was worth nothing. With a receipt that was worth something the way back is refused
at that receipt, below zero; with one worth nothing nobody notices, and the new average
forgets what the pool was worth. `RevisedAsIfAlways` now leaves such receipts out by name, and the run has one.

## 5. What the models show besides

Behaviours met while modelling that no run has as a property of its own. The first three are against the
words of the constitution (principle VII, `.specify/memory/constitution.md`) or of a comment. Of the others
nothing in the repository promises the contrary in so many words, or they show in the runs as the condition a
property has (`Quiet`, `overlapped`, `drained`, ...).

- Periods. "Postings MUST land in an OPEN financial period. Closing a period blocks further postings into it"
  (`constitution.md:225`). The engine reads the period without a lock (`posting/posting.engine.ts:103`) and
  closing is a plain update: `ClosePeriod` between `PeriodIsOpen` and `Commit` lets an entry into a closed
  month.
- Revisions. "Posted documents and their journal entries MUST NOT be edited or hard-deleted; no API endpoint may
  exist that does so" (`constitution.md:219`). A revision, on purpose, replaces lines and totals of a confirmed
  invoice in place (`invoice-revisions/purchase-invoice-revision.service.ts:1113`,
  `sales-invoice-revision.service.ts:1117` and `:1291`): `Revised`. Its entries are reversed and replaced, not edited.
- Boards given back twice. A cancellation reverses "the EXACT boards and metres each SALE movement posted"
  (`sales-invoices/sales-invoices.controller.ts:843`), all SALE movements of the invoice at every cancellation. Two
  handlers that both read a draft confirm it, two that both read it confirmed cancel it: four commits, each
  cancellation deletes one of the two statement rows, and twice the boards that were sold come back.

- Posting. The guard locks treasuries in order ("Deadlocks are avoided by acquiring the locks in a
  deterministic sorted order", `posting/treasury-guard.service.ts:29`), but the lines share them in
  the order of the entry: two opposite posts may deadlock, one is rolled back, and `Terminates`
  holds only because the detector runs.
- Purchases and sales. Purchases lock variants before rows (`purchase-invoices.controller.ts:459`,
  "Sorted order avoids deadlocks"); a sale holds its row when its movement shares the variant. The
  two can deadlock; in `InventoryTransfers` that is one of the two orders `DisciplineNeverDeadlocks` leaves.
- Inventory transfers. "Posted transfers are immutable" (migration `20260805120000`, line 186): the
  trigger stops deletion; an update that read a draft still replaces the lines of a posted transfer,
  at cost 0, after which its cancellation is blocked. An edit locks the lines before the document
  (`inventory-transfers.service.ts:629`), a posting the other way round (`:1250`): the two can deadlock, and an edit is
  not retried.
- Returns. Inventory account and average part when the last board leaves (the average becomes 0, a
  residual stays in the journal), when a legacy return without cost is cancelled after a purchase, when a purchase is
  cancelled (the average is left), and for a sale priced at an average that is stale at its commit.
  Two confirmations of one return of an invoice that both read a draft both restock; the
  cancellation of a sale does not look at confirmed returns and restocks their boards again; the
  residual of a tiny amount over four or more boards can be negative; a draft may be edited under a
  confirmation.
- Treasuries and vouchers. An opening balance that was reversed and is entered again with the same date
  and amount finds the old key and posts nothing (`treasuries.service.ts:367`); the rule that only an
  empty treasury is deactivated reads without a lock (`:314`), and neither voucher posting nor a
  reversal looks at activity; an inactive treasury can be made the default; an update that was
  overtaken can leave a branch without one; an update of a transfer does not check the branches;
  allocations outlive a cancelled invoice (`receipt-vouchers.service.ts:91`) and may exceed the total of a revised one,
  which its owner is warned of (`invoice-revisions/sales-invoice-revision.service.ts:623`); an entry reversed from
  the journal leaves its document confirmed.
- Revisions. A purchase revision calculates before it locks its variants and then compares metres
  only: two revisions that change prices alone overwrite each other's average, although the
  fingerprint "goes stale the moment ANY input moves" (`revision-fingerprint.ts:3`). The movements of
  a revision that changed a quantity are classified as quantities without value, so a later revision
  of the same invoice is refused (`replay_quantity_mismatch`) and one of another invoice counts the
  difference as shrinkage. A pool that would have been empty in between loses its rate, and
  the revision of a receipt of goods that cost nothing may lose what the pool was worth before it (section 4). New lines of
  a revised sale are costed at an average read before the lock.

## 6. Not modelled, and why

Existence checks of branches, variants, customers and accounts, and the leaf/active/party checks of
the posting engine: refusals without effect on anything else. Decimal scale: amounts are integers
in the smallest unit, except where rounding is the question (`Costing`). The link of a new sales
invoice to its order (checked before the transaction, written in it). Revisions in `SalesInvoices`, as said in section 2. In
`Returns` the guard of `CancelInvoice` is a status where the code has only the row of the customer's statement
that must still be there: for a sale confirmed twice the guard is stronger than the code, whose second
cancellation `SalesInvoices` has. In `InventoryTransfers` the foreign keys by which the new lines of a draft share
their variants, in the order of the lines, and trades of several rows: more deadlocks, which `Abort` stands for.

- Factory ledger. Its entries are recomputed by one statement in the transaction that changes them;
  what there is of protocol is the lock of the supplier, taken in share mode by the foreign key of the insert and
  then exclusively by the recomputation (`recompute.sql.ts:38`), on which two entries of one supplier
  deadlock, and a total read before it (`entries.controller.ts:155`). Its journal entry is the
  `direct` request of `Posting`.
- Expenses. Posted under one key and cancelled by a reversal, as in `Posting`; an edit may change the
  amount of an expense whose entry is posted (`expenses.controller.ts:301`).
- Idempotency middleware. As written it stores nothing: the insertion is a query that nobody awaits,
  which Prisma never runs. A retry is a new request, which is what the clients of every module send.
- Fixed assets, manual journal and templates, customer collections: their entries are requests of
  `Posting`; their own state is plain data.
- Several lines per invoice in `SalesInvoices`, `Returns` and `InvoiceRevisions`; dimensions of cut
  lines in returns; of revisions: previews and their fingerprint, purchase returns, the change of supplier, customer or branch,
  linked vouchers, the search for an open period.
- Catalogue and master data, configuration by date, accounts, authentication, audit wording, PDFs,
  reports, import and the web client: no protocol, nothing for a model checker. They are the larger part
  of the repository's lines, which is why the map covers the API's writing handlers and little else.

## 7. How the project grew, and what is left

Each component was modelled with its abstract specification or history variables, then run, then
proved about: inventory engine, orders, posting, sales invoices; then transfers, returns and
costing, cash, revisions. Left, in this order: `FactoryLedger` with its supplier lock;
refinements of `Returns` and `InvoiceRevisions` to a common abstract valuation; several lines per
invoice in a replay. Runs stay few: one passing run per component, and violation runs only for documented
promises the code breaks.
