----------------------------- MODULE InvoiceRevisions -----------------------------
(***************************************************************************)
(* Revisions of confirmed invoices (modules/invoice-revisions), for one    *)
(* variant in one branch, with a metre to a board, next to what else moves *)
(* its pool: confirmations, returns, counts and cancellations, which are   *)
(* taken as a step each (Returns has their races).                         *)
(*                                                                         *)
(* A revision takes its invoice FOR UPDATE and calculates everything it    *)
(* will do.  Its request names the revision its owner has seen in a        *)
(* preview, which must be the current one, and a key, which no revision    *)
(* must have.  (The preview itself, and its fingerprint, are left out:     *)
(* what is approved is what is calculated under the lock.)  Then it waits  *)
(* for the variant and commits.  Between the two, others move the pool.    *)
(* Amounts are exact fractions.                                            *)
(***************************************************************************)
EXTENDS ValuationReplay, FiniteSets

CONSTANTS
    Handlers,        \* concurrent revisions
    Purchases,       \* purchase invoices
    Sales,           \* sales invoices
    NoOne,           \* owner of a free invoice
    Receipts,        \* lines of a purchase: metres and what they cost
    Lengths,         \* metres of a sale's line, or of a return
    Keys,            \* idempotency keys of requests
    MaxRevision,     \* bound: revisions of an invoice, its confirmation being the first
    RequestLimit     \* bound: requests in a behaviour

Documents == Purchases \cup Sales

ASSUME RevisionAssumption ==
    /\ Purchases \cap Sales = {} /\ NoOne \notin Handlers \cup Purchases \cup Sales
    /\ Receipts \subseteq (Nat \ {0}) \X Nat /\ Lengths \subseteq Nat \ {0}
    /\ MaxRevision \in Nat \ {0} /\ RequestLimit \in Nat

VARIABLES
    stock,           \* metres on hand
    average,         \* avg_cost_per_meter
    movements,       \* inventory_movements, oldest first
    document,        \* invoices with their line
    entries,         \* entries of every revision that are about inventory
    ledger,          \* balance of the inventory account
    revisions,       \* purchase_invoice_revisions and sales_invoice_revisions
    lock,            \* holder of each invoice FOR UPDATE
    job,             \* what each handler has calculated
    requests         \* requests so far

pool == <<stock, average, movements>>
book == <<entries, ledger>>
revisionVars == <<pool, document, book, revisions, lock, job, requests>>

NoJob      == [of |-> NoOne]
NoDocument == [status |-> "NONE", meters |-> 0, worth |-> Nothing, revision |-> 1, returned |-> 0]
NoEntry   == [status |-> "NONE", amount |-> Nothing]

RevisionInit ==
    /\ stock     = 0
    /\ average   = Nothing
    /\ movements = <<>>
    /\ document  = [d \in Documents |-> NoDocument]
    /\ entries   = [d \in Documents |-> [r \in 1..MaxRevision |-> NoEntry]]
    /\ ledger    = Nothing
    /\ revisions = {}
    /\ lock      = [d \in Documents |-> NoOne]
    /\ job       = [c \in Handlers |-> NoJob]
    /\ requests  = 0

Present       == [meters |-> stock, value |-> average ** stock]
Inward(d)     == IF d \in Purchases THEN 1 ELSE -1
UnitCost(row) == row.worth // row.meters

(* The engine: a movement for the invoice d, with the value that is known  *)
(* of it, and never less than nothing on hand.                             *)
Movement(kind, d, meters, value) == [kind |-> kind, of |-> d, meters |-> meters, value |-> value]

Moved(meters, m) == meters + m.meters

Move(moves) ==
    /\ stock' = FoldLeft(Moved, stock, moves)
    /\ stock' >= 0
    /\ movements' = movements \o moves

(* The average after value has come or gone; nothing on hand has none.     *)
Reprice(value) == average' = Rate([meters |-> stock', value |-> value])

(* What the entries of an invoice's revision add to the inventory account: *)
(* by its lines, and as long as they have not been reversed.               *)
Amount(d, row) == row.worth ** Inward(d)
InForce(d, r) == IF entries[d][r].status = "POSTED" THEN entries[d][r].amount ELSE Nothing

PostEntries(d, row) ==
    /\ entries' = [entries EXCEPT ![d][row.revision] = [status |-> "POSTED", amount |-> Amount(d, row)]]
    /\ ledger'  = ledger ++ Amount(d, row)

(* A request that is a transaction of its own.                             *)
AtOnce ==
    /\ requests < RequestLimit
    /\ requests' = requests + 1
    /\ UNCHANGED <<revisions, lock, job>>

-----------------------------------------------------------------------------

ConfirmPurchase(d) ==
    /\ document[d].status = "NONE"
    /\ \E line \in Receipts :
         LET row == [NoDocument EXCEPT !.status = "CONFIRMED",
                                       !.meters = line[1], !.worth = Whole(line[2])]
         IN  /\ Move(<<Movement("receipt", d, row.meters, Nothing)>>)
             /\ Reprice(Present.value ++ row.worth)
             /\ document' = [document EXCEPT ![d] = row]
             /\ PostEntries(d, row)
    /\ AtOnce

(* A sale leaves at the average, which stays.                              *)
ConfirmSale(d) ==
    /\ document[d].status = "NONE"
    /\ \E m \in Lengths :
         LET row == [NoDocument EXCEPT !.status = "CONFIRMED", !.meters = m, !.worth = average ** m]
         IN  /\ Move(<<Movement("sale", d, -m, Nothing)>>)
             /\ document' = [document EXCEPT ![d] = row]
             /\ PostEntries(d, row)
    /\ UNCHANGED average
    /\ AtOnce

(* Goods of a sale come back at the cost they left at; under its lock.     *)
ReturnSale(d, m) ==
    /\ lock[d] = NoOne
    /\ document[d].status = "CONFIRMED"
    /\ document[d].returned + m <= document[d].meters
    /\ LET value == UnitCost(document[d]) ** m
       IN  /\ Move(<<Movement("sale_return", d, m, value)>>)
           /\ Reprice(Present.value ++ value)
           /\ ledger' = ledger ++ value
    /\ document' = [document EXCEPT ![d].returned = @ + m]
    /\ UNCHANGED entries
    /\ AtOnce

(* A count changes what is on hand and neither average nor journal.        *)
Count(difference) ==
    /\ Move(<<Movement("count", NoOne, difference, Nothing)>>)
    /\ UNCHANGED <<average, document, book>>
    /\ AtOnce

(* Both cancellations reverse the entries of the confirmation and take     *)
(* back the movements of the confirmation, and leave the average.          *)
Cancel(d) ==
    /\ lock[d] = NoOne
    /\ document[d].status = "CONFIRMED"
    /\ LET first == CHOOSE m \in ToSet(movements) : m.of = d /\ m.kind \in {"receipt", "sale"}
       IN  Move(<<Movement("cancellation", d, -first.meters, Nothing)>>)
    /\ ledger'   = ledger -- InForce(d, 1)
    /\ entries'  = [entries EXCEPT ![d][1].status = "REVERSED"]
    /\ document' = [document EXCEPT ![d].status = "CANCELLED"]
    /\ UNCHANGED average
    /\ AtOnce

-----------------------------------------------------------------------------
(* What a replay makes of the movements.                                   *)

(* The value of a receipt is what the lines say now, the rate of a sale    *)
(* what its line has recorded.  Only the movements of a confirmation are   *)
(* known for what they are; those of a revision are quantities.            *)
Classified(m) ==
    LET event(kind, value, rate) == [kind |-> kind, meters |-> m.meters, value |-> value, rate |-> rate]
    IN  CASE m.kind = "receipt"      -> event("RECEIPT", UnitCost(document[m.of]) ** m.meters, NoRate)
          [] m.kind = "sale"         -> event("ISSUE", Nothing, UnitCost(document[m.of]))
          [] m.kind = "revised_sale" -> event("ISSUE", Nothing, NoRate)
          [] m.kind = "sale_return"  -> event("VALUE_IN", m.value, NoRate)
          [] OTHER                   -> event("QUANTITY_ONLY", Nothing, NoRate)

OwnReceipt(d, m) == m.kind = "receipt" /\ m.of = d

(* From the receipt of d on.                                               *)
Window(d) ==
    LET first == CHOOSE i \in DOMAIN movements : OwnReceipt(d, movements[i])
    IN  SubSeq(movements, first, Len(movements))

(* Slip: the other receipt is entered today.                               *)
SubstitutedToday(d, body, window) ==
    Append([i \in 1..(Len(window) - 1) |-> Classified(window[i + 1])],
           [kind |-> "RECEIPT", meters |-> body.meters, value |-> body.worth, rate |-> NoRate])

(* The other receipt takes the place of the one there was.                 *)
Substituted(d, body, window) ==
    [i \in DOMAIN window |->
       IF OwnReceipt(d, window[i])
       THEN [kind |-> "RECEIPT", meters |-> body.meters, value |-> body.worth, rate |-> NoRate]
       ELSE Classified(window[i])]

ForPurchaseRevision(d, body) ==
    Compare(Present, [i \in DOMAIN Window(d) |-> Classified(Window(d)[i])],
            Substituted(d, body, Window(d)))

-----------------------------------------------------------------------------
(* Revisions.                                                              *)

Revised(d, body) ==
    [document[d] EXCEPT !.meters = body.meters, !.worth = body.worth, !.revision = @ + 1]

(* Slip: what has been returned of the invoice is not looked at.           *)
AllowedBelowReturned(d, body) ==
    /\ document[d].status = "CONFIRMED"
    /\ document[d].revision < MaxRevision
    /\ stock + Inward(d) * (body.meters - document[d].meters) >= 0

(* calculate, for both: not less than has been returned, and not more than *)
(* there is to take.                                                       *)
Allowed(d, body) ==
    /\ document[d].status = "CONFIRMED"
    /\ document[d].revision < MaxRevision
    /\ document[d].returned <= body.meters
    /\ stock + Inward(d) * (body.meters - document[d].meters) >= 0

(* Each kind of invoice has a table of revisions, whose keys are unique.   *)
Used(d, key) == \E row \in revisions : row.key = key /\ (row.of \in Sales <=> d \in Sales)

(* Slip: the revision that was seen is not compared with the current one.  *)
NewKey(d, seen, key) == ~Used(d, key)

(* A request that was sent before is answered with the revision its key    *)
(* has made; one that saw another revision is refused.                     *)
Current(d, seen, key) == ~Used(d, key) /\ seen = document[d].revision

Take(c, d, request) ==
    /\ job[c] = NoJob
    /\ lock[d] = NoOne
    /\ requests < RequestLimit
    /\ requests' = requests + 1
    /\ lock' = [lock EXCEPT ![d] = c]
    /\ job'  = [job EXCEPT ![c] = request]
    /\ UNCHANGED <<pool, document, book, revisions>>

StartRevisePurchase(c, d) ==
    \E line \in Receipts :
      LET body == [meters |-> line[1], worth |-> Whole(line[2])]
          comparison == ForPurchaseRevision(d, body)
      IN  /\ Allowed(d, body)
          /\ comparison.established /\ Conserves(comparison)
          /\ \E seen \in 1..MaxRevision, key \in Keys :
               /\ Current(d, seen, key)
               /\ Take(c, d, [of |-> d, body |-> body, seen |-> seen, key |-> key,
                              comparison |-> comparison, read |-> pool])

(* A line that is kept keeps the cost it was posted at; a new one costs    *)
(* the average.                                                            *)
StartReviseSale(c, d) ==
    \E m \in Lengths, kept \in BOOLEAN :
      LET unit == IF kept THEN UnitCost(document[d]) ELSE average
          body == [meters |-> m, worth |-> unit ** m]
      IN  /\ Allowed(d, body)
          /\ kept \/ document[d].returned = 0
          /\ \E seen \in 1..MaxRevision, key \in Keys :
               /\ Current(d, seen, key)
               /\ Take(c, d, [of |-> d, body |-> body, seen |-> seen, key |-> key])

(* Slip: the entry of the confirmation is reversed, whatever is in force.  *)
RepostFirst(d, row, adjustment) ==
    /\ entries' = [entries EXCEPT ![d][1].status = "REVERSED",
                              ![d][row.revision] = [status |-> "POSTED", amount |-> Amount(d, row)]]
    /\ ledger'  = ((ledger -- InForce(d, 1)) ++ Amount(d, row)) ++ adjustment

(* The entries in force are reversed, those of the revision posted, with   *)
(* what a replay says has been issued or counted of the difference.        *)
Repost(d, row, adjustment) ==
    /\ entries' = [entries EXCEPT ![d][document[d].revision].status = "REVERSED",
                              ![d][row.revision] = [status |-> "POSTED", amount |-> Amount(d, row)]]
    /\ ledger'  = ((ledger -- InForce(d, document[d].revision)) ++ Amount(d, row)) ++ adjustment

(* The row of the revision; a key that has been used since aborts it.      *)
Enter(c) ==
    /\ ~Used(job[c].of, job[c].key)
    /\ revisions' = revisions \cup {[of |-> job[c].of, seen |-> job[c].seen, key |-> job[c].key]}

Finish(c) ==
    /\ lock' = [lock EXCEPT ![job[c].of] = NoOne]
    /\ job'  = [job EXCEPT ![c] = NoJob]
    /\ UNCHANGED requests

(* Slip: only what has been sold is taken out of the inventory account.    *)
AdjustmentOfSales(comparison) == Nothing -- comparison.cogsDelta

(* What the replay says has left the pool of the difference: with sales,   *)
(* with counts and with compensations.                                     *)
Adjustment(comparison) == comparison.movedDelta -- comparison.cogsDelta

(* Received before the old receipt is undone.  The average becomes what    *)
(* the replay has come to, if it has come to what is on hand.              *)
RevisePurchase(c) ==
    /\ job[c].of \in Purchases
    /\ LET d == job[c].of
           row == Revised(d, job[c].body)
           comparison == job[c].comparison
       IN  /\ Move(<<Movement("revised_receipt", d, row.meters, Nothing),
                     Movement("undone", d, -document[d].meters, Nothing)>>)
           /\ stock' = comparison.ending.meters
           /\ average' = Rate(comparison.ending)
           /\ Repost(d, row, Adjustment(comparison))
           /\ document' = [document EXCEPT ![d] = row]
    /\ Enter(c)
    /\ Finish(c)

(* The pool is repriced by the difference of what had left it and what     *)
(* leaves it now; it must not be worth less than nothing.                  *)
ReviseSale(c) ==
    /\ job[c].of \in Sales
    /\ LET d == job[c].of
           row == Revised(d, job[c].body)
           value == Present.value ++ (document[d].worth -- row.worth)
       IN  /\ Move(<<Movement("undone", d, document[d].meters, Nothing),
                     Movement("revised_sale", d, -row.meters, Nothing)>>)
           /\ IF row.meters = document[d].meters /\ row.worth = document[d].worth
              THEN UNCHANGED average
              ELSE ~Negative(value) /\ Reprice(value)
           /\ Repost(d, row, Nothing)
           /\ document' = [document EXCEPT ![d] = row]
    /\ Enter(c)
    /\ Finish(c)

GiveUp(c) ==
    /\ job[c] # NoJob
    /\ UNCHANGED <<pool, document, book, revisions>>
    /\ Finish(c)

RevisionNext ==
    \/ \E d \in Purchases : ConfirmPurchase(d)
    \/ \E d \in Sales : ConfirmSale(d) \/ \E m \in Lengths : ReturnSale(d, m)
    \/ \E difference \in {-1, 1} : Count(difference)
    \/ \E d \in Documents : Cancel(d)
    \/ \E c \in Handlers :
         \/ \E d \in Purchases : StartRevisePurchase(c, d)
         \/ \E d \in Sales : StartReviseSale(c, d)
         \/ RevisePurchase(c) \/ ReviseSale(c) \/ GiveUp(c)

RevisionSpec == RevisionInit /\ [][RevisionNext]_revisionVars

-----------------------------------------------------------------------------
(* Correctness.                                                            *)

(* Every variable has its type; what is on hand is the sum of the          *)
(* movements, and no invoice has more returned than it has sold, although  *)
(* a revision may lower its quantity.                                      *)
RevisionTypeOK ==
    /\ stock \in Nat /\ ~Negative(average)
    /\ stock = FoldLeft(Moved, 0, movements)
    /\ \A d \in Documents :
         /\ document[d].status \in {"NONE", "CONFIRMED", "CANCELLED"}
         /\ document[d].revision \in 1..MaxRevision
         /\ document[d].returned \in 0..document[d].meters
         /\ lock[d] # NoOne => job[lock[d]].of = d
    /\ requests \in 0..RequestLimit

(* However often an invoice is revised and by whom, only the entry of its  *)
(* current revision stands, and it is that of the current lines.           *)
EntryInForce ==
    \A d \in Documents : \A r \in 1..MaxRevision :
       IF document[d].status = "CONFIRMED" /\ r = document[d].revision
       THEN entries[d][r] = [status |-> "POSTED", amount |-> Amount(d, document[d])]
       ELSE entries[d][r].status = "POSTED" => document[d].status = "CANCELLED" /\ r = document[d].revision

(* Every revision is one step from the revision its owner had seen: of     *)
(* requests that saw the same one, however many run at once, whatever they *)
(* change and however often they are sent, one posts and no other.         *)
MadeOf(d) == {row \in revisions : row.of = d}

SeenOnce ==
    \A d \in Documents :
       /\ {row.seen : row \in MadeOf(d)} = 1..(document[d].revision - 1)
       /\ \A r, s \in MadeOf(d) : r.seen = s.seen => r = s

(* Revisions of an invoice take turns, each in force until the next one:   *)
(* two that start together, or one that is sent again, do not both post.   *)
RevisedInTurn == SeenOnce /\ EntryInForce

(* purchase-invoices.controller.ts (cancel): a mirror entry nets the entry *)
(* of the invoice to zero.  What a revision has posted since stays.        *)
CancelledLeavesNothing ==
    \A d \in Documents : \A r \in 1..MaxRevision :
       document[d].status = "CANCELLED" => entries[d][r].status # "POSTED"

(* A revision changes the worth of the goods on hand by what it changes    *)
(* the inventory account by, if no one has moved the pool of a purchase    *)
(* since its calculation and something is left on hand.                    *)
Commits(c) == job[c] # NoJob /\ job'[c] = NoJob /\ document' # document

RevisionMovesBoth ==
    [][\A c \in Handlers :
         /\ Commits(c) /\ stock' > 0
         /\ job[c].of \in Purchases => job[c].read = pool
         => (average' ** stock') -- Present.value = ledger' -- ledger]_revisionVars

(* The pool after one movement more, had all receipts always been as in    *)
(* `line`: receipts and returns bring their value, all else moves at the   *)
(* average and leaves it.                                                  *)
Unstocked == [meters |-> 0, rate |-> Nothing, drained |-> FALSE]

StockedAsIf(line, p, m) ==
    LET meters == p.meters + (IF m.kind = "receipt" THEN line[m.of].meters ELSE m.meters)
        inflow == CASE m.kind = "receipt"     -> line[m.of].worth
                    [] m.kind = "sale_return" -> m.value
                    [] OTHER                  -> p.rate ** m.meters
    IN  [meters  |-> meters,
         rate    |-> Rate([meters |-> meters, value |-> (p.rate ** p.meters) ++ inflow]),
         drained |-> p.drained \/ meters <= 0]

AsIf(line) ==
    LET onwards(p, m) == StockedAsIf(line, p, m)
    IN  FoldLeft(onwards, Unstocked, movements)

(* The first revision of all calculates the pool there would be, had its   *)
(* invoice been entered that way at the start, whatever was bought, sold,  *)
(* returned, counted and cancelled since.  Not if that pool would have     *)
(* been empty in between: counts after that come at no rate in a replay.   *)
(* And not of goods that cost nothing: the way back would not notice that  *)
(* a count has emptied the pool, and forget what it was worth.             *)
FirstRevision(c) ==
    /\ job[c].of \in Purchases /\ job[c].read = pool
    /\ \A i \in DOMAIN movements : movements[i].kind \notin {"revised_receipt", "revised_sale"}

RevisedAsIfAlways ==
    \A c \in Handlers :
      FirstRevision(c) /\ document[job[c].of].worth # Nothing
      => LET ending == AsIf([d \in Documents |-> IF d = job[c].of THEN job[c].body ELSE document[d]])
         IN  ~ending.drained =>
               job[c].comparison.ending = [meters |-> ending.meters, value |-> ending.rate ** ending.meters]

=============================================================================
