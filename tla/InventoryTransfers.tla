-------------------------- MODULE InventoryTransfers --------------------------
(***************************************************************************)
(* Transfers of stock between branches (modules/inventory-transfers), next *)
(* to the transactions that trade the same stock.                          *)
(*                                                                         *)
(* A user looks at a preview, which writes nothing, and sends its          *)
(* fingerprint back as an approval, any number of times and any time       *)
(* later.  A confirmation or a cancellation is one transaction: it locks   *)
(* the document, then variants in order, then balance rows in order, reads *)
(* the preview again under those locks and posts only if it still equals   *)
(* the approval.  Drafts are edited and deleted by handlers that check the *)
(* status BEFORE their transaction.                                        *)
(*                                                                         *)
(* Stock is counted in boards; metres follow at the variant's size and are *)
(* moved and checked next to them.  Refusals the model has no state for    *)
(* (an inactive branch or variant, a time-out) are the choice Abort; so is *)
(* what comes of two orders of locks that have no step here: the variants  *)
(* that the new lines of a draft share, through their foreign key and in   *)
(* the order of the lines, and trades of several rows.                     *)
(***************************************************************************)
EXTENDS Integers, FiniteSets, FiniteSetsExt, Functions

CONSTANTS
    Handlers,        \* concurrent request handlers
    Transfers,       \* transfer ids
    Branches,        \* branch ids, ordered
    Variants,        \* variant ids, ordered
    Bodies,          \* what a draft may say: source, destination, boards
    Keys,            \* idempotency keys of clients
    NoKey,           \* no key yet
    NoOne,           \* owner of a free lock
    Costs,           \* average costs a purchase may lead to
    Opening,         \* stock on hand at the start
    OpeningCost,     \* and its average cost
    Trades,          \* trades: by the engine alone or with costing, boards of a row
    MaxTries,        \* maxAttempts of withDeadlockRetry
    MaxStock,        \* bound: boards on hand of a row after a trade
    MaxPreviews,     \* bound: previews taken in a behaviour
    MaxRequests      \* bound: requests started in a behaviour

Rows == Branches \X Variants
Body == [from : Branches, to : Branches, boards : [Variants -> Nat]]
Trade == [op : {"engine", "costing"}, row : Rows, boards : Int]

ASSUME TransferAssumption ==
    /\ Branches \subseteq Nat /\ Variants \subseteq Nat
    /\ IsFiniteSet(Branches) /\ IsFiniteSet(Variants)
    /\ Bodies \subseteq Body /\ Bodies # {}
    /\ \A d \in Bodies : d.from # d.to /\ \E v \in Variants : d.boards[v] > 0
    /\ NoKey \notin Keys /\ NoOne \notin Handlers
    /\ Costs \subseteq Nat /\ Trades \subseteq Trade
    /\ Opening \in [Rows -> Nat] /\ OpeningCost \in [Variants -> Nat]
    /\ MaxTries \in Nat \ {0} /\ MaxStock \in Nat
    /\ MaxPreviews \in Nat /\ MaxRequests \in Nat

VARIABLES
    stock,           \* branch_inventory_balances
    wac,             \* avg_cost_per_meter of each variant
    transfer,        \* inventory_transfers with their lines
    posted,          \* movements under "inventory_transfer", summed by row
    returned,        \* movements under "inventory_transfer_cancel"
    approvals,       \* fingerprints users hold
    previews,        \* previews taken so far
    docLock,         \* holder of each transfer row
    lineLock,        \* holder of the line rows of each transfer
    variantLock,     \* holder of each variant FOR UPDATE
    variantShare,    \* transactions that share a variant FOR KEY SHARE
    rowLock,         \* holder of each balance row
    pc,              \* where each handler is
    job,             \* the request it serves and what it read
    started          \* requests started so far

committed == <<stock, wac, transfer, posted, returned>>
locks     == <<docLock, lineLock, variantLock, variantShare, rowLock>>
vars      == <<committed, approvals, previews, locks, pc, job, started>>

Nothing == [r \in Rows |-> 0]
Free    == [v \in Variants |-> 0]
Idle    == [op |-> "idle"]

NoTransfer == [status |-> "NONE", body |-> CHOOSE d \in Bodies : TRUE, cost |-> Free,
               version |-> 1, confirmKey |-> NoKey, cancelKey |-> NoKey]

Lines(body) == {v \in Variants : body.boards[v] > 0}

(* A cancellation runs in the opposite direction.                          *)
Direction(op, body) ==
    IF op = "cancel" THEN [body EXCEPT !.from = body.to, !.to = body.from] ELSE body

-----------------------------------------------------------------------------
(* The preview: what a posting would move, at which cost, out of what.     *)

(* Slip: a cancellation values the goods at today's average cost.          *)
CostToday(op, t, v) == wac[v]

(* A confirmation takes the average cost, a cancellation the cost the      *)
(* lines have kept since they were confirmed.                              *)
CostOf(op, t, v) == IF op = "cancel" THEN transfer[t].cost[v] ELSE wac[v]

Preview(op, t) ==
    LET body == Direction(op, transfer[t].body)
    IN  [op |-> op, transfer |-> t, version |-> transfer[t].version, body |-> body,
         cost  |-> [v \in Lines(body) |-> CostOf(op, t, v)],
         stock |-> [r \in {body.from, body.to} \X Lines(body) |-> stock[r]]]

(* insufficient_source_stock, WAC_UNAVAILABLE.                             *)
Blocking(p) ==
    \E v \in DOMAIN p.cost :
        \/ p.stock[<<p.body.from, v>>] < p.body.boards[v]
        \/ (p.cost[v] = 0 /\ p.stock[<<p.body.from, v>>] > 0)

(* Slip: any fingerprint is accepted for the version it names.             *)
UsableAnyway(p, approval) == ~Blocking(p)

Usable(p, approval) == ~Blocking(p) /\ p = approval

(* postPair: every line adds to its destination, then takes from its       *)
(* source.                                                                 *)
Pair(body) ==
    [r \in Rows |-> IF r[1] = body.to THEN body.boards[r[2]]
                    ELSE IF r[1] = body.from THEN -body.boards[r[2]] ELSE 0]

Plus(s, d) == [r \in Rows |-> s[r] + d[r]]

(* The company's boards of a variant, over all its branches.               *)
CompanyBoards(s, v) == SumFunction([b \in Branches |-> s[<<b, v>>]])

-----------------------------------------------------------------------------

Init ==
    /\ stock        = Opening
    /\ wac          = OpeningCost
    /\ transfer     = [t \in Transfers |-> NoTransfer]
    /\ posted       = [t \in Transfers |-> Nothing]
    /\ returned     = [t \in Transfers |-> Nothing]
    /\ approvals    = {}
    /\ previews     = 0
    /\ docLock      = [t \in Transfers |-> NoOne]
    /\ lineLock     = [t \in Transfers |-> NoOne]
    /\ variantLock  = [v \in Variants |-> NoOne]
    /\ variantShare = [v \in Variants |-> {}]
    /\ rowLock      = [r \in Rows |-> NoOne]
    /\ pc           = [c \in Handlers |-> "idle"]
    /\ job          = [c \in Handlers |-> Idle]
    /\ started      = 0

Create(t) ==
    /\ transfer[t].status = "NONE"
    /\ \E d \in Bodies :
         transfer' = [transfer EXCEPT ![t] = [NoTransfer EXCEPT !.status = "DRAFT", !.body = d]]
    /\ UNCHANGED <<stock, wac, posted, returned, approvals, previews, locks, pc, job, started>>

(* previewConfirm, previewCancel: nothing is written.                      *)
TakePreview(op, t) ==
    /\ previews < MaxPreviews
    /\ transfer[t].status = IF op = "cancel" THEN "CONFIRMED" ELSE "DRAFT"
    /\ approvals' = approvals \cup {Preview(op, t)}
    /\ previews' = previews + 1
    /\ UNCHANGED <<committed, locks, pc, job, started>>

Start(c, where, request) ==
    /\ pc[c] = "idle"
    /\ started < MaxRequests
    /\ started' = started + 1
    /\ pc'  = [pc EXCEPT ![c] = where]
    /\ job' = [job EXCEPT ![c] = request]
    /\ UNCHANGED <<committed, approvals, previews, locks>>

Goto(c, where) == pc' = [pc EXCEPT ![c] = where]

Release(c) ==
    /\ docLock'      = [t \in Transfers |-> IF docLock[t] = c THEN NoOne ELSE docLock[t]]
    /\ lineLock'     = [t \in Transfers |-> IF lineLock[t] = c THEN NoOne ELSE lineLock[t]]
    /\ variantLock'  = [v \in Variants |-> IF variantLock[v] = c THEN NoOne ELSE variantLock[v]]
    /\ variantShare' = [v \in Variants |-> variantShare[v] \ {c}]
    /\ rowLock'      = [r \in Rows |-> IF rowLock[r] = c THEN NoOne ELSE rowLock[r]]

End(c) ==
    /\ Release(c)
    /\ pc'  = [pc EXCEPT ![c] = "idle"]
    /\ job' = [job EXCEPT ![c] = Idle]
    /\ UNCHANGED <<approvals, previews, started>>

Rollback(c) == End(c) /\ UNCHANGED committed

-----------------------------------------------------------------------------
(* Editing and deleting a draft.  The status and the version are those of  *)
(* the read before the transaction.  An edit deletes the lines, then       *)
(* writes the document; a deletion and a posting take the document, then   *)
(* its lines, so that an edit can deadlock with either.  Two edits that    *)
(* meet half way collide on the line index, which is Abort here.           *)

ReadForUpdate(c, t) ==
    /\ transfer[t].status = "DRAFT"
    /\ Start(c, "edit", [op |-> "update", transfer |-> t])

ReadForDelete(c, t) ==
    /\ transfer[t].status = "DRAFT"
    /\ Start(c, "delete", [op |-> "delete", transfer |-> t])

(* deleteMany: the lines are locked, the document is not.                  *)
DeleteLines(c) ==
    LET t == job[c].transfer
    IN  /\ pc[c] = "edit"
        /\ lineLock[t] = NoOne
        /\ transfer[t].status # "DELETED"
        /\ lineLock' = [lineLock EXCEPT ![t] = c]
        /\ Goto(c, "document")
        /\ UNCHANGED <<committed, approvals, previews, docLock, variantLock, variantShare,
                       rowLock, job, started>>

(* New lines replace whatever lines there are, at no cost.                 *)
Update(c) ==
    LET t == job[c].transfer
    IN  /\ pc[c] = "document"
        /\ docLock[t] = NoOne
        /\ \E d \in Bodies :
             transfer' = [transfer EXCEPT ![t].body = d, ![t].cost = Free, ![t].version = @ + 1]
        /\ End(c)
        /\ UNCHANGED <<stock, wac, posted, returned>>

(* Slip: without the trigger a posted transfer can be deleted.             *)
DeletableAnyway(t) == transfer[t].status # "DELETED"

(* The trigger inventory_transfer_no_delete_posted.                        *)
Deletable(t) == transfer[t].status = "DRAFT"

(* The trigger looks at the document once it is locked.                    *)
LockForDelete(c) ==
    LET t == job[c].transfer
    IN  /\ pc[c] = "delete"
        /\ docLock[t] = NoOne
        /\ Deletable(t)
        /\ docLock' = [docLock EXCEPT ![t] = c]
        /\ Goto(c, "cascade")
        /\ UNCHANGED <<committed, approvals, previews, lineLock, variantLock, variantShare,
                       rowLock, job, started>>

(* ON DELETE CASCADE: the lines go with the document.                      *)
Delete(c) ==
    LET t == job[c].transfer
    IN  /\ pc[c] = "cascade"
        /\ lineLock[t] = NoOne
        /\ transfer' = [transfer EXCEPT ![t].status = "DELETED"]
        /\ End(c)
        /\ UNCHANGED <<stock, wac, posted, returned>>

NothingToWrite(c) ==
    LET t == job[c].transfer
    IN  /\ \/ pc[c] = "edit" /\ transfer[t].status = "DELETED"
           \/ pc[c] = "delete" /\ docLock[t] = NoOne /\ ~Deletable(t)
        /\ Rollback(c)

-----------------------------------------------------------------------------
(* Confirmation and cancellation.                                          *)

KeyOf(op, t) == IF op = "cancel" THEN transfer[t].cancelKey ELSE transfer[t].confirmKey

KeyUsed(op, k) == \E t \in Transfers : KeyOf(op, t) = k

(* A request whose key has committed is answered from the document it      *)
(* committed.                                                              *)
ReadForPosting(c, a, k) ==
    /\ ~KeyUsed(a.op, k)
    /\ Start(c, "begin", [op |-> a.op, transfer |-> a.transfer, approval |-> a, key |-> k,
                          try |-> 1])

Postable(op, t, version) ==
    /\ transfer[t].status = IF op = "cancel" THEN "CONFIRMED" ELSE "DRAFT"
    /\ transfer[t].version = version

LockDocument(c) ==
    LET t == job[c].transfer
    IN  /\ pc[c] = "begin"
        /\ docLock[t] = NoOne
        /\ IF ~KeyUsed(job[c].op, job[c].key) /\ Postable(job[c].op, t, job[c].approval.version)
           THEN /\ docLock' = [docLock EXCEPT ![t] = c]
                /\ Goto(c, "variants")
                /\ UNCHANGED <<committed, approvals, previews, lineLock, variantLock,
                               variantShare, rowLock, job, started>>
           ELSE Rollback(c)

(* Slip: variants are locked as the lines come.                            *)
NextVariantOfLines(c, needed) ==
    LET free == {v \in needed : variantLock[v] # c}
    IN  IF job[c].approval.body.from < job[c].approval.body.to THEN Min(free) ELSE Max(free)

NextVariant(c, needed) == Min({v \in needed : variantLock[v] # c})

Before(r, s) == r[1] < s[1] \/ (r[1] = s[1] /\ r[2] < s[2])

NextRow(c, needed) ==
    CHOOSE r \in needed : /\ rowLock[r] # c
                          /\ \A s \in needed : rowLock[s] # c => (r = s \/ Before(r, s))

(* Lines and rows a posting locks: those of the document it has locked.    *)
DocLines(c) == Lines(transfer[job[c].transfer].body)
DocRows(c)  == LET body == transfer[job[c].transfer].body
               IN  {body.from, body.to} \X Lines(body)

(* Slip: the variant is read without FOR UPDATE.                           *)
VariantFreeAnyway(c, v) == TRUE

VariantFree(c, v) == variantLock[v] \in {c, NoOne} /\ variantShare[v] \subseteq {c}

LockVariant(c) ==
    LET v == NextVariant(c, DocLines(c))
    IN  /\ pc[c] = "variants"
        /\ VariantFree(c, v)
        /\ variantLock' = [variantLock EXCEPT ![v] = c]
        /\ Goto(c, IF \A w \in DocLines(c) \ {v} : variantLock[w] = c THEN "rows" ELSE "variants")
        /\ UNCHANGED <<committed, approvals, previews, docLock, lineLock, variantShare, rowLock,
                       job, started>>

LockRow(c) ==
    LET r == NextRow(c, DocRows(c))
    IN  /\ pc[c] = "rows"
        /\ rowLock[r] = NoOne
        /\ rowLock' = [rowLock EXCEPT ![r] = c]
        /\ Goto(c, IF \A s \in DocRows(c) \ {r} : rowLock[s] = c THEN "check" ELSE "rows")
        /\ UNCHANGED <<committed, approvals, previews, docLock, lineLock, variantLock, variantShare,
                       job, started>>

(* The preview again, now under the locks, with the company's boards the   *)
(* posting must leave as they are.                                         *)
Check(c) ==
    LET p == Preview(job[c].op, job[c].transfer)
    IN  /\ pc[c] = "check"
        /\ IF Usable(p, job[c].approval)
           THEN /\ Goto(c, "post")
                /\ job' = [job EXCEPT ![c] =
                             [op |-> @.op, transfer |-> @.transfer, approval |-> @.approval,
                              key |-> @.key, try |-> @.try,
                              company |-> [v \in DOMAIN p.cost |-> CompanyBoards(stock, v)]]]
                /\ UNCHANGED <<committed, approvals, previews, locks, started>>
           ELSE Rollback(c)

(* assertConservation, on the stock that is about to be committed.         *)
Conserved(c) ==
    \A v \in DocLines(c) :
        /\ CompanyBoards(Plus(stock, Pair(job[c].approval.body)), v) = job[c].company[v]
        /\ job[c].op = "confirm" => wac[v] = job[c].approval.cost[v]

(* The lines get their cost and their movements, the document its status.  *)
Post(c) ==
    LET t    == job[c].transfer
        op   == job[c].op
        pair == Pair(job[c].approval.body)
    IN  /\ pc[c] = "post"
        /\ lineLock[t] = NoOne
        /\ IF ~KeyUsed(op, job[c].key) /\ Conserved(c)
           THEN /\ stock' = Plus(stock, pair)
                /\ IF op = "confirm"
                   THEN /\ transfer' = [transfer EXCEPT ![t].status = "CONFIRMED",
                                          ![t].cost = [v \in Variants |->
                                             IF v \in DocLines(c) THEN wac[v] ELSE 0],
                                          ![t].version = @ + 1,
                                          ![t].confirmKey = job[c].key]
                        /\ posted' = [posted EXCEPT ![t] = Plus(@, pair)]
                        /\ UNCHANGED returned
                   ELSE /\ transfer' = [transfer EXCEPT ![t].status = "CANCELLED",
                                          ![t].version = @ + 1,
                                          ![t].cancelKey = job[c].key]
                        /\ returned' = [returned EXCEPT ![t] = Plus(@, pair)]
                        /\ UNCHANGED posted
                /\ UNCHANGED wac
                /\ End(c)
           ELSE Rollback(c)

-----------------------------------------------------------------------------
(* Trades.  The engine alone (a receipt, a sale, a count) locks a balance  *)
(* row and shares the variant when its movement is inserted; a purchase or *)
(* a return locks the variant first and may move its average cost.         *)

StartTrade(c) ==
    \E m \in Trades : Start(c, IF m.op = "engine" THEN "row" ELSE "variant", m)

TradeVariant(c) ==
    LET v == job[c].row[2]
    IN  /\ pc[c] = "variant"
        /\ VariantFree(c, v)
        /\ variantLock' = [variantLock EXCEPT ![v] = c]
        /\ Goto(c, "row")
        /\ UNCHANGED <<committed, approvals, previews, docLock, lineLock, variantShare, rowLock,
                       job, started>>

TradeRow(c) ==
    /\ pc[c] = "row"
    /\ rowLock[job[c].row] = NoOne
    /\ rowLock' = [rowLock EXCEPT ![job[c].row] = c]
    /\ Goto(c, "share")
    /\ UNCHANGED <<committed, approvals, previews, docLock, lineLock, variantLock, variantShare,
                       job, started>>

Shareable(c, v) == variantLock[v] \in {c, NoOne}

TradeShare(c) ==
    LET v == job[c].row[2]
    IN  /\ pc[c] = "share"
        /\ Shareable(c, v)
        /\ variantShare' = [variantShare EXCEPT ![v] = @ \cup {c}]
        /\ Goto(c, "done")
        /\ UNCHANGED <<committed, approvals, previews, docLock, lineLock, variantLock, rowLock,
                       job, started>>

(* Slip: the engine no longer refuses a negative balance.                  *)
AffordableAnyway(n) == n <= MaxStock

Affordable(n) == 0 <= n /\ n <= MaxStock

TradeCommit(c) ==
    LET r == job[c].row
        n == stock[r] + job[c].boards
    IN  /\ pc[c] = "done"
        /\ Affordable(n)
        /\ stock' = [stock EXCEPT ![r] = n]
        /\ IF job[c].op = "costing" THEN \E w \in Costs : wac' = [wac EXCEPT ![r[2]] = w]
                                    ELSE UNCHANGED wac
        /\ End(c)
        /\ UNCHANGED <<transfer, posted, returned>>

TradeRefused(c) ==
    /\ pc[c] = "done"
    /\ ~Affordable(stock[job[c].row] + job[c].boards)
    /\ Rollback(c)

-----------------------------------------------------------------------------
(* Waiting, deadlock and retry.                                            *)

Posting(c) == job[c].op \in {"confirm", "cancel"}

(* The handlers c waits for.                                               *)
WaitsFor(c) ==
    CASE pc[c] \in {"begin", "document", "delete"} -> {docLock[job[c].transfer]} \ {NoOne}
      [] pc[c] \in {"edit", "cascade", "post"} -> {lineLock[job[c].transfer]} \ {NoOne}
      [] pc[c] \in {"variants", "variant"} ->
           LET v == IF pc[c] = "variant" THEN job[c].row[2] ELSE NextVariant(c, DocLines(c))
           IN  ({variantLock[v]} \cup variantShare[v]) \ {c, NoOne}
      [] pc[c] = "rows"  -> {rowLock[NextRow(c, DocRows(c))]} \ {NoOne}
      [] pc[c] = "row"   -> {rowLock[job[c].row]} \ {NoOne}
      [] pc[c] = "share" -> {variantLock[job[c].row[2]]} \ {c, NoOne}
      [] OTHER -> {}

(* S is a set of handlers each of which waits for another of them and is   *)
(* waited for by another.                                                  *)
Cycle(S) == \A c \in S : (\E d \in S : d \in WaitsFor(c)) /\ (\E d \in S : c \in WaitsFor(d))

(* Slip: nobody looks for waits-for cycles.                                *)
NeverInCycle(c) == FALSE

InCycle(c) == \E S \in SUBSET Handlers : c \in S /\ Cycle(S)

Again(request) ==
    [op |-> request.op, transfer |-> request.transfer, approval |-> request.approval,
     key |-> request.key, try |-> request.try + 1]

(* The database ends one of a cycle; a posting is run again from its start,*)
(* MaxTries times at most.                                                 *)
DeadlockVictim(c) ==
    /\ InCycle(c)
    /\ IF Posting(c) /\ job[c].try < MaxTries
       THEN /\ Release(c)
            /\ Goto(c, "begin")
            /\ job' = [job EXCEPT ![c] = Again(job[c])]
            /\ UNCHANGED <<committed, approvals, previews, started>>
       ELSE Rollback(c)

Abort(c) == pc[c] # "idle" /\ Rollback(c)

Step(c) == Update(c) \/ Delete(c) \/ NothingToWrite(c) \/ Check(c) \/ Post(c)
           \/ TradeCommit(c) \/ TradeRefused(c)

Lock(c) == DeleteLines(c) \/ LockForDelete(c) \/ LockDocument(c) \/ LockVariant(c) \/ LockRow(c)
           \/ TradeVariant(c) \/ TradeRow(c) \/ TradeShare(c)

Next ==
    \/ \E t \in Transfers : Create(t)
    \/ \E t \in Transfers, op \in {"confirm", "cancel"} : TakePreview(op, t)
    \/ \E c \in Handlers :
         \/ \E t \in Transfers : ReadForUpdate(c, t) \/ ReadForDelete(c, t)
         \/ \E a \in approvals, k \in Keys : ReadForPosting(c, a, k)
         \/ StartTrade(c) \/ Step(c) \/ Lock(c) \/ DeadlockVictim(c) \/ Abort(c)

(* A handler that waits for nobody goes on, the database grants a freed    *)
(* lock to its waiters in turn and breaks deadlocks.                       *)
Fairness == \A c \in Handlers : SF_vars(Step(c) \/ Lock(c) \/ DeadlockVictim(c))

Spec == Init /\ [][Next]_vars /\ Fairness

-----------------------------------------------------------------------------
(* Correctness.                                                            *)

Request ==
    [op : {"update", "delete"}, transfer : Transfers] \cup Trades

Document == [status : {"NONE", "DRAFT", "CONFIRMED", "CANCELLED", "DELETED"}, body : Bodies,
             cost : [Variants -> Nat], version : Nat, confirmKey : Keys \cup {NoKey},
             cancelKey : Keys \cup {NoKey}]

(* Every variable has its type, and a handler is at a place its request    *)
(* has (the handlers of inventory-transfers.service.ts and their locks).   *)
TypeOK ==
    /\ stock \in [Rows -> Nat]
    /\ wac \in [Variants -> Nat]
    /\ transfer \in [Transfers -> Document]
    /\ posted \in [Transfers -> [Rows -> Int]]
    /\ returned \in [Transfers -> [Rows -> Int]]
    /\ previews \in Nat /\ started \in Nat
    /\ docLock \in [Transfers -> Handlers \cup {NoOne}]
    /\ lineLock \in [Transfers -> Handlers \cup {NoOne}]
    /\ variantLock \in [Variants -> Handlers \cup {NoOne}]
    /\ variantShare \in [Variants -> SUBSET Handlers]
    /\ rowLock \in [Rows -> Handlers \cup {NoOne}]
    /\ \A c \in Handlers :
         \/ pc[c] = "idle" /\ job[c] = Idle
         \/ pc[c] \in {"edit", "document", "delete", "cascade", "variant", "row", "share", "done"}
            /\ job[c] \in Request
         \/ pc[c] \in {"begin", "variants", "rows", "check", "post"}
            /\ job[c].op \in {"confirm", "cancel"} /\ job[c].transfer \in Transfers

(* What a posting is about to write is exactly what its user approved: the *)
(* document, the stock of both branches and the cost are still those of    *)
(* the preview, nothing blocks it, and no other transaction can come in    *)
(* between ("a stale approval cannot post").                               *)
ApprovalStands ==
    \A c \in Handlers : pc[c] = "post" =>
        LET p == Preview(job[c].op, job[c].transfer)
        IN  p = job[c].approval /\ ~Blocking(p)

(* assertConservation never fails: no trade of any branch, not even of one *)
(* the posting has not locked, commits between its preview and its commit. *)
ConservationHolds == \A c \in Handlers : pc[c] = "post" => Conserved(c)

(* Postings never deadlock with each other, with deletions of drafts or    *)
(* with purchases (the lock discipline the whole feature rests on): every  *)
(* cycle goes through a transaction that locks in another order, which is  *)
(* one of the engine, row before variant, or an edit, lines before         *)
(* document.  So much for the locks this module has.                       *)
DisciplineNeverDeadlocks ==
    \A S \in SUBSET Handlers : S # {} /\ Cycle(S) => \E c \in S : job[c].op \in {"engine", "update"}

(* A document moves its goods once and takes exactly those goods back,     *)
(* once; nothing but trade changes the company's stock or its cost.        *)
Relocation == INSTANCE StockRelocation
              WITH Transfers <- Transfers, Branches <- Branches, Variants <- Variants,
                   status <- [t \in Transfers |-> transfer[t].status],
                   shipped <- posted, returned <- returned, stock <- stock, wac <- wac

Relocates == Relocation!Spec

(* Every request is answered: deadlocks are broken, retries run out.       *)
Answered == \A c \in Handlers : pc[c] # "idle" ~> pc[c] = "idle"

=============================================================================
