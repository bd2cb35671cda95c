------------------------------- MODULE Treasuries -------------------------------
(***************************************************************************)
(* Treasuries, their opening balances and the transfers between them       *)
(* (modules/treasuries), with the entries they leave in the journal.       *)
(*                                                                         *)
(* A treasury wraps one account, so a treasury stands for its account too; *)
(* its balance is what the entries that stand say.  A handler that holds a *)
(* document FOR UPDATE from its first statement to its commit is one step  *)
(* when nothing else it reads matters between the two.  Confirming a       *)
(* transfer takes a step per lock; what changes a default or the activity  *)
(* of a treasury takes a step per statement.  Refusals the model has no    *)
(* state for (periods, permissions, deadlocks, time-outs) are Abort.       *)
(***************************************************************************)
EXTENDS Integers, FiniteSets, FiniteSetsExt, Functions

CONSTANTS
    Handlers,        \* concurrent request handlers
    Treasuries,      \* treasury ids, ordered
    Branches,        \* branch ids
    Documents,       \* everything that posts an entry: treasuries, for their
                     \* opening balance, transfers, and whatever else moves cash
    Transfers,       \* transfer ids
    NoOne,           \* owner of a free lock
    Nowhere,         \* branch of a treasury there is not; the other side of an
                     \* entry that is not a transfer
    First,           \* branches of the treasuries there are at the start
    OpeningAmount,   \* what an opening balance brings
    Amounts,         \* amounts of transfers
    MaxRequests      \* bound: requests started in a behaviour

ASSUME TreasuryAssumption ==
    /\ Treasuries \subseteq Nat /\ IsFiniteSet(Treasuries)
    /\ Treasuries \cap Transfers = {}
    /\ Treasuries \cup Transfers \subseteq Documents /\ IsFiniteSet(Documents)
    /\ NoOne \notin Handlers /\ Nowhere \notin Branches \cup Treasuries
    /\ First \in [Treasuries -> Branches \cup {Nowhere}]
    /\ OpeningAmount \in Nat \ {0} /\ Amounts \subseteq Nat \ {0}
    /\ MaxRequests \in Nat

VARIABLES
    treasury,        \* treasuries
    transfer,        \* treasury_transfers
    entry,           \* the entry under the key of each document
    rowLock,         \* holder of each treasury row
    docLock,         \* holder of each document FOR UPDATE
    accountLock,     \* holder of each treasury's account FOR UPDATE
    pc,              \* where each handler is
    job,             \* what it does and what it has read
    raced,           \* history: branches whose treasuries two handlers worked on at once
    started          \* requests started so far

stored       == <<treasury, transfer, entry>>
locks        == <<rowLock, docLock, accountLock>>
treasuryVars == <<stored, locks, pc, job, raced, started>>

NoTransfer == [status |-> "NONE", from |-> Nowhere, to |-> Nowhere, amount |-> 0]
NotPosted  == [status |-> "NONE", from |-> Nowhere, to |-> Nowhere, amount |-> 0]
Idle       == [op |-> "idle"]

Exists(t)        == treasury[t].branch # Nowhere
TreasuriesOf(b)  == {t \in Treasuries : treasury[t].branch = b}
DefaultsOf(b)    == {t \in TreasuriesOf(b) : treasury[t].isDefault}

(* balanceOf: what the entries that stand say of the account.              *)
Effect(e, t) ==
    IF e.status # "POSTED" THEN 0
    ELSE IF e.to = t THEN e.amount
    ELSE IF e.from = t THEN -e.amount
    ELSE 0

BalanceIn(entries, t) == SumFunction([d \in Documents |-> Effect(entries[d], t)])

Balance(t) == BalanceIn(entry, t)

(* Treasuries there are at the start were made by the migration, one of    *)
(* each branch its default.                                                *)
TreasuryInit ==
    /\ treasury = [t \in Treasuries |->
                     [branch |-> First[t], active |-> TRUE, mayGoNegative |-> FALSE,
                      isDefault |-> /\ First[t] # Nowhere
                                    /\ t = CHOOSE u \in Treasuries : First[u] = First[t]]]
    /\ transfer    = [x \in Transfers |-> NoTransfer]
    /\ entry       = [d \in Documents |-> NotPosted]
    /\ rowLock     = [t \in Treasuries |-> NoOne]
    /\ docLock     = [d \in Documents |-> NoOne]
    /\ accountLock = [t \in Treasuries |-> NoOne]
    /\ pc          = [c \in Handlers |-> "idle"]
    /\ job         = [c \in Handlers |-> Idle]
    /\ raced       = {}
    /\ started     = 0

-----------------------------------------------------------------------------

Start(c, where, request) ==
    /\ pc[c] = "idle"
    /\ started < MaxRequests
    /\ started' = started + 1
    /\ pc'  = [pc EXCEPT ![c] = where]
    /\ job' = [job EXCEPT ![c] = request]

Goto(c, where) == pc' = [pc EXCEPT ![c] = where]

(* Slip: locks of the session, which outlive the transaction.              *)
ReleasedLater(lock, c) == lock

Released(lock, c) == [x \in DOMAIN lock |-> IF lock[x] = c THEN NoOne ELSE lock[x]]

End(c) ==
    /\ rowLock'     = Released(rowLock, c)
    /\ docLock'     = Released(docLock, c)
    /\ accountLock' = Released(accountLock, c)
    /\ pc'  = [pc EXCEPT ![c] = "idle"]
    /\ job' = [job EXCEPT ![c] = Idle]
    /\ UNCHANGED <<raced, started>>

Rollback(c) == End(c) /\ UNCHANGED stored

RowFree(c, t)     == rowLock[t] \in {c, NoOne}
DocumentFree(d)   == docLock[d] = NoOne

(* Slip: a confirmation does not lock the accounts it reads.               *)
AccountFreeAnyway(c, t) == TRUE

AccountFree(c, t) == accountLock[t] \in {c, NoOne}

(* An entry shares the accounts of its lines.                              *)
Shareable(c, e) == \A t \in {e.from, e.to} \ {Nowhere} : AccountFree(c, t)

Entry(from, to, amount) == [status |-> "POSTED", from |-> from, to |-> to, amount |-> amount]

(* post: once per key.                                                     *)
Post(c, d, e) ==
    /\ Shareable(c, e)
    /\ entry' = IF entry[d] = NotPosted THEN [entry EXCEPT ![d] = e] ELSE entry

(* reverse: the mirrored entry, once.  It is a correction, which posts     *)
(* even if it leaves a treasury negative.                                  *)
Reverse(c, d) ==
    /\ Shareable(c, entry[d])
    /\ entry' = IF entry[d].status = "POSTED" THEN [entry EXCEPT ![d].status = "REVERSED"] ELSE entry

(* A step that is a whole transaction of nobody in particular.             *)
AtOnce == UNCHANGED <<locks, pc, job, raced, started>>

(* POST /journal/:id/reverse takes any entry, whatever document it is of.  *)
ReverseInJournal(d) ==
    /\ entry[d].status = "POSTED"
    /\ Reverse(NoOne, d)
    /\ UNCHANGED <<treasury, transfer>> /\ AtOnce

-----------------------------------------------------------------------------
(* Opening balances: the key names treasury, date and amount.              *)

PostOpening(t) ==
    /\ Exists(t) /\ treasury[t].active
    /\ Post(NoOne, t, Entry(Nowhere, t, OpeningAmount))
    /\ UNCHANGED <<treasury, transfer>> /\ AtOnce

ReverseOpening(t) ==
    /\ entry[t].status = "POSTED"
    /\ Reverse(NoOne, t)
    /\ UNCHANGED <<treasury, transfer>> /\ AtOnce

-----------------------------------------------------------------------------
(* The treasuries themselves.                                              *)

(* A request that works on the treasuries of branch b begins.              *)
Begin(c, b, where, request) ==
    /\ Start(c, where, [request EXCEPT !.branch = b])
    /\ raced' = raced \cup
         IF \E o \in Handlers : pc[o] \in {"unset", "wait", "save"} /\ job[o].branch = b
         THEN {b} ELSE {}
    /\ UNCHANGED <<stored, locks>>

(* The columns the handler will write, and their values in after; unset:   *)
(* the defaults it has taken the flag from, seen: the ones it waits for.   *)
Request(t, columns, after) ==
    [op |-> "treasury", treasury |-> t, branch |-> Nowhere, columns |-> columns, after |-> after,
     unset |-> {}, seen |-> {}]

(* A branch's first treasury is its default.                               *)
StartsAsDefault(b, asked) == asked \/ TreasuriesOf(b) = {}

CreateTreasury(c, t) ==
    /\ ~Exists(t)
    /\ \E b \in Branches, asked \in BOOLEAN :
         LET isDefault == StartsAsDefault(b, asked)
         IN  Begin(c, b, IF isDefault THEN "unset" ELSE "save",
                   Request(t, DOMAIN treasury[t], [branch |-> b, active |-> TRUE,
                                                   mayGoNegative |-> FALSE,
                                                   isDefault |-> isDefault]))

(* The client sends the flags it wants to set.  A default cannot be unset, *)
(* only replaced.                                                          *)
UpdateTreasury(c, t) ==
    /\ Exists(t)
    /\ \E columns \in SUBSET {"isDefault", "mayGoNegative"}, asked, negative \in BOOLEAN :
         /\ "isDefault" \in columns \/ asked = treasury[t].isDefault
         /\ "mayGoNegative" \in columns \/ negative = treasury[t].mayGoNegative
         /\ treasury[t].isDefault => asked
         /\ Begin(c, treasury[t].branch,
                  IF asked /\ ~treasury[t].isDefault THEN "unset" ELSE "save",
                  Request(t, columns, [treasury[t] EXCEPT !.isDefault = asked,
                                                          !.mayGoNegative = negative]))

(* Deactivation reads flag and balance, without a lock.                    *)
SetActive(c, t) ==
    /\ Exists(t)
    /\ treasury[t].active => ~treasury[t].isDefault /\ Balance(t) = 0
    /\ Begin(c, treasury[t].branch, "save",
             Request(t, {"active"}, [treasury[t] EXCEPT !.active = ~@]))

(* UPDATE ... WHERE is_default: it sees the default there is when it       *)
(* begins.  If another handler has that row, it waits and looks at this    *)
(* row again.                                                              *)
Unset(c) ==
    LET now == DefaultsOf(job[c].branch)
        it  == IF pc[c] = "unset" THEN now ELSE job[c].seen \cap now
    IN  /\ pc[c] \in {"unset", "wait"}
        /\ IF \A d \in (IF pc[c] = "unset" THEN now ELSE job[c].seen) : RowFree(c, d)
           THEN /\ rowLock' = [d \in Treasuries |-> IF d \in it THEN c ELSE rowLock[d]]
                /\ job' = [job EXCEPT ![c].unset = it]
                /\ Goto(c, "save")
           ELSE /\ pc[c] = "unset"
                /\ job' = [job EXCEPT ![c].seen = now]
                /\ Goto(c, "wait")
                /\ UNCHANGED rowLock
        /\ UNCHANGED <<stored, docLock, accountLock, raced, started>>

(* Slip: no unique index on the defaults of a branch.                      *)
UniqueAnyway(c) == TRUE

(* treasuries_one_default_per_branch_key.                                  *)
Unique(c) ==
    "isDefault" \in job[c].columns /\ job[c].after.isDefault =>
        DefaultsOf(job[c].branch) \subseteq job[c].unset \cup {job[c].treasury}

(* What the handler does not write keeps what it has by now.               *)
Written(c, row) ==
    [f \in DOMAIN row |-> IF f \in job[c].columns THEN job[c].after[f] ELSE row[f]]

SaveTreasury(c) ==
    LET t == job[c].treasury
    IN  /\ pc[c] = "save"
        /\ RowFree(c, t)
        /\ "branch" \in job[c].columns => ~Exists(t)
        /\ Unique(c)
        /\ treasury' = [u \in Treasuries |->
             IF u = t THEN Written(c, treasury[u])
             ELSE IF u \in job[c].unset THEN [treasury[u] EXCEPT !.isDefault = FALSE]
             ELSE treasury[u]]
        /\ UNCHANGED <<transfer, entry>>
        /\ End(c)

-----------------------------------------------------------------------------
(* Transfers.                                                              *)

Usable(t) == Exists(t) /\ treasury[t].active

CreateTransfer(x) ==
    /\ transfer[x].status = "NONE"
    /\ \E from, to \in {t \in Treasuries : Usable(t)}, n \in Amounts :
         /\ from # to /\ treasury[from].branch = treasury[to].branch
         /\ transfer' = [transfer EXCEPT ![x] = [status |-> "DRAFT", from |-> from, to |-> to,
                                                 amount |-> n]]
    /\ UNCHANGED <<treasury, entry>> /\ AtOnce

(* Only the treasuries that are given must be active; the branches are not *)
(* compared again.                                                         *)
UpdateTransfer(x) ==
    /\ DocumentFree(x)
    /\ transfer[x].status = "DRAFT"
    /\ \E from \in {transfer[x].from} \cup {t \in Treasuries : Usable(t)},
          to \in {transfer[x].to} \cup {t \in Treasuries : Usable(t)},
          n \in Amounts :
         /\ from # to
         /\ transfer' = [transfer EXCEPT ![x] = [status |-> "DRAFT", from |-> from, to |-> to,
                                                 amount |-> n]]
    /\ UNCHANGED <<treasury, entry>> /\ AtOnce

(* Slip: the transfer is read without FOR UPDATE.                          *)
ReadOnly(c, d) == UNCHANGED docLock

LockDocument(c, d) == docLock' = [docLock EXCEPT ![d] = c]

(* FOR UPDATE on the transfer, then the transfer with both its treasuries. *)
StartConfirmTransfer(c, x) ==
    /\ DocumentFree(x)
    /\ transfer[x].status = "DRAFT"
    /\ treasury[transfer[x].from].active /\ treasury[transfer[x].to].active
    /\ LockDocument(c, x)
    /\ Start(c, "accounts", [op |-> "transfer", doc |-> x, seen |-> transfer[x],
                             mayGoNegative |-> treasury[transfer[x].from].mayGoNegative])
    /\ UNCHANGED <<stored, rowLock, accountLock, raced>>

Sides(c)     == {job[c].seen.from, job[c].seen.to}
NextSide(c)  == Min({t \in Sides(c) : accountLock[t] # c})
Covered(c)   == Balance(job[c].seen.from) >= job[c].seen.amount

(* Both accounts FOR UPDATE in order.  Under the last lock the balance is  *)
(* read: by the handler with the policy it read before, and by the guard   *)
(* with the policy of now.                                                 *)
LockAccount(c) ==
    LET t    == NextSide(c)
        last == Sides(c) \ {t} \subseteq {u \in Treasuries : accountLock[u] = c}
    IN  /\ pc[c] = "accounts"
        /\ AccountFree(c, t)
        /\ IF last /\ ~Covered(c) /\ ~(job[c].mayGoNegative /\ treasury[job[c].seen.from].mayGoNegative)
           THEN Rollback(c)
           ELSE /\ accountLock' = [accountLock EXCEPT ![t] = c]
                /\ Goto(c, IF last THEN "commit" ELSE "accounts")
                /\ UNCHANGED <<stored, rowLock, docLock, job, raced, started>>

ConfirmTransfer(c) ==
    LET seen == job[c].seen
    IN  /\ pc[c] = "commit"
        /\ Post(c, job[c].doc, Entry(seen.from, seen.to, seen.amount))
        /\ transfer' = [transfer EXCEPT ![job[c].doc].status = "CONFIRMED"]
        /\ UNCHANGED treasury
        /\ End(c)

(* A draft is just marked; a confirmed transfer's entry is reversed.       *)
CancelTransfer(x) ==
    /\ DocumentFree(x)
    /\ transfer[x].status \in {"DRAFT", "CONFIRMED"}
    /\ IF transfer[x].status = "CONFIRMED" THEN Reverse(NoOne, x) ELSE UNCHANGED entry
    /\ transfer' = [transfer EXCEPT ![x].status = "CANCELLED"]
    /\ UNCHANGED treasury /\ AtOnce

Abort(c) == pc[c] \in {"unset", "wait", "save", "accounts", "commit"} /\ Rollback(c)

TreasuryNext ==
    \/ \E d \in Documents : ReverseInJournal(d)
    \/ \E t \in Treasuries : PostOpening(t) \/ ReverseOpening(t)
    \/ \E x \in Transfers : CreateTransfer(x) \/ UpdateTransfer(x) \/ CancelTransfer(x)
    \/ \E c \in Handlers :
         \/ \E t \in Treasuries : CreateTreasury(c, t) \/ UpdateTreasury(c, t) \/ SetActive(c, t)
         \/ \E x \in Transfers : StartConfirmTransfer(c, x)
         \/ Unset(c) \/ SaveTreasury(c) \/ LockAccount(c) \/ ConfirmTransfer(c) \/ Abort(c)

-----------------------------------------------------------------------------
(* Correctness.                                                            *)

AnEntry == [status : {"NONE", "POSTED", "REVERSED"}, from : Treasuries \cup {Nowhere},
            to : Treasuries \cup {Nowhere}, amount : Nat]

ATransfer == [status : {"DRAFT", "CONFIRMED", "CANCELLED"}, from : Treasuries, to : Treasuries,
              amount : Nat]

ATreasury == [branch : Branches \cup {Nowhere}, active : BOOLEAN, mayGoNegative : BOOLEAN,
              isDefault : BOOLEAN]

(* Every variable has its type, and a lock is held by a handler that is    *)
(* at a place where it has it (the transactions of modules/treasuries).    *)
TreasuryTypeOK ==
    /\ treasury \in [Treasuries -> ATreasury]
    /\ transfer \in [Transfers -> ATransfer \cup {NoTransfer}]
    /\ entry \in [Documents -> AnEntry]
    /\ \A t \in Treasuries : rowLock[t] # NoOne => pc[rowLock[t]] = "save"
    /\ \A t \in Treasuries : accountLock[t] # NoOne => pc[accountLock[t]] \in {"accounts", "commit"}
    /\ \A d \in Documents : docLock[d] # NoOne => job[docLock[d]].op \in {"transfer", "voucher"}
    /\ raced \subseteq Branches /\ started \in Nat

(* The entry of a document stands only while its status says so, and says  *)
(* what the document says; it is missing only if the journal has reversed  *)
(* it (treasury-transfers.service.ts, receipt-vouchers.service.ts).        *)
EntryFollows(d, confirmed, from, to, amount) ==
    /\ entry[d].status = "POSTED" => confirmed
    /\ confirmed => entry[d] \in {[status |-> s, from |-> from, to |-> to, amount |-> amount] :
                                  s \in {"POSTED", "REVERSED"}}

(* A transfer never takes from a treasury that must not become negative    *)
(* what it does not have, whatever else is posted meanwhile ("serialize    *)
(* concurrent outflows", treasury-transfers.service.ts:187).               *)
NoOverdraft ==
    [][\A c \in Handlers :
         pc[c] = "commit" /\ entry'[job[c].doc] # entry[job[c].doc] /\ ~job[c].mayGoNegative =>
           BalanceIn(entry', job[c].seen.from) >= 0]_treasuryVars

(* A branch never has two default treasuries, and has one as soon as it    *)
(* has a treasury, but for an update that was overtaken by another of the  *)
(* same branch ("default handling is PER-BRANCH: the first treasury in a   *)
(* branch is forced default; a new default unsets the previous default",   *)
(* treasuries.service.ts:227).                                             *)
OneDefaultPerBranch ==
    \A b \in Branches :
        /\ Cardinality(DefaultsOf(b)) <= 1
        /\ TreasuriesOf(b) # {} /\ b \notin raced => DefaultsOf(b) # {}

=============================================================================
