------------------------------- MODULE Posting -------------------------------
(***************************************************************************)
(* The posting engine, the reversal service, the treasury guard and the    *)
(* financial periods (modules/posting, modules/periods), together with the *)
(* writers that create journal entries themselves: supplier payments,      *)
(* which call the guard only, and order collections, factory payments and  *)
(* depreciation, which call nothing.                                       *)
(*                                                                         *)
(* A request is one READ COMMITTED transaction.  `held` is the exclusive   *)
(* row lock of an account (the guard's SELECT ... FOR UPDATE) and `shared` *)
(* the KEY SHARE lock a journal line's foreign key takes on its account:   *)
(* an exclusive lock waits for both, a shared one for `held` only.  The    *)
(* guard reads a balance when it has the lock, and decides on all of them  *)
(* at the end.                                                             *)
(***************************************************************************)
EXTENDS Integers, Sequences, FiniteSets, SequencesExt, Functions

CONSTANTS
    Clients,         \* concurrent request handlers
    Nobody,          \* the holder of a free lock
    Treasuries,      \* GL accounts of treasuries: their ids, in sort order
    Others,          \* every other postable account
    Floor,           \* treasuries with allowNegativeBalance = false
    Documents,       \* sources of deterministic idempotency keys
    Months,          \* financial periods
    LinesOf,         \* the lines each document posts
    MonthOf,         \* the month each document is dated in
    Payments,        \* lines of supplier payments
    DirectEntries,   \* lines of the writers that call neither engine nor guard
    MaxRequests      \* bound: requests started in a behaviour

VARIABLES
    journal,         \* committed journal entries, an id is a position
    period,          \* status of each financial period
    held, shared,    \* row locks on accounts
    tx,              \* what each handler is doing
    started          \* requests started so far

vars == <<journal, period, held, shared, tx, started>>

GL == INSTANCE GeneralLedger

ASSUME PostingAssumption ==
    /\ Treasuries \subseteq Nat
    /\ Treasuries \cap Others = {}
    /\ Floor \subseteq Treasuries
    /\ LinesOf \in [Documents -> Seq(GL!Line)]
    /\ MonthOf \in [Documents -> Months]
    /\ Payments \cup DirectEntries \subseteq {s \in Seq(GL!Line) : GL!Balanced(s)}
    /\ Nobody \notin Clients
    /\ MaxRequests \in Nat

Idle == [pc |-> "idle"]

-----------------------------------------------------------------------------
(* Helpers                                                                 *)

(* Slip: the mirrored entry repeats the original's lines.                  *)
MirrorUnchanged(lines) == lines
Mirrored(lines) == GL!Mirror(lines)

(* Only treasuries with a net outflow are checked, in sorted id order.     *)
Outflows(c) ==
    IF tx[c].kind = "direct" THEN {}
    ELSE {a \in Treasuries : GL!Effect(tx[c].lines, a) < 0}

NextOutflow(c, a) ==
    /\ a \in Outflows(c) /\ held[a] # c
    /\ \A b \in Outflows(c) : b < a => held[b] = c

Projected(c, a) == GL!Balance(journal, a) + GL!Effect(tx[c].lines, a)

(* A no-negative treasury refuses all but reversals; any other one asks    *)
(* for an acknowledgement, of reversals too.                               *)
GuardAllows(c) ==
    /\ tx[c].offending \cap Floor # {}  => tx[c].reversalOf # 0
    /\ tx[c].offending \ Floor # {}     => tx[c].acknowledge

(* Slip: the balance is read without locking the account.                  *)
LockableAnyway(c, a) == TRUE
Lockable(c, a)  == held[a] \in {c, Nobody} /\ shared[a] \subseteq {c}
Shareable(c, a) == held[a] \in {c, Nobody}

(* The unique index on idempotency_key: an uncommitted entry makes the     *)
(* second inserter wait, a committed one makes it fail.                    *)
KeyHolders(c) == {d \in Clients \ {c} : /\ tx[d].pc = "lines"
                                        /\ tx[c].key # GL!NoKey
                                        /\ tx[d].key = tx[c].key}

(* Slip: nothing in the database enforces the key.                         *)
NoUniqueIndex(c) == TRUE
KeyFree(c) == KeyHolders(c) = {} /\ ~GL!Posted(journal, tx[c].key)

Goto(c, pc) == tx' = [tx EXCEPT ![c].pc = pc]

End(c) ==
    /\ tx'     = [tx EXCEPT ![c] = Idle]
    /\ held'   = [a \in GL!Accounts |-> IF held[a] = c THEN Nobody ELSE held[a]]
    /\ shared' = [a \in GL!Accounts |-> shared[a] \ {c}]
    /\ UNCHANGED <<period, started>>

Rollback(c) == End(c) /\ UNCHANGED journal

-----------------------------------------------------------------------------

Init ==
    /\ journal = <<>>
    /\ period  = [m \in Months |-> "NONE"]
    /\ held    = [a \in GL!Accounts |-> Nobody]
    /\ shared  = [a \in GL!Accounts |-> {}]
    /\ tx      = [c \in Clients |-> Idle]
    /\ started = 0

Begin(c, request) ==
    /\ tx[c] = Idle
    /\ started < MaxRequests
    /\ started' = started + 1
    /\ tx' = [tx EXCEPT ![c] = request]
    /\ UNCHANGED <<journal, period, held, shared>>

BeginPost(c) ==
    \E d \in Documents, ack \in BOOLEAN :
        Begin(c, [pc |-> "key", kind |-> "post", key |-> GL!DocumentKey(d), reversalOf |-> 0,
                  original |-> "POSTED", lines |-> LinesOf[d], month |-> MonthOf[d],
                  acknowledge |-> ack, offending |-> {}, at |-> 1])

(* The original is read, with its lines; its status is looked at after the *)
(* reversal key.                                                           *)
BeginReverse(c) ==
    \E i \in DOMAIN journal, m \in Months, ack \in BOOLEAN :
        Begin(c, [pc |-> "key", kind |-> "reverse", key |-> GL!ReversalKey(i), reversalOf |-> i,
                  original |-> journal[i].status, lines |-> Mirrored(journal[i].lines), month |-> m,
                  acknowledge |-> ack, offending |-> {}, at |-> 1])

BeginUnkeyed(c) ==
    \E kind \in {"payment", "direct"}, m \in Months, ack \in BOOLEAN :
        \E lines \in IF kind = "payment" THEN Payments ELSE DirectEntries :
            /\ kind = "direct" => ack = FALSE
            /\ Begin(c, [pc |-> "guard", kind |-> kind, key |-> GL!NoKey, reversalOf |-> 0,
                         original |-> "POSTED", lines |-> lines, month |-> m,
                         acknowledge |-> ack, offending |-> {}, at |-> 1])

(* An entry with the key exists: nothing is written.                       *)
AlreadyPosted(c) ==
    /\ tx[c].pc = "key"
    /\ GL!Posted(journal, tx[c].key)
    /\ Rollback(c)

Reversible(c) == tx[c].original = "POSTED"

NotPosted(c) ==
    /\ tx[c].pc = "key"
    /\ ~GL!Posted(journal, tx[c].key)
    /\ Reversible(c) /\ GL!Balanced(tx[c].lines)
    /\ Goto(c, "period")
    /\ UNCHANGED <<journal, period, held, shared, started>>

RefuseLines(c) ==
    /\ tx[c].pc = "key"
    /\ ~GL!Posted(journal, tx[c].key)
    /\ ~(Reversible(c) /\ GL!Balanced(tx[c].lines))
    /\ Rollback(c)

(* The period is read without a lock.                                      *)
PeriodIsOpen(c) ==
    /\ tx[c].pc = "period"
    /\ period[tx[c].month] = "OPEN"
    /\ Goto(c, "guard")
    /\ UNCHANGED <<journal, period, held, shared, started>>

RefusePeriod(c) ==
    /\ tx[c].pc = "period"
    /\ period[tx[c].month] # "OPEN"
    /\ Rollback(c)

(* The lock, and the balance under it.                                     *)
LockOutflow(c) ==
    /\ tx[c].pc = "guard"
    /\ \E a \in Treasuries :
         /\ NextOutflow(c, a)
         /\ Lockable(c, a)
         /\ held' = [held EXCEPT ![a] = c]
         /\ tx' = [tx EXCEPT ![c].offending =
                      IF Projected(c, a) < 0 THEN @ \cup {a} ELSE @]
    /\ UNCHANGED <<journal, period, shared, started>>

Guarded(c) == tx[c].pc = "guard" /\ \A a \in Outflows(c) : held[a] = c

RefuseOverdraft(c) == Guarded(c) /\ ~GuardAllows(c) /\ Rollback(c)

InsertEntry(c) ==
    /\ Guarded(c)
    /\ GuardAllows(c)
    /\ KeyFree(c)
    /\ Goto(c, "lines")
    /\ UNCHANGED <<journal, period, held, shared, started>>

UniqueViolation(c) ==
    /\ Guarded(c)
    /\ GuardAllows(c)
    /\ GL!Posted(journal, tx[c].key)
    /\ Rollback(c)

(* The foreign key of a line shares its account's row.                     *)
ShareAccount(c) ==
    /\ tx[c].pc = "lines"
    /\ tx[c].at <= Len(tx[c].lines)
    /\ LET a == tx[c].lines[tx[c].at].account
       IN  Shareable(c, a) /\ shared' = [shared EXCEPT ![a] = @ \cup {c}]
    /\ tx' = [tx EXCEPT ![c].at = @ + 1]
    /\ UNCHANGED <<journal, period, held, started>>

(* Slip: a reversal is linked to itself instead of its original.           *)
LinkToItself(c) == IF tx[c].kind = "reverse" THEN Len(journal) + 1 ELSE 0
Link(c) == tx[c].reversalOf

(* A reversal is linked to its original, which is marked REVERSED, in the  *)
(* same transaction.                                                       *)
Commit(c) ==
    /\ tx[c].pc = "lines"
    /\ tx[c].at > Len(tx[c].lines)
    /\ LET i == tx[c].reversalOf
           marked == IF i # 0 THEN [journal EXCEPT ![i].status = "REVERSED"] ELSE journal
       IN  journal' = Append(marked, [key |-> tx[c].key, lines |-> tx[c].lines,
                                      status |-> "POSTED", reversalOf |-> Link(c)])
    /\ End(c)

(* What a waiting handler waits for.                                       *)
WaitsFor(c) ==
    IF tx[c].pc = "guard" /\ ~Guarded(c)
    THEN UNION {(({held[a]} \ {Nobody}) \cup shared[a]) \ {c} :
                  a \in {a \in Treasuries : NextOutflow(c, a)}}
    ELSE IF tx[c].pc = "lines" /\ tx[c].at <= Len(tx[c].lines)
    THEN {held[tx[c].lines[tx[c].at].account]} \ {Nobody, c}
    ELSE IF Guarded(c) /\ GuardAllows(c) THEN KeyHolders(c) ELSE {}

(* Slip: nobody looks for waits-for cycles.                                *)
NeverInCycle(c) == FALSE
InCycle(c) ==
    \E S \in SUBSET Clients :
        /\ c \in S
        /\ \E next \in Bijection(S, S) : \A x \in S : tx[x] # Idle /\ next[x] \in WaitsFor(x)

DeadlockVictim(c) == InCycle(c) /\ Rollback(c)

Abort(c) == tx[c] # Idle /\ Rollback(c)

(* periods.controller.ts: a status change, no look at transactions that    *)
(* are posting into the month.                                             *)
CreatePeriod(m) ==
    /\ period[m] = "NONE"
    /\ period' = [period EXCEPT ![m] = "OPEN"]
    /\ UNCHANGED <<journal, held, shared, tx, started>>

ClosePeriod(m) ==
    /\ period[m] = "OPEN"
    /\ period' = [period EXCEPT ![m] = "CLOSED"]
    /\ UNCHANGED <<journal, held, shared, tx, started>>

ReopenPeriod(m) ==
    /\ period[m] = "CLOSED"
    /\ period' = [period EXCEPT ![m] = "OPEN"]
    /\ UNCHANGED <<journal, held, shared, tx, started>>

Step(c) ==
    \/ AlreadyPosted(c) \/ NotPosted(c) \/ RefuseLines(c)
    \/ PeriodIsOpen(c) \/ RefusePeriod(c) \/ RefuseOverdraft(c)
    \/ UniqueViolation(c) \/ Commit(c)

Waiting(c) == LockOutflow(c) \/ InsertEntry(c) \/ ShareAccount(c)

Next ==
    \/ \E c \in Clients :
         \/ BeginPost(c) \/ BeginReverse(c) \/ BeginUnkeyed(c)
         \/ Step(c) \/ Waiting(c) \/ DeadlockVictim(c) \/ Abort(c)
    \/ \E m \in Months : CreatePeriod(m) \/ ClosePeriod(m) \/ ReopenPeriod(m)

(* A started handler keeps running, freed locks are granted in turn and    *)
(* the deadlock detector runs; no request, abort or close is ever due.     *)
Fairness ==
    \A c \in Clients :
        WF_vars(Step(c)) /\ SF_vars(Waiting(c)) /\ WF_vars(DeadlockVictim(c))

Spec == Init /\ [][Next]_vars /\ Fairness

-----------------------------------------------------------------------------
(* Correctness.                                                            *)

Request == [pc : {"key", "period", "guard", "lines"}, at : Nat \ {0},
            kind : {"post", "reverse", "payment", "direct"}, key : GL!Key,
            reversalOf : Nat, original : {"POSTED", "REVERSED"}, lines : Seq(GL!Line),
            month : Months, acknowledge : BOOLEAN, offending : SUBSET Treasuries]

(* Every variable has its type; a reversal is linked to an earlier entry,  *)
(* and a lock somebody holds belongs to a running transaction.             *)
TypeOK ==
    /\ journal \in Seq(GL!Entry)
    /\ \A i \in DOMAIN journal : journal[i].reversalOf < i
    /\ period \in [Months -> {"NONE", "OPEN", "CLOSED"}]
    /\ held \in [GL!Accounts -> Clients \cup {Nobody}]
    /\ shared \in [GL!Accounts -> SUBSET Clients]
    /\ tx \in [Clients -> {Idle} \cup Request]
    /\ \A c \in Clients :
         IF tx[c] = Idle THEN \A a \in GL!Accounts : held[a] # c /\ c \notin shared[a]
                         ELSE tx[c].reversalOf \in 0..Len(journal)
    /\ started \in 0..MaxRequests

(* A handler's entry is committed by this step.                            *)
Commits(c) == tx[c] # Idle /\ tx'[c] = Idle /\ journal' # journal

(* When a guarded outflow commits, the treasuries it draws on are not      *)
(* overdrawn, whatever committed since it read their balances: unless it   *)
(* is a reversal, for a no-negative treasury, or the caller acknowledged   *)
(* it, for any other (treasury-guard.service.ts).                          *)
GuardedOutflow ==
    [][\A c \in Clients : Commits(c) /\ tx[c].kind # "direct" =>
         \A a \in Treasuries :
            GL!Effect(tx[c].lines, a) < 0 =>
               \/ GL!Balance(journal', a) >= 0
               \/ a \in Floor /\ tx[c].reversalOf # 0
               \/ a \notin Floor /\ tx[c].acknowledge]_vars

(* An entry is REVERSED exactly when one reversal of it is in the journal, *)
(* and the two cancel out on every account, however many clients reverse   *)
(* it at once; a reversal may itself be reversed (reversal.service.ts).    *)
ReversalPairs ==
    \A i \in DOMAIN journal :
        LET reversals == {j \in DOMAIN journal : journal[j].reversalOf = i}
        IN  /\ Cardinality(reversals) = IF journal[i].status = "REVERSED" THEN 1 ELSE 0
            /\ \A j \in reversals, a \in Treasuries \cup Others :
                 GL!Effect(journal[i].lines, a) + GL!Effect(journal[j].lines, a) = 0

(* The engine and the legacy writers implement the general ledger:         *)
(* balanced entries, one per key, appended and never edited.               *)
LedgerSpec == GL!Spec

(* Every transaction ends.                                                 *)
Terminates == \A c \in Clients : tx[c] # Idle ~> tx[c] = Idle

=============================================================================
