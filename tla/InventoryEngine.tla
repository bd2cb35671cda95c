--------------------------- MODULE InventoryEngine ---------------------------
(***************************************************************************)
(* The inventory engine (inventory.engine.ts) under its callers: receipts, *)
(* adjustments, document lines and daily counts.  A request is a sequence  *)
(* of lines applied inside ONE database transaction at READ COMMITTED.     *)
(*                                                                         *)
(* Every client is a request handler.  What a transaction has written but  *)
(* not committed is kept in `work`, invisible to the others; a row of      *)
(* branch_inventory_balances is locked by SELECT ... FOR UPDATE and stays  *)
(* locked until the transaction ends.  balance and ledger hold committed   *)
(* data only.                                                              *)
(***************************************************************************)
EXTENDS Integers, Sequences, FiniteSets, SequencesExt

CONSTANTS
    Clients,         \* concurrent request handlers
    Rows,            \* branch x variant
    Size,            \* size_meters_per_board of each row's variant
    NoOne,           \* the owner of an unlocked row
    Requests,        \* the bodies clients may send: sequences of lines
    MaxRequests      \* bound: requests started in a behaviour

(* A line is a quantity of boards for a row.  "area" lines bring their own *)
(* metres (an invoice line's effective area), "boards" lines use the       *)
(* variant's size, and the boards of a "count" line are the counted target.*)
Line == [row : Rows, kind : {"boards", "area", "count"}, boards : Int, meters : Int]

ASSUME SizeAssumption    == Size \in [Rows -> Nat \ {0}]
ASSUME NoOneAssumption   == NoOne \notin Clients
ASSUME RequestAssumption == \A q \in Requests : q \in Seq(Line) /\ q # <<>>
ASSUME BoundAssumption   == MaxRequests \in Nat

VARIABLES
    balance,         \* committed boards and metres on hand
    ledger,          \* committed movements of each row
    lastCounted,     \* rows whose last_counted_at has been stamped
    lock,            \* holder of each row lock
    pc,              \* where each handler is in its transaction
    req,             \* the request it serves
    at,              \* the line it is at
    seen,            \* boards on hand a count line read under its lock
    work,            \* uncommitted movements of each row
    stamps,          \* uncommitted last_counted_at stamps
    started          \* requests started so far

committed == <<balance, ledger, lastCounted>>
locals    == <<pc, req, at, seen, work, stamps>>
vars      == <<balance, ledger, lastCounted, lock, pc, req, at, seen, work, stamps, started>>

Ledger == INSTANCE StockLedger

NoWork == [r \in Rows |-> <<>>]

-----------------------------------------------------------------------------
(* The line a handler is at, and what it moves.  A definition that says    *)
(* "slip" is a mistake the rules guard against: no action uses it.         *)

Current(c) == req[c][at[c]]

(* The row as this transaction sees it: its own uncommitted update when it *)
(* has one, the committed row otherwise.                                   *)
OnHand(c, r) == Ledger!Closing(work[c][r], balance[r])

(* Metres follow the variant's size unless the caller brought its own.     *)
Delta(c) ==
    LET l == Current(c)
        b == IF l.kind = "count" THEN l.boards - seen[c] ELSE l.boards
    IN  [boards |-> b, meters |-> IF l.kind = "area" THEN l.meters ELSE b * Size[l.row]]

(* zero_delta and meters_sign_mismatch are refused before any lock.        *)
ValidMovement(d) ==
    /\ d.boards # 0
    /\ d.meters # 0 => (d.meters < 0 <=> d.boards < 0)

(* engine.apply is called at once for a plain line, and after the locked   *)
(* read for a count line that found a variance.                            *)
Calling(c) ==
    \/ pc[c] = "line" /\ Current(c).kind # "count"
    \/ pc[c] = "counted" /\ Delta(c).boards # 0

(* Slip: the balance row read without FOR UPDATE.                          *)
LockableByAnyone(c, r) == TRUE

(* SELECT ... FOR UPDATE returns at once on a free row or one's own row.   *)
Lockable(c, r) == lock[r] \in {c, NoOne}

Lock(c, r) == lock' = [lock EXCEPT ![r] = c]

(* Slip: the loop runs one line too far.                                   *)
NextLineTooFar(c) ==
    IF at[c] <= Len(req[c])
    THEN pc' = [pc EXCEPT ![c] = "line"] /\ at' = [at EXCEPT ![c] = @ + 1]
    ELSE pc' = [pc EXCEPT ![c] = "done"] /\ at' = at

(* The `for` loop over the lines.                                          *)
NextLine(c) ==
    IF at[c] < Len(req[c])
    THEN pc' = [pc EXCEPT ![c] = "line"] /\ at' = [at EXCEPT ![c] = @ + 1]
    ELSE pc' = [pc EXCEPT ![c] = "done"] /\ at' = at

(* The transaction ends: locks are released, its private state is gone.    *)
EndTransaction(c) ==
    /\ lock'   = [r \in Rows |-> IF lock[r] = c THEN NoOne ELSE lock[r]]
    /\ pc'     = [pc EXCEPT ![c] = "idle"]
    /\ req'    = [req EXCEPT ![c] = <<>>]
    /\ at'     = [at EXCEPT ![c] = 1]
    /\ seen'   = [seen EXCEPT ![c] = 0]
    /\ work'   = [work EXCEPT ![c] = NoWork]
    /\ stamps' = [stamps EXCEPT ![c] = {}]
    /\ UNCHANGED started

Rollback(c) == EndTransaction(c) /\ UNCHANGED committed

-----------------------------------------------------------------------------

Init ==
    /\ balance     = [r \in Rows |-> Ledger!Zero]
    /\ ledger      = [r \in Rows |-> <<>>]
    /\ lastCounted = {}
    /\ lock        = [r \in Rows |-> NoOne]
    /\ pc          = [c \in Clients |-> "idle"]
    /\ req         = [c \in Clients |-> <<>>]
    /\ at          = [c \in Clients |-> 1]
    /\ seen        = [c \in Clients |-> 0]
    /\ work        = [c \in Clients |-> NoWork]
    /\ stamps      = [c \in Clients |-> {}]
    /\ started     = 0

Begin(c) ==
    /\ pc[c] = "idle"
    /\ started < MaxRequests
    /\ \E q \in Requests : req' = [req EXCEPT ![c] = q]
    /\ pc'      = [pc EXCEPT ![c] = "line"]
    /\ started' = started + 1
    /\ UNCHANGED <<committed, lock, at, seen, work, stamps>>

(* Slip: the boards a count starts from are read before the row lock.      *)
CountWithoutLock(c) ==
    /\ pc[c] = "line"
    /\ Current(c).kind = "count"
    /\ seen' = [seen EXCEPT ![c] = OnHand(c, Current(c).row).boards]
    /\ pc' = [pc EXCEPT ![c] = "counted"]
    /\ UNCHANGED <<committed, lock, req, at, work, stamps, started>>

(* A count line locks its row first and only then reads the boards.        *)
CountLock(c) ==
    /\ pc[c] = "line"
    /\ Current(c).kind = "count"
    /\ LET r == Current(c).row
       IN  /\ Lockable(c, r)
           /\ Lock(c, r)
           /\ seen' = [seen EXCEPT ![c] = OnHand(c, r).boards]
    /\ pc' = [pc EXCEPT ![c] = "counted"]
    /\ UNCHANGED <<committed, req, at, work, stamps, started>>

(* A count without variance stamps the row and writes no movement.         *)
NoVariance(c) ==
    /\ pc[c] = "counted"
    /\ Delta(c).boards = 0
    /\ stamps' = [stamps EXCEPT ![c] = @ \cup {Current(c).row}]
    /\ NextLine(c)
    /\ UNCHANGED <<committed, lock, req, seen, work, started>>

RefuseMovement(c) ==
    /\ Calling(c)
    /\ ~ValidMovement(Delta(c))
    /\ Rollback(c)

(* The balance row is upserted and locked; the engine reads it.            *)
LockRow(c) ==
    /\ Calling(c)
    /\ ValidMovement(Delta(c))
    /\ Lockable(c, Current(c).row)
    /\ Lock(c, Current(c).row)
    /\ pc' = [pc EXCEPT ![c] = "locked"]
    /\ UNCHANGED <<committed, req, at, seen, work, stamps, started>>

(* Balance update, movement and audit row, all in the caller's transaction.*)
ApplyMovement(c) ==
    LET r     == Current(c).row
        after == Ledger!Plus(OnHand(c, r), Delta(c))
    IN  /\ pc[c] = "locked"
        /\ Ledger!Sufficient(after)
        /\ work'   = [work EXCEPT ![c][r] = Append(@, [delta |-> Delta(c), after |-> after])]
        /\ stamps' = [stamps EXCEPT ![c] =
                         IF Current(c).kind = "count" THEN @ \cup {r} ELSE @]
        /\ NextLine(c)
        /\ UNCHANGED <<committed, lock, req, seen, started>>

(* Slip: a line short of stock is skipped instead of failing the request.  *)
SkipShortLine(c) ==
    /\ pc[c] = "locked"
    /\ ~Ledger!Sufficient(Ledger!Plus(OnHand(c, Current(c).row), Delta(c)))
    /\ NextLine(c)
    /\ UNCHANGED <<committed, lock, req, seen, work, stamps, started>>

(* InsufficientStockError rolls the whole request back.                    *)
InsufficientStock(c) ==
    /\ pc[c] = "locked"
    /\ ~Ledger!Sufficient(Ledger!Plus(OnHand(c, Current(c).row), Delta(c)))
    /\ Rollback(c)

Commit(c) ==
    /\ pc[c] = "done"
    /\ balance'     = [r \in Rows |-> OnHand(c, r)]
    /\ ledger'      = [r \in Rows |-> ledger[r] \o work[c][r]]
    /\ lastCounted' = lastCounted \cup stamps[c]
    /\ EndTransaction(c)

(* A handler waits for a row somebody else has locked.                     *)
Blocked(c) ==
    /\ pc[c] = "line"
    /\ Current(c).kind # "count" => ValidMovement(Delta(c))
    /\ ~Lockable(c, Current(c).row)

(* Slip: nobody looks for waits-for cycles.                                *)
NeverInCycle(c) == FALSE

(* The waits-for cycles the database's deadlock detector breaks.           *)
InCycle(c) ==
    \E S \in SUBSET Clients :
        /\ c \in S
        /\ \A x \in S : Blocked(x)
        /\ {lock[Current(x).row] : x \in S} = S

DeadlockVictim(c) == InCycle(c) /\ Rollback(c)

(* The ten-second transaction timeout, a lost connection, a killed process.*)
Abort(c) == pc[c] # "idle" /\ Rollback(c)

Step(c) ==
    \/ NoVariance(c) \/ RefuseMovement(c) \/ ApplyMovement(c)
    \/ InsufficientStock(c) \/ Commit(c)

Next ==
    \E c \in Clients :
        \/ Begin(c) \/ CountLock(c) \/ LockRow(c) \/ Step(c)
        \/ DeadlockVictim(c) \/ Abort(c)

(* A started handler keeps running, the database grants a freed row lock   *)
(* to its waiters in turn, and its deadlock detector runs.  Nothing obliges*)
(* a client to send a request or a transaction to be aborted.              *)
Fairness ==
    \A c \in Clients :
        /\ WF_vars(Step(c))
        /\ SF_vars(CountLock(c) \/ LockRow(c))
        /\ WF_vars(DeadlockVictim(c))

Spec == Init /\ [][Next]_vars /\ Fairness

-----------------------------------------------------------------------------
(* Correctness.                                                            *)

(* Every variable has its type; a handler inside a transaction is at a     *)
(* line of its request (the line loop of the callers).                     *)
TypeOK ==
    /\ balance \in [Rows -> Ledger!Quantity]
    /\ ledger \in [Rows -> Seq(Ledger!Movement)]
    /\ lastCounted \in SUBSET Rows
    /\ lock \in [Rows -> Clients \cup {NoOne}]
    /\ pc \in [Clients -> {"idle", "line", "counted", "locked", "done"}]
    /\ req \in [Clients -> Requests \cup {<<>>}]
    /\ at \in [Clients -> Nat \ {0}]
    /\ seen \in [Clients -> Int]
    /\ work \in [Clients -> [Rows -> Seq(Ledger!Movement)]]
    /\ stamps \in [Clients -> SUBSET Rows]
    /\ started \in 0..MaxRequests
    /\ \A c \in Clients : at[c] \in IF pc[c] = "idle" THEN {1} ELSE DOMAIN req[c]

(* Boards and metres on hand are never negative, whatever handlers run     *)
(* together (the engine's locked check; principle I of the constitution).  *)
NonNegative == \A r \in Rows : balance[r].boards >= 0 /\ balance[r].meters >= 0

(* Only rows a transaction has locked carry uncommitted movements of it,   *)
(* the row it is counting or moving is one of them, and a handler without  *)
(* a transaction has none.                                                 *)
LockDiscipline ==
    \A c \in Clients :
        /\ \A r \in Rows : work[c][r] # <<>> => lock[r] = c
        /\ pc[c] \in {"counted", "locked"} => lock[Current(c).row] = c
        /\ pc[c] = "idle" => work[c] = NoWork

(* The committed movements of a row run up to its balance, and what a      *)
(* transaction has not committed continues from there.                     *)
CommittedTotals ==
    \A r \in Rows : /\ Ledger!RunningTotals(ledger[r], Ledger!Zero)
                    /\ balance[r] = Ledger!Closing(ledger[r], Ledger!Zero)
UncommittedTotals ==
    \A c \in Clients, r \in Rows : Ledger!RunningTotals(work[c][r], balance[r])

(* The inductive invariant behind NonNegative and LedgerSpec.              *)
IInv == TypeOK /\ LockDiscipline /\ CommittedTotals /\ UncommittedTotals

(* A handler's transaction ends here.                                      *)
Ends(c) == pc[c] # "idle" /\ pc'[c] = "idle"

(* The lines among the first n of a request that are about a row, and      *)
(* whether line i is the last of them about its row.                       *)
LinesOf(q, n, r) == {i \in 1..n : q[i].row = r}
LastOf(q, n, i)  == \A j \in 1..n : j > i => q[j].row # q[i].row

IsCount(q, i) == q[i].kind = "count"
Counts(q)     == \E i \in DOMAIN q : IsCount(q, i)

(* A request of several lines takes effect completely, in its order, or    *)
(* not at all: a line that is refused or short of stock undoes the lines   *)
(* before it (one transaction around the loop).                            *)
AllLinesOrNone ==
    [][\A c \in Clients : Ends(c) /\ ~Counts(req[c]) =>
         \/ UNCHANGED committed
         \/ /\ \A r \in Rows : Len(ledger'[r]) =
                 Len(ledger[r]) + Cardinality(LinesOf(req[c], Len(req[c]), r))
            /\ \A i \in DOMAIN req[c] :
                 LET r == req[c][i].row
                 IN  ledger'[r][Len(ledger[r]) + Cardinality(LinesOf(req[c], i, r))].delta.boards
                       = req[c][i].boards]_vars

(* After a count commits, boards on hand are exactly what was last counted *)
(* for the row, whatever was sold or received meanwhile, and the row is    *)
(* stamped as counted, with or without a variance (counts.controller.ts).  *)
CountHonoured ==
    [][\A c \in Clients : Ends(c) /\ Counts(req[c]) =>
         \/ UNCHANGED committed
         \/ \A i \in DOMAIN req[c] :
               IsCount(req[c], i) /\ LastOf(req[c], Len(req[c]), i) =>
                 /\ balance'[req[c][i].row].boards = req[c][i].boards
                 /\ req[c][i].row \in lastCounted']_vars

(* The engine implements the abstract stock ledger: movements are only     *)
(* appended, each carries the running balance, none leaves it negative.    *)
LedgerSpec == Ledger!Spec

(* Every transaction ends, even when handlers lock the same rows in        *)
(* opposite orders: the line order of a request is the client's.           *)
Terminates == \A c \in Clients : pc[c] # "idle" ~> pc[c] = "idle"

=============================================================================
