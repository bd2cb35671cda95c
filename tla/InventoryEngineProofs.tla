------------------------ MODULE InventoryEngineProofs ------------------------
(***************************************************************************)
(* Proofs about InventoryEngine for any clients, rows, sizes and requests: *)
(* the types, the non-negative balances, and that the engine implements    *)
(* the abstract ledger of StockLedger.                                     *)
(*                                                                         *)
(* The inductive invariant says why: what a transaction has not committed  *)
(* is on rows it holds the lock of, so the committed balance it continues  *)
(* from cannot change before it commits.                                   *)
(***************************************************************************)
EXTENDS InventoryEngine, SequenceTheorems, FiniteSetTheorems, TLAPS

-----------------------------------------------------------------------------
(* Facts about running totals.                                             *)

(* The closing quantity of a sequence of movements is a quantity.          *)
LEMMA ClosingType ==
    ASSUME NEW s \in Seq(Ledger!Movement), NEW q \in Ledger!Quantity
    PROVE  Ledger!Closing(s, q) \in Ledger!Quantity
<1>1. CASE s = <<>>  BY <1>1 DEF Ledger!Closing
<1>2. CASE s # <<>>
  <2>1. Len(s) \in 1..Len(s)  BY <1>2
  <2>2. s[Len(s)] \in Ledger!Movement  BY <2>1
  <2> QED  BY <2>2, <1>2 DEF Ledger!Closing, Ledger!Movement
<1> QED  BY <1>1, <1>2

(* Adding two quantities gives a quantity.                                 *)
LEMMA PlusType ==
    ASSUME NEW p \in Ledger!Quantity, NEW q \in Ledger!Quantity
    PROVE  Ledger!Plus(p, q) \in Ledger!Quantity
BY DEF Ledger!Plus, Ledger!Quantity

(* A movement that continues from the closing balance and leaves enough    *)
(* extends the running totals (one engine call).                           *)
LEMMA AppendKeepsTotals ==
    ASSUME NEW s \in Seq(Ledger!Movement), NEW o \in Ledger!Quantity,
           NEW m \in Ledger!Movement,
           Ledger!RunningTotals(s, o),
           m.after = Ledger!Plus(Ledger!Closing(s, o), m.delta),
           Ledger!Sufficient(m.after)
    PROVE  Ledger!RunningTotals(Append(s, m), o)
<1>1. Len(Append(s, m)) = Len(s) + 1 /\ Len(s) \in Nat
  OBVIOUS
<1>2. \A i \in 1..Len(s) : Append(s, m)[i] = s[i]
  OBVIOUS
<1>3. Append(s, m)[Len(s) + 1] = m
  OBVIOUS
<1> SUFFICES ASSUME NEW i \in 1..(Len(s) + 1)
             PROVE  /\ Append(s, m)[i].after =
                         Ledger!Plus(IF i = 1 THEN o ELSE Append(s, m)[i - 1].after,
                                     Append(s, m)[i].delta)
                    /\ Ledger!Sufficient(Append(s, m)[i].after)
  BY <1>1 DEF Ledger!RunningTotals
<1>4. CASE i \in 1..Len(s)
  <2>1. i # 1 => i - 1 \in 1..Len(s)
    BY <1>4, <1>1
  <2> QED  BY <1>2, <1>4, <2>1 DEF Ledger!RunningTotals
<1>5. CASE i = Len(s) + 1
  <2>1. CASE s = <<>>
    <3>1. i = 1  BY <2>1, <1>5
    <3> QED  BY <3>1, <1>3, <1>5, <2>1 DEF Ledger!Closing
  <2>2. CASE s # <<>>
    <3>1. i # 1 /\ i - 1 = Len(s) /\ Len(s) \in 1..Len(s)
      BY <2>2, <1>5, <1>1
    <3> QED  BY <3>1, <1>2, <1>3, <1>5, <2>2 DEF Ledger!Closing
  <2> QED  BY <2>1, <2>2
<1> QED  BY <1>4, <1>5, <1>1

(* Running totals that continue where others closed can be joined to them  *)
(* (a commit), and the whole closes where the second part closes.          *)
LEMMA ConcatKeepsTotals ==
    ASSUME NEW s \in Seq(Ledger!Movement), NEW t \in Seq(Ledger!Movement),
           NEW o \in Ledger!Quantity,
           Ledger!RunningTotals(s, o),
           Ledger!RunningTotals(t, Ledger!Closing(s, o))
    PROVE  /\ Ledger!RunningTotals(s \o t, o)
           /\ Ledger!Closing(s \o t, o) = Ledger!Closing(t, Ledger!Closing(s, o))
<1> DEFINE n == Len(s)
<1>1. n \in Nat /\ Len(t) \in Nat /\ Len(s \o t) = n + Len(t)
  OBVIOUS
<1>2. \A i \in 1..n : (s \o t)[i] = s[i]
  OBVIOUS
<1>3. \A i \in 1..Len(t) : (s \o t)[n + i] = t[i]
  OBVIOUS
<1>4. Ledger!RunningTotals(s \o t, o)
  <2> SUFFICES ASSUME NEW i \in 1..(n + Len(t))
               PROVE  /\ (s \o t)[i].after =
                           Ledger!Plus(IF i = 1 THEN o ELSE (s \o t)[i - 1].after,
                                       (s \o t)[i].delta)
                      /\ Ledger!Sufficient((s \o t)[i].after)
    BY <1>1 DEF Ledger!RunningTotals
  <2>1. CASE i \in 1..n
    <3>1. i # 1 => i - 1 \in 1..n
      BY <2>1, <1>1
    <3> QED  BY <1>2, <2>1, <3>1 DEF Ledger!RunningTotals
  <2>2. CASE i = n + 1
    <3>1. 1 \in 1..Len(t) /\ (s \o t)[i] = t[1]
      BY <2>2, <1>1, <1>3
    <3>2. (IF i = 1 THEN o ELSE (s \o t)[i - 1].after) = Ledger!Closing(s, o)
      <4>1. CASE s = <<>>  BY <4>1, <2>2 DEF Ledger!Closing
      <4>2. CASE s # <<>>
        <5>1. n # 0 /\ i # 1 /\ i - 1 = n /\ n \in 1..n
          BY <4>2, <2>2, <1>1
        <5> QED  BY <5>1, <4>2, <1>2 DEF Ledger!Closing
      <4> QED  BY <4>1, <4>2
    <3> QED  BY <3>1, <3>2 DEF Ledger!RunningTotals
  <2>3. CASE i \in (n + 2)..(n + Len(t))
    <3> DEFINE j == i - n
    <3>1. j \in 1..Len(t) /\ j - 1 \in 1..Len(t) /\ j # 1 /\ i # 1
      BY <2>3, <1>1
    <3>2. (s \o t)[i] = t[j] /\ (s \o t)[i - 1] = t[j - 1]
      <4>1. i = n + j /\ i - 1 = n + (j - 1)
        BY <1>1, <2>3
      <4> HIDE DEF j
      <4> QED  BY <1>3, <3>1, <4>1
    <3> HIDE DEF j
    <3> QED  BY <3>1, <3>2 DEF Ledger!RunningTotals
  <2> QED  BY <2>1, <2>2, <2>3, <1>1
<1>5. Ledger!Closing(s \o t, o) = Ledger!Closing(t, Ledger!Closing(s, o))
  <2>1. CASE t = <<>>
    <3>1. s \o t = s  BY <2>1
    <3> QED  BY <3>1, <2>1 DEF Ledger!Closing
  <2>2. CASE t # <<>>
    <3>1. Len(t) \in 1..Len(t) /\ s \o t # <<>>
      BY <2>2, <1>1
    <3>2. (s \o t)[Len(s \o t)] = t[Len(t)]
      BY <3>1, <1>1, <1>3
    <3> QED  BY <3>1, <3>2, <2>2 DEF Ledger!Closing
  <2> QED  BY <2>1, <2>2
<1> QED  BY <1>4, <1>5

(* A sequence is a prefix of every sequence that continues it.             *)
LEMMA PrefixOfConcat ==
    ASSUME NEW S, NEW s \in Seq(S), NEW t \in Seq(S)
    PROVE  IsPrefix(s, s \o t)
<1>1. Len(s) \in Nat /\ Len(t) \in Nat /\ Len(s \o t) = Len(s) + Len(t)
  OBVIOUS
<1>2. SubSeq(s \o t, 1, Len(s)) = SubSeq(s, 1, Len(s))
  OBVIOUS
<1> QED  BY <1>1, <1>2 DEF IsPrefix

-----------------------------------------------------------------------------
(* Types.                                                                  *)

(* A handler inside a transaction is at a line of its request.             *)
LEMMA CurrentType ==
    ASSUME TypeOK, NEW c \in Clients, pc[c] # "idle"
    PROVE  /\ req[c] \in Seq(Line)
           /\ at[c] \in 1..Len(req[c])
           /\ Current(c) \in Line
           /\ Current(c).row \in Rows
<1>1. at[c] \in DOMAIN req[c] /\ req[c] \in Requests \cup {<<>>}
  BY DEF TypeOK
<1>2. req[c] \in Seq(Line)
  BY <1>1, RequestAssumption
<1>3. at[c] \in 1..Len(req[c])
  BY <1>1, <1>2
<1>4. Current(c) \in Line
  BY <1>2, <1>3 DEF Current
<1> QED  BY <1>2, <1>3, <1>4 DEF Line

(* What a line moves is a quantity of boards and metres.                   *)
LEMMA DeltaType ==
    ASSUME TypeOK, NEW c \in Clients, pc[c] # "idle"
    PROVE  Delta(c) \in Ledger!Quantity
<1>1. Current(c) \in Line  BY CurrentType
<1>2. Size[Current(c).row] \in Nat
  BY <1>1, SizeAssumption DEF Line
<1>3. seen[c] \in Int  BY DEF TypeOK
<1> DEFINE b == IF Current(c).kind = "count" THEN Current(c).boards - seen[c]
                ELSE Current(c).boards
<1>4. b \in Int  BY <1>1, <1>3 DEF Line
<1>5. b * Size[Current(c).row] \in Int  BY <1>2, <1>4
<1>6. Current(c).meters \in Int  BY <1>1 DEF Line
<1> QED  BY <1>4, <1>5, <1>6 DEF Delta, Ledger!Quantity

(* The row a transaction sees is a quantity.                               *)
LEMMA OnHandType ==
    ASSUME TypeOK, NEW c \in Clients, NEW r \in Rows
    PROVE  OnHand(c, r) \in Ledger!Quantity
<1>1. work[c][r] \in Seq(Ledger!Movement) /\ balance[r] \in Ledger!Quantity
  BY DEF TypeOK
<1> QED  BY <1>1, ClosingType DEF OnHand

(* Ending a transaction keeps the types of everything that is not committed.*)
LEMMA EndTypes ==
    ASSUME TypeOK, NEW c \in Clients, EndTransaction(c),
           balance' \in [Rows -> Ledger!Quantity],
           ledger' \in [Rows -> Seq(Ledger!Movement)],
           lastCounted' \in SUBSET Rows
    PROVE  TypeOK'
<1>1. NoWork \in [Rows -> Seq(Ledger!Movement)]
  BY DEF NoWork
<1>2. lock' \in [Rows -> Clients \cup {NoOne}]
  BY DEF TypeOK, EndTransaction
<1>3. work' \in [Clients -> [Rows -> Seq(Ledger!Movement)]]
  BY <1>1 DEF TypeOK, EndTransaction
<1>4. /\ pc' \in [Clients -> {"idle", "line", "counted", "locked", "done"}]
      /\ req' \in [Clients -> Requests \cup {<<>>}]
      /\ at' \in [Clients -> Nat \ {0}]
      /\ seen' \in [Clients -> Int]
      /\ stamps' \in [Clients -> SUBSET Rows]
      /\ started' \in 0..MaxRequests
  BY DEF TypeOK, EndTransaction
<1>5. \A d \in Clients : at'[d] \in IF pc'[d] = "idle" THEN {1} ELSE DOMAIN req'[d]
  BY DEF TypeOK, EndTransaction
<1> QED  BY <1>2, <1>3, <1>4, <1>5 DEF TypeOK

(* A transaction that rolls back leaves every variable well typed.         *)
LEMMA RollbackTypes ==
    ASSUME TypeOK, NEW c \in Clients, Rollback(c)
    PROVE  TypeOK'
BY EndTypes DEF Rollback, committed, TypeOK

(* The loop over the lines stays inside the request.                       *)
LEMMA NextLineTypes ==
    ASSUME TypeOK, NEW c \in Clients, pc[c] # "idle", NextLine(c), req' = req
    PROVE  /\ pc' \in [Clients -> {"idle", "line", "counted", "locked", "done"}]
           /\ at' \in [Clients -> Nat \ {0}]
           /\ \A d \in Clients : at'[d] \in IF pc'[d] = "idle" THEN {1} ELSE DOMAIN req'[d]
<1>1. req[c] \in Seq(Line) /\ at[c] \in 1..Len(req[c])
  BY CurrentType
<1>2. CASE at[c] < Len(req[c])
  <2>1. at[c] + 1 \in 1..Len(req[c])  BY <1>1, <1>2
  <2>2. pc' = [pc EXCEPT ![c] = "line"] /\ at' = [at EXCEPT ![c] = @ + 1]
    BY <1>2 DEF NextLine
  <2> QED  BY <1>1, <2>1, <2>2 DEF TypeOK
<1>3. CASE ~(at[c] < Len(req[c]))
  BY <1>1, <1>3 DEF NextLine, TypeOK
<1> QED  BY <1>2, <1>3

(* The initial state has its types.                                        *)
LEMMA TypeInit == Init => TypeOK
<1> SUFFICES ASSUME Init PROVE TypeOK
  OBVIOUS
<1>1. Ledger!Zero \in Ledger!Quantity
  BY DEF Ledger!Zero, Ledger!Quantity
<1>2. NoWork \in [Rows -> Seq(Ledger!Movement)]
  BY DEF NoWork
<1>3. started \in 0..MaxRequests
  BY BoundAssumption DEF Init
<1> QED  BY <1>1, <1>2, <1>3 DEF Init, TypeOK

(* Every step keeps the types.                                             *)
LEMMA TypeNext == TypeOK /\ [Next]_vars => TypeOK'
<1> SUFFICES ASSUME TypeOK, [Next]_vars PROVE TypeOK'
  OBVIOUS
<1>1. CASE UNCHANGED vars
  BY <1>1 DEF vars, TypeOK
<1>2. ASSUME NEW c \in Clients, Begin(c) PROVE TypeOK'
  <2>1. PICK q \in Requests : req' = [req EXCEPT ![c] = q]
    BY <1>2 DEF Begin
  <2>2. q \in Seq(Line) /\ q # <<>>
    BY RequestAssumption
  <2>3. started' \in 0..MaxRequests
    BY <1>2, BoundAssumption DEF Begin, TypeOK
  <2>4. \A d \in Clients : at'[d] \in IF pc'[d] = "idle" THEN {1} ELSE DOMAIN req'[d]
    <3> SUFFICES ASSUME NEW d \in Clients
                 PROVE  at'[d] \in IF pc'[d] = "idle" THEN {1} ELSE DOMAIN req'[d]
      OBVIOUS
    <3>1. CASE d # c
      BY <3>1, <1>2, <2>1 DEF Begin, TypeOK
    <3>2. CASE d = c
      BY <3>2, <1>2, <2>1, <2>2 DEF Begin, TypeOK
    <3> QED  BY <3>1, <3>2
  <2> QED  BY <1>2, <2>1, <2>3, <2>4 DEF Begin, TypeOK, committed
<1>3. ASSUME NEW c \in Clients, CountLock(c) PROVE TypeOK'
  <2>1. Current(c).row \in Rows
    BY <1>3, CurrentType DEF CountLock
  <2>2. OnHand(c, Current(c).row) \in Ledger!Quantity
    BY <2>1, OnHandType
  <2>3. OnHand(c, Current(c).row).boards \in Int
    BY <2>2 DEF Ledger!Quantity
  <2> QED  BY <1>3, <2>1, <2>3 DEF CountLock, Lock, committed, TypeOK
<1>4. ASSUME NEW c \in Clients, LockRow(c) PROVE TypeOK'
  <2>1. pc[c] # "idle"
    BY <1>4 DEF LockRow, Calling
  <2>2. Current(c).row \in Rows
    BY <2>1, CurrentType
  <2> QED  BY <1>4, <2>1, <2>2 DEF LockRow, Lock, committed, TypeOK
<1>5. ASSUME NEW c \in Clients, NoVariance(c) PROVE TypeOK'
  <2>1. Current(c).row \in Rows
    BY <1>5, CurrentType DEF NoVariance
  <2>2. stamps' \in [Clients -> SUBSET Rows]
    BY <1>5, <2>1 DEF NoVariance, TypeOK
  <2>3. pc[c] # "idle" /\ NextLine(c) /\ req' = req
    BY <1>5 DEF NoVariance
  <2>4. /\ pc' \in [Clients -> {"idle", "line", "counted", "locked", "done"}]
        /\ at' \in [Clients -> Nat \ {0}]
        /\ \A d \in Clients : at'[d] \in IF pc'[d] = "idle" THEN {1} ELSE DOMAIN req'[d]
    BY <2>3, NextLineTypes
  <2> QED  BY <1>5, <2>2, <2>4 DEF NoVariance, committed, TypeOK
<1>6. ASSUME NEW c \in Clients, ApplyMovement(c) PROVE TypeOK'
  <2> DEFINE r == Current(c).row
             after == Ledger!Plus(OnHand(c, r), Delta(c))
             m == [delta |-> Delta(c), after |-> after]
  <2>1. pc[c] # "idle" /\ NextLine(c) /\ req' = req
    BY <1>6 DEF ApplyMovement
  <2>2. r \in Rows
    BY <2>1, CurrentType
  <2>3. m \in Ledger!Movement
    BY <2>1, <2>2, DeltaType, OnHandType, PlusType DEF Ledger!Movement
  <2>4. work' = [work EXCEPT ![c][r] = Append(@, m)]
    BY <1>6 DEF ApplyMovement
  <2>5. work' \in [Clients -> [Rows -> Seq(Ledger!Movement)]]
    <3> HIDE DEF m, r
    <3>1. Append(work[c][r], m) \in Seq(Ledger!Movement)
      BY <2>2, <2>3 DEF TypeOK
    <3> QED  BY <2>2, <2>4, <3>1 DEF TypeOK
  <2>6. stamps' \in [Clients -> SUBSET Rows]
    BY <1>6, <2>2 DEF ApplyMovement, TypeOK
  <2>7. /\ pc' \in [Clients -> {"idle", "line", "counted", "locked", "done"}]
        /\ at' \in [Clients -> Nat \ {0}]
        /\ \A d \in Clients : at'[d] \in IF pc'[d] = "idle" THEN {1} ELSE DOMAIN req'[d]
    BY <2>1, NextLineTypes
  <2> QED  BY <1>6, <2>5, <2>6, <2>7 DEF ApplyMovement, committed, TypeOK
<1>7. ASSUME NEW c \in Clients, Commit(c) PROVE TypeOK'
  <2>1. balance' \in [Rows -> Ledger!Quantity]
    BY <1>7, OnHandType DEF Commit
  <2>2. ledger' \in [Rows -> Seq(Ledger!Movement)]
    BY <1>7 DEF Commit, TypeOK
  <2>3. lastCounted' \in SUBSET Rows
    BY <1>7 DEF Commit, TypeOK
  <2> QED  BY <1>7, <2>1, <2>2, <2>3, EndTypes DEF Commit
<1>8. ASSUME NEW c \in Clients, Rollback(c) PROVE TypeOK'
  BY <1>8, RollbackTypes
<1> QED
  BY <1>1, <1>2, <1>3, <1>4, <1>5, <1>6, <1>7, <1>8
     DEF Next, Step, RefuseMovement, InsufficientStock, DeadlockVictim, Abort

(* Type correctness of the engine for any clients, rows and requests.      *)
THEOREM TypeCorrect == Spec => []TypeOK
BY TypeInit, TypeNext, PTL DEF Spec

-----------------------------------------------------------------------------
(* The inductive invariant.                                                *)

(* The empty ledger satisfies the inductive invariant.                     *)
LEMMA InvInit == Init => IInv
<1> SUFFICES ASSUME Init PROVE IInv
  OBVIOUS
<1>1. TypeOK  BY TypeInit
<1>2. LockDiscipline  BY DEF Init, LockDiscipline, NoWork
<1>3. CommittedTotals
  BY DEF Init, CommittedTotals, Ledger!RunningTotals, Ledger!Closing
<1>4. UncommittedTotals
  BY DEF Init, NoWork, UncommittedTotals, Ledger!RunningTotals
<1> QED  BY <1>1, <1>2, <1>3, <1>4 DEF IInv

(* Taking a free row lock, or one's own again, touches nobody else's rows. *)
LEMMA LockKeepsDiscipline ==
    ASSUME IInv, NEW c \in Clients, pc[c] # "idle",
           Lockable(c, Current(c).row), Lock(c, Current(c).row),
           NEW p \in {"counted", "locked"}, pc' = [pc EXCEPT ![c] = p],
           UNCHANGED <<req, at, work>>
    PROVE  LockDiscipline'
<1> DEFINE row == Current(c).row
<1>1. row \in Rows  BY CurrentType DEF IInv
<1> SUFFICES ASSUME NEW d \in Clients
             PROVE  /\ \A r \in Rows : work'[d][r] # <<>> => lock'[r] = d
                    /\ pc'[d] \in {"counted", "locked"} => lock'[Current(d)'.row] = d
                    /\ pc'[d] = "idle" => work'[d] = NoWork
  BY DEF LockDiscipline
<1>2. Current(d)' = Current(d)  BY DEF Current
<1>3. lock' = [lock EXCEPT ![row] = c] /\ lock[row] \in {c, NoOne}
  BY DEF Lock, Lockable
<1>4. d # NoOne  BY NoOneAssumption
<1>5. ASSUME NEW r \in Rows, lock[r] = d PROVE lock'[r] = d
  BY <1>1, <1>3, <1>4, <1>5 DEF IInv, TypeOK
<1>6. \A r \in Rows : work'[d][r] # <<>> => lock'[r] = d
  BY <1>5 DEF IInv, LockDiscipline
<1>7. pc'[d] \in {"counted", "locked"} => lock'[Current(d)'.row] = d
  <2>1. CASE d = c
    BY <2>1, <1>1, <1>2, <1>3 DEF IInv, TypeOK
  <2>2. CASE d # c
    <3> SUFFICES ASSUME pc[d] \in {"counted", "locked"}
                 PROVE  lock'[Current(d).row] = d
      BY <2>2, <1>2 DEF IInv, TypeOK
    <3>1. Current(d).row \in Rows  BY CurrentType DEF IInv
    <3>2. lock[Current(d).row] = d  BY DEF IInv, LockDiscipline
    <3> QED  BY <3>1, <3>2, <1>5
  <2> QED  BY <2>1, <2>2
<1>8. pc'[d] = "idle" => work'[d] = NoWork
  BY DEF IInv, TypeOK, LockDiscipline
<1> QED  BY <1>6, <1>7, <1>8

(* A transaction that ends gives up its own locks and work only.           *)
LEMMA EndKeepsDiscipline ==
    ASSUME IInv, NEW c \in Clients, EndTransaction(c)
    PROVE  LockDiscipline'
<1> SUFFICES ASSUME NEW d \in Clients
             PROVE  /\ \A r \in Rows : work'[d][r] # <<>> => lock'[r] = d
                    /\ pc'[d] \in {"counted", "locked"} => lock'[Current(d)'.row] = d
                    /\ pc'[d] = "idle" => work'[d] = NoWork
  BY DEF LockDiscipline
<1>1. CASE d = c
  <2>1. work'[c] = NoWork /\ pc'[c] = "idle"
    BY DEF EndTransaction, IInv, TypeOK
  <2> QED  BY <1>1, <2>1 DEF NoWork
<1>2. CASE d # c
  <2>1. work'[d] = work[d] /\ pc'[d] = pc[d] /\ Current(d)' = Current(d)
    BY <1>2 DEF EndTransaction, IInv, TypeOK, Current
  <2>2. \A r \in Rows : lock[r] = d => lock'[r] = d
    BY <1>2 DEF EndTransaction
  <2>3. pc[d] \in {"counted", "locked"} => Current(d).row \in Rows
    BY CurrentType DEF IInv
  <2> QED  BY <2>1, <2>2, <2>3 DEF IInv, LockDiscipline
<1> QED  BY <1>1, <1>2

(* The loop moves on to a line whose row it has not locked yet.            *)
LEMMA NextLineDiscipline ==
    ASSUME IInv, NEW c \in Clients, pc[c] # "idle", NextLine(c),
           UNCHANGED <<lock, req>>,
           \A d \in Clients : d # c => work'[d] = work[d],
           \A r \in Rows : work'[c][r] # <<>> => lock[r] = c
    PROVE  LockDiscipline'
<1> SUFFICES ASSUME NEW d \in Clients
             PROVE  /\ \A r \in Rows : work'[d][r] # <<>> => lock'[r] = d
                    /\ pc'[d] \in {"counted", "locked"} => lock'[Current(d)'.row] = d
                    /\ pc'[d] = "idle" => work'[d] = NoWork
  BY DEF LockDiscipline
<1>1. CASE d = c
  <2>1. pc'[c] \in {"line", "done"}
    BY DEF NextLine, IInv, TypeOK
  <2> QED  BY <1>1, <2>1
<1>2. CASE d # c
  <2>1. pc'[d] = pc[d] /\ at'[d] = at[d]
    BY <1>2 DEF NextLine, IInv, TypeOK
  <2>2. Current(d)' = Current(d)
    BY <2>1 DEF Current
  <2> QED  BY <1>2, <2>1, <2>2 DEF IInv, LockDiscipline
<1> QED  BY <1>1, <1>2

(* A step that commits nothing keeps the committed totals, and the work of *)
(* every transaction it does not extend.                                   *)
LEMMA UncommittedStep ==
    ASSUME IInv, UNCHANGED <<balance, ledger>>,
           \A d \in Clients, r \in Rows :
               \/ work'[d][r] = work[d][r]
               \/ Ledger!RunningTotals(work'[d][r], balance[r])
    PROVE  CommittedTotals' /\ UncommittedTotals'
<1>1. CommittedTotals'
  BY DEF IInv, CommittedTotals, Ledger!RunningTotals, Ledger!Closing
<1>2. UncommittedTotals'
  BY DEF IInv, UncommittedTotals, Ledger!RunningTotals
<1> QED  BY <1>1, <1>2

(* A rollback throws its own work away and changes nothing committed.      *)
LEMMA RollbackKeepsInv ==
    ASSUME IInv, NEW c \in Clients, Rollback(c)
    PROVE  IInv'
<1>1. EndTransaction(c) /\ UNCHANGED <<balance, ledger>>
  BY DEF Rollback, committed
<1>2. TypeOK'  BY RollbackTypes DEF IInv
<1>3. LockDiscipline'  BY <1>1, EndKeepsDiscipline
<1>4. \A d \in Clients, r \in Rows :
        \/ work'[d][r] = work[d][r]
        \/ Ledger!RunningTotals(work'[d][r], balance[r])
  BY <1>1 DEF EndTransaction, NoWork, IInv, TypeOK, Ledger!RunningTotals
<1> QED  BY <1>1, <1>2, <1>3, <1>4, UncommittedStep DEF IInv

(* One movement applied under the row lock.                                *)
LEMMA ApplyKeepsInv ==
    ASSUME IInv, NEW c \in Clients, ApplyMovement(c)
    PROVE  IInv'
<1> DEFINE row == Current(c).row
           after == Ledger!Plus(OnHand(c, row), Delta(c))
           m == [delta |-> Delta(c), after |-> after]
<1>1. TypeOK'
  BY TypeNext DEF IInv, Next, Step
<1>2. pc[c] = "locked" /\ NextLine(c) /\ UNCHANGED <<lock, req, balance, ledger>>
  BY DEF ApplyMovement, committed
<1>3. row \in Rows /\ lock[row] = c
  BY <1>2, CurrentType DEF IInv, LockDiscipline
<1>4. work' = [work EXCEPT ![c][row] = Append(@, m)]
  BY DEF ApplyMovement
<1>5. m \in Ledger!Movement /\ m.delta = Delta(c) /\ m.after = after
  BY <1>2, <1>3, DeltaType, OnHandType, PlusType DEF Ledger!Movement, IInv
<1>6. Ledger!Sufficient(m.after)
  BY <1>5 DEF ApplyMovement
<1>7. m.after = Ledger!Plus(Ledger!Closing(work[c][row], balance[row]), m.delta)
  BY <1>5 DEF OnHand
<1> HIDE DEF m, row
<1>8. \A d \in Clients, r \in Rows :
        work'[d][r] = IF d = c /\ r = row THEN Append(work[c][row], m) ELSE work[d][r]
  BY <1>3, <1>4 DEF IInv, TypeOK
<1>9. LockDiscipline'
  <2>1. \A d \in Clients : d # c => work'[d] = work[d]
    BY <1>4 DEF IInv, TypeOK
  <2>2. \A r \in Rows : work'[c][r] # <<>> => lock[r] = c
    BY <1>3, <1>8 DEF IInv, LockDiscipline
  <2> QED  BY <1>2, <2>1, <2>2, NextLineDiscipline
<1>10. Ledger!RunningTotals(Append(work[c][row], m), balance[row])
  <2>1. /\ work[c][row] \in Seq(Ledger!Movement)
        /\ balance[row] \in Ledger!Quantity
        /\ Ledger!RunningTotals(work[c][row], balance[row])
    BY <1>3 DEF IInv, TypeOK, UncommittedTotals
  <2> QED  BY <2>1, <1>5, <1>6, <1>7, AppendKeepsTotals
<1>11. CommittedTotals' /\ UncommittedTotals'
  <2>1. \A d \in Clients, r \in Rows :
          \/ work'[d][r] = work[d][r]
          \/ Ledger!RunningTotals(work'[d][r], balance[r])
    BY <1>8, <1>10
  <2> QED  BY <1>2, <2>1, UncommittedStep
<1> QED  BY <1>1, <1>9, <1>11 DEF IInv

(* A commit: the rows it changes are its own by lock, so the work of every *)
(* other transaction still continues from the balance it started from.     *)
LEMMA CommitKeepsInv ==
    ASSUME IInv, NEW c \in Clients, Commit(c)
    PROVE  IInv'
<1>1. TypeOK'
  BY TypeNext DEF IInv, Next, Step
<1>2. LockDiscipline'
  BY EndKeepsDiscipline DEF Commit
<1>3. ASSUME NEW r \in Rows
      PROVE  /\ Ledger!RunningTotals(ledger'[r], Ledger!Zero)
             /\ balance'[r] = Ledger!Closing(ledger'[r], Ledger!Zero)
  <2>1. /\ ledger[r] \in Seq(Ledger!Movement)
        /\ work[c][r] \in Seq(Ledger!Movement)
        /\ Ledger!Zero \in Ledger!Quantity
    BY DEF IInv, TypeOK, Ledger!Zero, Ledger!Quantity
  <2>2. /\ Ledger!RunningTotals(ledger[r], Ledger!Zero)
        /\ balance[r] = Ledger!Closing(ledger[r], Ledger!Zero)
        /\ Ledger!RunningTotals(work[c][r], balance[r])
    BY DEF IInv, CommittedTotals, UncommittedTotals
  <2>3. ledger'[r] = ledger[r] \o work[c][r]
    BY DEF Commit
  <2>4. balance'[r] = Ledger!Closing(work[c][r], balance[r])
    BY DEF Commit, OnHand
  <2> QED  BY <2>1, <2>2, <2>3, <2>4, ConcatKeepsTotals
<1>4. CommittedTotals'
  BY <1>3 DEF CommittedTotals, Ledger!RunningTotals, Ledger!Closing
<1>5. ASSUME NEW d \in Clients, NEW r \in Rows
      PROVE  Ledger!RunningTotals(work'[d][r], balance'[r])
  <2>1. CASE d = c \/ work[d][r] = <<>>
    <3>1. work'[d][r] = <<>>
      BY <2>1 DEF Commit, EndTransaction, NoWork, IInv, TypeOK
    <3> QED  BY <3>1 DEF Ledger!RunningTotals
  <2>2. CASE d # c /\ work[d][r] # <<>>
    <3>1. work[c][r] = <<>>
      BY <2>2 DEF IInv, LockDiscipline
    <3>2. balance'[r] = balance[r] /\ work'[d][r] = work[d][r]
      BY <2>2, <3>1 DEF Commit, OnHand, Ledger!Closing, EndTransaction, IInv, TypeOK
    <3> QED  BY <3>2 DEF IInv, UncommittedTotals
  <2> QED  BY <2>1, <2>2
<1>6. UncommittedTotals'
  BY <1>5 DEF UncommittedTotals, Ledger!RunningTotals
<1> QED  BY <1>1, <1>2, <1>4, <1>6 DEF IInv

(* Every step of the engine keeps the inductive invariant.                 *)
LEMMA InvNext == IInv /\ [Next]_vars => IInv'
<1> SUFFICES ASSUME IInv, [Next]_vars PROVE IInv'
  OBVIOUS
<1>1. TypeOK'
  BY TypeNext DEF IInv
<1>2. CASE UNCHANGED vars
  <2>1. LockDiscipline'
    BY <1>2 DEF vars, IInv, LockDiscipline, Current
  <2> QED  BY <1>1, <1>2, <2>1, UncommittedStep DEF vars, IInv
<1>3. ASSUME NEW c \in Clients, Begin(c) PROVE IInv'
  <2>1. UNCHANGED <<balance, ledger, lock, at, work>>
    BY <1>3 DEF Begin, committed
  <2>2. LockDiscipline'
    <3> SUFFICES ASSUME NEW d \in Clients
                 PROVE  /\ \A r \in Rows : work'[d][r] # <<>> => lock'[r] = d
                        /\ pc'[d] \in {"counted", "locked"} => lock'[Current(d)'.row] = d
                        /\ pc'[d] = "idle" => work'[d] = NoWork
      BY DEF LockDiscipline
    <3>1. CASE d = c
      BY <1>3, <2>1, <3>1 DEF Begin, IInv, TypeOK, LockDiscipline
    <3>2. CASE d # c
      <4>1. pc'[d] = pc[d] /\ req'[d] = req[d]
        BY <1>3, <3>2 DEF Begin, IInv, TypeOK
      <4>2. Current(d)' = Current(d)
        BY <4>1, <2>1 DEF Current
      <4> QED  BY <4>1, <4>2, <2>1 DEF IInv, LockDiscipline
    <3> QED  BY <3>1, <3>2
  <2> QED  BY <1>1, <2>1, <2>2, UncommittedStep DEF IInv
<1>4. ASSUME NEW c \in Clients, CountLock(c) PROVE IInv'
  <2>1. LockDiscipline'
    BY <1>4, LockKeepsDiscipline DEF CountLock
  <2> QED  BY <1>1, <1>4, <2>1, UncommittedStep DEF CountLock, committed, IInv
<1>5. ASSUME NEW c \in Clients, LockRow(c) PROVE IInv'
  <2>1. LockDiscipline'
    BY <1>5, LockKeepsDiscipline DEF LockRow, Calling
  <2> QED  BY <1>1, <1>5, <2>1, UncommittedStep DEF LockRow, committed, IInv
<1>6. ASSUME NEW c \in Clients, NoVariance(c) PROVE IInv'
  <2>1. pc[c] # "idle" /\ NextLine(c) /\ UNCHANGED <<lock, req, work, balance, ledger>>
    BY <1>6 DEF NoVariance, committed
  <2>2. LockDiscipline'
    BY <2>1, NextLineDiscipline DEF IInv, LockDiscipline
  <2> QED  BY <1>1, <2>1, <2>2, UncommittedStep DEF IInv
<1>7. ASSUME NEW c \in Clients, Rollback(c) PROVE IInv'
  BY <1>7, RollbackKeepsInv
<1> QED
  BY <1>2, <1>3, <1>4, <1>5, <1>6, <1>7, ApplyKeepsInv, CommitKeepsInv
     DEF Next, Step, RefuseMovement, InsufficientStock, DeadlockVictim, Abort

(* The inductive invariant holds in every reachable state.                 *)
THEOREM EngineInvariant == Spec => []IInv
BY InvInit, InvNext, PTL DEF Spec

-----------------------------------------------------------------------------
(* What follows from it.                                                   *)

(* No row of any branch ever goes below zero, in boards or in metres, for  *)
(* any number of concurrent requests (the constitution's first principle). *)
THEOREM StockNeverNegative == Spec => []NonNegative
<1>1. IInv => NonNegative
  <2> SUFFICES ASSUME IInv, NEW r \in Rows
               PROVE  balance[r].boards >= 0 /\ balance[r].meters >= 0
    BY DEF NonNegative
  <2>1. /\ ledger[r] \in Seq(Ledger!Movement)
        /\ Ledger!RunningTotals(ledger[r], Ledger!Zero)
        /\ balance[r] = Ledger!Closing(ledger[r], Ledger!Zero)
    BY DEF IInv, TypeOK, CommittedTotals
  <2>2. CASE ledger[r] = <<>>
    BY <2>1, <2>2 DEF Ledger!Closing, Ledger!Zero
  <2>3. CASE ledger[r] # <<>>
    <3>1. Len(ledger[r]) \in 1..Len(ledger[r])
      BY <2>1, <2>3
    <3> QED  BY <2>1, <2>3, <3>1 DEF Ledger!Closing, Ledger!RunningTotals, Ledger!Sufficient
  <2> QED  BY <2>2, <2>3
<1> QED  BY <1>1, EngineInvariant, PTL

(* Every commit is one step of the abstract ledger and every other step    *)
(* changes nothing it can see.                                             *)
LEMMA StepRefines == IInv /\ IInv' /\ [Next]_vars => [Ledger!Post]_Ledger!ledgerVars
<1> SUFFICES ASSUME IInv, IInv', [Next]_vars
             PROVE  [Ledger!Post]_Ledger!ledgerVars
  OBVIOUS
<1>1. ASSUME NEW c \in Clients, Commit(c) PROVE Ledger!Post
  <2>1. \A r \in Rows : IsPrefix(ledger[r], ledger'[r])
    <3> SUFFICES ASSUME NEW r \in Rows PROVE IsPrefix(ledger[r], ledger'[r])
      OBVIOUS
    <3>1. ledger[r] \in Seq(Ledger!Movement) /\ work[c][r] \in Seq(Ledger!Movement)
      BY DEF IInv, TypeOK
    <3>2. ledger'[r] = ledger[r] \o work[c][r]
      BY <1>1 DEF Commit
    <3> QED  BY <3>1, <3>2, PrefixOfConcat
  <2>2. \A r \in Rows : /\ Ledger!RunningTotals(ledger'[r], Ledger!Zero)
                        /\ balance'[r] = Ledger!Closing(ledger'[r], Ledger!Zero)
    BY DEF IInv, CommittedTotals, Ledger!RunningTotals, Ledger!Closing
  <2>3. balance' = [r \in Rows |-> Ledger!Closing(ledger'[r], Ledger!Zero)]
    BY <2>2 DEF IInv, TypeOK
  <2> QED  BY <2>1, <2>2, <2>3 DEF Ledger!Post, IsPrefix, Ledger!IsPrefix
<1>2. ASSUME UNCHANGED <<balance, ledger>> PROVE UNCHANGED Ledger!ledgerVars
  BY <1>2 DEF Ledger!ledgerVars
<1> QED
  BY <1>1, <1>2
     DEF Next, Step, vars, committed, Begin, CountLock, LockRow, NoVariance,
         RefuseMovement, ApplyMovement, InsufficientStock, DeadlockVictim, Abort, Rollback

(* The engine with all its transactions, locks, timeouts and deadlocks     *)
(* implements the abstract stock ledger.                                   *)
THEOREM EngineImplementsLedger == Spec => LedgerSpec
<1>1. Init => Ledger!Init
  BY DEF Init, Ledger!Init
<1> QED
  BY <1>1, EngineInvariant, StepRefines, PTL DEF Spec, LedgerSpec, Ledger!Spec

-----------------------------------------------------------------------------
(* How far a handler is.  Its uncommitted movements are those of the lines *)
(* it has been through, one each, and a row it has counted has what was    *)
(* counted: nobody else writes a row between the count and the commit.     *)

(* The lines done: a handler is at the line to do next until it is through.*)
Did(c) == IF pc[c] = "done" THEN at[c] ELSE at[c] - 1

AtEnd(c) ==
    /\ pc[c] = "done" => at[c] = Len(req[c])
    /\ pc[c] = "counted" => Current(c).kind = "count"

(* The movement of line i is the one its number among its row's lines says.*)
Written(c) ==
    /\ \A r \in Rows : Len(work[c][r]) = Cardinality(LinesOf(req[c], Did(c), r))
    /\ \A i \in 1..Did(c) :
         LET r == req[c][i].row
         IN  work[c][r][Cardinality(LinesOf(req[c], i, r))].delta.boards = req[c][i].boards

Counted(c) ==
    /\ pc[c] = "counted" \/ (pc[c] = "locked" /\ Current(c).kind = "count") =>
         seen[c] = OnHand(c, Current(c).row).boards
    /\ \A i \in 1..Did(c) : IsCount(req[c], i) /\ LastOf(req[c], Did(c), i) =>
         LET r == req[c][i].row
         IN  lock[r] = c /\ OnHand(c, r).boards = req[c][i].boards /\ r \in stamps[c]

Progress(c) ==
    pc[c] # "idle" => AtEnd(c) /\ Counted(c) /\ (~Counts(req[c]) => Written(c))

ProgressInv == \A c \in Clients : Progress(c)

(* One more line of a row, or of another.                                  *)
LEMMA OneMoreLine ==
    ASSUME NEW q, NEW k \in Nat \ {0}, NEW r
    PROVE  /\ IsFiniteSet(LinesOf(q, k, r)) /\ Cardinality(LinesOf(q, k, r)) \in Nat
           /\ Cardinality(LinesOf(q, k - 1, r)) \in Nat
           /\ Cardinality(LinesOf(q, k, r)) =
                Cardinality(LinesOf(q, k - 1, r)) + (IF q[k].row = r THEN 1 ELSE 0)
<1>1. IsFiniteSet(1..k) /\ IsFiniteSet(1..(k - 1))
  BY FS_Interval
<1>2. IsFiniteSet(LinesOf(q, k, r)) /\ IsFiniteSet(LinesOf(q, k - 1, r))
  BY <1>1, FS_Subset DEF LinesOf
<1>3. k \notin LinesOf(q, k - 1, r)
  BY DEF LinesOf
<1>4. LinesOf(q, k, r) = LinesOf(q, k - 1, r) \cup (IF q[k].row = r THEN {k} ELSE {})
  BY DEF LinesOf
<1>5. CASE q[k].row = r
  BY <1>2, <1>3, <1>4, <1>5, FS_AddElement, FS_CardinalityType
<1>6. CASE q[k].row # r
  BY <1>2, <1>4, <1>6, FS_CardinalityType
<1> QED  BY <1>2, <1>5, <1>6, FS_CardinalityType

LEMMA NoLine == ASSUME NEW q, NEW r PROVE Cardinality(LinesOf(q, 0, r)) = 0
<1>1. LinesOf(q, 0, r) = {}
  BY DEF LinesOf
<1> QED  BY <1>1, FS_EmptySet

(* A line's number is within those of the lines done.                      *)
LEMMA NumberOfLine ==
    ASSUME NEW q, NEW n \in Nat, NEW i \in 1..n
    PROVE  Cardinality(LinesOf(q, i, q[i].row)) \in 1..Cardinality(LinesOf(q, n, q[i].row))
<1> DEFINE r == q[i].row
<1>1. IsFiniteSet(LinesOf(q, n, r))
  <2>1. IsFiniteSet(1..n)
    BY FS_Interval
  <2> QED  BY <2>1, FS_Subset DEF LinesOf
<1>2. LinesOf(q, i, r) \subseteq LinesOf(q, n, r)
  BY DEF LinesOf
<1>3. /\ Cardinality(LinesOf(q, i, r)) <= Cardinality(LinesOf(q, n, r))
      /\ Cardinality(LinesOf(q, n, r)) \in Nat
  BY <1>1, <1>2, FS_Subset, FS_CardinalityType
<1>4. Cardinality(LinesOf(q, i, r)) = Cardinality(LinesOf(q, i - 1, r)) + 1
      /\ Cardinality(LinesOf(q, i - 1, r)) \in Nat
  <2>1. i \in Nat \ {0} /\ q[i].row = r
    OBVIOUS
  <2> HIDE DEF r
  <2> QED  BY <2>1, OneMoreLine
<1> QED  BY <1>3, <1>4

(* What a handler has done is of its request.                              *)
LEMMA DidType ==
    ASSUME IInv, NEW c \in Clients, pc[c] # "idle"
    PROVE  /\ Did(c) \in Nat /\ at[c] \in Nat \ {0} /\ Did(c) <= Len(req[c])
           /\ req[c] \in Seq(Line) /\ Len(req[c]) \in Nat
           /\ \A i \in 1..Did(c) : i \in DOMAIN req[c] /\ req[c][i] \in Line /\ req[c][i].row \in Rows
<1>1. req[c] \in Seq(Line) /\ at[c] \in 1..Len(req[c])
  BY CurrentType DEF IInv
<1>2. Did(c) \in Nat /\ Did(c) <= Len(req[c])
  BY <1>1 DEF Did
<1>3. ASSUME NEW i \in 1..Did(c) PROVE i \in 1..Len(req[c]) /\ req[c][i] \in Line
  BY <1>1, <1>2
<1>4. ASSUME NEW i \in 1..Did(c) PROVE i \in DOMAIN req[c] /\ req[c][i].row \in Rows
  BY <1>1, <1>3 DEF Line
<1> QED  BY <1>1, <1>2, <1>3, <1>4

(* The loop: the line a handler was at is done.                            *)
LEMMA NextLineDid ==
    ASSUME IInv, NEW c \in Clients, pc[c] \in {"line", "counted", "locked"}, NextLine(c), req' = req
    PROVE  /\ pc'[c] \in {"line", "done"} /\ Did(c)' = at[c] /\ Did(c) = at[c] - 1
           /\ AtEnd(c)'
<1>1. at[c] \in 1..Len(req[c]) /\ req[c] \in Seq(Line)
  BY CurrentType DEF IInv
<1>2. CASE at[c] < Len(req[c])
  <2>1. pc'[c] = "line" /\ at'[c] = at[c] + 1
    BY <1>2 DEF NextLine, IInv, TypeOK
  <2> QED  BY <1>1, <2>1 DEF Did, AtEnd
<1>3. CASE ~(at[c] < Len(req[c]))
  <2>1. pc'[c] = "done" /\ at'[c] = at[c]
    BY <1>3 DEF NextLine, IInv, TypeOK
  <2>2. at[c] = Len(req[c])
    BY <1>1, <1>3
  <2> QED  BY <2>1, <2>2 DEF Did, AtEnd
<1> QED  BY <1>2, <1>3

-----------------------------------------------------------------------------

(* What another handler does leaves a handler where it is.                 *)
Apart(d) ==
    /\ pc'[d] = pc[d] /\ req'[d] = req[d] /\ at'[d] = at[d] /\ seen'[d] = seen[d]
    /\ work'[d] = work[d] /\ stamps'[d] = stamps[d]
    /\ \A r \in Rows : lock[r] = d => lock'[r] = d /\ balance'[r] = balance[r]

LEMMA OthersProgress ==
    ASSUME IInv, NEW d \in Clients, Progress(d), Apart(d)
    PROVE  Progress(d)'
<1> SUFFICES ASSUME pc[d] # "idle" PROVE (AtEnd(d) /\ Counted(d) /\ (~Counts(req[d]) => Written(d)))'
  BY DEF Progress, Apart
<1>1. AtEnd(d) /\ Counted(d) /\ (~Counts(req[d]) => Written(d))
  BY DEF Progress
<1>2. Did(d)' = Did(d) /\ Current(d)' = Current(d)
  BY DEF Did, Current, Apart
<1>3. \A r \in Rows : lock[r] = d => OnHand(d, r)' = OnHand(d, r) /\ lock'[r] = d
  BY DEF OnHand, Apart, Ledger!Closing
<1>4. (AtEnd(d) /\ (~Counts(req[d]) => Written(d)))'
  BY <1>1, <1>2 DEF Apart, AtEnd, Written
<1>5. Current(d).row \in Rows /\ (pc[d] \in {"counted", "locked"} => lock[Current(d).row] = d)
  BY CurrentType DEF IInv, LockDiscipline
<1>6. (pc[d] = "counted" \/ (pc[d] = "locked" /\ Current(d).kind = "count") =>
         seen[d] = OnHand(d, Current(d).row).boards)'
  <2>1. PICK r \in Rows : r = Current(d).row
    BY <1>5
  <2> QED  BY <1>1, <1>2, <1>3, <1>5, <2>1 DEF Counted, Apart
<1>7. ASSUME NEW i \in 1..Did(d), IsCount(req[d], i), LastOf(req[d], Did(d), i),
             NEW r \in {req[d][i].row}
      PROVE  lock'[r] = d /\ OnHand(d, r)'.boards = req[d][i].boards /\ r \in stamps'[d]
  <2>1. lock[r] = d /\ OnHand(d, r).boards = req[d][i].boards /\ r \in stamps[d]
    BY <1>1, <1>7 DEF Counted
  <2>2. r \in Rows
    BY DidType
  <2> QED  BY <1>3, <2>1, <2>2 DEF Apart
<1>8. Counted(d)'
  BY <1>2, <1>6, <1>7 DEF Counted, Apart
<1> QED  BY <1>4, <1>8

(* Of a step that commits nothing, only the handler that takes it is to be *)
(* looked at.                                                              *)
LEMMA OnlyMine ==
    ASSUME IInv, ProgressInv, NEW c \in Clients, Progress(c)', balance' = balance,
           \A d \in Clients \ {c} :
             /\ pc'[d] = pc[d] /\ req'[d] = req[d] /\ at'[d] = at[d] /\ seen'[d] = seen[d]
             /\ work'[d] = work[d] /\ stamps'[d] = stamps[d]
             /\ \A r \in Rows : lock[r] = d => lock'[r] = d
    PROVE  ProgressInv'
<1>1. ASSUME NEW d \in Clients \ {c} PROVE Progress(d)'
  <2>1. Apart(d)
    BY DEF Apart
  <2> QED  BY <2>1, OthersProgress DEF ProgressInv
<1> QED  BY <1>1 DEF ProgressInv

LEMMA EndKeepsProgress ==
    ASSUME IInv, ProgressInv, NEW c \in Clients, EndTransaction(c),
           \A r \in Rows : lock[r] # c => balance'[r] = balance[r]
    PROVE  ProgressInv'
<1>1. pc'[c] = "idle"
  BY DEF EndTransaction, IInv, TypeOK
<1>2. ASSUME NEW d \in Clients \ {c} PROVE Progress(d)'
  <2>1. Apart(d)
    BY DEF Apart, EndTransaction, IInv, TypeOK
  <2> QED  BY <2>1, OthersProgress DEF ProgressInv
<1> QED  BY <1>1, <1>2 DEF ProgressInv, Progress

LEMMA BeginProgress ==
    ASSUME IInv, ProgressInv, NEW c \in Clients, Begin(c)
    PROVE  ProgressInv'
<1>1. PICK q \in Requests : req' = [req EXCEPT ![c] = q]
  BY DEF Begin
<1>2. /\ pc[c] = "idle" /\ pc' = [pc EXCEPT ![c] = "line"]
      /\ UNCHANGED <<balance, lock, at, seen, work, stamps>>
  BY DEF Begin, committed
<1>3. at[c] = 1 /\ work[c] = NoWork
  BY <1>2 DEF IInv, TypeOK, LockDiscipline
<1>4. pc'[c] = "line" /\ Did(c)' = 0
  BY <1>2, <1>3 DEF Did, IInv, TypeOK
<1>5. AtEnd(c)' /\ Counted(c)'
  BY <1>4 DEF AtEnd, Counted
<1>6. Written(c)'
  <2>1. ASSUME NEW r \in Rows PROVE Len(work'[c][r]) = Cardinality(LinesOf(req'[c], 0, r))
    BY <1>2, <1>3, NoLine DEF NoWork
  <2> QED  BY <1>4, <2>1 DEF Written
<1>7. \A d \in Clients \ {c} : pc'[d] = pc[d] /\ req'[d] = req[d]
  BY <1>1, <1>2 DEF IInv, TypeOK
<1> QED  BY <1>2, <1>5, <1>6, <1>7, OnlyMine DEF Progress

(* A handler locks its row, and reads the boards it starts from.           *)
LEMMA LockProgress ==
    ASSUME IInv, ProgressInv, NEW c \in Clients, CountLock(c) \/ LockRow(c)
    PROVE  ProgressInv'
<1>1. pc[c] # "idle" /\ pc[c] \in {"line", "counted"} /\ AtEnd(c) /\ Counted(c)
      /\ (~Counts(req[c]) => Written(c))
  BY DEF CountLock, LockRow, Calling, ProgressInv, Progress
<1>2. PICK r \in Rows : r = Current(c).row
  BY <1>1, CurrentType DEF IInv
<1>3. PICK place \in {"counted", "locked"} : pc' = [pc EXCEPT ![c] = place]
  BY DEF CountLock, LockRow
<1>4. /\ lock[r] \in {c, NoOne} /\ lock' = [lock EXCEPT ![r] = c]
      /\ UNCHANGED <<balance, req, at, work, stamps>>
  BY <1>2 DEF CountLock, LockRow, Lockable, Lock, committed
<1>5. pc'[c] = place /\ Did(c)' = Did(c) /\ Current(c)' = Current(c)
  BY <1>1, <1>3, <1>4 DEF Did, Current, IInv, TypeOK
<1>6. \A s \in Rows : OnHand(c, s)' = OnHand(c, s) /\ (lock[s] = c => lock'[s] = c)
  BY <1>4 DEF OnHand, IInv, TypeOK
<1>7. \A d \in Clients \ {c} : /\ pc'[d] = pc[d] /\ seen'[d] = seen[d]
                               /\ \A s \in Rows : lock[s] = d => lock'[s] = d
  BY <1>3, <1>4, NoOneAssumption DEF CountLock, LockRow, IInv, TypeOK
<1>8. /\ place = "counted" => Current(c).kind = "count"
      /\ place = "counted" \/ Current(c).kind = "count" => seen'[c] = OnHand(c, r).boards
  <2>1. CASE CountLock(c)
    BY <1>2, <2>1 DEF CountLock, IInv, TypeOK
  <2>2. CASE LockRow(c)
    <3>1. place = "locked" /\ seen' = seen
      BY <1>3, <1>5, <2>2 DEF LockRow, IInv, TypeOK
    <3>2. Current(c).kind = "count" => pc[c] = "counted"
      BY <2>2 DEF LockRow, Calling
    <3> QED  BY <1>1, <1>2, <3>1, <3>2 DEF Counted
  <2> QED  BY <2>1, <2>2
<1>9. AtEnd(c)'
  BY <1>5, <1>8 DEF AtEnd
<1>10. (~Counts(req[c]) => Written(c))'
  BY <1>1, <1>4, <1>5 DEF Written
<1>11. (pc[c] = "counted" \/ (pc[c] = "locked" /\ Current(c).kind = "count") =>
          seen[c] = OnHand(c, Current(c).row).boards)'
  BY <1>2, <1>5, <1>6, <1>8
<1>12. ASSUME NEW i \in 1..Did(c), IsCount(req[c], i), LastOf(req[c], Did(c), i),
              NEW s \in {req[c][i].row}
       PROVE  lock'[s] = c /\ OnHand(c, s)'.boards = req[c][i].boards /\ s \in stamps'[c]
  <2>1. lock[s] = c /\ OnHand(c, s).boards = req[c][i].boards /\ s \in stamps[c]
    BY <1>1, <1>12 DEF Counted
  <2>2. s \in Rows
    BY <1>1, DidType
  <2> QED  BY <1>4, <1>6, <2>1, <2>2
<1>13. Counted(c)'
  BY <1>4, <1>5, <1>11, <1>12 DEF Counted
<1> QED  BY <1>4, <1>7, <1>9, <1>10, <1>13, OnlyMine DEF Progress

(* A row counted keeps what was counted until a later line moves it.       *)
LEMMA CountedThrough ==
    ASSUME IInv, NEW c \in Clients, pc[c] \in {"line", "counted", "locked"}, Counted(c),
           NextLine(c), UNCHANGED <<req, lock>>, stamps[c] \subseteq stamps'[c],
           NEW row \in Rows, row = Current(c).row,
           \A r \in Rows \ {row} : OnHand(c, r)' = OnHand(c, r),
           Current(c).kind = "count" =>
             /\ lock[row] = c /\ OnHand(c, row)'.boards = Current(c).boards /\ row \in stamps'[c]
    PROVE  Counted(c)'
<1>1. pc'[c] \in {"line", "done"} /\ Did(c)' = at[c] /\ Did(c) = at[c] - 1
  BY NextLineDid
<1>2. at[c] \in Nat \ {0}
  BY DidType
<1>3. ASSUME NEW i \in 1..at[c], IsCount(req[c], i), LastOf(req[c], at[c], i), NEW r \in {req[c][i].row}
      PROVE  lock[r] = c /\ OnHand(c, r)'.boards = req[c][i].boards /\ r \in stamps'[c]
  <2>1. CASE i = at[c]
    BY <1>3, <2>1 DEF Current, IsCount
  <2>2. CASE i # at[c]
    <3>1. i \in 1..Did(c) /\ LastOf(req[c], Did(c), i) /\ r # row
      BY <1>1, <1>2, <1>3, <2>2 DEF LastOf, Current
    <3>2. lock[r] = c /\ OnHand(c, r).boards = req[c][i].boards /\ r \in stamps[c]
      BY <1>3, <3>1 DEF Counted
    <3>3. r \in Rows
      BY <3>1, DidType
    <3> QED  BY <3>1, <3>2, <3>3
  <2> QED  BY <2>1, <2>2
<1> QED  BY <1>1, <1>3 DEF Counted

LEMMA NoVarianceProgress ==
    ASSUME IInv, ProgressInv, NEW c \in Clients, NoVariance(c)
    PROVE  ProgressInv'
<1>1. pc[c] = "counted" /\ AtEnd(c) /\ Counted(c)
  BY DEF NoVariance, ProgressInv, Progress
<1>2. /\ Delta(c).boards = 0 /\ NextLine(c) /\ UNCHANGED <<balance, lock, req, seen, work>>
      /\ stamps' = [stamps EXCEPT ![c] = @ \cup {Current(c).row}]
  BY DEF NoVariance, committed
<1>3. PICK row \in Rows : row = Current(c).row
  BY <1>1, CurrentType DEF IInv
<1>4. Current(c).kind = "count" /\ seen[c] = OnHand(c, row).boards /\ lock[row] = c
  BY <1>1, <1>3 DEF AtEnd, Counted, IInv, LockDiscipline
<1>5. Current(c).boards = seen[c]
  <2>1. Current(c).boards \in Int /\ seen[c] \in Int
    BY <1>1, CurrentType DEF Line, IInv, TypeOK
  <2> QED  BY <1>2, <1>4, <2>1 DEF Delta
<1>6. \A r \in Rows : OnHand(c, r)' = OnHand(c, r)
  BY <1>2 DEF OnHand
<1>7. stamps'[c] = stamps[c] \cup {row}
  BY <1>2, <1>3 DEF IInv, TypeOK
<1>8. Counted(c)'
  BY <1>1, <1>2, <1>3, <1>4, <1>5, <1>6, <1>7, CountedThrough
<1>9. pc'[c] \in {"line", "done"} /\ AtEnd(c)'
  BY <1>1, <1>2, NextLineDid
<1>10. Counts(req[c])
  BY <1>1, <1>4 DEF Counts, IsCount, Current, IInv, TypeOK
<1>11. \A d \in Clients \ {c} : pc'[d] = pc[d] /\ at'[d] = at[d] /\ stamps'[d] = stamps[d]
  BY <1>2 DEF NextLine, IInv, TypeOK
<1> QED  BY <1>2, <1>8, <1>9, <1>10, <1>11, OnlyMine DEF Progress

(* One more movement: that of the line the handler was at.                 *)
LEMMA ApplyProgress ==
    ASSUME IInv, ProgressInv, NEW c \in Clients, ApplyMovement(c)
    PROVE  ProgressInv'
<1>1. pc[c] = "locked" /\ Counted(c) /\ (~Counts(req[c]) => Written(c))
  BY DEF ApplyMovement, ProgressInv, Progress
<1>2. PICK row \in Rows, k \in Nat \ {0} : row = Current(c).row /\ k = at[c]
  BY <1>1, CurrentType, DidType DEF IInv
<1>3. /\ NextLine(c) /\ UNCHANGED <<balance, lock, req, seen>> /\ lock[row] = c
      /\ stamps' = [stamps EXCEPT ![c] = IF Current(c).kind = "count" THEN @ \cup {row} ELSE @]
  BY <1>1, <1>2 DEF ApplyMovement, committed, IInv, LockDiscipline
<1>4. PICK m \in Ledger!Movement :
        /\ m.delta = Delta(c) /\ m.after = Ledger!Plus(OnHand(c, row), Delta(c))
        /\ work' = [work EXCEPT ![c][row] = Append(@, m)]
  <2> DEFINE after == Ledger!Plus(OnHand(c, row), Delta(c))
             new == [delta |-> Delta(c), after |-> after]
  <2>1. new \in Ledger!Movement /\ new.delta = Delta(c) /\ new.after = after
    BY <1>1, DeltaType, OnHandType, PlusType DEF Ledger!Movement, IInv
  <2>2. work' = [work EXCEPT ![c][row] = Append(@, new)]
    BY <1>2 DEF ApplyMovement
  <2> HIDE DEF new
  <2> QED  BY <2>1, <2>2
<1>5. /\ work'[c][row] = Append(work[c][row], m)
      /\ \A r \in Rows \ {row} : work'[c][r] = work[c][r]
      /\ \A d \in Clients \ {c} : work'[d] = work[d]
  BY <1>4 DEF IInv, TypeOK
<1>6. /\ work[c][row] \in Seq(Ledger!Movement) /\ Current(c).boards \in Int /\ seen[c] \in Int
      /\ OnHand(c, row).boards \in Int
  <2>1. Current(c) \in Line /\ TypeOK
    BY <1>1, CurrentType DEF IInv
  <2>2. OnHand(c, row) \in Ledger!Quantity
    BY <2>1, OnHandType
  <2>3. OnHand(c, row).boards \in Int
    BY <2>2 DEF Ledger!Quantity
  <2>4. Current(c).boards \in Int
    BY <2>1 DEF Line
  <2> QED  BY <2>1, <2>3, <2>4 DEF TypeOK
<1>7. pc'[c] \in {"line", "done"} /\ AtEnd(c)' /\ Did(c)' = k /\ Did(c) = k - 1
  BY <1>1, <1>2, <1>3, NextLineDid
<1>8. OnHand(c, row)' = m.after /\ \A r \in Rows \ {row} : OnHand(c, r)' = OnHand(c, r)
  <2>1. /\ Append(work[c][row], m) # <<>>
        /\ Append(work[c][row], m)[Len(Append(work[c][row], m))] = m
    BY <1>6
  <2>2. OnHand(c, row)' = m.after
    BY <1>5, <2>1 DEF OnHand, Ledger!Closing
  <2>3. ASSUME NEW r \in Rows \ {row} PROVE OnHand(c, r)' = OnHand(c, r)
    BY <1>3, <1>5 DEF OnHand
  <2> QED  BY <2>2, <2>3
<1>9. m.delta.boards = IF Current(c).kind = "count" THEN Current(c).boards - seen[c]
                       ELSE Current(c).boards
  BY <1>4 DEF Delta
<1>10. Counted(c)'
  <2>1. Current(c).kind = "count" => OnHand(c, row)'.boards = Current(c).boards
    <3>1. m.after.boards = OnHand(c, row).boards + m.delta.boards
      BY <1>4 DEF Ledger!Plus
    <3>2. Current(c).kind = "count" => seen[c] = OnHand(c, row).boards
      BY <1>1, <1>2 DEF Counted
    <3> QED  BY <1>6, <1>8, <1>9, <3>1, <3>2
  <2>2. stamps[c] \subseteq stamps'[c] /\ (Current(c).kind = "count" => row \in stamps'[c])
    BY <1>3 DEF IInv, TypeOK
  <2> QED  BY <1>1, <1>2, <1>3, <1>8, <2>1, <2>2, CountedThrough
<1>11. ASSUME ~Counts(req[c]) PROVE Written(c)'
  <2>1. PICK q : q = req[c] /\ q = req'[c]
    BY <1>3
  <2>2. q[k].row = row /\ q[k].boards = Current(c).boards /\ Current(c).kind # "count"
    BY <1>1, <1>2, <1>11, <2>1 DEF Current, Counts, IsCount, IInv, TypeOK
  <2>3. Written(c)
    BY <1>1, <1>11
  <2>4. ASSUME NEW r \in Rows PROVE Len(work'[c][r]) = Cardinality(LinesOf(q, k, r))
    <3>1. Len(work[c][r]) = Cardinality(LinesOf(q, k - 1, r))
      BY <1>7, <2>1, <2>3 DEF Written
    <3>2. Cardinality(LinesOf(q, k, r)) =
            Cardinality(LinesOf(q, k - 1, r)) + (IF r = row THEN 1 ELSE 0)
          /\ Cardinality(LinesOf(q, k - 1, r)) \in Nat
      BY <2>2, OneMoreLine
    <3> QED  BY <1>5, <1>6, <3>1, <3>2
  <2>5. ASSUME NEW i \in 1..k, NEW r \in Rows, r = q[i].row
        PROVE  work'[c][r][Cardinality(LinesOf(q, i, r))].delta.boards = q[i].boards
    <3>1. CASE i = k
      <4>1. r = row /\ Cardinality(LinesOf(q, k, r)) = Len(work[c][row]) + 1
        <5>1. r = row
          BY <2>2, <2>5, <3>1
        <5>2. Len(work'[c][row]) = Len(work[c][row]) + 1
          BY <1>5, <1>6
        <5> QED  BY <2>4, <5>1, <5>2
      <4>2. work'[c][row][Len(work[c][row]) + 1] = m
        BY <1>5, <1>6
      <4> QED  BY <1>9, <2>2, <3>1, <4>1, <4>2
    <3>2. CASE i # k
      <4>1. i \in 1..(k - 1) /\ k - 1 \in Nat
        BY <3>2
      <4>2. work[c][r][Cardinality(LinesOf(q, i, r))].delta.boards = q[i].boards
        BY <1>7, <2>1, <2>3, <2>5, <4>1 DEF Written
      <4>3. Cardinality(LinesOf(q, i, r)) \in 1..Len(work[c][r])
        <5>1. Cardinality(LinesOf(q, i, r)) \in 1..Cardinality(LinesOf(q, k - 1, r))
          BY <2>5, <4>1, NumberOfLine
        <5> QED  BY <1>7, <2>1, <2>3, <5>1 DEF Written
      <4>4. \A n \in 1..Len(work[c][row]) : Append(work[c][row], m)[n] = work[c][row][n]
        BY <1>6
      <4>5. \A n \in 1..Len(work[c][r]) : work'[c][r][n] = work[c][r][n]
        <5>1. CASE r = row
          BY <1>5, <4>4, <5>1
        <5>2. CASE r # row
          BY <1>5, <5>2
        <5> QED  BY <5>1, <5>2
      <4> QED  BY <4>2, <4>3, <4>5
    <3> QED  BY <3>1, <3>2
  <2>6. ASSUME NEW i \in 1..k PROVE q[i].row \in Rows
    <3>1. q \in Seq(Line) /\ k \in 1..Len(q)
      BY <1>1, <1>2, <2>1, CurrentType DEF IInv
    <3>2. q[i] \in Line
      BY <3>1
    <3> QED  BY <3>2 DEF Line
  <2> QED  BY <1>7, <2>1, <2>4, <2>5, <2>6 DEF Written
<1>12. \A d \in Clients \ {c} : pc'[d] = pc[d] /\ at'[d] = at[d] /\ stamps'[d] = stamps[d]
  BY <1>3 DEF NextLine, IInv, TypeOK
<1> QED  BY <1>3, <1>5, <1>7, <1>10, <1>11, <1>12, OnlyMine DEF Progress

LEMMA CommitProgress ==
    ASSUME IInv, ProgressInv, NEW c \in Clients, Commit(c)
    PROVE  ProgressInv'
<1>1. ASSUME NEW r \in Rows, lock[r] # c PROVE balance'[r] = balance[r]
  <2>1. work[c][r] = <<>>
    BY <1>1 DEF IInv, LockDiscipline
  <2> QED  BY <2>1 DEF Commit, OnHand, Ledger!Closing
<1> QED  BY <1>1, EndKeepsProgress DEF Commit

LEMMA ProgressNext == IInv /\ ProgressInv /\ [Next]_vars => ProgressInv'
<1> SUFFICES ASSUME IInv, ProgressInv, [Next]_vars PROVE ProgressInv'
  OBVIOUS
<1>1. CASE UNCHANGED vars
  <2>1. ASSUME NEW d \in Clients PROVE Progress(d)'
    <3>1. Apart(d)
      BY <1>1 DEF vars, Apart
    <3> QED  BY <3>1, OthersProgress DEF ProgressInv
  <2> QED  BY <2>1 DEF ProgressInv
<1>2. ASSUME NEW c \in Clients, Rollback(c) PROVE ProgressInv'
  BY <1>2, EndKeepsProgress DEF Rollback, committed
<1> QED  BY <1>1, <1>2, BeginProgress, LockProgress, NoVarianceProgress, ApplyProgress, CommitProgress
            DEF Next, Step, RefuseMovement, InsufficientStock, DeadlockVictim, Abort

LEMMA ProgressInit == Init => ProgressInv
BY DEF Init, ProgressInv, Progress

LEMMA ProgressHolds == Spec => []ProgressInv
BY ProgressInit, ProgressNext, EngineInvariant, PTL DEF Spec

(* A transaction ends by a commit after its last line, or as if it had     *)
(* never been.                                                             *)
LEMMA HowItEnds ==
    ASSUME IInv, ProgressInv, [Next]_vars, NEW c \in Clients, Ends(c)
    PROVE  \/ UNCHANGED committed
           \/ /\ Commit(c) /\ Did(c) = Len(req[c]) /\ Counted(c)
              /\ (~Counts(req[c]) => Written(c))
<1>1. PICK d \in Clients : \/ Begin(d) \/ CountLock(d) \/ LockRow(d) \/ Step(d)
                           \/ DeadlockVictim(d) \/ Abort(d)
  BY DEF Ends, Next, vars
<1>2. CASE Commit(d)
  <2>1. d = c
    BY <1>2 DEF Commit, EndTransaction, Ends, IInv, TypeOK
  <2>2. pc[c] = "done"
    BY <1>2, <2>1 DEF Commit
  <2> QED  BY <1>2, <2>1, <2>2 DEF ProgressInv, Progress, AtEnd, Did
<1>3. CASE ~Commit(d)
  BY <1>1, <1>3 DEF Begin, CountLock, LockRow, Step, DeadlockVictim, Abort, Rollback,
                    NoVariance, RefuseMovement, ApplyMovement, InsufficientStock
<1> QED  BY <1>2, <1>3

(* Whatever stops a request halfway, in the rows it never came to and in   *)
(* those it did, nothing of it stays; and when it commits every line has   *)
(* its movement, in the order of the lines.                                *)
THEOREM AllOrNone == Spec => AllLinesOrNone
<1>1. ASSUME IInv, ProgressInv, [Next]_vars, NEW c \in Clients, Ends(c), ~Counts(req[c]),
             ~UNCHANGED committed
      PROVE  /\ \A r \in Rows : Len(ledger'[r]) =
                  Len(ledger[r]) + Cardinality(LinesOf(req[c], Len(req[c]), r))
             /\ \A i \in DOMAIN req[c] :
                  LET r == req[c][i].row
                  IN  ledger'[r][Len(ledger[r]) + Cardinality(LinesOf(req[c], i, r))].delta.boards
                        = req[c][i].boards
  <2>1. Commit(c) /\ Did(c) = Len(req[c]) /\ Written(c) /\ pc[c] # "idle"
    BY <1>1, HowItEnds DEF Ends
  <2>2. PICK q \in Seq(Line) : q = req[c] /\ \A i \in 1..Len(q) : q[i].row \in Rows
    BY <1>1, <2>1, DidType
  <2>3. \A r \in Rows : /\ ledger'[r] = ledger[r] \o work[c][r]
                        /\ ledger[r] \in Seq(Ledger!Movement) /\ work[c][r] \in Seq(Ledger!Movement)
                        /\ Len(work[c][r]) = Cardinality(LinesOf(q, Len(q), r))
    BY <1>1, <2>1, <2>2 DEF Commit, Written, IInv, TypeOK
  <2>4. ASSUME NEW i \in 1..Len(q), NEW r \in Rows, r = q[i].row
        PROVE  ledger'[r][Len(ledger[r]) + Cardinality(LinesOf(q, i, r))].delta.boards = q[i].boards
    <3>1. Cardinality(LinesOf(q, i, r)) \in 1..Len(work[c][r])
      <4>1. Len(q) \in Nat
        BY <2>2
      <4> QED  BY <2>3, <2>4, <4>1, NumberOfLine
    <3>2. work[c][r][Cardinality(LinesOf(q, i, r))].delta.boards = q[i].boards
      BY <2>1, <2>2, <2>4 DEF Written
    <3>3. PICK s \in Seq(Ledger!Movement), z \in Seq(Ledger!Movement) : s = ledger[r] /\ z = work[c][r]
      BY <2>3
    <3>4. PICK n \in 1..Len(z) : n = Cardinality(LinesOf(q, i, r))
      BY <3>1, <3>3
    <3>5. (s \o z)[Len(s) + n] = z[n]
      OBVIOUS
    <3> QED  BY <2>3, <3>2, <3>3, <3>4, <3>5
  <2>5. \A i \in DOMAIN q : q[i].row \in Rows /\ i \in 1..Len(q)
    BY <2>2
  <2>6. \A i \in DOMAIN q :
          ledger'[q[i].row][Len(ledger[q[i].row]) + Cardinality(LinesOf(q, i, q[i].row))].delta.boards
            = q[i].boards
    BY <2>4, <2>5
  <2>7. ASSUME NEW r \in Rows
        PROVE  Len(ledger'[r]) = Len(ledger[r]) + Cardinality(LinesOf(q, Len(q), r))
    <3>1. PICK s \in Seq(Ledger!Movement), z \in Seq(Ledger!Movement) : s = ledger[r] /\ z = work[c][r]
      BY <2>3
    <3>2. Len(s \o z) = Len(s) + Len(z)
      OBVIOUS
    <3> QED  BY <2>3, <3>1, <3>2
  <2> QED  BY <2>2, <2>6, <2>7
<1>2. IInv /\ ProgressInv /\ [Next]_vars =>
        [\A c \in Clients : Ends(c) /\ ~Counts(req[c]) =>
           \/ UNCHANGED committed
           \/ /\ \A r \in Rows : Len(ledger'[r]) =
                   Len(ledger[r]) + Cardinality(LinesOf(req[c], Len(req[c]), r))
              /\ \A i \in DOMAIN req[c] :
                   LET r == req[c][i].row
                   IN  ledger'[r][Len(ledger[r]) + Cardinality(LinesOf(req[c], i, r))].delta.boards
                         = req[c][i].boards]_vars
  BY <1>1
<1> QED  BY <1>2, ProgressHolds, EngineInvariant, PTL DEF Spec, AllLinesOrNone

(* What a committed count leaves on hand is what was counted, whatever was *)
(* sold or received while the request was under way.                       *)
THEOREM CountsAreHonoured == Spec => CountHonoured
<1>1. ASSUME IInv, ProgressInv, [Next]_vars, NEW c \in Clients, Ends(c), ~UNCHANGED committed,
             NEW i \in DOMAIN req[c], IsCount(req[c], i), LastOf(req[c], Len(req[c]), i)
      PROVE  /\ balance'[req[c][i].row].boards = req[c][i].boards
             /\ req[c][i].row \in lastCounted'
  <2>1. Commit(c) /\ Did(c) = Len(req[c]) /\ Counted(c) /\ pc[c] # "idle"
    BY <1>1, HowItEnds DEF Ends
  <2>2. req[c] \in Seq(Line) /\ i \in 1..Did(c)
    BY <1>1, <2>1, DidType
  <2>3. PICK r \in Rows : r = req[c][i].row
    BY <1>1, <2>1, <2>2, DidType
  <2>4. OnHand(c, r).boards = req[c][i].boards /\ r \in stamps[c]
    BY <1>1, <2>1, <2>2, <2>3 DEF Counted
  <2> QED  BY <2>1, <2>3, <2>4 DEF Commit
<1>2. IInv /\ ProgressInv /\ [Next]_vars =>
        [\A c \in Clients : Ends(c) /\ Counts(req[c]) =>
           \/ UNCHANGED committed
           \/ \A i \in DOMAIN req[c] :
                 IsCount(req[c], i) /\ LastOf(req[c], Len(req[c]), i) =>
                   /\ balance'[req[c][i].row].boards = req[c][i].boards
                   /\ req[c][i].row \in lastCounted']_vars
  BY <1>1
<1> QED  BY <1>2, ProgressHolds, EngineInvariant, PTL DEF Spec, CountHonoured

=============================================================================
