---------------------------- MODULE InvoiceProofs ----------------------------
(***************************************************************************)
(* Proofs about invoices, while they are confirmed (SalesInvoices) and     *)
(* after that (InvoiceRevisions): every safety property their runs check,  *)
(* for any handlers, invoices, lines and bounds.                           *)
(*                                                                         *)
(* The races of SalesInvoices are covered by RowsNumbered: rows of the     *)
(* statement carry distinct numbers, none above the count of               *)
(* confirmations, so that a confirmation adds one row and a cancellation   *)
(* takes one away, and with the only row of an invoice come its boards.    *)
(* What is promised of the other invoices rests on                         *)
(* FreshReads: as long as no two handlers have met on an invoice, what its *)
(* handler has read is what the row still holds.                           *)
(*                                                                         *)
(* Those of InvoiceRevisions are covered by RevisionInv: a handler that    *)
(* has calculated holds its invoice, which stays as it was calculated;     *)
(* with SeenInv, also at the revision its owner had seen.                  *)
(* What a calculation tells needs arithmetic and replays: fractions in     *)
(* lowest terms (Reduced, Over) keep the laws of addition; a fold over a   *)
(* sequence has its stages (LeftStages, RightStages); a comparison of two  *)
(* replays that differ in one receipt tells the difference of what is left *)
(* (ComparisonTells).  What a first revision calculates rests on           *)
(* ReplayInv: while nothing has been revised, the movements and the lines  *)
(* tell how the pool came about, the way back of a replay follows them to  *)
(* the pool before the receipt, and from there another receipt leads to    *)
(* the pool there would be.                                                *)
(***************************************************************************)
EXTENDS SalesInvoices, InvoiceRevisions, SumLemmas, FiniteSetTheorems, TLAPS

BoardsOf(i) ==
    /\ confirms[i] = 0 => sold[i] = 0 /\ restored[i] = 0
    /\ confirms[i] = 1 => restored[i] = IF restocks[i] = 0 THEN 0 ELSE sold[i]

RowsOf(i) ==
    /\ IsFiniteSet(statement[i])
    /\ \A row \in statement[i] : row.id <= confirms[i]
    /\ \A r, s \in statement[i] : r.id = s.id => r = s
    /\ restocks[i] + Cardinality(statement[i]) = confirms[i]
    /\ BoardsOf(i)

RowsNumbered == \A i \in Invoices : RowsOf(i)

FreshReads ==
    \A c \in Clients : tx[c] # Idle =>
        LET i == tx[c].invoice IN
        /\ invoice[i].status # "NONE"
        /\ tx[c].op = "cancel" => MayCancel(tx[c].seen)
        /\ tx[c].op # "cancel" => tx[c].seen.status = "DRAFT"
        /\ i \notin overlapped =>
             /\ tx[c].seen = invoice[i]
             /\ \A d \in Clients \ {c} : tx[d] = Idle \/ tx[d].invoice # i

IInv ==
    /\ TypeOK
    /\ RowsNumbered
    /\ FreshReads
    /\ EffectsMatchStatus
    /\ AmountsMatchLines

Requests == [op : {"update", "confirm", "cancel", "delete"}, invoice : Invoices,
             seen : Record, cost : Nat]

-----------------------------------------------------------------------------
(* Facts about the operators.                                              *)

(* The product of naturals is one, and so is a total.                      *)
LEMMA TotalType ==
    ASSUME NEW s \in Nat, NEW r \in Nat
    PROVE  s * r \in Nat /\ Total(s, r) \in Nat
<1>1. s * r \in Nat
  OBVIOUS
<1> QED  BY <1>1 DEF Total

(* Posting under a key, and reversing what was posted, give entries.       *)
LEMMA EntryType ==
    /\ \A old \in EntryRecord, amount \in Nat : Post(old, amount) \in EntryRecord
    /\ \A e \in [revenue : EntryRecord, cogs : EntryRecord], b \in BOOLEAN :
          Reversed(e, b) \in [revenue : EntryRecord, cogs : EntryRecord]
BY DEF Post, Reversed, EntryRecord

(* What is known of the request and the invoice of a running handler.      *)
LEMMA Running ==
    ASSUME TypeOK, NEW c \in Clients, tx[c] # Idle
    PROVE  /\ tx[c] \in Requests /\ tx[c].invoice \in Invoices /\ tx[c].seen \in Record
           /\ tx[c].cost \in Nat /\ invoice[tx[c].invoice] \in Record
BY DEF TypeOK, Requests

(* A handler whose operation has a name is not idle.                       *)
LEMMA Named ==
    ASSUME NEW c \in Clients, tx[c].op \in {"update", "confirm", "cancel", "delete"}
    PROVE  tx[c] # Idle
BY DEF Idle

-----------------------------------------------------------------------------
(* Types.                                                                  *)

(* The first state has its types and satisfies the invariant.              *)
LEMMA InvInit == Init => IInv
<1> SUFFICES ASSUME Init PROVE IInv
  OBVIOUS
<1> USE InvoiceAssumption DEF Init
<1>1. TypeOK
  BY DEF TypeOK, NoInvoice, NotPosted, Record, Statuses, EntryRecord
<1>2. RowsNumbered
  BY FS_EmptySet DEF RowsNumbered, RowsOf, BoardsOf
<1>3. FreshReads
  BY DEF FreshReads
<1>4. EffectsMatchStatus
  BY DEF EffectsMatchStatus, Untouched, NoInvoice
<1>5. AmountsMatchLines
  BY DEF AmountsMatchLines, NoInvoice, Total
<1> QED  BY <1>1, <1>2, <1>3, <1>4, <1>5 DEF IInv

(* A read keeps the types.                                                 *)
LEMMA ReadType ==
    ASSUME TypeOK, NEW c \in Clients, NEW i \in Invoices,
           NEW op \in {"update", "confirm", "cancel", "delete"}, Read(c, i, Request(op, i))
    PROVE  TypeOK'
<1>1. Request(op, i) \in Requests
  BY DEF Request, Requests, TypeOK
<1>2. tx' \in [Clients -> {Idle} \cup Requests]
  BY <1>1 DEF Read, TypeOK, Requests
<1>3. started' \in 0..MaxRequests /\ overlapped' \subseteq Invoices
  BY InvoiceAssumption DEF Read, TypeOK
<1> QED  BY <1>2, <1>3 DEF Read, effects, TypeOK, Requests

(* The commit or rollback of a handler leaves types of tx alone.           *)
LEMMA DoneType ==
    ASSUME TypeOK, NEW c \in Clients, Done(c)
    PROVE  /\ tx' \in [Clients -> {Idle} \cup Requests]
           /\ cost' \in Nat /\ overlapped' \subseteq Invoices /\ started' \in 0..MaxRequests
BY DEF Done, TypeOK, Requests

(* New lines are written to the invoice of their handler.                  *)
LEMMA UpdateWrites ==
    ASSUME TypeOK, NEW c \in Clients, UpdateLines(c), tx[c].invoice \in Invoices
    PROVE  \E new : invoice' = [invoice EXCEPT ![tx[c].invoice] = new]
<1> DEFINE i == tx[c].invoice
<1>1. PICK q \in Quantities, r \in Rates \cup {tx[c].seen.rate},
           kept \in SUBSET invoice[i].lines, m \in 0..invoice[i].boards :
        /\ Escape(c, kept, m)
        /\ invoice' = [invoice EXCEPT ![i].boards = q + m,
                                      ![i].lines = kept \cup {invoice[i].edits + 1},
                                      ![i].edits = @ + 1, ![i].subtotal = q, ![i].rate = r,
                                      ![i].total = NewTotal(tx[c].seen, q, r),
                                      ![i].totalCost = 0]
  BY DEF UpdateLines
<1> DEFINE new == [invoice[i] EXCEPT !.boards = q + m,
                                     !.lines = kept \cup {invoice[i].edits + 1},
                                     !.edits = @ + 1, !.subtotal = q, !.rate = r,
                                     !.total = NewTotal(tx[c].seen, q, r), !.totalCost = 0]
<1>2. invoice' = [invoice EXCEPT ![i] = new]
  BY <1>1 DEF TypeOK
<1> HIDE DEF new
<1> QED  BY <1>2

(* New lines, a new header: amounts are naturals.                          *)
LEMMA UpdateType ==
    ASSUME TypeOK, NEW c \in Clients, UpdateLines(c) \/ UpdateHeader(c)
    PROVE  TypeOK'
<1> DEFINE i    == tx[c].invoice
<1> DEFINE seen == tx[c].seen
<1>1. tx[c] # Idle
  BY Named DEF UpdateLines, UpdateHeader
<1>2. i \in Invoices /\ seen \in Record /\ invoice[i] \in Record
  BY <1>1, Running
<1>3. \A r \in Rates \cup {seen.rate} : r \in Nat
  BY <1>2, InvoiceAssumption DEF Record
<1>4. invoice' \in [Invoices -> Record]
  <2>1. CASE UpdateLines(c)
    <3>1. PICK q \in Quantities, r \in Rates \cup {seen.rate},
               kept \in SUBSET invoice[i].lines, m \in 0..invoice[i].boards :
            /\ Escape(c, kept, m)
            /\ invoice' = [invoice EXCEPT ![i].boards = q + m,
                                       ![i].lines = kept \cup {invoice[i].edits + 1},
                                       ![i].edits = @ + 1, ![i].subtotal = q, ![i].rate = r,
                                       ![i].total = NewTotal(seen, q, r),
                                       ![i].totalCost = 0]
      BY <2>1 DEF UpdateLines
    <3>2. q \in Nat /\ r \in Nat /\ NewTotal(seen, q, r) \in Nat
      BY <1>3, TotalType, InvoiceAssumption DEF NewTotal
    <3> DEFINE n == NewTotal(seen, q, r)
    <3> HIDE DEF n
    <3>3. n \in Nat
      BY <3>2 DEF n
    <3> DEFINE lines == kept \cup {invoice[i].edits + 1}
    <3> DEFINE edits == invoice[i].edits + 1
    <3> DEFINE boards == q + m
    <3> DEFINE new == [invoice[i] EXCEPT !.boards = boards, !.lines = lines, !.edits = edits,
                                         !.subtotal = q, !.rate = r, !.total = n,
                                         !.totalCost = 0]
    <3>4. new \in Record
      <4>1. lines \in SUBSET Nat /\ edits \in Nat /\ boards \in Nat
        BY <1>2, <3>2 DEF Record
      <4> HIDE DEF lines, edits, boards
      <4> QED  BY <1>2, <3>2, <3>3, <4>1 DEF Record
    <3>5. invoice' = [invoice EXCEPT ![i] = new]
      BY <1>2, <3>1 DEF n, TypeOK
    <3> HIDE DEF new
    <3> QED  BY <1>2, <3>4, <3>5 DEF TypeOK
  <2>2. CASE UpdateHeader(c)
    <3>1. PICK r \in Rates \cup {seen.rate} :
            invoice' = [invoice EXCEPT ![i].subtotal = seen.subtotal, ![i].rate = r,
                                       ![i].total = Total(seen.subtotal, r),
                                       ![i].totalCost = seen.totalCost]
      BY <2>2 DEF UpdateHeader
    <3>2. r \in Nat /\ seen.subtotal \in Nat /\ seen.totalCost \in Nat
      BY <1>2, <1>3 DEF Record
    <3>3. Total(seen.subtotal, r) \in Nat
      BY <3>2, TotalType
    <3> QED  BY <1>2, <3>1, <3>2, <3>3 DEF TypeOK, Record
  <2> QED  BY <2>1, <2>2 DEF UpdateLines, UpdateHeader
<1>5. Done(c) /\ UNCHANGED effects
  BY DEF UpdateLines, UpdateHeader
<1> QED  BY <1>4, <1>5, DoneType DEF effects, TypeOK, Requests

(* A confirmation: stock is not sold that is not there.                    *)
LEMMA ConfirmType ==
    ASSUME TypeOK, NEW c \in Clients, Confirm(c)
    PROVE  TypeOK'
<1> DEFINE i    == tx[c].invoice
<1> DEFINE seen == tx[c].seen
<1> DEFINE id   == confirms[i] + 1
<1>1. tx[c] # Idle
  BY Named DEF Confirm
<1>2. i \in Invoices /\ seen \in Record /\ invoice[i] \in Record /\ tx[c].cost \in Nat
  BY <1>1, Running
<1>3. seen.boards \in Nat /\ seen.total \in Nat /\ id \in Nat
  BY <1>2 DEF Record, TypeOK
<1>4. Cogs(c) \in Nat
  BY <1>2, <1>3, TotalType DEF Cogs
<1>5. entry' \in [Invoices -> [revenue : EntryRecord, cogs : EntryRecord]]
  <2>1. entry[i].revenue \in EntryRecord /\ entry[i].cogs \in EntryRecord
    BY <1>2 DEF TypeOK
  <2>2. Post(entry[i].revenue, seen.total) \in EntryRecord
    BY <1>3, <2>1, EntryType
  <2>3. Post(entry[i].cogs, Cogs(c)) \in EntryRecord
    BY <1>4, <2>1, EntryType
  <2> HIDE DEF i, seen
  <2> QED  BY <1>2, <2>1, <2>2, <2>3 DEF Confirm, TypeOK, i, seen
<1>6. statement' \in [Invoices -> SUBSET [id : Nat, amount : Nat]]
  BY <1>2, <1>3 DEF Confirm, TypeOK
<1>7. invoice' \in [Invoices -> Record]
  <2>1. invoice' = [invoice EXCEPT ![i].status = "CONFIRMED", ![i].customerTx = id,
                                   ![i].totalCost = Cogs(c), ![i].cogsEntry = Cogs(c) > 0]
    BY DEF Confirm
  <2>2. (Cogs(c) > 0) \in BOOLEAN
    BY <1>4
  <2> QED  BY <1>2, <1>3, <1>4, <2>1, <2>2 DEF TypeOK, Record, Statuses
<1>8. balance' \in Nat /\ sold' \in [Invoices -> Nat] /\ confirms' \in [Invoices -> Nat]
  BY <1>2, <1>3 DEF Confirm, Confirmable, TypeOK
<1>9. Done(c) /\ UNCHANGED <<restored, restocks>>
  BY DEF Confirm
<1> QED  BY <1>5, <1>6, <1>7, <1>8, <1>9, DoneType DEF TypeOK, Requests

(* A cancellation, a deletion.                                             *)
LEMMA CancelType ==
    ASSUME TypeOK, NEW c \in Clients, CancelDraft(c) \/ CancelConfirmed(c) \/ Delete(c)
    PROVE  TypeOK'
<1> DEFINE i    == tx[c].invoice
<1> DEFINE seen == tx[c].seen
<1>1. tx[c] # Idle
  BY Named DEF CancelDraft, CancelConfirmed, Delete
<1>2. i \in Invoices /\ seen \in Record /\ invoice[i] \in Record
  BY <1>1, Running
<1>3. invoice' \in [Invoices -> Record]
  <2>1. CASE Delete(c)
    BY <1>2, <2>1 DEF Delete, TypeOK, Record, Statuses
  <2>2. CASE CancelDraft(c) \/ CancelConfirmed(c)
    <3>1. invoice' = [invoice EXCEPT ![i].status = "CANCELLED", ![i].customerTx = 0]
      BY <2>2 DEF CancelDraft, CancelConfirmed
    <3> QED  BY <1>2, <3>1 DEF TypeOK, Record, Statuses
  <2> QED  BY <2>1, <2>2
<1>4. Done(c)
  BY DEF CancelDraft, CancelConfirmed, Delete
<1>5. CASE CancelDraft(c) \/ Delete(c)
  <2>1. UNCHANGED effects
    BY <1>5 DEF CancelDraft, Delete
  <2> QED  BY <1>3, <1>4, <2>1, DoneType DEF effects, TypeOK, Requests
<1>6. CASE CancelConfirmed(c)
  <2>1. Reversed(entry[i], seen.cogsEntry) \in [revenue : EntryRecord, cogs : EntryRecord]
    BY <1>2, EntryType DEF TypeOK, Record
  <2>2. entry' \in [Invoices -> [revenue : EntryRecord, cogs : EntryRecord]]
    BY <1>2, <1>6, <2>1 DEF CancelConfirmed, TypeOK
  <2>3. /\ statement' \in [Invoices -> SUBSET [id : Nat, amount : Nat]]
        /\ balance' \in Nat /\ restored' \in [Invoices -> Nat] /\ restocks' \in [Invoices -> Nat]
    BY <1>2, <1>6 DEF CancelConfirmed, TypeOK
  <2>4. UNCHANGED <<sold, confirms>>
    BY <1>6 DEF CancelConfirmed
  <2> QED  BY <1>3, <1>4, <2>2, <2>3, <2>4, DoneType DEF TypeOK, Requests
<1> QED  BY <1>5, <1>6

-----------------------------------------------------------------------------
(* The invariant, one invoice at a time.                                   *)

EffectsOf(i) ==
    /\ invoice[i].status \in {"NONE", "DRAFT"} => Untouched(i)
    /\ i \notin overlapped =>
         /\ invoice[i].status = "DELETED" => Untouched(i)
         /\ invoice[i].status = "CONFIRMED" => Standing(i)
         /\ invoice[i].status = "CANCELLED" => Undone(i)

AmountsOf(i) ==
    i \notin overlapped =>
        /\ invoice[i].subtotal = invoice[i].boards
        /\ invoice[i].total = Total(invoice[i].boards, invoice[i].rate)

(* The invoice named j keeps its row and its effects.                      *)
SameInvoice(j) ==
    /\ invoice'[j] = invoice[j] /\ statement'[j] = statement[j] /\ entry'[j] = entry[j]
    /\ sold'[j] = sold[j] /\ restored'[j] = restored[j]
    /\ confirms'[j] = confirms[j] /\ restocks'[j] = restocks[j]

(* The invariant is its parts, invoice by invoice.                         *)
LEMMA InvByInvoice ==
    /\ RowsNumbered <=> \A i \in Invoices : RowsOf(i)
    /\ EffectsMatchStatus <=> \A i \in Invoices : EffectsOf(i)
    /\ AmountsMatchLines <=> \A i \in Invoices : AmountsOf(i)
BY DEF RowsNumbered, EffectsMatchStatus, EffectsOf, AmountsMatchLines, AmountsOf

(* It survives on an invoice that a step leaves alone.                     *)
LEMMA SameInvoiceKeepsParts ==
    ASSUME NEW j \in Invoices, SameInvoice(j), j \in overlapped => j \in overlapped',
           RowsOf(j), EffectsOf(j), AmountsOf(j)
    PROVE  RowsOf(j)' /\ EffectsOf(j)' /\ AmountsOf(j)'
<1>1. RowsOf(j)'
  BY DEF SameInvoice, RowsOf, BoardsOf
<1>2. EffectsOf(j)' /\ AmountsOf(j)'
  BY DEF SameInvoice, EffectsOf, AmountsOf, Untouched, Standing, Undone
<1> QED  BY <1>1, <1>2

(* A handler that finishes keeps the invariant when it keeps the types and *)
(* the parts of the invoice it worked on.                                  *)
LEMMA WriteKeepsInv ==
    ASSUME IInv, NEW c \in Clients, tx[c] # Idle, Done(c), TypeOK',
           NEW i \in Invoices, i = tx[c].invoice,
           \A j \in Invoices \ {i} : SameInvoice(j),
           invoice'[i].status # "NONE", RowsOf(i)', EffectsOf(i)', AmountsOf(i)'
    PROVE  IInv'
<1>2. \A j \in Invoices : RowsOf(j)' /\ EffectsOf(j)' /\ AmountsOf(j)'
  <2> SUFFICES ASSUME NEW j \in Invoices PROVE RowsOf(j)' /\ EffectsOf(j)' /\ AmountsOf(j)'
    OBVIOUS
  <2>1. CASE j = i
    BY <2>1
  <2>2. CASE j # i
    <3>1. RowsOf(j) /\ EffectsOf(j) /\ AmountsOf(j)
      BY InvByInvoice DEF IInv
    <3> QED  BY <2>2, <3>1, SameInvoiceKeepsParts DEF Done
  <2> QED  BY <2>1, <2>2
<1>3. FreshReads'
  <2> SUFFICES ASSUME NEW d \in Clients, tx'[d] # Idle
               PROVE  LET k == tx'[d].invoice IN
                      /\ invoice'[k].status # "NONE"
                      /\ tx'[d].op = "cancel" => MayCancel(tx'[d].seen)
                      /\ tx'[d].op # "cancel" => tx'[d].seen.status = "DRAFT"
                      /\ k \notin overlapped' =>
                           /\ tx'[d].seen = invoice'[k]
                           /\ \A e \in Clients \ {d} : tx'[e] = Idle \/ tx'[e].invoice # k
    BY DEF FreshReads, MayCancel
  <2>1. d # c /\ tx'[d] = tx[d] /\ tx[d] # Idle /\ overlapped' = overlapped
    BY DEF Done, IInv, TypeOK
  <2>2. \A e \in Clients : tx'[e] = Idle \/ tx'[e] = tx[e]
    BY DEF Done, IInv, TypeOK
  <2>3. tx[d].invoice \in Invoices
    BY <2>1, Running DEF IInv
  <2>4. /\ invoice[tx[d].invoice].status # "NONE"
        /\ tx[d].op = "cancel" => MayCancel(tx[d].seen)
        /\ tx[d].op # "cancel" => tx[d].seen.status = "DRAFT"
        /\ tx[d].invoice \notin overlapped =>
             /\ tx[d].seen = invoice[tx[d].invoice]
             /\ \A e \in Clients \ {d} : tx[e] = Idle \/ tx[e].invoice # tx[d].invoice
    BY <2>1 DEF IInv, FreshReads
  <2>5. CASE tx[d].invoice = i
    BY <2>1, <2>4, <2>5
  <2>6. CASE tx[d].invoice # i
    BY <2>1, <2>2, <2>3, <2>4, <2>6 DEF SameInvoice
  <2> QED  BY <2>5, <2>6
<1>4. RowsNumbered'
  BY <1>2 DEF RowsNumbered
<1>5. EffectsMatchStatus' /\ AmountsMatchLines'
  BY <1>2 DEF EffectsMatchStatus, EffectsOf, AmountsMatchLines, AmountsOf
<1> QED  BY <1>3, <1>4, <1>5 DEF IInv

(* What is known of the invoice a handler is about to write.               *)
LEMMA BeforeWrite ==
    ASSUME IInv, NEW c \in Clients, tx[c] # Idle
    PROVE  LET i == tx[c].invoice IN
           /\ i \in Invoices /\ tx[c].seen \in Record /\ invoice[i] \in Record
           /\ RowsOf(i) /\ EffectsOf(i) /\ AmountsOf(i)
           /\ invoice[i].status # "NONE"
           /\ tx[c].op = "cancel" => MayCancel(tx[c].seen)
           /\ tx[c].op # "cancel" => tx[c].seen.status = "DRAFT"
           /\ i \notin overlapped => tx[c].seen = invoice[i]
<1>1. tx[c].invoice \in Invoices /\ tx[c].seen \in Record /\ invoice[tx[c].invoice] \in Record
  BY Running DEF IInv
<1> QED  BY <1>1, InvByInvoice DEF IInv, FreshReads

-----------------------------------------------------------------------------
(* Every action keeps the invariant.                                       *)

(* A read: the one handler of an unraced invoice has just seen its row.    *)
LEMMA ReadKeepsInv ==
    ASSUME IInv, NEW c \in Clients, NEW i \in Invoices,
           NEW op \in {"update", "confirm", "cancel", "delete"}, Read(c, i, Request(op, i)),
           IF op = "cancel" THEN MayCancel(invoice[i]) ELSE invoice[i].status = "DRAFT"
    PROVE  IInv'
<1>1. TypeOK'
  BY ReadType DEF IInv
<1>2. \A j \in Invoices : RowsOf(j)' /\ EffectsOf(j)' /\ AmountsOf(j)'
  <2> SUFFICES ASSUME NEW j \in Invoices PROVE RowsOf(j)' /\ EffectsOf(j)' /\ AmountsOf(j)'
    OBVIOUS
  <2>1. SameInvoice(j) /\ (j \in overlapped => j \in overlapped')
    BY DEF Read, effects, SameInvoice
  <2>2. RowsOf(j) /\ EffectsOf(j) /\ AmountsOf(j)
    BY InvByInvoice DEF IInv
  <2> QED  BY <2>1, <2>2, SameInvoiceKeepsParts
<1>3. FreshReads'
  <2>1. invoice' = invoice /\ tx' = [tx EXCEPT ![c] = Request(op, i)] /\ tx[c] = Idle
    BY DEF Read
  <2>2. \A j \in Invoices : j \in overlapped => j \in overlapped'
    BY DEF Read
  <2>3. i \notin overlapped' => \A d \in Clients \ {c} : tx[d] = Idle \/ tx[d].invoice # i
    BY DEF Read
  <2>4. ASSUME NEW d \in Clients, tx'[d] # Idle
        PROVE  LET k == tx'[d].invoice IN
               /\ invoice'[k].status # "NONE"
               /\ tx'[d].op = "cancel" => MayCancel(tx'[d].seen)
               /\ tx'[d].op # "cancel" => tx'[d].seen.status = "DRAFT"
               /\ k \notin overlapped' =>
                    /\ tx'[d].seen = invoice'[k]
                    /\ \A e \in Clients \ {d} : tx'[e] = Idle \/ tx'[e].invoice # k
    <3>1. CASE d = c
      <4>1. tx'[d] = [op |-> op, invoice |-> i, seen |-> invoice[i], cost |-> cost]
        BY <2>1, <3>1 DEF Request, IInv, TypeOK
      <4>2. \A e \in Clients \ {d} : tx'[e] = tx[e]
        BY <2>1, <3>1 DEF IInv, TypeOK
      <4> QED  BY <2>1, <2>3, <3>1, <4>1, <4>2 DEF MayCancel
    <3>2. CASE d # c
      <4>1. tx'[d] = tx[d] /\ tx[d] # Idle
        BY <2>1, <2>4, <3>2 DEF IInv, TypeOK
      <4>2. tx[d].invoice \in Invoices
        BY <4>1, Running DEF IInv
      <4>3. /\ invoice[tx[d].invoice].status # "NONE"
            /\ tx[d].op = "cancel" => MayCancel(tx[d].seen)
            /\ tx[d].op # "cancel" => tx[d].seen.status = "DRAFT"
            /\ tx[d].invoice \notin overlapped =>
                 /\ tx[d].seen = invoice[tx[d].invoice]
                 /\ \A e \in Clients \ {d} : tx[e] = Idle \/ tx[e].invoice # tx[d].invoice
        BY <4>1 DEF IInv, FreshReads
      <4>4. \A e \in Clients \ {c} : tx'[e] = tx[e]
        BY <2>1 DEF IInv, TypeOK
      <4>5. tx'[c].invoice = i
        BY <2>1 DEF IInv, TypeOK, Request
      <4>6. tx[d].invoice \notin overlapped' => tx[d].invoice # i
        BY <2>3, <3>2, <4>1
      <4> QED  BY <2>1, <2>2, <4>1, <4>2, <4>3, <4>4, <4>5, <4>6
    <3> QED  BY <3>1, <3>2
  <2> QED  BY <2>4 DEF FreshReads, MayCancel
<1>4. RowsNumbered'
  BY <1>2 DEF RowsNumbered
<1>5. EffectsMatchStatus' /\ AmountsMatchLines'
  BY <1>2 DEF EffectsMatchStatus, EffectsOf, AmountsMatchLines, AmountsOf
<1> QED  BY <1>1, <1>3, <1>4, <1>5 DEF IInv

(* A purchase touches no invoice.                                          *)
LEMMA PurchaseKeepsInv == IInv /\ Purchase => IInv'
<1> SUFFICES ASSUME IInv, Purchase PROVE IInv'
  OBVIOUS
<1>1. TypeOK'
  <2>1. cost' \in Nat /\ balance' \in Nat
    BY InvoiceAssumption DEF Purchase, IInv, TypeOK
  <2> QED  BY <2>1 DEF Purchase, IInv, TypeOK
<1>2. RowsNumbered'
  BY DEF Purchase, IInv, RowsNumbered, RowsOf, BoardsOf
<1>3. FreshReads' /\ AmountsMatchLines'
  BY DEF Purchase, IInv, FreshReads, AmountsMatchLines
<1>4. EffectsMatchStatus'
  BY DEF Purchase, IInv, EffectsMatchStatus, Untouched, Standing, Undone
<1> QED  BY <1>1, <1>2, <1>3, <1>4 DEF IInv

(* A new draft has left no trace, and nobody has read it yet.              *)
LEMMA CreateKeepsInv ==
    ASSUME IInv, NEW i \in Invoices, Create(i)
    PROVE  IInv'
<1>1. PICK q \in Quantities, r \in Rates :
        invoice' = [invoice EXCEPT ![i] =
          [status |-> "DRAFT", boards |-> q, lines |-> {0}, edits |-> 0, subtotal |-> q,
           rate |-> r, total |-> Total(q, r), customerTx |-> 0, totalCost |-> 0,
           cogsEntry |-> FALSE]]
  BY DEF Create
<1>2. q \in Nat /\ r \in Nat /\ Total(q, r) \in Nat
  BY TotalType, InvoiceAssumption
<1>3. invoice' \in [Invoices -> Record]
  BY <1>1, <1>2 DEF IInv, TypeOK, Record, Statuses
<1>4. UNCHANGED <<effects, cost, tx, overlapped>> /\ started' \in 0..MaxRequests
  BY InvoiceAssumption DEF Create, IInv, TypeOK
<1>5. TypeOK'
  BY <1>3, <1>4 DEF IInv, TypeOK, effects
<1>6. invoice[i].status = "NONE" /\ Untouched(i)
  BY DEF Create, NoInvoice, IInv, EffectsMatchStatus
<1>7. \A j \in Invoices \ {i} : SameInvoice(j)
  BY <1>1, <1>4 DEF SameInvoice, effects, IInv, TypeOK
<1>8. \A j \in Invoices : RowsOf(j)' /\ EffectsOf(j)' /\ AmountsOf(j)'
  <2> SUFFICES ASSUME NEW j \in Invoices PROVE RowsOf(j)' /\ EffectsOf(j)' /\ AmountsOf(j)'
    OBVIOUS
  <2>1. RowsOf(j) /\ EffectsOf(j) /\ AmountsOf(j)
    BY InvByInvoice DEF IInv
  <2>2. CASE j # i
    BY <1>4, <1>7, <2>1, <2>2, SameInvoiceKeepsParts
  <2>3. CASE j = i
    <3>1. RowsOf(i)'
      BY <1>4, <2>1, <2>3 DEF RowsOf, BoardsOf, effects
    <3>2. EffectsOf(i)'
      BY <1>1, <1>4, <1>6 DEF EffectsOf, Untouched, effects, IInv, TypeOK
    <3>3. AmountsOf(i)'
      BY <1>1 DEF AmountsOf, IInv, TypeOK, Total
    <3> QED  BY <2>3, <3>1, <3>2, <3>3
  <2> QED  BY <2>2, <2>3
<1>9. FreshReads'
  <2>1. \A d \in Clients : tx[d] # Idle => tx[d].invoice \in Invoices \ {i}
    BY <1>6, Running DEF IInv, FreshReads
  <2> QED  BY <1>4, <1>7, <2>1 DEF IInv, FreshReads, SameInvoice
<1> QED
  BY <1>5, <1>8, <1>9 DEF IInv, RowsNumbered, EffectsMatchStatus, EffectsOf,
                          AmountsMatchLines, AmountsOf

(* An update leaves the effects alone; what it writes agrees with itself,  *)
(* given new lines, or with the row it read.                               *)
LEMMA UpdateKeepsInv ==
    ASSUME IInv, NEW c \in Clients, UpdateLines(c) \/ UpdateHeader(c)
    PROVE  IInv'
<1> DEFINE i    == tx[c].invoice
<1> DEFINE seen == tx[c].seen
<1>1. tx[c] # Idle /\ Done(c) /\ UNCHANGED effects
  BY Named DEF UpdateLines, UpdateHeader
<1>2. /\ i \in Invoices /\ invoice[i] \in Record
      /\ RowsOf(i) /\ EffectsOf(i) /\ AmountsOf(i)
      /\ invoice[i].status # "NONE"
      /\ i \notin overlapped => seen = invoice[i]
      /\ tx[c].op = "update" /\ seen.status = "DRAFT"
  BY <1>1, BeforeWrite DEF UpdateLines, UpdateHeader
<1>3. TypeOK'
  BY UpdateType DEF IInv
<1>4. PICK new : /\ invoice' = [invoice EXCEPT ![i] = new]
                 /\ new.status = invoice[i].status
                 /\ i \notin overlapped =>
                      new.subtotal = new.boards /\ new.total = Total(new.boards, new.rate)
  <2>1. CASE UpdateLines(c)
    <3>1. PICK q \in Quantities, r \in Rates \cup {seen.rate},
               kept \in SUBSET invoice[i].lines, m \in 0..invoice[i].boards :
            /\ Escape(c, kept, m)
            /\ invoice' = [invoice EXCEPT ![i].boards = q + m,
                                       ![i].lines = kept \cup {invoice[i].edits + 1},
                                       ![i].edits = @ + 1, ![i].subtotal = q, ![i].rate = r,
                                       ![i].total = NewTotal(seen, q, r),
                                       ![i].totalCost = 0]
      BY <2>1 DEF UpdateLines
    <3> DEFINE n == NewTotal(seen, q, r)
    <3> DEFINE new == [invoice[i] EXCEPT !.boards = q + m,
                                         !.lines = kept \cup {invoice[i].edits + 1},
                                         !.edits = @ + 1, !.subtotal = q, !.rate = r,
                                         !.total = n, !.totalCost = 0]
    <3>2. n = Total(q, r)
      BY DEF NewTotal
    <3>5. i \notin overlapped => m = 0
      BY <1>2, <3>1 DEF Escape
    <3> HIDE DEF n
    <3>3. /\ new.status = invoice[i].status /\ new.boards = q + m /\ new.subtotal = q
          /\ new.rate = r /\ new.total = n
      BY <1>2 DEF Record
    <3>6. q \in Nat
      BY InvoiceAssumption
    <3>4. invoice' = [invoice EXCEPT ![i] = new]
      BY <1>2, <3>1 DEF n, IInv, TypeOK
    <3> HIDE DEF new
    <3>7. i \notin overlapped => new.boards = q
      BY <3>3, <3>5, <3>6
    <3> QED  BY <3>2, <3>3, <3>4, <3>7
  <2>2. CASE UpdateHeader(c)
    <3>1. PICK r \in Rates \cup {seen.rate} :
            invoice' = [invoice EXCEPT ![i].subtotal = seen.subtotal, ![i].rate = r,
                                       ![i].total = Total(seen.subtotal, r),
                                       ![i].totalCost = seen.totalCost]
      BY <2>2 DEF UpdateHeader
    <3> DEFINE n == Total(seen.subtotal, r)
    <3> DEFINE new == [invoice[i] EXCEPT !.subtotal = seen.subtotal, !.rate = r,
                                         !.total = n, !.totalCost = seen.totalCost]
    <3>2. invoice' = [invoice EXCEPT ![i] = new]
      BY <1>2, <3>1 DEF n, IInv, TypeOK
    <3> HIDE DEF n
    <3>3. /\ new.status = invoice[i].status /\ new.boards = invoice[i].boards
          /\ new.subtotal = seen.subtotal /\ new.rate = r /\ new.total = n
      BY <1>2 DEF Record
    <3> HIDE DEF new
    <3>4. i \notin overlapped => seen.subtotal = invoice[i].boards
      BY <1>2 DEF AmountsOf
    <3> QED  BY <3>2, <3>3, <3>4 DEF n
  <2> QED  BY <2>1, <2>2 DEF UpdateLines, UpdateHeader
<1>5. invoice'[i] = new /\ \A j \in Invoices \ {i} : invoice'[j] = invoice[j]
  BY <1>2, <1>4 DEF IInv, TypeOK
<1>6. \A j \in Invoices \ {i} : SameInvoice(j)
  BY <1>1, <1>5 DEF SameInvoice, effects
<1>7. PICK k \in Invoices : k = i
  BY <1>2
<1>8. RowsOf(k)'
  BY <1>1, <1>2, <1>7 DEF RowsOf, BoardsOf, effects
<1>9. invoice[k].status \in {"NONE", "DRAFT"} => Untouched(k)
  BY <1>2, <1>7 DEF EffectsOf
<1>10. EffectsOf(k)' /\ AmountsOf(k)'
  <2>1. k \notin overlapped => invoice[k].status = "DRAFT"
    BY <1>2, <1>7
  <2>2. UNCHANGED <<statement, sold, restored, entry, overlapped>>
    BY <1>1 DEF effects, Done
  <2>3. invoice'[k] = new /\ new.status = invoice[k].status
    BY <1>4, <1>5, <1>7
  <2>4. EffectsOf(k)'
    BY <1>2, <1>7, <1>9, <2>1, <2>2, <2>3 DEF EffectsOf, Untouched
  <2>5. AmountsOf(k)'
    BY <1>4, <1>7, <2>2, <2>3 DEF AmountsOf, Total
  <2> QED  BY <2>4, <2>5
<1>11. invoice'[k].status # "NONE"
  BY <1>2, <1>4, <1>5, <1>7
<1> QED  BY <1>1, <1>3, <1>6, <1>7, <1>8, <1>10, <1>11, WriteKeepsInv

(* A confirmation adds the row numbered next, and posts what it read.      *)
LEMMA ConfirmKeepsInv ==
    ASSUME IInv, NEW c \in Clients, Confirm(c)
    PROVE  IInv'
<1> DEFINE seen == tx[c].seen
<1>1. tx[c] # Idle /\ Done(c) /\ tx[c].op = "confirm"
  BY Named DEF Confirm
<1>2. PICK i \in Invoices : i = tx[c].invoice
  BY <1>1, BeforeWrite
<1>3. /\ seen \in Record /\ invoice[i] \in Record
      /\ RowsOf(i) /\ EffectsOf(i) /\ AmountsOf(i)
      /\ seen.status = "DRAFT"
      /\ i \notin overlapped => seen = invoice[i]
  BY <1>1, <1>2, BeforeWrite
<1> DEFINE id  == confirms[i] + 1
<1> DEFINE row == [id |-> id, amount |-> seen.total]
<1> DEFINE new == [invoice[i] EXCEPT !.status = "CONFIRMED", !.customerTx = id,
                                     !.totalCost = Cogs(c), !.cogsEntry = Cogs(c) > 0]
<1>4. TypeOK'
  BY ConfirmType DEF IInv
<1>5. /\ invoice'[i] = new /\ statement'[i] = statement[i] \cup {row}
      /\ sold'[i] = sold[i] + seen.boards /\ restored'[i] = restored[i]
      /\ confirms'[i] = id /\ restocks'[i] = restocks[i]
      /\ entry'[i].revenue = Post(entry[i].revenue, seen.total)
      /\ entry'[i].cogs = IF Cogs(c) > 0 THEN Post(entry[i].cogs, Cogs(c)) ELSE entry[i].cogs
  BY <1>2 DEF Confirm, IInv, TypeOK
<1>6. \A j \in Invoices \ {i} : SameInvoice(j)
  BY <1>2 DEF Confirm, SameInvoice, IInv, TypeOK
<1>7. confirms[i] \in Nat /\ restocks[i] \in Nat /\ seen.total \in Nat /\ seen.boards \in Nat
      /\ Cogs(c) \in Nat
  <2>1. tx[c].cost \in Nat
    BY <1>1, Running DEF IInv
  <2>2. seen.boards \in Nat
    BY <1>3 DEF Record
  <2> QED  BY <1>3, <2>1, <2>2, TotalType DEF IInv, TypeOK, Cogs, Record
<1> DEFINE cogs == Cogs(c)
<1>8. /\ new.status = "CONFIRMED" /\ new.customerTx = id /\ new.boards = invoice[i].boards
      /\ new.subtotal = invoice[i].subtotal /\ new.total = invoice[i].total
      /\ new.rate = invoice[i].rate
      /\ new.totalCost = cogs /\ (new.cogsEntry <=> cogs > 0)
  BY <1>3 DEF Record
<1>9. RowsOf(i)'
  <2>1. IsFiniteSet(statement[i]) /\ row \notin statement[i]
    BY <1>3, <1>7 DEF RowsOf
  <2>2. IsFiniteSet(statement'[i]) /\ Cardinality(statement'[i]) = Cardinality(statement[i]) + 1
    <3> HIDE DEF row
    <3>1. /\ IsFiniteSet(statement[i] \cup {row})
          /\ Cardinality(statement[i] \cup {row}) = Cardinality(statement[i]) + 1
      BY <2>1, FS_AddElement
    <3> QED  BY <1>5, <3>1
  <2>3. \A s \in statement[i] : s.id <= confirms[i] /\ s.id \in Nat
    BY <1>3 DEF RowsOf, IInv, TypeOK
  <2>4. row.id = id
    OBVIOUS
  <2>5. \A s \in statement'[i] : s.id <= confirms'[i]
    BY <1>5, <1>7, <2>3, <2>4
  <2>6. \A r, s \in statement'[i] : r.id = s.id => r = s
    BY <1>3, <1>5, <1>7, <2>3, <2>4 DEF RowsOf
  <2>7. Cardinality(statement[i]) \in Nat
    BY <2>1, FS_CardinalityType
  <2>8. restocks'[i] + Cardinality(statement'[i]) = confirms'[i]
    BY <1>3, <1>5, <1>7, <2>2, <2>7 DEF RowsOf
  <2>9. BoardsOf(i)'
    <3>1. restocks[i] <= confirms[i]
      BY <1>3, <1>7, <2>7 DEF RowsOf
    <3>2. confirms'[i] # 0 /\ (confirms'[i] = 1 => confirms[i] = 0 /\ restocks[i] = 0)
      BY <1>5, <1>7, <3>1
    <3>3. confirms[i] = 0 => restored[i] = 0
      BY <1>3 DEF RowsOf, BoardsOf
    <3> QED  BY <1>5, <3>2, <3>3 DEF BoardsOf
  <2> QED  BY <2>2, <2>5, <2>6, <2>8, <2>9 DEF RowsOf
<1>10. EffectsOf(i)'
  <2>1. CASE i \in overlapped
    BY <1>1, <1>5, <1>8, <2>1 DEF EffectsOf, Done
  <2>2. CASE i \notin overlapped
    <3>1. seen = invoice[i] /\ Untouched(i)
      BY <1>3, <2>2 DEF EffectsOf
    <3>2. statement'[i] = {row} /\ sold'[i] = invoice[i].boards /\ restored'[i] = 0
      BY <1>5, <1>7, <3>1 DEF Untouched
    <3>3. entry[i].revenue = NotPosted /\ entry[i].cogs = NotPosted
      BY <3>1 DEF Untouched
    <3>4. /\ entry'[i].revenue = [status |-> "POSTED", amount |-> invoice[i].total]
          /\ entry'[i].cogs = IF cogs > 0 THEN [status |-> "POSTED", amount |-> cogs]
                              ELSE NotPosted
      BY <1>5, <3>1, <3>3 DEF Post
    <3> HIDE DEF cogs, new
    <3>5. Standing(i)'
      BY <1>5, <1>8, <3>1, <3>2, <3>4 DEF Standing
    <3> QED  BY <1>5, <1>8, <3>5 DEF EffectsOf
  <2> QED  BY <2>1, <2>2
<1>11. AmountsOf(i)'
  BY <1>1, <1>3, <1>5, <1>8 DEF AmountsOf, Done, Total
<1> HIDE DEF new
<1> QED  BY <1>1, <1>2, <1>4, <1>5, <1>6, <1>8, <1>9, <1>10, <1>11, WriteKeepsInv

(* A confirmed invoice that is cancelled: one row goes, the boards come    *)
(* back, what was posted is reversed.                                      *)
LEMMA CancelConfirmedKeepsInv ==
    ASSUME IInv, NEW c \in Clients, CancelConfirmed(c)
    PROVE  IInv'
<1> DEFINE seen == tx[c].seen
<1>1. tx[c] # Idle /\ Done(c) /\ tx[c].op = "cancel" /\ seen.status = "CONFIRMED"
  BY Named DEF CancelConfirmed
<1>2. PICK i \in Invoices : i = tx[c].invoice
  BY <1>1, BeforeWrite
<1>3. /\ seen \in Record /\ invoice[i] \in Record
      /\ RowsOf(i) /\ EffectsOf(i) /\ AmountsOf(i)
      /\ i \notin overlapped => seen = invoice[i]
  BY <1>1, <1>2, BeforeWrite
<1> DEFINE new == [invoice[i] EXCEPT !.status = "CANCELLED", !.customerTx = 0]
<1>4. TypeOK'
  BY CancelType DEF IInv
<1>5. /\ invoice'[i] = new /\ statement'[i] = {row \in statement[i] : row.id # seen.customerTx}
      /\ sold'[i] = sold[i] /\ restored'[i] = restored[i] + sold[i]
      /\ confirms'[i] = confirms[i] /\ restocks'[i] = restocks[i] + 1
      /\ entry'[i] = Reversed(entry[i], seen.cogsEntry)
  BY <1>2 DEF CancelConfirmed, IInv, TypeOK
<1>6. \A j \in Invoices \ {i} : SameInvoice(j)
  BY <1>2 DEF CancelConfirmed, SameInvoice, IInv, TypeOK
<1>7. confirms[i] \in Nat /\ restocks[i] \in Nat /\ sold[i] \in Nat
  BY DEF IInv, TypeOK
<1>8. /\ new.status = "CANCELLED" /\ new.boards = invoice[i].boards
      /\ new.subtotal = invoice[i].subtotal /\ new.total = invoice[i].total
      /\ new.rate = invoice[i].rate
  BY <1>3 DEF Record
<1>9. RowsOf(i)'
  <2>1. PICK gone \in statement[i] : gone.id = seen.customerTx
    BY <1>2 DEF CancelConfirmed, StatementRowThere
  <2>2. statement'[i] = statement[i] \ {gone}
    BY <1>3, <1>5, <2>1 DEF RowsOf
  <2>3. IsFiniteSet(statement[i])
    BY <1>3 DEF RowsOf
  <2>4. /\ IsFiniteSet(statement[i] \ {gone})
        /\ Cardinality(statement[i] \ {gone}) = Cardinality(statement[i]) - 1
    BY <2>1, <2>3, FS_RemoveElement
  <2>5. Cardinality(statement[i]) \in Nat
    BY <2>3, FS_CardinalityType
  <2>6. IsFiniteSet(statement'[i]) /\ Cardinality(statement'[i]) = Cardinality(statement[i]) - 1
    BY <2>2, <2>4
  <2>7. restocks'[i] + Cardinality(statement'[i]) = confirms'[i]
    BY <1>3, <1>5, <1>7, <2>5, <2>6 DEF RowsOf
  <2>8. /\ \A row \in statement'[i] : row.id <= confirms'[i]
        /\ \A r, s \in statement'[i] : r.id = s.id => r = s
    BY <1>3, <1>5, <2>2 DEF RowsOf
  <2>9. BoardsOf(i)'
    <3>1. Cardinality(statement[i]) >= 1
      BY <2>5, <2>6, FS_CardinalityType, FS_EmptySet, <2>1, <2>3
    <3>2. /\ confirms'[i] # 0 /\ restocks'[i] # 0
          /\ confirms'[i] = 1 => restocks[i] = 0
      BY <1>3, <1>5, <1>7, <2>5, <3>1 DEF RowsOf
    <3>3. confirms'[i] = 1 => restored[i] = 0
      BY <1>3, <1>5, <3>2 DEF RowsOf, BoardsOf
    <3> QED  BY <1>5, <1>7, <3>2, <3>3 DEF BoardsOf
  <2> QED  BY <2>6, <2>7, <2>8, <2>9 DEF RowsOf
<1>10. EffectsOf(i)'
  <2>1. CASE i \in overlapped
    BY <1>1, <1>5, <1>8, <2>1 DEF EffectsOf, Done
  <2>2. CASE i \notin overlapped
    <3>1. seen = invoice[i] /\ Standing(i)
      BY <1>1, <1>3, <2>2 DEF EffectsOf
    <3>2. statement'[i] = {}
      <4>1. statement[i] = {[id |-> seen.customerTx, amount |-> seen.total]}
        BY <3>1 DEF Standing
      <4> QED  BY <1>5, <4>1
    <3>3. restored'[i] = sold'[i]
      BY <1>5, <1>7, <3>1 DEF Standing
    <3>4. entry[i] \in [revenue : EntryRecord, cogs : EntryRecord]
      BY DEF IInv, TypeOK
    <3>5. entry'[i].revenue.status = "REVERSED"
      BY <1>5, <3>4 DEF Reversed, EntryRecord
    <3>6. entry'[i].cogs.status # "POSTED"
      <4>1. CASE seen.cogsEntry
        BY <1>5, <3>4, <4>1 DEF Reversed, EntryRecord
      <4>2. CASE ~seen.cogsEntry
        <5>1. entry[i].cogs = NotPosted
          BY <3>1, <4>2 DEF Standing
        <5> QED  BY <1>5, <3>4, <4>2, <5>1 DEF Reversed, EntryRecord, NotPosted
      <4> QED  BY <4>1, <4>2
    <3>7. Undone(i)'
      BY <3>2, <3>3, <3>5, <3>6 DEF Undone
    <3> QED  BY <1>5, <1>8, <3>7 DEF EffectsOf
  <2> QED  BY <2>1, <2>2
<1>11. AmountsOf(i)'
  BY <1>1, <1>3, <1>5, <1>8 DEF AmountsOf, Done, Total
<1> HIDE DEF new
<1> QED  BY <1>1, <1>2, <1>4, <1>5, <1>6, <1>8, <1>9, <1>10, <1>11, WriteKeepsInv

(* A draft that is cancelled or deleted has left no trace.                 *)
LEMMA DropDraftKeepsInv ==
    ASSUME IInv, NEW c \in Clients, CancelDraft(c) \/ Delete(c)
    PROVE  IInv'
<1> DEFINE seen == tx[c].seen
<1>1. tx[c] # Idle /\ Done(c) /\ UNCHANGED effects
  BY Named DEF CancelDraft, Delete
<1>2. PICK i \in Invoices : i = tx[c].invoice
  BY <1>1, BeforeWrite
<1>3. /\ invoice[i] \in Record /\ RowsOf(i) /\ EffectsOf(i) /\ AmountsOf(i)
      /\ seen.status = "DRAFT"
      /\ i \notin overlapped => seen = invoice[i]
  BY <1>1, <1>2, BeforeWrite DEF CancelDraft, Delete, MayCancel
<1>4. TypeOK'
  BY CancelType DEF IInv
<1>5. PICK new : /\ invoice' = [invoice EXCEPT ![i] = new]
                 /\ new.status \in {"CANCELLED", "DELETED"} /\ new.boards = invoice[i].boards
                 /\ new.subtotal = invoice[i].subtotal /\ new.total = invoice[i].total
                 /\ new.rate = invoice[i].rate
  <2>1. CASE CancelDraft(c)
    <3> DEFINE new == [invoice[i] EXCEPT !.status = "CANCELLED", !.customerTx = 0]
    <3>1. invoice' = [invoice EXCEPT ![i] = new]
      BY <1>2, <2>1 DEF CancelDraft, IInv, TypeOK
    <3>2. /\ new.status = "CANCELLED" /\ new.boards = invoice[i].boards
          /\ new.subtotal = invoice[i].subtotal /\ new.total = invoice[i].total
          /\ new.rate = invoice[i].rate
      BY <1>3 DEF Record
    <3> HIDE DEF new
    <3> QED  BY <3>1, <3>2
  <2>2. CASE Delete(c)
    <3> DEFINE new == [invoice[i] EXCEPT !.status = "DELETED"]
    <3>1. invoice' = [invoice EXCEPT ![i] = new]
      BY <1>2, <2>2 DEF Delete, IInv, TypeOK
    <3>2. /\ new.status = "DELETED" /\ new.boards = invoice[i].boards
          /\ new.subtotal = invoice[i].subtotal /\ new.total = invoice[i].total
          /\ new.rate = invoice[i].rate
      BY <1>3 DEF Record
    <3> HIDE DEF new
    <3> QED  BY <3>1, <3>2
  <2> QED  BY <2>1, <2>2
<1>6. invoice'[i] = new /\ \A j \in Invoices \ {i} : SameInvoice(j)
  BY <1>1, <1>5 DEF SameInvoice, effects, IInv, TypeOK
<1>7. UNCHANGED <<statement, entry, sold, restored, confirms, restocks, overlapped>>
  BY <1>1 DEF effects, Done
<1>8. RowsOf(i)'
  BY <1>3, <1>7 DEF RowsOf, BoardsOf
<1>9. EffectsOf(i)'
  <2>1. i \notin overlapped => Untouched(i)
    BY <1>3 DEF EffectsOf
  <2>2. i \notin overlapped => Untouched(i)' /\ Undone(i)'
    BY <1>7, <2>1 DEF Untouched, Undone, NotPosted
  <2> QED  BY <1>5, <1>6, <1>7, <2>2 DEF EffectsOf
<1>10. AmountsOf(i)'
  BY <1>3, <1>5, <1>6, <1>7 DEF AmountsOf, Total
<1>11. invoice'[i].status # "NONE"
  BY <1>5, <1>6
<1> QED  BY <1>1, <1>2, <1>4, <1>6, <1>8, <1>9, <1>10, <1>11, WriteKeepsInv

(* A refused or aborted transaction leaves everything as it was.           *)
LEMMA RollbackKeepsInv ==
    ASSUME IInv, NEW c \in Clients, RefuseConfirm(c) \/ Abort(c)
    PROVE  IInv'
<1>1. tx[c] # Idle /\ Done(c) /\ UNCHANGED <<invoice, effects>>
  BY Named DEF RefuseConfirm, Abort, Rollback
<1>2. PICK i \in Invoices : i = tx[c].invoice
  BY <1>1, BeforeWrite
<1>3. RowsOf(i) /\ EffectsOf(i) /\ AmountsOf(i) /\ invoice[i].status # "NONE"
  BY <1>1, <1>2, BeforeWrite
<1>4. TypeOK'
  BY <1>1, DoneType DEF effects, IInv, TypeOK, Requests
<1>5. \A j \in Invoices : SameInvoice(j)
  BY <1>1 DEF SameInvoice, effects
<1>6. RowsOf(i)' /\ EffectsOf(i)' /\ AmountsOf(i)'
  BY <1>1, <1>3, <1>5, SameInvoiceKeepsParts DEF Done
<1> QED  BY <1>1, <1>2, <1>3, <1>4, <1>5, <1>6, WriteKeepsInv

-----------------------------------------------------------------------------
(* Results.                                                                *)

(* Every step keeps the invariant.                                         *)
LEMMA InvNext == IInv /\ [Next]_vars => IInv'
<1> SUFFICES ASSUME IInv, [Next]_vars PROVE IInv'
  OBVIOUS
<1>1. CASE UNCHANGED vars
  <2>1. TypeOK' /\ FreshReads' /\ AmountsMatchLines'
    BY <1>1 DEF vars, effects, IInv, TypeOK, FreshReads, AmountsMatchLines
  <2>2. RowsNumbered'
    BY <1>1 DEF vars, effects, IInv, RowsNumbered, RowsOf, BoardsOf
  <2>3. EffectsMatchStatus'
    BY <1>1 DEF vars, effects, IInv, EffectsMatchStatus, Untouched, Standing, Undone
  <2> QED  BY <2>1, <2>2, <2>3 DEF IInv
<1>2. CASE Purchase
  BY <1>2, PurchaseKeepsInv
<1>3. ASSUME NEW i \in Invoices, Create(i) PROVE IInv'
  BY <1>3, CreateKeepsInv
<1>4. ASSUME NEW c \in Clients, NEW i \in Invoices,
             \/ ReadForUpdate(c, i) \/ ReadForConfirm(c, i)
             \/ ReadForCancel(c, i) \/ ReadForDelete(c, i)
      PROVE  IInv'
  <2>1. PICK op \in {"update", "confirm", "cancel", "delete"} :
           /\ Read(c, i, Request(op, i))
           /\ IF op = "cancel" THEN MayCancel(invoice[i]) ELSE invoice[i].status = "DRAFT"
    BY <1>4 DEF ReadForUpdate, ReadForConfirm, ReadForCancel, ReadForDelete, MayEdit
  <2> QED  BY <2>1, ReadKeepsInv
<1>5. ASSUME NEW c \in Clients, UpdateLines(c) \/ UpdateHeader(c) PROVE IInv'
  BY <1>5, UpdateKeepsInv
<1>6. ASSUME NEW c \in Clients, Confirm(c) PROVE IInv'
  BY <1>6, ConfirmKeepsInv
<1>7. ASSUME NEW c \in Clients, CancelConfirmed(c) PROVE IInv'
  BY <1>7, CancelConfirmedKeepsInv
<1>8. ASSUME NEW c \in Clients, CancelDraft(c) \/ Delete(c) PROVE IInv'
  BY <1>8, DropDraftKeepsInv
<1>9. ASSUME NEW c \in Clients, RefuseConfirm(c) \/ Abort(c) PROVE IInv'
  BY <1>9, RollbackKeepsInv
<1> QED  BY <1>1, <1>2, <1>3, <1>4, <1>5, <1>6, <1>7, <1>8, <1>9 DEF Next

(* The invariant holds in every state, for any handlers and invoices.      *)
THEOREM InvoicesInvariant == Spec => []IInv
BY InvInit, InvNext, PTL DEF Spec

(* Types are kept, and with them the boards on hand non-negative.          *)
THEOREM InvoicesTypeCorrect == Spec => []TypeOK
<1>1. IInv => TypeOK
  BY DEF IInv
<1> QED  BY InvoicesInvariant, <1>1, PTL

(* Whatever handlers race, the rows of the statement and the cancellations *)
(* that gave boards back count the confirmations, and the boards of an     *)
(* invoice confirmed at most once come back at most once.                  *)
THEOREM CancelledOnce == Spec => []CancelledOncePerConfirmation
<1>1. IInv => CancelledOncePerConfirmation
  <2> SUFFICES ASSUME IInv, NEW i \in Invoices
               PROVE  /\ restocks[i] + Cardinality(statement[i]) = confirms[i]
                      /\ confirms[i] <= 1 => restored[i] <= sold[i]
    BY DEF CancelledOncePerConfirmation
  <2>1. RowsOf(i)
    BY InvByInvoice DEF IInv
  <2>2. sold[i] \in Nat /\ confirms[i] \in Nat
    BY DEF IInv, TypeOK
  <2>3. confirms[i] <= 1 => restored[i] = 0 \/ restored[i] = sold[i]
    BY <2>1, <2>2 DEF RowsOf, BoardsOf
  <2> QED  BY <2>1, <2>2, <2>3 DEF RowsOf
<1> QED  BY InvoicesInvariant, <1>1, PTL

(* An invoice no two handlers met on is in the statement, in the journal   *)
(* and in stock exactly as its status says; a draft is nowhere.            *)
THEOREM EffectsFollowStatus == Spec => []EffectsMatchStatus
<1>1. IInv => EffectsMatchStatus
  BY DEF IInv
<1> QED  BY InvoicesInvariant, <1>1, PTL

(* The amounts of such an invoice are those of its lines and its rate.     *)
THEOREM AmountsFollowLines == Spec => []AmountsMatchLines
<1>1. IInv => AmountsMatchLines
  BY DEF IInv
<1> QED  BY InvoicesInvariant, <1>1, PTL

(* A step writes only the invoice of its handler; if that was confirmed,   *)
(* so it was when the handler read it, and the handler is cancelling.      *)
LEMMA StepKeepsPosted ==
    IInv /\ [Next]_vars => [\A i \in Invoices \ overlapped : Kept(i)]_vars
<1> SUFFICES ASSUME IInv, Next, NEW i \in Invoices \ overlapped,
                    invoice[i].status = "CONFIRMED"
             PROVE  \/ invoice'[i] = invoice[i]
                    \/ invoice'[i] = [invoice[i] EXCEPT !.status = "CANCELLED", !.customerTx = 0]
  BY DEF Kept
<1>1. CASE UNCHANGED invoice
  BY <1>1
<1>2. ASSUME NEW j \in Invoices, Create(j) PROVE invoice'[i] = invoice[i]
  BY <1>2 DEF Create, NoInvoice, IInv, TypeOK
<1>3. ASSUME NEW c \in Clients, UpdateLines(c) \/ UpdateHeader(c) \/ Confirm(c) \/ Delete(c)
      PROVE  invoice'[i] = invoice[i]
  <2>1. tx[c] # Idle /\ tx[c].op # "cancel"
    BY <1>3, Named DEF UpdateLines, UpdateHeader, Confirm, Delete
  <2>2. tx[c].invoice # i
    BY <2>1, BeforeWrite
  <2>3. CASE UpdateLines(c)
    <3>1. PICK f : invoice' = [invoice EXCEPT ![tx[c].invoice] = f]
      BY <2>1, <2>3, UpdateWrites, BeforeWrite DEF IInv
    <3> QED  BY <2>2, <3>1 DEF IInv, TypeOK
  <2>4. CASE UpdateHeader(c) \/ Confirm(c) \/ Delete(c)
    BY <2>2, <2>4 DEF UpdateHeader, Confirm, Delete, IInv, TypeOK
  <2> QED  BY <1>3, <2>3, <2>4
<1>4. ASSUME NEW c \in Clients, CancelDraft(c) \/ CancelConfirmed(c)
      PROVE  \/ invoice'[i] = invoice[i]
             \/ invoice'[i] = [invoice[i] EXCEPT !.status = "CANCELLED", !.customerTx = 0]
  <2>1. tx[c].invoice \in Invoices
    BY <1>4, Named, BeforeWrite DEF CancelDraft, CancelConfirmed
  <2>2. invoice' = [invoice EXCEPT ![tx[c].invoice].status = "CANCELLED",
                                   ![tx[c].invoice].customerTx = 0]
    BY <1>4 DEF CancelDraft, CancelConfirmed
  <2>3. CASE tx[c].invoice = i
    <3> DEFINE new == [invoice[i] EXCEPT !.status = "CANCELLED", !.customerTx = 0]
    <3>1. invoice' = [invoice EXCEPT ![i] = new]
      BY <2>1, <2>2, <2>3 DEF IInv, TypeOK
    <3>2. invoice'[i] = new
      BY <2>1, <2>3, <3>1 DEF IInv, TypeOK
    <3> QED  BY <3>2
  <2>4. CASE tx[c].invoice # i
    BY <2>1, <2>2, <2>4 DEF IInv, TypeOK
  <2> QED  BY <2>3, <2>4
<1> QED
  BY <1>1, <1>2, <1>3, <1>4 DEF Next, Purchase, ReadForUpdate, ReadForConfirm, ReadForCancel,
                                ReadForDelete, Read, RefuseConfirm, Abort, Rollback

(* No request of the sales invoices controller edits or deletes a          *)
(* confirmed invoice no two handlers met on: all it can do is cancel it.   *)
(* (Revisions are another controller's, and do rewrite it.)                *)
THEOREM PostedIsKept == Spec => PostedKeptUnraced
<1> QED  BY InvoicesInvariant, StepKeepsPosted, PTL DEF Spec, PostedKeptUnraced

-----------------------------------------------------------------------------
(* Fractions.                                                              *)

(* A remainder is less than what was divided by.                           *)
LEMMA ModLess == ASSUME NEW a \in Nat, NEW b \in Nat, b # 0 PROVE a % b \in Nat /\ a % b < b
OBVIOUS

(* A set of numbers that is not empty has a least one.                     *)
LEMMA SmallestNumber ==
  ASSUME NEW S \in SUBSET Nat, S # {} PROVE \E n \in S : \A k \in S : n <= k
<1>1. PICK n \in S : TRUE
  OBVIOUS
<1> DEFINE T == {0..k : k \in {k \in S : k <= n}}
<1>2. T \in SUBSET SUBSET (0..n) /\ T # {} /\ IsFiniteSet(0..n)
  <2>1. IsFiniteSet(0..n)
    BY FS_Interval
  <2>2. 0..n \in T
    OBVIOUS
  <2>3. ASSUME NEW s \in T PROVE s \in SUBSET (0..n)
    OBVIOUS
  <2> HIDE DEF T
  <2> QED  BY <2>1, <2>2, <2>3
<1>3. PICK s \in T : \A r \in SUBSET s : r # s => r \notin T
  <2> HIDE DEF T
  <2>1. HasSmallest(T)
    BY <1>2, SmallestSubset
  <2> QED  BY <2>1 DEF HasSmallest
<1>4. PICK k \in S : k <= n /\ s = 0..k
  OBVIOUS
<1>5. ASSUME NEW j \in S, j < k PROVE FALSE
  <2>1. 0..j \in T
    BY <1>4, <1>5
  <2>2. 0..j \in SUBSET s /\ 0..j # s
    <3>1. k \in s /\ k \notin 0..j
      BY <1>4, <1>5
    <3> QED  BY <1>4, <1>5, <3>1
  <2> QED  BY <2>1, <2>2, <1>3
<1> QED  BY <1>5

(* g is Euclid's algorithm for second numbers up to m, the second first.   *)
Descends(g, m) == g = [b \in 0..m |-> [a \in Nat |-> IF b = 0 THEN a ELSE g[a % b][b]]]

(* It exists for every bound.                                              *)
LEMMA DescendsExists == ASSUME NEW n \in Nat PROVE \E g : Descends(g, n)
<1> DEFINE bad == {m \in Nat : ~\E g : Descends(g, m)}
<1> SUFFICES ASSUME bad # {} PROVE FALSE
  OBVIOUS
<1>1. PICK m \in bad : \A k \in bad : m <= k
  <2> HIDE DEF bad
  <2>1. bad \in SUBSET Nat
    BY DEF bad
  <2> QED  BY <2>1, SmallestNumber
<1>2. CASE m = 0
  <2> DEFINE g == [b \in 0..m |-> [a \in Nat |-> a]]
  <2>1. g = [b \in 0..m |-> [a \in Nat |-> IF b = 0 THEN a ELSE g[a % b][b]]]
    BY <1>2
  <2>2. Descends(g, m)
    BY <2>1 DEF Descends
  <2> QED  BY <2>2
<1>3. CASE m # 0
  <2>1. m - 1 \in Nat /\ m - 1 \notin bad
    BY <1>1, <1>3
  <2>2. PICK h : Descends(h, m - 1)
    BY <2>1
  <2> DEFINE g == [b \in 0..m |-> [a \in Nat |-> IF b = 0 THEN a ELSE h[a % b][b]]]
  <2>3. ASSUME NEW b \in 0..(m - 1), NEW a \in Nat PROVE g[b][a] = h[b][a]
    <3>1. h[b] = [k \in Nat |-> IF b = 0 THEN k ELSE h[k % b][b]]
      BY <2>2, <1>3 DEF Descends
    <3>2. b \in 0..m
      BY <1>3
    <3> QED  BY <3>1, <3>2
  <2>4. ASSUME NEW b \in 0..m, NEW a \in Nat, b # 0
        PROVE  g[b][a] = g[a % b][b]
    <3>1. a % b \in 0..(m - 1) /\ b \in Nat
      BY <2>4, ModLess, <1>3
    <3>2. g[a % b][b] = h[a % b][b]
      BY <3>1, <2>3
    <3> QED  BY <3>2, <2>4
  <2>5. ASSUME NEW b \in 0..m
        PROVE  g[b] = [a \in Nat |-> IF b = 0 THEN a ELSE g[a % b][b]]
    <3>1. g[b] = [a \in Nat |-> g[b][a]]
      OBVIOUS
    <3>2. ASSUME NEW a \in Nat PROVE g[b][a] = IF b = 0 THEN a ELSE g[a % b][b]
      BY <2>4
    <3> HIDE DEF g
    <3> QED  BY <3>1, <3>2
  <2>6. Descends(g, m)
    <3>1. g = [b \in 0..m |-> g[b]]
      OBVIOUS
    <3> HIDE DEF g
    <3> QED  BY <2>5, <3>1 DEF Descends
  <2> QED  BY <2>6
<1> QED  BY <1>2, <1>3

(* A step of it.                                                           *)
LEMMA DescendsStep ==
  ASSUME NEW n \in Nat, NEW g, Descends(g, n), NEW b \in 0..n, NEW a \in Nat
  PROVE  g[b][a] = IF b = 0 THEN a ELSE g[a % b][b]
<1>1. g[b] = [k \in Nat |-> IF b = 0 THEN k ELSE g[k % b][b]]
  BY DEF Descends
<1> QED  BY <1>1

(* And two of them agree as far as both go.                                *)
LEMMA DescendsUnique ==
  ASSUME NEW n \in Nat, NEW m \in Nat, NEW g, Descends(g, n), NEW h, Descends(h, m), NEW b \in Nat, b <= n, b <= m, NEW a \in Nat
  PROVE  g[b][a] = h[b][a]
<1> DEFINE bad == {i \in Nat : i <= n /\ i <= m /\ \E k \in Nat : g[i][k] # h[i][k]}
<1> SUFFICES ASSUME bad # {} PROVE FALSE
  OBVIOUS
<1>1. PICK i \in bad : \A j \in bad : i <= j
  <2> HIDE DEF bad
  <2>1. bad \in SUBSET Nat
    BY DEF bad
  <2> QED  BY <2>1, SmallestNumber
<1>2. PICK k \in Nat : g[i][k] # h[i][k]
  BY <1>1
<1>7. i \in 0..n /\ i \in 0..m
  BY <1>1
<1>3. i # 0
  <2> HIDE DEF bad
  <2>1. ASSUME i = 0 PROVE g[i][k] = k /\ h[i][k] = k
    <3>1. g[i][k] = IF i = 0 THEN k ELSE g[k % i][i]
      BY <1>7, DescendsStep
    <3>2. h[i][k] = IF i = 0 THEN k ELSE h[k % i][i]
      BY <1>7, DescendsStep
    <3> QED  BY <2>1, <3>1, <3>2
  <2> QED  BY <1>2, <2>1
<1>4. k % i \in Nat /\ k % i < i
  BY <1>3, <1>7, ModLess
<1>5. k % i \notin bad
  <2> HIDE DEF bad
  <2> QED  BY <1>4, <1>1, <1>7
<1>6. g[k % i][i] = h[k % i][i]
  BY <1>5, <1>4, <1>7
<1>8. g[i][k] = g[k % i][i] /\ h[i][k] = h[k % i][i]
  <2> HIDE DEF bad
  <2>1. g[i][k] = IF i = 0 THEN k ELSE g[k % i][i]
    BY <1>7, DescendsStep
  <2>2. h[i][k] = IF i = 0 THEN k ELSE h[k % i][i]
    BY <1>7, DescendsStep
  <2> QED  BY <1>3, <2>1, <2>2
<1> QED  BY <1>2, <1>6, <1>8

(* Gcd is what its definition says, which CHOOSE leaves open.              *)
LEMMA GcdDef ==
  ASSUME NEW a \in Nat, NEW b \in Nat
  PROVE  Gcd[<<a, b>>] = IF b = 0 THEN a ELSE Gcd[<<b, a % b>>]
<1> DEFINE D(n) == CHOOSE g : Descends(g, n)
           G == [p \in Nat \X Nat |-> D(p[2])[p[2]][p[1]]]
<1>1. ASSUME NEW n \in Nat PROVE Descends(D(n), n)
  BY DescendsExists
<1>2. ASSUME NEW i \in Nat, NEW j \in Nat
      PROVE  G[<<i, j>>] = IF j = 0 THEN i ELSE G[<<j, i % j>>]
  <2>1. Descends(D(j), j) /\ j \in 0..j
    BY <1>1
  <2>2. D(j)[j][i] = IF j = 0 THEN i ELSE D(j)[i % j][j]
    <3> HIDE DEF D
    <3> QED  BY <2>1, DescendsStep
  <2>3. CASE j # 0
    <3>1. i % j \in Nat /\ i % j <= j
      BY <2>3, ModLess
    <3>2. Descends(D(i % j), i % j)
      BY <3>1, <1>1
    <3>3. D(j)[i % j][j] = D(i % j)[i % j][j]
      <4> HIDE DEF D
      <4> QED  BY <3>1, <3>2, <2>1, DescendsUnique
    <3>4. G[<<j, i % j>>] = D(i % j)[i % j][j]
      <4> HIDE DEF D
      <4> QED  BY <3>1
    <3>5. G[<<i, j>>] = D(j)[j][i]
      <4> HIDE DEF D
      <4> QED  OBVIOUS
    <3> HIDE DEF D, G
    <3> QED  BY <2>2, <2>3, <3>3, <3>4, <3>5
  <2>4. CASE j = 0
    <3>5. G[<<i, j>>] = D(j)[j][i]
      <4> HIDE DEF D
      <4> QED  OBVIOUS
    <3> HIDE DEF D, G
    <3> QED  BY <2>2, <2>4, <3>5
  <2> QED  BY <2>3, <2>4
<1>3. G = [p \in Nat \X Nat |-> IF p[2] = 0 THEN p[1] ELSE G[<<p[2], p[1] % p[2]>>]]
  <2>1. G = [p \in Nat \X Nat |-> G[p]]
    <3> HIDE DEF D
    <3> QED  OBVIOUS
  <2> HIDE DEF G
  <2>2. ASSUME NEW p \in Nat \X Nat
        PROVE  G[p] = IF p[2] = 0 THEN p[1] ELSE G[<<p[2], p[1] % p[2]>>]
    <3>1. p = <<p[1], p[2]>> /\ p[1] \in Nat /\ p[2] \in Nat
      OBVIOUS
    <3> QED  BY <3>1, <1>2
  <2> QED  BY <2>1, <2>2
<1> HIDE DEF G
<1>4. Gcd = [p \in Nat \X Nat |-> IF p[2] = 0 THEN p[1] ELSE Gcd[<<p[2], p[1] % p[2]>>]]
  BY <1>3 DEF Gcd
<1>5. Gcd[<<a, b>>] = IF <<a, b>>[2] = 0 THEN <<a, b>>[1] ELSE Gcd[<<<<a, b>>[2], <<a, b>>[1] % <<a, b>>[2]>>]
  BY <1>4
<1> QED  BY <1>5

(* Bezout-free part: what divides.                                         *)
LEMMA GcdGood ==
  ASSUME NEW a \in Nat, NEW b \in Nat
  PROVE  /\ Gcd[<<a, b>>] \in Nat
         /\ b # 0 => Gcd[<<a, b>>] # 0
         /\ \E p, q \in Nat : a = p * Gcd[<<a, b>>] /\ b = q * Gcd[<<a, b>>]
<1> DEFINE Good(i, j) == /\ Gcd[<<i, j>>] \in Nat
                         /\ i # 0 \/ j # 0 => Gcd[<<i, j>>] # 0
                         /\ \E p, q \in Nat : i = p * Gcd[<<i, j>>] /\ j = q * Gcd[<<i, j>>]
           bad == {j \in Nat : \E i \in Nat : ~Good(i, j)}
<1>1. ASSUME bad # {} PROVE FALSE
  <2>1. PICK j \in bad : \A k \in bad : j <= k
    <3>1. bad \in SUBSET Nat
      OBVIOUS
    <3> HIDE DEF bad
    <3> QED  BY <1>1, <3>1, SmallestNumber
  <2>2. PICK i \in Nat : ~Good(i, j)
    BY <2>1
  <2>3. Gcd[<<i, j>>] = IF j = 0 THEN i ELSE Gcd[<<j, i % j>>]
    BY GcdDef
  <2>4. CASE j = 0
    <3>1. i = 1 * i /\ 0 = 0 * i
      OBVIOUS
    <3> QED  BY <2>2, <2>3, <2>4, <3>1
  <2>5. CASE j # 0
    <3>1. i % j \in Nat /\ i % j < j
      BY <2>5, ModLess
    <3>2. Good(j, i % j)
      <4>1. i % j \notin bad
        <5>1. j \in Nat
          BY <2>1
        <5> HIDE DEF bad
        <5> QED  BY <2>1, <3>1, <5>1
      <4> HIDE DEF Good
      <4> QED  BY <3>1, <4>1
    <3> DEFINE g == Gcd[<<j, i % j>>]
    <3>3. PICK p, q \in Nat : j = p * g /\ i % j = q * g
      BY <3>2
    <3>4. g \in Nat /\ g # 0
      BY <3>2, <2>5
    <3>5. Gcd[<<i, j>>] = g
      BY <2>3, <2>5
    <3> HIDE DEF g
    <3> DEFINE d == i \div j
    <3>6. d \in Nat /\ i = d * j + (i % j)
      <4>1. j \in Nat \ {0}
        BY <2>1, <2>5
      <4>2. i \in Nat
        OBVIOUS
      <4> QED  BY <4>1, <4>2
    <3> HIDE DEF d
    <3>7. i = (d * p + q) * g
      <4>1. d * j = d * (p * g)
        BY <3>3
      <4>2. d * (p * g) = (d * p) * g
        BY <3>4, <3>6
      <4>3. i = (d * p) * g + q * g
        BY <4>1, <4>2, <3>3, <3>6
      <4> QED  BY <4>3, <3>4, <3>6
    <3>8. d * p + q \in Nat
      BY <3>6
    <3>9. Good(i, j)
      BY <3>3, <3>4, <3>5, <3>7, <3>8
    <3> QED  BY <3>9, <2>2
  <2> QED  BY <2>4, <2>5
<1> QED  BY <1>1

(* A remainder grows with its numbers.                                     *)
LEMMA ModScale ==
  ASSUME NEW a \in Nat, NEW b \in Nat \ {0}, NEW k \in Nat \ {0}
  PROVE  (k * a) % (k * b) = k * (a % b)
<1> DEFINE q == a \div b
           r == a % b
           Q == (k * a) \div (k * b)
           R == (k * a) % (k * b)
<1>1. q \in Nat /\ r \in Nat /\ r < b /\ a = b * q + r
  OBVIOUS
<1>2. k * b \in Nat \ {0} /\ k * a \in Nat
  OBVIOUS
<1>3. Q \in Nat /\ R \in Nat /\ R < k * b /\ k * a = (k * b) * Q + R
  <2> DEFINE x == k * a
             y == k * b
  <2>1. x \in Nat /\ y \in Nat \ {0}
    BY <1>2
  <2> HIDE DEF x, y
  <2>2. x \div y \in Nat /\ x % y \in Nat /\ x % y < y /\ x = y * (x \div y) + (x % y)
    BY <2>1
  <2> QED  BY <2>2 DEF x, y
<1> HIDE DEF q, r, Q, R
<1>4. k * a = (k * b) * q + k * r /\ k * r < k * b /\ k * r \in Nat
  BY <1>1
<1> DEFINE y == k * b
           s == k * r
<1>5. y \in Nat \ {0} /\ s \in Nat /\ s < y /\ y * q + s = y * Q + R /\ R < y
  BY <1>2, <1>3, <1>4
<1> HIDE DEF y, s
<1>6. q = Q
  <2>1. ASSUME q < Q PROVE FALSE
    <3>1. Q = q + 1 + (Q - q - 1) /\ Q - q - 1 \in Nat
      BY <2>1, <1>1, <1>3
    <3>2. y * Q = y * q + y + y * (Q - q - 1) /\ y * (Q - q - 1) \in Nat
      BY <3>1, <1>1, <1>3, <1>5
    <3> QED  BY <3>2, <1>1, <1>3, <1>5
  <2>2. ASSUME Q < q PROVE FALSE
    <3>1. q = Q + 1 + (q - Q - 1) /\ q - Q - 1 \in Nat
      BY <2>2, <1>1, <1>3
    <3>2. y * q = y * Q + y + y * (q - Q - 1) /\ y * (q - Q - 1) \in Nat
      BY <3>1, <1>1, <1>3, <1>5
    <3> QED  BY <3>2, <1>1, <1>3, <1>5
  <2> QED  BY <2>1, <2>2, <1>1, <1>3
<1>7. R = s
  BY <1>5, <1>6, <1>1, <1>3
<1> QED  BY <1>7 DEF R, s, r

(* And so does the greatest common divisor.                                *)
LEMMA GcdScale ==
  ASSUME NEW a \in Nat, NEW b \in Nat, NEW k \in Nat \ {0}
  PROVE  Gcd[<<k * a, k * b>>] = k * Gcd[<<a, b>>]
<1> DEFINE bad == {j \in Nat : \E i \in Nat : Gcd[<<k * i, k * j>>] # k * Gcd[<<i, j>>]}
<1>1. ASSUME bad # {} PROVE FALSE
  <2>1. PICK j \in bad : \A l \in bad : j <= l
    <3>1. bad \in SUBSET Nat
      OBVIOUS
    <3> HIDE DEF bad
    <3> QED  BY <1>1, <3>1, SmallestNumber
  <2>2. PICK i \in Nat : Gcd[<<k * i, k * j>>] # k * Gcd[<<i, j>>]
    BY <2>1
  <2>3. Gcd[<<i, j>>] = IF j = 0 THEN i ELSE Gcd[<<j, i % j>>]
    BY GcdDef
  <2>4. Gcd[<<k * i, k * j>>] = IF k * j = 0 THEN k * i ELSE Gcd[<<k * j, (k * i) % (k * j)>>]
    <3>1. k * i \in Nat /\ k * j \in Nat
      OBVIOUS
    <3> QED  BY <3>1, GcdDef
  <2>5. CASE j = 0
    BY <2>2, <2>3, <2>4, <2>5
  <2>6. CASE j # 0
    <3>1. i % j \in Nat /\ i % j < j
      BY <2>6, ModLess
    <3>2. i % j \notin bad
      <4>1. j \in Nat
        BY <2>1
      <4> HIDE DEF bad
      <4> QED  BY <2>1, <3>1, <4>1
    <3>3. Gcd[<<k * j, k * (i % j)>>] = k * Gcd[<<j, i % j>>]
      BY <3>1, <3>2
    <3>4. (k * i) % (k * j) = k * (i % j) /\ k * j # 0
      <4>1. j \in Nat \ {0}
        BY <2>6
      <4>2. (k * i) % (k * j) = k * (i % j)
        BY <4>1, ModScale
      <4> QED  BY <4>1, <4>2
    <3> QED  BY <2>2, <2>3, <2>4, <2>6, <3>3, <3>4
  <2> QED  BY <2>5, <2>6
<1> QED  BY <1>1

(* A number without its sign.                                              *)
Size(n) == IF n < 0 THEN -n ELSE n

(* The values of fractions: what Reduced returns.                          *)
Rationals == {Reduced(n, d) : n \in Int, d \in Nat \ {0}}

(* A fraction is reduced by a common factor.                               *)
LEMMA ReducedBy ==
  ASSUME NEW n \in Int, NEW d \in Nat \ {0}
  PROVE  \E p \in Int, q, g \in Nat \ {0} : n = p * g /\ d = q * g /\ Reduced(n, d) = <<p, q>>
<1> DEFINE a == Size(n)
           g == Gcd[<<a, d>>]
<1>1. a \in Nat /\ (n = a \/ n = -a)
  BY DEF Size
<1>2. /\ g \in Nat /\ g # 0
      /\ \E p, q \in Nat : a = p * g /\ d = q * g
  <2>1. d \in Nat /\ d # 0
    OBVIOUS
  <2> HIDE DEF a
  <2> QED  BY <1>1, <2>1, GcdGood
<1>3. Reduced(n, d) = <<n \div g, d \div g>>
  BY DEF Reduced, Size
<1> HIDE DEF a, g
<1>4. PICK p, q \in Nat : a = p * g /\ d = q * g
  BY <1>2
<1>5. d \div g = q /\ q # 0
  BY <1>2, <1>4
<1>6. CASE n = a
  <2>1. n \div g = p
    BY <1>2, <1>4, <1>6
  <2> QED  BY <1>2, <1>3, <1>4, <1>5, <1>6, <2>1
<1>7. CASE n = -a
  <2>1. n = (-p) * g
    BY <1>2, <1>4, <1>7
  <2>2. n \div g = -p
    BY <1>2, <2>1
  <2> QED  BY <1>2, <1>3, <1>4, <1>5, <2>1, <2>2
<1> QED  BY <1>1, <1>6, <1>7

(* Reduced does not see a common factor.                                   *)
LEMMA ReducedScale ==
  ASSUME NEW n \in Int, NEW d \in Nat \ {0}, NEW k \in Nat \ {0}
  PROVE  Reduced(n * k, d * k) = Reduced(n, d)
<1> DEFINE a == Size(n)
           g == Gcd[<<a, d>>]
<1>1. a \in Nat /\ (n = a \/ n = -a) /\ Size(n * k) = k * a
  BY DEF Size
<1>2. Gcd[<<Size(n * k), d * k>>] = k * g
  <2>1. d * k = k * d
    OBVIOUS
  <2>2. Gcd[<<k * a, k * d>>] = k * g
    <3> HIDE DEF a
    <3> QED  BY <1>1, GcdScale
  <2> QED  BY <1>1, <2>1, <2>2
<1>3. /\ g \in Nat \ {0}
      /\ \E p, q \in Nat : a = p * g /\ d = q * g
  <2>1. d \in Nat /\ d # 0
    OBVIOUS
  <2> HIDE DEF a
  <2> QED  BY <1>1, <2>1, GcdGood
<1>4. /\ Reduced(n, d) = <<n \div g, d \div g>>
      /\ Reduced(n * k, d * k) = <<(n * k) \div (k * g), (d * k) \div (k * g)>>
  BY <1>2 DEF Reduced, Size
<1> HIDE DEF a, g
<1>5. PICK p, q \in Nat : a = p * g /\ d = q * g
  BY <1>3
<1>6. ASSUME NEW m \in Int, NEW l \in Int, m = l * g
      PROVE  m \div g = l /\ (m * k) \div (k * g) = l
  <2>1. m \div g = l
    BY <1>3, <1>6
  <2>2. m * k = l * (k * g) /\ k * g \in Nat \ {0} /\ m * k \in Int
    BY <1>3, <1>6
  <2> DEFINE y == k * g
             x == m * k
  <2>3. x = l * y /\ y \in Nat \ {0} /\ x \in Int
    BY <2>2
  <2> HIDE DEF x, y
  <2>4. x \div y = l
    BY <2>3
  <2> QED  BY <2>1, <2>4 DEF x, y
<1>7. d \div g = q /\ (d * k) \div (k * g) = q
  BY <1>5, <1>6
<1>8. PICK l \in Int : n = l * g
  <2>1. CASE n = a
    BY <2>1, <1>5
  <2>2. CASE n = -a
    <3>1. -p \in Int /\ n = (-p) * g
      BY <2>2, <1>5, <1>3
    <3> QED  BY <3>1
  <2> QED  BY <2>1, <2>2, <1>1
<1>9. n \div g = l /\ (n * k) \div (k * g) = l
  BY <1>6, <1>8
<1> QED  BY <1>4, <1>7, <1>9

(* Two fractions are the same if they are crosswise.                       *)
LEMMA ReducedEqual ==
  ASSUME NEW n \in Int, NEW d \in Nat \ {0}, NEW m \in Int, NEW e \in Nat \ {0}
  PROVE  Reduced(n, d) = Reduced(m, e) <=> n * e = m * d
<1>1. ASSUME n * e = m * d PROVE Reduced(n, d) = Reduced(m, e)
  <2>1. Reduced(n * e, d * e) = Reduced(n, d)
    BY ReducedScale
  <2>2. Reduced(m * d, e * d) = Reduced(m, e)
    BY ReducedScale
  <2>3. d * e = e * d
    OBVIOUS
  <2> QED  BY <1>1, <2>1, <2>2, <2>3
<1>2. ASSUME Reduced(n, d) = Reduced(m, e) PROVE n * e = m * d
  <2>1. PICK p \in Int, q \in Nat \ {0}, g \in Nat \ {0} : n = p * g /\ d = q * g /\ Reduced(n, d) = <<p, q>>
    BY ReducedBy
  <2>2. PICK r \in Int, s \in Nat \ {0}, h \in Nat \ {0} : m = r * h /\ e = s * h /\ Reduced(m, e) = <<r, s>>
    BY ReducedBy
  <2>3. p = r /\ q = s
    BY <1>2, <2>1, <2>2
  <2>4. n * e = (p * g) * (q * h) /\ m * d = (p * h) * (q * g)
    BY <2>1, <2>2, <2>3
  <2>5. (p * g) * (q * h) = (p * h) * (q * g)
    OBVIOUS
  <2> QED  BY <2>4, <2>5
<1> QED  BY <1>1, <1>2

(* Arithmetic over a common denominator.                                   *)
LEMMA AddOver ==
  ASSUME NEW a \in Int, NEW b \in Int, NEW d \in Nat \ {0}
  PROVE  /\ Reduced(a, d) ++ Reduced(b, d) = Reduced(a + b, d)
         /\ Reduced(a, d) -- Reduced(b, d) = Reduced(a - b, d)
<1>1. PICK p \in Int, q \in Nat \ {0}, g \in Nat \ {0} : a = p * g /\ d = q * g /\ Reduced(a, d) = <<p, q>>
  BY ReducedBy
<1>2. PICK r \in Int, s \in Nat \ {0}, h \in Nat \ {0} : b = r * h /\ d = s * h /\ Reduced(b, d) = <<r, s>>
  BY ReducedBy
<1>3. (p * s) * d = a * (q * s)
  <2>1. (p * s) * (q * g) = (p * g) * (q * s)
    OBVIOUS
  <2> QED  BY <1>1, <2>1
<1>4. (r * q) * d = b * (q * s)
  <2>1. (r * q) * (s * h) = (r * h) * (q * s)
    OBVIOUS
  <2> QED  BY <1>2, <2>1
<1> DEFINE u == p * s
           v == r * q
           e == q * s
<1>5. u \in Int /\ v \in Int /\ e \in Nat \ {0}
  OBVIOUS
<1>6. /\ Reduced(a, d) ++ Reduced(b, d) = Reduced(u + v, e)
      /\ Reduced(a, d) -- Reduced(b, d) = Reduced(u - v, e)
  BY <1>1, <1>2 DEF ++, --
<1>7. u * d = a * e /\ v * d = b * e
  BY <1>3, <1>4
<1> HIDE DEF u, v, e
<1>8. (u + v) * d = (a + b) * e /\ (u - v) * d = (a - b) * e
  BY <1>5, <1>7
<1>9. u + v \in Int /\ u - v \in Int /\ a + b \in Int /\ a - b \in Int
  BY <1>5
<1>10. Reduced(u + v, e) = Reduced(a + b, d)
  BY <1>5, <1>8, <1>9, ReducedEqual
<1>11. Reduced(u - v, e) = Reduced(a - b, d)
  BY <1>5, <1>8, <1>9, ReducedEqual
<1> QED  BY <1>6, <1>10, <1>11

(* So many times a fraction.                                               *)
LEMMA TimesOver ==
  ASSUME NEW a \in Int, NEW d \in Nat \ {0}, NEW n \in Int
  PROVE  Reduced(a, d) ** n = Reduced(a * n, d)
<1>1. PICK p \in Int, q \in Nat \ {0}, g \in Nat \ {0} : a = p * g /\ d = q * g /\ Reduced(a, d) = <<p, q>>
  BY ReducedBy
<1>2. Reduced(a, d) ** n = Reduced(p * n, q)
  BY <1>1 DEF **
<1>3. (p * n) * d = (a * n) * q
  <2>1. (p * n) * (q * g) = ((p * g) * n) * q
    OBVIOUS
  <2> QED  BY <1>1, <2>1
<1>4. p * n \in Int /\ a * n \in Int
  OBVIOUS
<1> QED  BY <1>2, <1>3, <1>4, ReducedEqual

(* An equal part of a fraction.                                            *)
LEMMA PartOver ==
  ASSUME NEW a \in Int, NEW d \in Nat \ {0}, NEW n \in Nat \ {0}
  PROVE  Reduced(a, d) // n = Reduced(a, d * n)
<1>1. PICK p \in Int, q \in Nat \ {0}, g \in Nat \ {0} : a = p * g /\ d = q * g /\ Reduced(a, d) = <<p, q>>
  BY ReducedBy
<1>2. Reduced(a, d) // n = Reduced(p, q * n)
  BY <1>1 DEF //
<1>3. p * (d * n) = a * (q * n)
  <2>1. p * ((q * g) * n) = (p * g) * (q * n)
    OBVIOUS
  <2> QED  BY <1>1, <2>1
<1>4. d * n \in Nat \ {0} /\ q * n \in Nat \ {0}
  OBVIOUS
<1> QED  BY <1>2, <1>3, <1>4, ReducedEqual

(* A fraction is negative if its numerator is.                             *)
LEMMA SignOver ==
  ASSUME NEW a \in Int, NEW d \in Nat \ {0}
  PROVE  Negative(Reduced(a, d)) <=> a < 0
<1>1. PICK p \in Int, q \in Nat \ {0}, g \in Nat \ {0} : a = p * g /\ d = q * g /\ Reduced(a, d) = <<p, q>>
  BY ReducedBy
<1>2. p < 0 <=> p * g < 0
  OBVIOUS
<1> QED  BY <1>1, <1>2 DEF Negative

(* A whole number over any denominator.                                    *)
LEMMA WholeOver ==
  ASSUME NEW n \in Int, NEW d \in Nat \ {0}
  PROVE  Whole(n) = Reduced(n * d, d)
<1>1. Reduced(n * d, 1 * d) = Reduced(n, 1)
  BY ReducedScale
<1> DEFINE e == 1
<1>4. e \in Nat \ {0}
  OBVIOUS
<1>2. PICK p \in Int, q \in Nat \ {0}, g \in Nat \ {0} : n = p * g /\ 1 = q * g /\ Reduced(n, 1) = <<p, q>>
  <2> HIDE DEF e
  <2>1. \E p \in Int, q, g \in Nat \ {0} : n = p * g /\ e = q * g /\ Reduced(n, e) = <<p, q>>
    BY <1>4, ReducedBy
  <2> QED  BY <2>1 DEF e
<1>3. q = 1 /\ g = 1
  BY <1>2
<1> QED  BY <1>1, <1>2, <1>3 DEF Whole

(* The fractions over a denominator.                                       *)
Over(d) == {Reduced(n, d) : n \in Int}

(* There is a denominator for one fraction more.                           *)
LEMMA OverMore ==
  ASSUME NEW d \in Nat \ {0}, NEW y \in Rationals
  PROVE  \E e \in Nat \ {0} : Over(d) \subseteq Over(e) /\ y \in Over(e)
<1>1. PICK m \in Int, k \in Nat \ {0} : y = Reduced(m, k)
  BY DEF Rationals
<1>2. d * k \in Nat \ {0} /\ d * k = k * d /\ m * d \in Int
  OBVIOUS
<1>3. y = Reduced(m * d, d * k)
  BY <1>1, <1>2, ReducedScale
<1>4. ASSUME NEW x \in Over(d) PROVE x \in Over(d * k)
  <2>1. PICK n \in Int : x = Reduced(n, d)
    BY DEF Over
  <2>2. Reduced(n * k, d * k) = Reduced(n, d)
    BY ReducedScale
  <2>3. n * k \in Int
    OBVIOUS
  <2> QED  BY <2>1, <2>2, <2>3 DEF Over
<1>5. y \in Over(d * k)
  BY <1>2, <1>3 DEF Over
<1> QED  BY <1>2, <1>4, <1>5

(* Seven fractions have a common denominator.                              *)
LEMMA CommonDenominator ==
  ASSUME NEW x1 \in Rationals, NEW x2 \in Rationals, NEW x3 \in Rationals, NEW x4 \in Rationals,
         NEW x5 \in Rationals, NEW x6 \in Rationals, NEW x7 \in Rationals
  PROVE  \E d \in Nat \ {0} : {x1, x2, x3, x4, x5, x6, x7} \subseteq Over(d)
<1>1. PICK d1 \in Nat \ {0} : x1 \in Over(d1)
  BY DEF Rationals, Over
<1>2. PICK d2 \in Nat \ {0} : Over(d1) \subseteq Over(d2) /\ x2 \in Over(d2)
  BY OverMore
<1>3. PICK d3 \in Nat \ {0} : Over(d2) \subseteq Over(d3) /\ x3 \in Over(d3)
  BY OverMore
<1>4. PICK d4 \in Nat \ {0} : Over(d3) \subseteq Over(d4) /\ x4 \in Over(d4)
  BY OverMore
<1>5. PICK d5 \in Nat \ {0} : Over(d4) \subseteq Over(d5) /\ x5 \in Over(d5)
  BY OverMore
<1>6. PICK d6 \in Nat \ {0} : Over(d5) \subseteq Over(d6) /\ x6 \in Over(d6)
  BY OverMore
<1>7. PICK d7 \in Nat \ {0} : Over(d6) \subseteq Over(d7) /\ x7 \in Over(d7)
  BY OverMore
<1> QED  BY <1>1, <1>2, <1>3, <1>4, <1>5, <1>6, <1>7

(* Sums and differences of fractions are fractions.                        *)
LEMMA AddType ==
  ASSUME NEW x \in Rationals, NEW y \in Rationals
  PROVE  x ++ y \in Rationals /\ x -- y \in Rationals
<1>1. PICK d \in Nat \ {0} : {x, y} \subseteq Over(d)
  BY CommonDenominator
<1>2. PICK a \in Int, b \in Int : x = Reduced(a, d) /\ y = Reduced(b, d)
  BY <1>1 DEF Over
<1>3. x ++ y = Reduced(a + b, d) /\ x -- y = Reduced(a - b, d)
  BY <1>2, AddOver
<1>4. a + b \in Int /\ a - b \in Int
  OBVIOUS
<1> QED  BY <1>3, <1>4 DEF Rationals

(* So are multiples,                                                       *)
LEMMA TimesType ==
  ASSUME NEW x \in Rationals, NEW n \in Int PROVE x ** n \in Rationals
<1>1. PICK a \in Int, d \in Nat \ {0} : x = Reduced(a, d)
  BY DEF Rationals
<1>2. x ** n = Reduced(a * n, d) /\ a * n \in Int
  BY <1>1, TimesOver
<1> QED  BY <1>2 DEF Rationals

(* and parts,                                                              *)
LEMMA PartType ==
  ASSUME NEW x \in Rationals, NEW k \in Nat \ {0} PROVE x // k \in Rationals
<1>1. PICK a \in Int, d \in Nat \ {0} : x = Reduced(a, d)
  BY DEF Rationals
<1>2. x // k = Reduced(a, d * k) /\ d * k \in Nat \ {0}
  BY <1>1, PartOver
<1> QED  BY <1>2 DEF Rationals

(* and whole numbers.                                                      *)
LEMMA WholeType == ASSUME NEW n \in Int PROVE Whole(n) \in Rationals /\ (Negative(Whole(n)) <=> n < 0)
<1> DEFINE e == 1
<1>1. e \in Nat \ {0} /\ n * e = n
  OBVIOUS
<1> HIDE DEF e
<1>2. Whole(n) = Reduced(n * e, e)
  BY <1>1, WholeOver
<1>3. Whole(n) = Reduced(n, e)
  BY <1>1, <1>2
<1> QED  BY <1>1, <1>3, SignOver DEF Rationals

(* Nothing over any denominator.                                           *)
LEMMA NothingOver == ASSUME NEW d \in Nat \ {0} PROVE Nothing = Reduced(0, d)
<1>1. Whole(0) = Reduced(0 * d, d)
  BY WholeOver
<1> QED  BY <1>1 DEF Nothing

(* Over one denominator, fractions are the same if numerators are.         *)
LEMMA SameOver ==
  ASSUME NEW a \in Int, NEW b \in Int, NEW d \in Nat \ {0}
  PROVE  Reduced(a, d) = Reduced(b, d) <=> a = b
<1>1. Reduced(a, d) = Reduced(b, d) <=> a * d = b * d
  BY ReducedEqual
<1> QED  BY <1>1

(* An amount shared out and put together again.                            *)
LEMMA PartsMakeWhole ==
  ASSUME NEW x \in Rationals, NEW k \in Nat \ {0} PROVE (x // k) ** k = x
<1>1. PICK a \in Int, d \in Nat \ {0} : x = Reduced(a, d)
  BY DEF Rationals
<1>2. x // k = Reduced(a, d * k) /\ d * k \in Nat \ {0}
  BY <1>1, PartOver
<1>3. (x // k) ** k = Reduced(a * k, d * k)
  BY <1>2, TimesOver
<1> QED  BY <1>1, <1>3, ReducedScale

(* Multiples and parts of what is not negative are not.                    *)
LEMMA SignTimes ==
  ASSUME NEW x \in Rationals, ~Negative(x), NEW n \in Nat
  PROVE  ~Negative(x ** n) /\ (n # 0 => ~Negative(x // n))
<1>1. PICK a \in Int, d \in Nat \ {0} : x = Reduced(a, d)
  BY DEF Rationals
<1>2. a >= 0
  BY <1>1, SignOver
<1>3. ~Negative(x ** n)
  <2>1. x ** n = Reduced(a * n, d) /\ a * n \in Int /\ a * n >= 0
    BY <1>1, <1>2, TimesOver
  <2> QED  BY <2>1, SignOver
<1>4. ASSUME n # 0 PROVE ~Negative(x // n)
  <2>1. n \in Nat \ {0}
    BY <1>4
  <2>2. x // n = Reduced(a, d * n) /\ d * n \in Nat \ {0}
    BY <1>1, <2>1, PartOver
  <2> QED  BY <1>2, <2>2, SignOver
<1> QED  BY <1>3, <1>4

(* Nor are sums.                                                           *)
LEMMA SignAdd ==
  ASSUME NEW x \in Rationals, ~Negative(x), NEW y \in Rationals, ~Negative(y)
  PROVE  ~Negative(x ++ y)
<1>1. PICK e \in Nat \ {0} : {x, y} \subseteq Over(e)
  BY CommonDenominator
<1>2. PICK u \in Int, v \in Int : x = Reduced(u, e) /\ y = Reduced(v, e)
  BY <1>1 DEF Over
<1>3. u >= 0 /\ v >= 0
  BY <1>2, SignOver
<1>4. x ++ y = Reduced(u + v, e) /\ u + v \in Int /\ u + v >= 0
  BY <1>2, <1>3, AddOver
<1> QED  BY <1>4, SignOver

-----------------------------------------------------------------------------
(* Folds over sequences, and their stages.                                 *)

(* g folds f over the subsets of S, with values in A, taking out next[s]   *)
(* last.                                                                   *)
FoldsBy(g, A, f, base, seq, next, S) ==
    /\ g \in [SUBSET S -> A]
    /\ \A s \in SUBSET S : g[s] = IF s = {} THEN base ELSE f[<<g[s \ {next[s]}], seq[next[s]]>>]

(* next takes out of every set one of its own.                             *)
Picks(next, S) == \A s \in SUBSET S : s # {} => next[s] \in s

(* h does too, as far as its values are in A.                              *)
Follows(h, A, f, base, seq, next, S) ==
    /\ h[{}] = base
    /\ \A s \in SUBSET S :
         s # {} /\ h[s \ {next[s]}] \in A => h[s] = f[<<h[s \ {next[s]}], seq[next[s]]>>]

(* Who does as a fold does is the fold,                                    *)
LEMMA FoldsUnique ==
  ASSUME NEW S, IsFiniteSet(S), NEW T \in SUBSET S, NEW next, Picks(next, S),
         NEW A, NEW f, NEW base, NEW seq,
         NEW g, FoldsBy(g, A, f, base, seq, next, S),
         NEW h, Follows(h, A, f, base, seq, next, T)
  PROVE  \A s \in SUBSET T : h[s] = g[s]
<1> DEFINE bad == {s \in SUBSET T : h[s] # g[s]}
<1> SUFFICES ASSUME bad # {} PROVE FALSE
  OBVIOUS
<1>1. IsFiniteSet(T)
  BY FS_Subset
<1>2. PICK s \in bad : \A r \in SUBSET s : r # s => r \notin bad
  <2> HIDE DEF bad
  <2>1. bad \in SUBSET SUBSET T
    BY DEF bad
  <2>2. HasSmallest(bad)
    BY <1>1, <2>1, SmallestSubset
  <2> QED  BY <2>2 DEF HasSmallest
<1>3. s \in SUBSET T /\ s \in SUBSET S /\ h[s] # g[s]
  BY <1>2
<1>4. s # {}
  BY <1>3 DEF FoldsBy, Follows
<1> DEFINE r == s \ {next[s]}
<1>5. r \in SUBSET s /\ r # s
  BY <1>3, <1>4 DEF Picks
<1>6. h[r] = g[r] /\ g[r] \in A
  BY <1>2, <1>3, <1>5 DEF FoldsBy
<1>7. g[s] = f[<<g[r], seq[next[s]]>>]
  BY <1>3, <1>4 DEF FoldsBy
<1>8. h[s] = f[<<h[r], seq[next[s]]>>]
  BY <1>3, <1>4, <1>6 DEF Follows
<1> QED  BY <1>3, <1>6, <1>7, <1>8

(* and so has its result.                                                  *)
LEMMA FoldsAgree ==
  ASSUME NEW S, IsFiniteSet(S), NEW T \in SUBSET S, NEW next, Picks(next, S),
         NEW A, NEW f, NEW base, NEW seq,
         NEW g, FoldsBy(g, A, f, base, seq, next, S),
         NEW h, FoldsBy(h, A, f, base, seq, next, T)
  PROVE  h[T] = g[T]
<1>1. Follows(h, A, f, base, seq, next, T)
  BY DEF FoldsBy, Follows
<1>2. \A s \in SUBSET T : h[s] = g[s]
  BY <1>1, FoldsUnique
<1> QED  BY <1>2

(* There is a fold of every step over every finite set.                    *)
LEMMA FoldsExists ==
  ASSUME NEW S, IsFiniteSet(S), NEW next, Picks(next, S),
         NEW A, NEW E, NEW f \in [A \X E -> A], NEW base \in A, NEW seq, \A i \in S : seq[i] \in E
  PROVE  \E g : FoldsBy(g, A, f, base, seq, next, S)
<1> DEFINE bad == {s \in SUBSET S : ~\E g : FoldsBy(g, A, f, base, seq, next, s)}
<1> SUFFICES ASSUME bad # {} PROVE FALSE
  OBVIOUS
<1>1. PICK m \in bad : \A r \in SUBSET m : r # m => r \notin bad
  <2> HIDE DEF bad
  <2>1. bad \in SUBSET SUBSET S
    BY DEF bad
  <2>2. HasSmallest(bad)
    BY <2>1, SmallestSubset
  <2> QED  BY <2>2 DEF HasSmallest
<1> DEFINE G(s) == CHOOSE g : FoldsBy(g, A, f, base, seq, next, s)
<1>2. ASSUME NEW r \in SUBSET m, r # m PROVE FoldsBy(G(r), A, f, base, seq, next, r)
  BY <1>1, <1>2
<1> DEFINE less(s) == s \ {next[s]}
           g == [s \in SUBSET m |-> IF s = {} THEN base ELSE f[<<G(less(s))[less(s)], seq[next[s]]>>]]
<1>3. ASSUME NEW s \in SUBSET m, s # {}
      PROVE  /\ less(s) \in SUBSET s /\ less(s) \in SUBSET m /\ less(s) # s /\ less(s) # m
             /\ next[s] \in s /\ seq[next[s]] \in E
             /\ G(less(s))[less(s)] \in A
  <2>1. less(s) \in SUBSET s /\ less(s) \in SUBSET m /\ less(s) # s /\ less(s) # m /\ next[s] \in s
    BY <1>1, <1>3 DEF Picks
  <2>2. seq[next[s]] \in E
    BY <1>1, <2>1
  <2>3. G(less(s)) \in [SUBSET less(s) -> A]
    <3> HIDE DEF G, less
    <3> QED  BY <1>2, <2>1 DEF FoldsBy
  <2> HIDE DEF G, less
  <2> QED  BY <2>1, <2>2, <2>3
<1>4. g \in [SUBSET m -> A]
  <2>1. ASSUME NEW s \in SUBSET m PROVE g[s] \in A
    <3>1. CASE s = {}
      BY <3>1
    <3>2. CASE s # {}
      <4> HIDE DEF G, less
      <4>1. <<G(less(s))[less(s)], seq[next[s]]>> \in A \X E
        BY <1>3, <3>2
      <4> QED  BY <3>2, <4>1
    <3> QED  BY <3>1, <3>2
  <2>2. g = [s \in SUBSET m |-> g[s]]
    OBVIOUS
  <2> HIDE DEF g
  <2> QED  BY <2>1, <2>2
<1>5. ASSUME NEW s \in SUBSET m, s # m PROVE g[s] = G(s)[s]
  <2>1. CASE s = {}
    <3>1. FoldsBy(G({}), A, f, base, seq, next, {})
      <4> HIDE DEF G
      <4> QED  BY <1>2, <1>5, <2>1
    <3>2. G({})[{}] = base
      <4> HIDE DEF G
      <4> QED  BY <3>1 DEF FoldsBy
    <3> HIDE DEF G
    <3> QED  BY <2>1, <3>2
  <2>2. CASE s # {}
    <3>1. less(s) \in SUBSET s /\ less(s) \in SUBSET m /\ less(s) # m
      BY <1>3, <2>2
    <3>2. FoldsBy(G(s), A, f, base, seq, next, s)
      <4> HIDE DEF G
      <4> QED  BY <1>2, <1>5
    <3>3. FoldsBy(G(less(s)), A, f, base, seq, next, less(s))
      <4> HIDE DEF G, less
      <4> QED  BY <1>2, <3>1
    <3>4. G(less(s))[less(s)] = G(s)[less(s)]
      <4>1. IsFiniteSet(s) /\ Picks(next, s)
        BY <1>1, FS_Subset DEF Picks
      <4> HIDE DEF G, less
      <4> QED  BY <3>1, <3>2, <3>3, <4>1, FoldsAgree
    <3>5. G(s)[s] = f[<<G(s)[less(s)], seq[next[s]]>>]
      <4> HIDE DEF G
      <4> QED  BY <3>2, <2>2 DEF FoldsBy
    <3> HIDE DEF G, less
    <3> QED  BY <2>2, <3>4, <3>5
  <2> QED  BY <2>1, <2>2
<1>6. FoldsBy(g, A, f, base, seq, next, m)
  <2>1. ASSUME NEW s \in SUBSET m, s # {} PROVE g[s] = f[<<g[less(s)], seq[next[s]]>>]
    <3>1. g[less(s)] = G(less(s))[less(s)]
      <4>1. less(s) \in SUBSET m /\ less(s) # m
        BY <1>3, <2>1
      <4> HIDE DEF g, G, less
      <4> QED  BY <1>5, <4>1
    <3> HIDE DEF G, less
    <3> QED  BY <2>1, <3>1
  <2>2. g[{}] = base
    BY DEF g
  <2> HIDE DEF g, G
  <2> QED  BY <1>4, <2>1, <2>2 DEF FoldsBy
<1> HIDE DEF g
<1> QED  BY <1>1, <1>4, <1>6

(* The least element is one,                                               *)
LEMMA MinIn ==
  ASSUME NEW s \in SUBSET Nat, s # {} PROVE Min(s) \in s /\ \A y \in s : Min(s) <= y
<1>1. \E x \in s : \A y \in s : x <= y
  BY SmallestNumber
<1> QED  BY <1>1 DEF Min

(* and so is the greatest.                                                 *)
LEMMA MaxIn ==
  ASSUME NEW n \in Nat, NEW s \in SUBSET (1..n), s # {} PROVE Max(s) \in s /\ \A y \in s : Max(s) >= y
<1> DEFINE t == {n - x : x \in s}
<1>1. PICK k \in t : \A j \in t : k <= j
  <2>1. t \in SUBSET Nat /\ t # {}
    <3>1. \A x \in s : n - x \in Nat
      OBVIOUS
    <3> QED  BY <3>1
  <2> HIDE DEF t
  <2> QED  BY <2>1, SmallestNumber
<1>2. PICK x \in s : k = n - x
  OBVIOUS
<1>3. \A y \in s : x >= y
  <2>1. ASSUME NEW y \in s PROVE x >= y
    <3>1. n - y \in t /\ x \in Nat /\ y \in Nat
      OBVIOUS
    <3>2. k <= n - y
      <4> HIDE DEF t
      <4> QED  BY <1>1, <3>1
    <3> QED  BY <1>2, <3>1, <3>2
  <2> QED  BY <2>1
<1> QED  BY <1>2, <1>3 DEF Max

(* A step with values in A, of elements in E.                              *)
StepOn(f, A, E) == f \in [A \X E -> A]

(* A sequence of elements of E.                                            *)
Elements(seq, n, E) == \A i \in 1..n : seq[i] \in E

(* FoldsBy and Follows for the folds of sequences: the last first,         *)
LeftFollows(h, A, f, base, seq, n) ==
    /\ h[{}] = base
    /\ \A s \in SUBSET (1..n) :
         s # {} /\ h[s \ {Max(s)}] \in A => h[s] = f[<<h[s \ {Max(s)}], seq[Max(s)]>>]

(* or the first first.                                                     *)
RightFollows(h, A, f, base, seq, n) ==
    /\ h[{}] = base
    /\ \A s \in SUBSET (1..n) :
         s # {} /\ h[s \ {Min(s)}] \in A => h[s] = f[<<h[s \ {Min(s)}], seq[Min(s)]>>]

(* The fold from the left takes the last one out,                          *)
LeftFold(g, A, f, base, seq, n) ==
    /\ g \in [SUBSET (1..n) -> A]
    /\ \A s \in SUBSET (1..n) : g[s] = IF s = {} THEN base ELSE f[<<g[s \ {Max(s)}], seq[Max(s)]>>]

(* that from the right the first.                                          *)
RightFold(g, A, f, base, seq, n) ==
    /\ g \in [SUBSET (1..n) -> A]
    /\ \A s \in SUBSET (1..n) : g[s] = IF s = {} THEN base ELSE f[<<g[s \ {Min(s)}], seq[Min(s)]>>]

(* The stages r of a fold from the left, and from the right.               *)
LeftStages(r, g, A, f, base, seq, n) ==
    /\ LeftFold(g, A, f, base, seq, n)
    /\ r \in [0..n -> A] /\ r[0] = base /\ r[n] = g[1..n]
    /\ \A i \in 1..n : r[i] = f[<<r[i - 1], seq[i]>>]

(* And the same from the right.                                            *)
RightStages(r, g, A, f, base, seq, n) ==
    /\ RightFold(g, A, f, base, seq, n)
    /\ r \in [0..n -> A] /\ r[n] = base /\ r[0] = g[1..n]
    /\ \A i \in 1..n : r[i - 1] = f[<<r[i], seq[i]>>]

(* What g has of each beginning of the sequence follows from the one       *)
(* before it,                                                              *)
LeftPrefixes(g, A, f, base, seq, n) ==
    /\ LeftFold(g, A, f, base, seq, n)
    /\ \A i \in 1..n : g[1..i] = f[<<g[1..(i - 1)], seq[i]>>]

(* and of each end from the one after it.                                  *)
RightSuffixes(g, A, f, base, seq, n) ==
    /\ RightFold(g, A, f, base, seq, n)
    /\ \A i \in 1..n : g[i..n] = f[<<g[(i + 1)..n], seq[i]>>]

(* Folding from the left, as a run.                                        *)
LEMMA LeftRun ==
  ASSUME NEW n \in Nat, NEW A, NEW E, NEW f, StepOn(f, A, E), NEW base \in A,
         NEW seq, Elements(seq, n, E)
  PROVE  \E g : LeftPrefixes(g, A, f, base, seq, n)
<1> DEFINE next == [s \in SUBSET (1..n) |-> Max(s)]
<1>1. IsFiniteSet(1..n)
  BY FS_Interval
<1>2. ASSUME NEW s \in SUBSET (1..n), s # {} PROVE next[s] \in s
  BY <1>2, MaxIn
<1>3. \E g : FoldsBy(g, A, f, base, seq, next, 1..n)
  <2> HIDE DEF next
  <2> DEFINE S == 1..n
  <2>1. IsFiniteSet(S) /\ Picks(next, S) /\ \A i \in S : seq[i] \in E
    BY <1>1, <1>2 DEF Picks, Elements
  <2> HIDE DEF S
  <2>2. \E g : FoldsBy(g, A, f, base, seq, next, S)
    BY <2>1, FoldsExists DEF StepOn
  <2> QED  BY <2>2 DEF S
<1>4. PICK g : FoldsBy(g, A, f, base, seq, next, 1..n)
  BY <1>3
<1>7. g \in [SUBSET (1..n) -> A]
  BY <1>4 DEF FoldsBy
<1>5. \A s \in SUBSET (1..n) : g[s] = IF s = {} THEN base ELSE f[<<g[s \ {Max(s)}], seq[Max(s)]>>]
  BY <1>4 DEF FoldsBy
<1>6. ASSUME NEW i \in 1..n PROVE g[1..i] = f[<<g[1..(i - 1)], seq[i]>>]
  <2>1. 1..i \in SUBSET (1..n) /\ i \in 1..i
    OBVIOUS
  <2>2. Max(1..i) = i
    <3>1. Max(1..i) \in 1..i /\ \A y \in 1..i : Max(1..i) >= y
      BY <2>1, MaxIn
    <3> QED  BY <2>1, <3>1
  <2>3. (1..i) \ {i} = 1..(i - 1)
    OBVIOUS
  <2>4. g[1..i] = IF 1..i = {} THEN base ELSE f[<<g[(1..i) \ {Max(1..i)}], seq[Max(1..i)]>>]
    BY <1>5, <2>1
  <2> QED  BY <2>1, <2>2, <2>3, <2>4
<1>8. LeftFold(g, A, f, base, seq, n)
  BY <1>5, <1>7 DEF LeftFold
<1> QED  BY <1>6, <1>8 DEF LeftPrefixes

(* And from the right.                                                     *)
LEMMA RightRun ==
  ASSUME NEW n \in Nat, NEW A, NEW E, NEW f, StepOn(f, A, E), NEW base \in A,
         NEW seq, Elements(seq, n, E)
  PROVE  \E g : RightSuffixes(g, A, f, base, seq, n)
<1> DEFINE next == [s \in SUBSET (1..n) |-> Min(s)]
<1>1. IsFiniteSet(1..n)
  BY FS_Interval
<1>2. ASSUME NEW s \in SUBSET (1..n), s # {} PROVE next[s] \in s
  BY <1>2, MinIn
<1>3. \E g : FoldsBy(g, A, f, base, seq, next, 1..n)
  <2> HIDE DEF next
  <2> DEFINE S == 1..n
  <2>1. IsFiniteSet(S) /\ Picks(next, S) /\ \A i \in S : seq[i] \in E
    BY <1>1, <1>2 DEF Picks, Elements
  <2> HIDE DEF S
  <2>2. \E g : FoldsBy(g, A, f, base, seq, next, S)
    BY <2>1, FoldsExists DEF StepOn
  <2> QED  BY <2>2 DEF S
<1>4. PICK g : FoldsBy(g, A, f, base, seq, next, 1..n)
  BY <1>3
<1>7. g \in [SUBSET (1..n) -> A]
  BY <1>4 DEF FoldsBy
<1>5. \A s \in SUBSET (1..n) : g[s] = IF s = {} THEN base ELSE f[<<g[s \ {Min(s)}], seq[Min(s)]>>]
  BY <1>4 DEF FoldsBy
<1>6. ASSUME NEW i \in 1..n PROVE g[i..n] = f[<<g[(i + 1)..n], seq[i]>>]
  <2>1. i..n \in SUBSET (1..n) /\ i \in i..n /\ i..n \in SUBSET Nat
    OBVIOUS
  <2>2. Min(i..n) = i
    <3>1. Min(i..n) \in i..n /\ \A y \in i..n : Min(i..n) <= y
      BY <2>1, MinIn
    <3> QED  BY <2>1, <3>1
  <2>3. (i..n) \ {i} = (i + 1)..n
    OBVIOUS
  <2>4. g[i..n] = IF i..n = {} THEN base ELSE f[<<g[(i..n) \ {Min(i..n)}], seq[Min(i..n)]>>]
    BY <1>5, <2>1
  <2> QED  BY <2>1, <2>2, <2>3, <2>4
<1>8. RightFold(g, A, f, base, seq, n)
  BY <1>5, <1>7 DEF RightFold
<1> QED  BY <1>6, <1>8 DEF RightSuffixes

(* Who does as the fold from the left does has its result.                 *)
LEMMA LeftUnique ==
  ASSUME NEW n \in Nat, NEW A, NEW f, NEW base, NEW seq, NEW g, LeftFold(g, A, f, base, seq, n),
         NEW h, LeftFollows(h, A, f, base, seq, n)
  PROVE  h[1..n] = g[1..n]
<1> DEFINE S == 1..n
           next == [s \in SUBSET S |-> Max(s)]
<1>1. IsFiniteSet(S)
  BY FS_Interval
<1>2. Picks(next, S)
  BY MaxIn DEF Picks
<1>3. FoldsBy(g, A, f, base, seq, next, S)
  BY DEF LeftFold, FoldsBy
<1>4. Follows(h, A, f, base, seq, next, S)
  BY DEF Follows, LeftFollows
<1> HIDE DEF S, next
<1>5. \A s \in SUBSET S : h[s] = g[s]
  BY <1>1, <1>2, <1>3, <1>4, FoldsUnique
<1>6. h[S] = g[S]
  BY <1>5
<1> QED  BY <1>6 DEF S

(* And from the right.                                                     *)
LEMMA RightUnique ==
  ASSUME NEW n \in Nat, NEW A, NEW f, NEW base, NEW seq, NEW g, RightFold(g, A, f, base, seq, n),
         NEW h, RightFollows(h, A, f, base, seq, n)
  PROVE  h[1..n] = g[1..n]
<1> DEFINE S == 1..n
           next == [s \in SUBSET S |-> Min(s)]
<1>1. IsFiniteSet(S)
  BY FS_Interval
<1>2. Picks(next, S)
  BY MinIn DEF Picks
<1>3. FoldsBy(g, A, f, base, seq, next, S)
  BY DEF RightFold, FoldsBy
<1>4. Follows(h, A, f, base, seq, next, S)
  BY DEF Follows, RightFollows
<1> HIDE DEF S, next
<1>5. \A s \in SUBSET S : h[s] = g[s]
  BY <1>1, <1>2, <1>3, <1>4, FoldsUnique
<1>6. h[S] = g[S]
  BY <1>5
<1> QED  BY <1>6 DEF S

(* The fold from the left has stages, each a step from the one before.     *)
LEMMA LeftSteps ==
  ASSUME NEW n \in Nat, NEW A, NEW E, NEW f, StepOn(f, A, E), NEW base \in A,
         NEW seq, Elements(seq, n, E)
  PROVE  \E g, r : LeftStages(r, g, A, f, base, seq, n)
<1>1. PICK g : LeftPrefixes(g, A, f, base, seq, n)
  BY LeftRun
<1>2. /\ LeftFold(g, A, f, base, seq, n)
      /\ \A i \in 1..n : g[1..i] = f[<<g[1..(i - 1)], seq[i]>>]
  BY <1>1 DEF LeftPrefixes
<1> DEFINE r == [i \in 0..n |-> g[1..i]]
<1>3. r \in [0..n -> A]
  <2>1. \A i \in 0..n : 1..i \in SUBSET (1..n)
    OBVIOUS
  <2>2. \A i \in 0..n : g[1..i] \in A
    BY <1>2, <2>1 DEF LeftFold
  <2> QED  BY <2>2
<1>4. r[0] = base
  <2>1. 1..0 = {}
    OBVIOUS
  <2>2. g[{}] = base
    BY <1>2 DEF LeftFold
  <2> QED  BY <2>1, <2>2
<1>5. ASSUME NEW i \in 1..n PROVE r[i] = f[<<r[i - 1], seq[i]>>]
  <2>1. r[i] = g[1..i] /\ r[i - 1] = g[1..(i - 1)]
    OBVIOUS
  <2> HIDE DEF r
  <2> QED  BY <1>2, <2>1
<1>6. r[n] = g[1..n]
  OBVIOUS
<1> HIDE DEF r
<1> QED  BY <1>2, <1>3, <1>4, <1>5, <1>6 DEF LeftStages

(* And that from the right, each a step from the one after.                *)
LEMMA RightSteps ==
  ASSUME NEW n \in Nat, NEW A, NEW E, NEW f, StepOn(f, A, E), NEW base \in A,
         NEW seq, Elements(seq, n, E)
  PROVE  \E g, r : RightStages(r, g, A, f, base, seq, n)
<1>1. PICK g : RightSuffixes(g, A, f, base, seq, n)
  BY RightRun
<1>2. /\ RightFold(g, A, f, base, seq, n)
      /\ \A i \in 1..n : g[i..n] = f[<<g[(i + 1)..n], seq[i]>>]
  BY <1>1 DEF RightSuffixes
<1> DEFINE r == [i \in 0..n |-> g[(i + 1)..n]]
<1>3. r \in [0..n -> A]
  <2>1. \A i \in 0..n : (i + 1)..n \in SUBSET (1..n)
    OBVIOUS
  <2>2. \A i \in 0..n : g[(i + 1)..n] \in A
    BY <1>2, <2>1 DEF RightFold
  <2> QED  BY <2>2
<1>4. r[n] = base
  <2>1. (n + 1)..n = {}
    OBVIOUS
  <2>2. g[{}] = base
    BY <1>2 DEF RightFold
  <2> QED  BY <2>1, <2>2
<1>5. ASSUME NEW i \in 1..n PROVE r[i - 1] = f[<<r[i], seq[i]>>]
  <2>1. (i - 1) + 1 = i /\ i - 1 \in 0..n /\ i \in 0..n
    OBVIOUS
  <2>2. r[i - 1] = g[i..n] /\ r[i] = g[(i + 1)..n]
    BY <2>1
  <2> HIDE DEF r
  <2> QED  BY <1>2, <2>2
<1>6. r[0] = g[1..n]
  OBVIOUS
<1> HIDE DEF r
<1> QED  BY <1>2, <1>3, <1>4, <1>5, <1>6 DEF RightStages

(* r is what is on hand after each of n movements.                         *)
StockSteps(r, base, ms, n) ==
    /\ r[0] = base /\ r[n] = FoldLeft(Moved, base, ms)
    /\ \A i \in 0..n : r[i] \in Int
    /\ \A i \in 1..n : r[i] = Moved(r[i - 1], ms[i])

(* Movements of whole metres.                                              *)
Stockable(base, ms, n) ==
    /\ base \in Int /\ n \in Nat /\ DOMAIN ms = 1..n
    /\ \A i \in 1..n : ms[i].meters \in Int

(* What is on hand, movement by movement.                                  *)
LEMMA StockRun ==
  ASSUME NEW n, NEW ms, NEW base, Stockable(base, ms, n)
  PROVE  \E r : StockSteps(r, base, ms, n)
<1>0. /\ base \in Int /\ n \in Nat /\ DOMAIN ms = 1..n
      /\ \A i \in 1..n : ms[i].meters \in Int
  BY DEF Stockable
<1> DEFINE E == {ms[i] : i \in 1..n}
           f == [x \in Int \X E |-> Moved(x[1], x[2])]
<1>1. \A a \in Int, e \in E : Moved(a, e) \in Int /\ f[<<a, e>>] = Moved(a, e)
  BY <1>0 DEF Moved
<1>2. StepOn(f, Int, E)
  BY <1>1 DEF StepOn, Moved
<1>3. \A i \in 1..n : ms[i] \in E
  OBVIOUS
<1>30. Elements(ms, n, E)
  BY <1>3 DEF Elements
<1> HIDE DEF E, f
<1> DEFINE A == Int
<1>20. StepOn(f, A, E) /\ base \in A
  BY <1>0, <1>2
<1> HIDE DEF A
<1>21. \E g, r : LeftStages(r, g, A, f, base, ms, n)
  BY <1>0, <1>20, <1>30, LeftSteps
<1>4. PICK g, r : /\ LeftFold(g, Int, f, base, ms, n)
                  /\ r \in [0..n -> Int] /\ r[0] = base /\ r[n] = g[1..n]
                  /\ \A i \in 1..n : r[i] = f[<<r[i - 1], ms[i]>>]
  BY <1>21 DEF A, LeftStages
<1>5. r[0] = base /\ r[n] = g[1..n] /\ \A i \in 0..n : r[i] \in Int
  BY <1>4
<1>6. \A i \in 1..n : r[i] = Moved(r[i - 1], ms[i])
  <2>1. \A i \in 1..n : r[i - 1] \in Int /\ r[i] = f[<<r[i - 1], ms[i]>>]
    BY <1>0, <1>4
  <2> QED  BY <2>1, <1>1, <1>3
<1> DEFINE S == 1..n
           Fold(h) == [s \in SUBSET S |-> IF s = {} THEN base ELSE Moved(h[s \ {Max(s)}], ms[Max(s)])]
           iter == CHOOSE h : h = Fold(h)
<1>7. iter[S] = FoldLeft(Moved, base, ms)
  BY <1>0 DEF FoldLeft, MapThenFoldSet
<1>8. g \in [SUBSET S -> Int] /\ LeftFold(g, Int, f, base, ms, n)
  BY <1>4 DEF LeftFold
<1>9. ASSUME NEW s \in SUBSET S, s # {}
      PROVE  Max(s) \in S /\ s \ {Max(s)} \in SUBSET S
  BY <1>0, <1>9, MaxIn
<1>10. g = Fold(g)
  <2>1. ASSUME NEW s \in SUBSET S PROVE g[s] = Fold(g)[s]
    <3>1. CASE s = {}
      BY <1>8, <3>1 DEF LeftFold
    <3>2. CASE s # {}
      <4>1. g[s] = f[<<g[s \ {Max(s)}], ms[Max(s)]>>]
        BY <1>8, <3>2 DEF LeftFold
      <4>2. g[s \ {Max(s)}] \in Int /\ ms[Max(s)] \in E
        <5> HIDE DEF S
        <5>1. s \ {Max(s)} \in SUBSET S /\ Max(s) \in S
          BY <1>9, <3>2
        <5> QED  BY <1>3, <1>8, <5>1 DEF S
      <4>3. g[s] = Moved(g[s \ {Max(s)}], ms[Max(s)])
        BY <1>1, <4>1, <4>2
      <4> QED  BY <3>2, <4>3
    <3> QED  BY <3>1, <3>2
  <2>2. g = [s \in SUBSET S |-> g[s]]
    BY <1>8
  <2> HIDE DEF S
  <2> QED  BY <2>1, <2>2
<1>11. iter = Fold(iter)
  <2> HIDE DEF Fold
  <2> QED  BY <1>10
<1>12. iter[S] = g[S]
  <2> HIDE DEF iter
  <2>1. iter[{}] = base
    BY <1>11
  <2>2. ASSUME NEW s \in SUBSET S, s # {}, iter[s \ {Max(s)}] \in Int
        PROVE  iter[s] = f[<<iter[s \ {Max(s)}], ms[Max(s)]>>]
    <3>1. Max(s) \in S
      BY <1>9, <2>2
    <3>2. iter[s] = Moved(iter[s \ {Max(s)}], ms[Max(s)])
      BY <1>11, <2>2
    <3> QED  BY <1>1, <1>3, <2>2, <3>1, <3>2
  <2>3. LeftFold(g, A, f, base, ms, n) /\ LeftFollows(iter, A, f, base, ms, n)
    BY <1>8, <2>1, <2>2 DEF A, LeftFollows
  <2> HIDE DEF A
  <2> QED  BY <1>0, <2>3, LeftUnique
<1> QED  BY <1>0, <1>5, <1>6, <1>7, <1>12 DEF StockSteps
(* Pools, what is recorded of an event, and the stages of a replay.        *)
Pools == [meters : Int, value : Rationals]

(* An event whose values are fractions.                                    *)
Recorded(e) ==
    /\ e.meters \in Int /\ e.value \in Rationals
    /\ e.rate = NoRate \/ e.rate \in Rationals

(* What a replay keeps on the way.                                         *)
Replays == [pool : Pools, known : Rationals, issued : Rationals, moved : Rationals, safe : BOOLEAN]

(* Nothing is a fraction and not negative.                                 *)
LEMMA NothingType == Nothing \in Rationals /\ ~Negative(Nothing)
BY WholeType DEF Nothing

(* A pool has a rate,                                                      *)
LEMMA RateType == ASSUME NEW p \in Pools PROVE Rate(p) \in Rationals
<1>1. p.meters \in Int /\ p.value \in Rationals
  BY DEF Pools
<1>2. CASE p.meters > 0
  <2>1. p.meters \in Nat \ {0}
    BY <1>1, <1>2
  <2> QED  BY <1>1, <1>2, <2>1, PartType DEF Rate
<1>3. CASE ~(p.meters > 0)
  BY <1>3, NothingType DEF Rate
<1> QED  BY <1>2, <1>3

(* an event a value,                                                       *)
LEMMA InflowType ==
  ASSUME NEW p \in Pools, NEW e, Recorded(e) PROVE Inflow(p, e) \in Rationals
<1>1. /\ Nothing -- e.value \in Rationals /\ e.value \in Rationals
      /\ Rate(p) ** e.meters \in Rationals
  BY NothingType, RateType, AddType, TimesType DEF Recorded
<1> QED  BY <1>1 DEF Inflow

(* and a step of a replay leads on.                                        *)
LEMMA ForwardType ==
  ASSUME NEW r \in Replays, NEW e, Recorded(e)
  PROVE  Forward(r, e) \in Replays
<1> DEFINE n == Inflow(r.pool, e)
<1>1. /\ r.pool \in Pools /\ r.pool.meters \in Int /\ r.pool.value \in Rationals /\ e.meters \in Int
      /\ r.known \in Rationals /\ r.issued \in Rationals /\ r.moved \in Rationals
  BY DEF Replays, Pools, Recorded
<1>2. n \in Rationals
  BY <1>1, InflowType
<1> HIDE DEF n
<1>3. /\ r.pool.value ++ n \in Rationals /\ r.known ++ n \in Rationals /\ r.moved ++ n \in Rationals
      /\ r.issued ++ (Nothing -- n) \in Rationals /\ r.pool.meters + e.meters \in Int
  BY <1>1, <1>2, NothingType, AddType
<1>4. [meters |-> r.pool.meters + e.meters, value |-> r.pool.value ++ n] \in Pools
  BY <1>3 DEF Pools
<1>5. (r.safe /\ r.pool.meters + e.meters >= 0) \in BOOLEAN
  OBVIOUS
<1>6. Forward(r, e) =
        [pool   |-> [meters |-> r.pool.meters + e.meters, value |-> r.pool.value ++ n],
         known  |-> IF e.kind \in {"RECEIPT", "VALUE_IN", "VALUE_OUT"} THEN r.known ++ n ELSE r.known,
         issued |-> IF e.kind \in {"ISSUE"} THEN r.issued ++ (Nothing -- n) ELSE r.issued,
         moved  |-> IF e.kind \in {"QUANTITY_ONLY"} THEN r.moved ++ n ELSE r.moved,
         safe   |-> r.safe /\ r.pool.meters + e.meters >= 0]
  BY DEF Forward, n
<1> QED  BY <1>1, <1>3, <1>4, <1>5, <1>6 DEF Replays

(* What the way back keeps.                                                *)
Ways == [pool : Pools, safe : BOOLEAN]

(* The pool before an event is one,                                        *)
LEMMA BeforeType ==
  ASSUME NEW p \in Pools, NEW e, Recorded(e) PROVE Before(p, e) \in Pools
<1>1. p.meters \in Int /\ p.value \in Rationals /\ p.meters - e.meters \in Int
  BY DEF Pools, Recorded
<1>2. Inflow(p, e) \in Rationals /\ Rate(p) \in Rationals
  BY InflowType, RateType
<1>3. p.value -- Inflow(p, e) \in Rationals /\ Rate(p) ** (p.meters - e.meters) \in Rationals
  BY <1>1, <1>2, AddType, TimesType
<1>4. e.rate # NoRate => e.rate ** (p.meters - e.meters) \in Rationals
  BY <1>1, TimesType DEF Recorded
<1>5. Before(p, e).meters = p.meters - e.meters /\ Before(p, e).value \in Rationals
      /\ Before(p, e) = [meters |-> Before(p, e).meters, value |-> Before(p, e).value]
  BY <1>1, <1>3, <1>4, NothingType DEF Before
<1> QED  BY <1>1, <1>5 DEF Pools

(* and the way back leads on.                                              *)
LEMMA BackType ==
  ASSUME NEW b \in Ways, NEW e, Recorded(e)
  PROVE  Back(e, b) \in Ways
<1>1. b.pool \in Pools
  BY DEF Ways
<1>2. Before(b.pool, e) \in Pools
  BY <1>1, BeforeType
<1> QED  BY <1>2 DEF Back, Ways

(* r is a replay after each of n events.                                   *)
ForwardSteps(r, from, es, n) ==
    /\ r[0] = Start(from) /\ r[n] = Replay(from, es)
    /\ \A i \in 0..n : r[i] \in Replays
    /\ \A i \in 1..n : r[i] = Forward(r[i - 1], es[i])

(* A replay, event by event.                                               *)
LEMMA ReplayRun ==
  ASSUME NEW n \in Nat, NEW es, DOMAIN es = 1..n, \A i \in 1..n : Recorded(es[i]),
         NEW from \in Pools
  PROVE  \E r : ForwardSteps(r, from, es, n)
<1> DEFINE base == Start(from)
<1>0. base \in Replays
  BY NothingType DEF Start, Replays
<1> DEFINE E == {es[i] : i \in 1..n}
           f == [x \in Replays \X E |-> Forward(x[1], x[2])]
<1>1. \A a \in Replays, e \in E : Forward(a, e) \in Replays /\ f[<<a, e>>] = Forward(a, e)
  BY ForwardType
<1>2. StepOn(f, Replays, E)
  BY <1>1 DEF StepOn
<1>3. \A i \in 1..n : es[i] \in E
  OBVIOUS
<1>30. Elements(es, n, E)
  BY <1>3 DEF Elements
<1> HIDE DEF E, f, base
<1> DEFINE A == Replays
<1>20. StepOn(f, A, E) /\ base \in A
  BY <1>0, <1>2
<1> HIDE DEF A
<1>21. \E g, r : LeftStages(r, g, A, f, base, es, n)
  BY <1>20, <1>30, LeftSteps
<1>4. PICK g, r : /\ LeftFold(g, Replays, f, base, es, n)
                  /\ r \in [0..n -> Replays] /\ r[0] = base /\ r[n] = g[1..n]
                  /\ \A i \in 1..n : r[i] = f[<<r[i - 1], es[i]>>]
  BY <1>21 DEF A, LeftStages
<1>5. r[0] = base /\ r[n] = g[1..n] /\ \A i \in 0..n : r[i] \in Replays
  BY <1>4
<1>6. \A i \in 1..n : r[i] = Forward(r[i - 1], es[i])
  <2>1. \A i \in 1..n : r[i - 1] \in Replays /\ r[i] = f[<<r[i - 1], es[i]>>]
    BY <1>4
  <2> QED  BY <2>1, <1>1, <1>3
<1> DEFINE S == 1..n
           Fold(h) == [s \in SUBSET S |-> IF s = {} THEN base ELSE Forward(h[s \ {Max(s)}], es[Max(s)])]
           iter == CHOOSE h : h = Fold(h)
<1>7. iter[S] = Replay(from, es)
  BY DEF Replay, FoldLeft, MapThenFoldSet, base
<1>8. g \in [SUBSET S -> Replays] /\ LeftFold(g, Replays, f, base, es, n)
  BY <1>4 DEF LeftFold
<1>9. ASSUME NEW s \in SUBSET S, s # {}
      PROVE  Max(s) \in S /\ s \ {Max(s)} \in SUBSET S
  BY <1>9, MaxIn
<1>10. g = Fold(g)
  <2>1. ASSUME NEW s \in SUBSET S PROVE g[s] = Fold(g)[s]
    <3>1. CASE s = {}
      BY <1>8, <3>1 DEF LeftFold
    <3>2. CASE s # {}
      <4>1. g[s] = f[<<g[s \ {Max(s)}], es[Max(s)]>>]
        BY <1>8, <3>2 DEF LeftFold
      <4>2. g[s \ {Max(s)}] \in Replays /\ es[Max(s)] \in E
        <5> HIDE DEF S
        <5>1. s \ {Max(s)} \in SUBSET S /\ Max(s) \in S
          BY <1>9, <3>2
        <5> QED  BY <1>3, <1>8, <5>1 DEF S
      <4>3. g[s] = Forward(g[s \ {Max(s)}], es[Max(s)])
        BY <1>1, <4>1, <4>2
      <4> QED  BY <3>2, <4>3
    <3> QED  BY <3>1, <3>2
  <2>2. g = [s \in SUBSET S |-> g[s]]
    BY <1>8
  <2> HIDE DEF S
  <2> QED  BY <2>1, <2>2
<1>11. iter = Fold(iter)
  <2> HIDE DEF Fold
  <2> QED  BY <1>10
<1>12. iter[S] = g[S]
  <2> HIDE DEF iter
  <2>1. iter[{}] = base
    BY <1>11
  <2>2. ASSUME NEW s \in SUBSET S, s # {}, iter[s \ {Max(s)}] \in Replays
        PROVE  iter[s] = f[<<iter[s \ {Max(s)}], es[Max(s)]>>]
    <3>1. Max(s) \in S
      BY <1>9, <2>2
    <3>2. iter[s] = Forward(iter[s \ {Max(s)}], es[Max(s)])
      BY <1>11, <2>2
    <3> QED  BY <1>1, <1>3, <2>2, <3>1, <3>2
  <2>3. LeftFold(g, A, f, base, es, n) /\ LeftFollows(iter, A, f, base, es, n)
    BY <1>8, <2>1, <2>2 DEF A, LeftFollows
  <2> HIDE DEF A
  <2> QED  BY <2>3, LeftUnique
<1> QED  BY <1>5, <1>6, <1>7, <1>12 DEF base, ForwardSteps

(* What a way back goes through.                                           *)
RewindSteps(r, present, es, n) ==
    /\ r[n] = [pool |-> present, safe |-> TRUE] /\ r[0] = Rewind(present, es)
    /\ \A i \in 0..n : r[i] \in Ways
    /\ \A i \in 1..n : r[i - 1] = Back(es[i], r[i])

(* The way back, event by event.                                           *)
LEMMA RewindRun ==
  ASSUME NEW n \in Nat, NEW es, DOMAIN es = 1..n, \A i \in 1..n : Recorded(es[i]),
         NEW present \in Pools
  PROVE  \E r : RewindSteps(r, present, es, n)
<1> DEFINE base == [pool |-> present, safe |-> TRUE]
<1>0. base \in Ways
  BY DEF Ways
<1> DEFINE E == {es[i] : i \in 1..n}
           f == [x \in Ways \X E |-> Back(x[2], x[1])]
<1>1. \A a \in Ways, e \in E : Back(e, a) \in Ways /\ f[<<a, e>>] = Back(e, a)
  BY BackType
<1>2. StepOn(f, Ways, E)
  BY <1>1 DEF StepOn
<1>3. \A i \in 1..n : es[i] \in E
  OBVIOUS
<1>30. Elements(es, n, E)
  BY <1>3 DEF Elements
<1> HIDE DEF E, f, base
<1> DEFINE A == Ways
<1>20. StepOn(f, A, E) /\ base \in A
  BY <1>0, <1>2
<1> HIDE DEF A
<1>21. \E g, r : RightStages(r, g, A, f, base, es, n)
  BY <1>20, <1>30, RightSteps
<1>4. PICK g, r : /\ RightFold(g, Ways, f, base, es, n)
                  /\ r \in [0..n -> Ways] /\ r[n] = base /\ r[0] = g[1..n]
                  /\ \A i \in 1..n : r[i - 1] = f[<<r[i], es[i]>>]
  BY <1>21 DEF A, RightStages
<1>5. r[n] = base /\ r[0] = g[1..n] /\ \A i \in 0..n : r[i] \in Ways
  BY <1>4
<1>6. \A i \in 1..n : r[i - 1] = Back(es[i], r[i])
  <2>1. \A i \in 1..n : r[i] \in Ways /\ r[i - 1] = f[<<r[i], es[i]>>]
    BY <1>4
  <2> QED  BY <2>1, <1>1, <1>3
<1> DEFINE S == 1..n
           Fold(h) == [s \in SUBSET S |-> IF s = {} THEN base ELSE Back(es[Min(s)], h[s \ {Min(s)}])]
           iter == CHOOSE h : h = Fold(h)
<1>7. iter[S] = Rewind(present, es)
  BY DEF Rewind, FoldRight, MapThenFoldSet, base
<1>8. g \in [SUBSET S -> Ways] /\ RightFold(g, Ways, f, base, es, n)
  BY <1>4 DEF RightFold
<1>9. ASSUME NEW s \in SUBSET S, s # {}
      PROVE  Min(s) \in S /\ s \ {Min(s)} \in SUBSET S
  <2>1. s \in SUBSET Nat
    OBVIOUS
  <2> QED  BY <1>9, <2>1, MinIn
<1>10. g = Fold(g)
  <2>1. ASSUME NEW s \in SUBSET S PROVE g[s] = Fold(g)[s]
    <3>1. CASE s = {}
      BY <1>8, <3>1 DEF RightFold
    <3>2. CASE s # {}
      <4>1. g[s] = f[<<g[s \ {Min(s)}], es[Min(s)]>>]
        BY <1>8, <3>2 DEF RightFold
      <4>2. g[s \ {Min(s)}] \in Ways /\ es[Min(s)] \in E
        <5> HIDE DEF S
        <5>1. s \ {Min(s)} \in SUBSET S /\ Min(s) \in S
          BY <1>9, <3>2
        <5> QED  BY <1>3, <1>8, <5>1 DEF S
      <4>3. g[s] = Back(es[Min(s)], g[s \ {Min(s)}])
        BY <1>1, <4>1, <4>2
      <4> QED  BY <3>2, <4>3
    <3> QED  BY <3>1, <3>2
  <2>2. g = [s \in SUBSET S |-> g[s]]
    BY <1>8
  <2> HIDE DEF S
  <2> QED  BY <2>1, <2>2
<1>11. iter = Fold(iter)
  <2> HIDE DEF Fold
  <2> QED  BY <1>10
<1>12. iter[S] = g[S]
  <2> HIDE DEF iter
  <2>1. iter[{}] = base
    BY <1>11
  <2>2. ASSUME NEW s \in SUBSET S, s # {}, iter[s \ {Min(s)}] \in Ways
        PROVE  iter[s] = f[<<iter[s \ {Min(s)}], es[Min(s)]>>]
    <3>1. Min(s) \in S
      BY <1>9, <2>2
    <3>2. iter[s] = Back(es[Min(s)], iter[s \ {Min(s)}])
      BY <1>11, <2>2
    <3> QED  BY <1>1, <1>3, <2>2, <3>1, <3>2
  <2>3. RightFold(g, A, f, base, es, n) /\ RightFollows(iter, A, f, base, es, n)
    BY <1>8, <2>1, <2>2 DEF A, RightFollows
  <2> HIDE DEF A
  <2> QED  BY <2>3, RightUnique
<1> QED  BY <1>5, <1>6, <1>7, <1>12 DEF base, RewindSteps

-----------------------------------------------------------------------------
(* Replays.                                                                *)

(* Nothing more, nothing less, nothing at all.                             *)
LEMMA AddNothing ==
  ASSUME NEW x \in Rationals, NEW n \in Int
  PROVE  x ++ Nothing = x /\ x -- Nothing = x /\ Nothing ** n = Nothing /\ x ** 0 = Nothing
<1>1. PICK a \in Int, d \in Nat \ {0} : x = Reduced(a, d)
  BY DEF Rationals
<1>2. Nothing = Reduced(0, d)
  BY NothingOver
<1>3. x ++ Nothing = Reduced(a + 0, d) /\ x -- Nothing = Reduced(a - 0, d)
  BY <1>1, <1>2, AddOver
<1>4. Nothing ** n = Reduced(0 * n, d) /\ x ** 0 = Reduced(a * 0, d)
  BY <1>1, <1>2, TimesOver
<1>5. a + 0 = a /\ a - 0 = a /\ 0 * n = 0 /\ a * 0 = 0
  OBVIOUS
<1> QED  BY <1>1, <1>2, <1>3, <1>4, <1>5

(* What has come in can go out again.                                      *)
LEMMA AddBack ==
  ASSUME NEW x \in Rationals, NEW y \in Rationals
  PROVE  (x ++ y) -- y = x
<1>1. PICK d \in Nat \ {0} : {x, y} \subseteq Over(d)
  BY CommonDenominator
<1>2. PICK a \in Int, b \in Int : x = Reduced(a, d) /\ y = Reduced(b, d)
  BY <1>1 DEF Over
<1>3. x ++ y = Reduced(a + b, d) /\ a + b \in Int
  BY <1>2, AddOver
<1>4. Reduced(a + b, d) -- Reduced(b, d) = Reduced((a + b) - b, d)
  BY <1>3, AddOver
<1>5. (a + b) - b = a
  OBVIOUS
<1> QED  BY <1>2, <1>3, <1>4, <1>5

(* Metres at one rate add up.                                              *)
LEMMA TimesAdd ==
  ASSUME NEW x \in Rationals, NEW m \in Int, NEW n \in Int
  PROVE  (x ** m) ++ (x ** n) = x ** (m + n)
<1>1. PICK a \in Int, d \in Nat \ {0} : x = Reduced(a, d)
  BY DEF Rationals
<1> DEFINE k == m + n
<1>5. k \in Int
  OBVIOUS
<1> HIDE DEF k
<1>2. x ** m = Reduced(a * m, d) /\ x ** n = Reduced(a * n, d) /\ x ** k = Reduced(a * k, d)
  BY <1>1, <1>5, TimesOver
<1>3. a * m \in Int /\ a * n \in Int /\ a * m + a * n = a * k
  BY DEF k
<1>4. Reduced(a * m, d) ++ Reduced(a * n, d) = Reduced(a * m + a * n, d)
  BY <1>3, AddOver
<1> QED  BY <1>2, <1>3, <1>4 DEF k

(* The rate of what metres at a rate are worth.                            *)
LEMMA TimesPart ==
  ASSUME NEW x \in Rationals, NEW k \in Nat \ {0} PROVE (x ** k) // k = x
<1>1. PICK a \in Int, d \in Nat \ {0} : x = Reduced(a, d)
  BY DEF Rationals
<1>2. x ** k = Reduced(a * k, d) /\ a * k \in Int
  BY <1>1, TimesOver
<1>3. (x ** k) // k = Reduced(a * k, d * k)
  BY <1>2, PartOver
<1> QED  BY <1>1, <1>3, ReducedScale

(* A pool at its own rate.                                                 *)
LEMMA RateWhole ==
  ASSUME NEW p \in Pools, p.meters > 0
  PROVE  Rate(p) ** p.meters = p.value
<1>1. p.meters \in Nat \ {0} /\ p.value \in Rationals
  BY DEF Pools
<1> QED  BY <1>1, PartsMakeWhole DEF Rate

(* Metres leave or come at the rate of the pool.                           *)
LEMMA AtRate ==
  ASSUME NEW p \in Pools, p.meters > 0, NEW n \in Int
  PROVE  p.value ++ (Rate(p) ** n) = Rate(p) ** (p.meters + n)
<1>1. p.meters \in Int /\ Rate(p) \in Rationals
  BY RateType DEF Pools
<1>2. p.value = Rate(p) ** p.meters
  BY RateWhole
<1> QED  BY <1>1, <1>2, TimesAdd

(* A pool that is not worth less than nothing has no rate below it.        *)
LEMMA RateSigned ==
  ASSUME NEW p \in Pools, ~Negative(p.value) PROVE ~Negative(Rate(p))
<1>1. CASE p.meters > 0
  <2>1. p.meters \in Nat \ {0} /\ p.meters \in Nat /\ p.meters # 0 /\ p.value \in Rationals
    BY <1>1 DEF Pools
  <2>2. ~Negative(p.value // p.meters)
    BY <2>1, SignTimes
  <2> QED  BY <1>1, <2>2 DEF Rate
<1>2. CASE ~(p.meters > 0)
  BY <1>2, NothingType DEF Rate
<1> QED  BY <1>1, <1>2

(* What is worth something, or nothing, when it is brought in.             *)
Bought(e) ==
    /\ Recorded(e) /\ e.kind # "VALUE_OUT"
    /\ e.kind \in {"RECEIPT", "VALUE_IN"} => ~Negative(e.value)

(* And nothing an event brings takes it below.                             *)
LEMMA InflowSigned ==
  ASSUME NEW p \in Pools, p.meters >= 0, ~Negative(p.value), NEW e, Bought(e), p.meters + e.meters >= 0
  PROVE  ~Negative(p.value ++ Inflow(p, e))
<1>1. /\ p.meters \in Int /\ p.value \in Rationals /\ e.meters \in Int /\ e.value \in Rationals
      /\ e.kind # "VALUE_OUT"
  BY DEF Pools, Bought, Recorded
<1>2. CASE e.kind \in {"RECEIPT", "VALUE_IN"}
  <2>1. Inflow(p, e) = e.value /\ ~Negative(e.value)
    BY <1>1, <1>2 DEF Inflow, Bought
  <2> QED  BY <1>1, <2>1, SignAdd
<1>3. CASE e.kind \notin {"RECEIPT", "VALUE_IN"}
  <2>1. Inflow(p, e) = Rate(p) ** e.meters
    BY <1>1, <1>3 DEF Inflow
  <2>2. CASE p.meters > 0
    <3>1. p.value ++ Inflow(p, e) = Rate(p) ** (p.meters + e.meters)
      BY <1>1, <2>1, <2>2, AtRate
    <3>2. Rate(p) \in Rationals /\ ~Negative(Rate(p)) /\ p.meters + e.meters \in Nat
      BY <1>1, RateType, RateSigned
    <3> QED  BY <3>1, <3>2, SignTimes
  <2>3. CASE p.meters = 0
    <3>1. Rate(p) = Nothing
      BY <2>3 DEF Rate
    <3>2. p.value ++ Inflow(p, e) = p.value
      BY <1>1, <2>1, <3>1, AddNothing
    <3> QED  BY <3>2
  <2> QED  BY <1>1, <2>2, <2>3
<1> QED  BY <1>2, <1>3

(* A replay that is safe comes to a pool that is worth nothing or more.    *)
LEMMA ReplaySigned ==
  ASSUME NEW n \in Nat, NEW es, DOMAIN es = 1..n, \A i \in 1..n : Bought(es[i]),
         NEW from \in Pools, from.meters >= 0, ~Negative(from.value),
         Replay(from, es).safe
  PROVE  Replay(from, es).pool.meters >= 0 /\ ~Negative(Replay(from, es).pool.value)
<1>1. \A i \in 1..n : Recorded(es[i])
  BY DEF Bought
<1>0. PICK r : ForwardSteps(r, from, es, n)
  BY <1>1, ReplayRun
<1>2. /\ r[0] = Start(from) /\ r[n] = Replay(from, es)
      /\ \A i \in 0..n : r[i] \in Replays
      /\ \A i \in 1..n : r[i] = Forward(r[i - 1], es[i])
  BY <1>0 DEF ForwardSteps
<1> DEFINE good(i) == r[i].safe => r[i].pool.meters >= 0 /\ ~Negative(r[i].pool.value)
           bad == {i \in 0..n : ~good(i)}
<1>3. ASSUME bad # {} PROVE FALSE
  <2>1. PICK i \in bad : \A j \in bad : i <= j
    <3>1. bad \subseteq Nat
      OBVIOUS
    <3> HIDE DEF bad
    <3> QED  BY <1>3, <3>1, SmallestNumber
  <2>2. good(0)
    BY <1>2 DEF Start
  <2>3. i \in 1..n /\ i - 1 \in 0..n /\ good(i - 1) /\ ~good(i)
    <3> HIDE DEF good
    <3> QED  BY <2>1, <2>2
  <2>4. /\ r[i].safe /\ r[i] = Forward(r[i - 1], es[i]) /\ r[i - 1] \in Replays /\ Bought(es[i])
    BY <1>2, <2>3
  <2> DEFINE p == r[i - 1].pool
             e == es[i]
  <2>5. /\ r[i].safe <=> r[i - 1].safe /\ p.meters + e.meters >= 0
        /\ r[i].pool.meters = p.meters + e.meters
        /\ r[i].pool.value = p.value ++ Inflow(p, e)
    <3>1. /\ Forward(r[i - 1], e).safe = (r[i - 1].safe /\ p.meters + e.meters >= 0)
          /\ Forward(r[i - 1], e).pool = [meters |-> p.meters + e.meters, value |-> p.value ++ Inflow(p, e)]
      BY DEF Forward
    <3>2. Forward(r[i - 1], e) = r[i]
      BY <2>4
    <3> HIDE DEF p, e
    <3>3. r[i].safe <=> r[i - 1].safe /\ p.meters + e.meters >= 0
      BY <3>1, <3>2, Zenon
    <3>4. r[i].pool = [meters |-> p.meters + e.meters, value |-> p.value ++ Inflow(p, e)]
      BY <3>1, <3>2, Zenon
    <3> QED  BY <3>3, <3>4
  <2>6. p \in Pools /\ p.meters >= 0 /\ ~Negative(p.value) /\ Bought(e) /\ p.meters + e.meters >= 0
    BY <2>3, <2>4, <2>5 DEF Replays
  <2> HIDE DEF p, e
  <2>7. ~Negative(p.value ++ Inflow(p, e))
    BY <2>6, InflowSigned
  <2> QED  BY <2>3, <2>5, <2>6, <2>7
<1>4. good(n)
  BY <1>3
<1> QED  BY <1>2, <1>4

(* And the way back, if it is possible at all.                             *)
LEMMA RewindSigned ==
  ASSUME NEW n \in Nat \ {0}, NEW es, DOMAIN es = 1..n, \A i \in 1..n : Recorded(es[i]),
         NEW present \in Pools, Rewind(present, es).safe
  PROVE  Rewind(present, es).pool.meters >= 0 /\ ~Negative(Rewind(present, es).pool.value)
<1>0. PICK r : RewindSteps(r, present, es, n)
  BY RewindRun
<1>1. /\ r[n] = [pool |-> present, safe |-> TRUE] /\ r[0] = Rewind(present, es)
      /\ \A i \in 0..n : r[i] \in Ways
      /\ \A i \in 1..n : r[i - 1] = Back(es[i], r[i])
  BY <1>0 DEF RewindSteps
<1>2. r[1 - 1] = Back(es[1], r[1])
  BY <1>1
<1>3. r[0] = Back(es[1], r[1])
  BY <1>2
<1>4. Back(es[1], r[1]).safe /\ Rewind(present, es).pool = Back(es[1], r[1]).pool
  BY <1>1, <1>3
<1>5. /\ Back(es[1], r[1]).safe <=> r[1].safe /\ Possible(r[1].pool, es[1])
      /\ Back(es[1], r[1]).pool = Before(r[1].pool, es[1])
  BY DEF Back
<1> QED  BY <1>4, <1>5 DEF Possible

(* The way back ends in a pool.                                            *)
LEMMA RewindType ==
  ASSUME NEW n \in Nat, NEW es, DOMAIN es = 1..n, \A i \in 1..n : Recorded(es[i]), NEW present \in Pools
  PROVE  Rewind(present, es) \in Ways /\ Rewind(present, es).pool \in Pools
<1>0. PICK r : RewindSteps(r, present, es, n)
  BY RewindRun
<1>1. /\ r[n] = [pool |-> present, safe |-> TRUE] /\ r[0] = Rewind(present, es)
      /\ \A i \in 0..n : r[i] \in Ways
      /\ \A i \in 1..n : r[i - 1] = Back(es[i], r[i])
  BY <1>0 DEF RewindSteps
<1>2. r[0] \in Ways
  BY <1>1
<1> QED  BY <1>1, <1>2 DEF Ways

(* A replay ends as it should.                                             *)
LEMMA ReplayType ==
  ASSUME NEW n \in Nat, NEW es, DOMAIN es = 1..n, \A i \in 1..n : Recorded(es[i]), NEW from \in Pools
  PROVE  Replay(from, es) \in Replays
<1>0. PICK r : ForwardSteps(r, from, es, n)
  BY ReplayRun
<1>1. /\ r[0] = Start(from) /\ r[n] = Replay(from, es)
      /\ \A i \in 0..n : r[i] \in Replays
      /\ \A i \in 1..n : r[i] = Forward(r[i - 1], es[i])
  BY <1>0 DEF ForwardSteps
<1>2. r[n] \in Replays
  BY <1>1
<1> QED  BY <1>1, <1>2

-----------------------------------------------------------------------------
(* Comparisons of two replays.                                             *)

(* What comes in later makes no difference to a difference.                *)
LEMMA AddLater ==
  ASSUME NEW u \in Rationals, NEW a \in Rationals, NEW b \in Rationals, NEW x \in Rationals
  PROVE  /\ ((u ++ x) -- a) ++ b = ((u -- a) ++ b) ++ x
         /\ ((u -- a) ++ b) -- u = b -- a
<1>1. PICK d \in Nat \ {0} : {u, a, b, x} \subseteq Over(d)
  BY CommonDenominator
<1>2. PICK k \in Int, l \in Int, m \in Int, n \in Int :
        u = Reduced(k, d) /\ a = Reduced(l, d) /\ b = Reduced(m, d) /\ x = Reduced(n, d)
  BY <1>1 DEF Over
<1>3. u ++ x = Reduced(k + n, d) /\ k + n \in Int /\ u -- a = Reduced(k - l, d) /\ k - l \in Int
  <2>1. u ++ x = Reduced(k + n, d)
    BY <1>2, AddOver
  <2>2. u -- a = Reduced(k - l, d)
    BY <1>2, AddOver
  <2> QED  BY <2>1, <2>2
<1>4. (u ++ x) -- a = Reduced((k + n) - l, d) /\ (k + n) - l \in Int
  BY <1>2, <1>3, AddOver
<1>5. ((u ++ x) -- a) ++ b = Reduced(((k + n) - l) + m, d)
  BY <1>2, <1>4, AddOver
<1>6. (u -- a) ++ b = Reduced((k - l) + m, d) /\ (k - l) + m \in Int
  BY <1>2, <1>3, AddOver
<1>7. ((u -- a) ++ b) ++ x = Reduced(((k - l) + m) + n, d)
  BY <1>2, <1>6, AddOver
<1>8. ((u -- a) ++ b) -- u = Reduced(((k - l) + m) - k, d)
  BY <1>2, <1>6, AddOver
<1>9. b -- a = Reduced(m - l, d)
  BY <1>2, AddOver
<1>10. ((k + n) - l) + m = ((k - l) + m) + n /\ ((k - l) + m) - k = m - l
  OBVIOUS
<1> QED  BY <1>5, <1>7, <1>8, <1>9, <1>10

(* n events.                                                               *)
Events(es, n) == DOMAIN es = 1..n /\ \A i \in 1..n : Recorded(es[i])

(* The same but for the receipt the events begin with.                     *)
Alternative(es, fs, n) ==
    /\ Events(es, n) /\ Events(fs, n)
    /\ es[1].kind = "RECEIPT" /\ fs[1].kind = "RECEIPT"
    /\ \A i \in 2..n : fs[i] = es[i]

(* What an event does to the pool and to what is known.                    *)
LEMMA ForwardFields ==
  ASSUME NEW r, NEW e
  PROVE  /\ Forward(r, e).pool.meters = r.pool.meters + e.meters
         /\ Forward(r, e).pool.value = r.pool.value ++ Inflow(r.pool, e)
         /\ e.kind \in {"RECEIPT", "VALUE_IN", "VALUE_OUT"} =>
              Forward(r, e).known = r.known ++ Inflow(r.pool, e)
         /\ e.kind \notin {"RECEIPT", "VALUE_IN", "VALUE_OUT"} => Forward(r, e).known = r.known
BY DEF Forward

(* What a replay knows, and how many metres it comes to, differs by the    *)
(* receipts.                                                               *)
LEMMA Parallel ==
  ASSUME NEW n \in Nat \ {0}, NEW es, NEW fs, Alternative(es, fs, n), NEW from \in Pools
  PROVE  /\ Replay(from, fs).pool.meters = Replay(from, es).pool.meters + (fs[1].meters - es[1].meters)
         /\ Replay(from, fs).known -- Replay(from, es).known = fs[1].value -- es[1].value
<1>1. PICK u : ForwardSteps(u, from, es, n)
  <2>1. \A i \in 1..n : Recorded(es[i])
    BY DEF Alternative, Events
  <2>2. DOMAIN es = 1..n
    BY DEF Alternative, Events
  <2> QED  BY <2>1, <2>2, ReplayRun
<1>2. PICK v : ForwardSteps(v, from, fs, n)
  <2>1. \A i \in 1..n : Recorded(fs[i])
    BY DEF Alternative, Events
  <2>2. DOMAIN fs = 1..n
    BY DEF Alternative, Events
  <2> QED  BY <2>1, <2>2, ReplayRun
<1> DEFINE k == fs[1].meters - es[1].meters
           a == es[1].value
           b == fs[1].value
           same(i) == /\ v[i].pool.meters = u[i].pool.meters + k
                      /\ v[i].known = (u[i].known -- a) ++ b
           bad == {i \in 1..n : ~same(i)}
<1>3. Recorded(es[1]) /\ Recorded(fs[1]) /\ es[1].kind = "RECEIPT" /\ fs[1].kind = "RECEIPT"
  BY DEF Alternative, Events
<1>4. a \in Rationals /\ b \in Rationals /\ k \in Int /\ es[1].meters \in Int /\ fs[1].meters \in Int
  BY <1>3 DEF Recorded
<1>5. same(1)
  <2>1. u[1 - 1] = Start(from) /\ v[1 - 1] = Start(from) /\ u[1 - 1] \in Replays /\ v[1 - 1] \in Replays
        /\ u[1] = Forward(u[1 - 1], es[1]) /\ v[1] = Forward(v[1 - 1], fs[1])
    BY <1>1, <1>2 DEF ForwardSteps
  <2>2. /\ u[1].pool.meters = from.meters + es[1].meters
        /\ v[1].pool.meters = from.meters + fs[1].meters
        /\ u[1].known = Nothing ++ a /\ v[1].known = Nothing ++ b
    <3>1. /\ Start(from).pool = from /\ Start(from).known = Nothing
          /\ Inflow(from, es[1]) = a /\ Inflow(from, fs[1]) = b
      BY <1>3 DEF Start, Inflow
    <3>2. /\ Forward(Start(from), es[1]).pool.meters = from.meters + es[1].meters
          /\ Forward(Start(from), es[1]).known = Nothing ++ a
      BY <1>3, <3>1, ForwardFields
    <3>3. /\ Forward(Start(from), fs[1]).pool.meters = from.meters + fs[1].meters
          /\ Forward(Start(from), fs[1]).known = Nothing ++ b
      BY <1>3, <3>1, ForwardFields
    <3> QED  BY <2>1, <3>2, <3>3
  <2>3. (Nothing ++ a) -- a = Nothing
    BY <1>4, NothingType, AddBack
  <2>4. from.meters \in Int
    BY DEF Pools
  <2> QED  BY <1>4, <2>2, <2>3, <2>4
<1>6. ASSUME bad # {} PROVE FALSE
  <2>1. PICK i \in bad : \A j \in bad : i <= j
    <3>1. bad \subseteq Nat
      OBVIOUS
    <3> HIDE DEF bad
    <3> QED  BY <1>6, <3>1, SmallestNumber
  <2>2. i \in 2..n /\ i - 1 \in 1..n /\ same(i - 1) /\ ~same(i)
    <3> HIDE DEF same
    <3> QED  BY <2>1, <1>5
  <2>3. /\ u[i - 1] \in Replays /\ v[i - 1] \in Replays /\ fs[i] = es[i] /\ Recorded(es[i])
        /\ u[i] = Forward(u[i - 1], es[i]) /\ v[i] = Forward(v[i - 1], es[i])
    BY <1>1, <1>2, <2>2 DEF ForwardSteps, Alternative, Events
  <2> DEFINE e == es[i]
             p == u[i - 1]
             q == v[i - 1]
  <2>4. /\ p.known \in Rationals /\ q.known \in Rationals /\ e.value \in Rationals
        /\ p.pool.meters \in Int /\ q.pool.meters \in Int /\ e.meters \in Int
        /\ p \in Replays /\ q \in Replays /\ Recorded(e) /\ u[i] = Forward(p, e) /\ v[i] = Forward(q, e)
        /\ q.pool.meters = p.pool.meters + k /\ q.known = (p.known -- a) ++ b
    BY <2>2, <2>3 DEF Replays, Pools, Recorded
  <2> HIDE DEF e, p, q, k, a, b
  <2>5. u[i].pool.meters = p.pool.meters + e.meters /\ v[i].pool.meters = q.pool.meters + e.meters
    BY <2>4, ForwardFields
  <2>6. v[i].known = (u[i].known -- a) ++ b
    <3>1. CASE e.kind \in {"RECEIPT", "VALUE_IN", "VALUE_OUT"}
      <4>1. PICK x \in Rationals : Inflow(p.pool, e) = x /\ Inflow(q.pool, e) = x
        <5>1. Nothing -- e.value \in Rationals
          BY <2>4, NothingType, AddType
        <5> QED  BY <2>4, <3>1, <5>1 DEF Inflow
      <4>2. u[i].known = p.known ++ x /\ v[i].known = q.known ++ x
        BY <2>4, <3>1, <4>1, ForwardFields
      <4>3. ((p.known ++ x) -- a) ++ b = ((p.known -- a) ++ b) ++ x
        BY <1>4, <2>4, <4>1, AddLater
      <4> QED  BY <2>4, <4>2, <4>3
    <3>2. CASE e.kind \notin {"RECEIPT", "VALUE_IN", "VALUE_OUT"}
      <4>1. u[i].known = p.known /\ v[i].known = q.known
        BY <2>4, <3>2, ForwardFields
      <4> QED  BY <2>4, <4>1
    <3> QED  BY <3>1, <3>2
  <2> QED  BY <1>4, <2>2, <2>4, <2>5, <2>6
<1>7. same(n)
  BY <1>6
<1>8. /\ u[n] = Replay(from, es) /\ v[n] = Replay(from, fs) /\ u[n].known \in Rationals
  BY <1>1, <1>2 DEF ForwardSteps, Replays
<1> HIDE DEF k, a, b
<1>9. ((u[n].known -- a) ++ b) -- u[n].known = b -- a
  BY <1>4, <1>8, AddLater
<1> QED  BY <1>7, <1>8, <1>9 DEF k, a, b

(* What a comparison says of the pool it ends with: so many metres and so  *)
(* much value more has come in.                                            *)
Tells(c, present, metres, value) ==
    /\ c.ending \in Pools /\ c.knownDelta \in Rationals /\ c.cogsDelta \in Rationals
    /\ c.movedDelta \in Rationals /\ c.endingDelta \in Rationals
    /\ c.ending.meters = present.meters + metres /\ c.ending.meters >= 0
    /\ ~Negative(c.ending.value)
    /\ c.knownDelta = value
    /\ c.endingDelta = c.ending.value -- present.value

(* The replay of an alternative: it ends with the metres and the value     *)
(* that has come in more, and with a pool no replay can put below zero.    *)
LEMMA ComparisonTells ==
  ASSUME NEW n \in Nat \ {0}, NEW es, NEW fs, Alternative(es, fs, n),
         \A i \in 1..n : Bought(es[i]) /\ Bought(fs[i]),
         NEW present \in Pools, Compare(present, es, fs).established
  PROVE  Tells(Compare(present, es, fs), present, fs[1].meters - es[1].meters, fs[1].value -- es[1].value)
<1> DEFINE anchor == Rewind(present, es)
           was    == Replay(anchor.pool, es)
           would  == Replay(anchor.pool, fs)
           c      == Compare(present, es, fs)
<1>1. /\ DOMAIN es = 1..n /\ DOMAIN fs = 1..n
      /\ \A i \in 1..n : Recorded(es[i]) /\ Recorded(fs[i])
  BY DEF Alternative, Events
<1>2. /\ c.ending = would.pool
      /\ c.knownDelta = would.known -- was.known
      /\ c.cogsDelta = would.issued -- was.issued
      /\ c.movedDelta = would.moved -- was.moved
      /\ c.endingDelta = would.pool.value -- was.pool.value
      /\ c.established = (anchor.safe /\ was.safe /\ would.safe /\ was.pool = present)
  BY DEF Compare
<1>3. c.established
  OBVIOUS
<1>4. anchor.safe /\ was.safe /\ would.safe /\ was.pool = present
  <2> HIDE DEF c, anchor, was, would
  <2> QED  BY <1>2, <1>3, Zenon
<1>5. anchor.pool \in Pools
  BY <1>1, RewindType
<1>6. anchor.pool.meters >= 0 /\ ~Negative(anchor.pool.value)
  BY <1>1, <1>4, RewindSigned
<1> DEFINE start == anchor.pool
<1>7. /\ start \in Pools /\ start.meters >= 0 /\ ~Negative(start.value)
      /\ was = Replay(start, es) /\ would = Replay(start, fs)
  BY <1>5, <1>6
<1> HIDE DEF start
<1>8. was \in Replays /\ would \in Replays
  BY <1>1, <1>7, ReplayType
<1>9. would.pool.meters >= 0 /\ ~Negative(would.pool.value)
  BY <1>1, <1>4, <1>7, ReplaySigned
<1>10. /\ would.pool.meters = was.pool.meters + (fs[1].meters - es[1].meters)
       /\ would.known -- was.known = fs[1].value -- es[1].value
  BY <1>7, Parallel
<1> HIDE DEF anchor, was, would, c
<1>11. /\ c.ending \in Pools /\ c.knownDelta \in Rationals /\ c.cogsDelta \in Rationals
       /\ c.movedDelta \in Rationals /\ c.endingDelta \in Rationals
  <2>1. /\ would.pool \in Pools /\ would.pool.value \in Rationals /\ was.pool.value \in Rationals
        /\ would.known \in Rationals /\ was.known \in Rationals /\ would.issued \in Rationals
        /\ was.issued \in Rationals /\ would.moved \in Rationals /\ was.moved \in Rationals
    BY <1>8 DEF Replays, Pools
  <2> QED  BY <1>2, <2>1, AddType
<1>12. Tells(c, present, fs[1].meters - es[1].meters, fs[1].value -- es[1].value)
  BY <1>2, <1>4, <1>9, <1>10, <1>11 DEF Tells
<1> QED  BY <1>12 DEF c

-----------------------------------------------------------------------------
(* Revisions: what is on hand.                                             *)

(* Movements of whole metres.                                              *)
Metres(ms) == \A i \in DOMAIN ms : ms[i].meters \in Int

(* What is on hand, after each movement.                                   *)
LEMMA StockStepsExist ==
  ASSUME NEW S, NEW ms \in Seq(S), Metres(ms), NEW base \in Int
  PROVE  \E r : StockSteps(r, base, ms, Len(ms))
<1>1. DOMAIN ms = 1..Len(ms) /\ Len(ms) \in Nat
  OBVIOUS
<1>2. \A i \in 1..Len(ms) : ms[i].meters \in Int
  BY <1>1 DEF Metres
<1>3. Stockable(base, ms, Len(ms))
  BY <1>1, <1>2 DEF Stockable
<1> QED  BY <1>3, StockRun

(* Movements after movements.                                              *)
LEMMA StockAppend ==
  ASSUME NEW S, NEW s \in Seq(S), NEW t \in Seq(S), Metres(s), Metres(t), NEW base \in Int
  PROVE  /\ FoldLeft(Moved, base, s) \in Int
         /\ FoldLeft(Moved, base, s \o t) = FoldLeft(Moved, FoldLeft(Moved, base, s), t)
<1> DEFINE m == Len(s)
           n == Len(t)
<1>1. m \in Nat /\ n \in Nat /\ s \o t \in Seq(S) /\ Len(s \o t) = m + n
  OBVIOUS
<1>2. /\ \A i \in 1..m : (s \o t)[i] = s[i]
      /\ \A i \in 1..n : (s \o t)[m + i] = t[i]
  OBVIOUS
<1>3. Metres(s \o t)
  <2>1. ASSUME NEW i \in 1..(m + n) PROVE (s \o t)[i].meters \in Int
    <3>1. CASE i \in 1..m
      BY <1>2, <3>1 DEF Metres
    <3>2. CASE i \notin 1..m
      <4>1. i - m \in 1..n /\ i = m + (i - m)
        BY <1>1, <3>2
      <4>2. (s \o t)[i] = t[i - m]
        BY <1>2, <4>1
      <4> QED  BY <4>1, <4>2 DEF Metres
    <3> QED  BY <3>1, <3>2
  <2> QED  BY <1>1, <2>1 DEF Metres
<1>4. PICK a : StockSteps(a, base, s, m)
  BY StockStepsExist
<1>5. FoldLeft(Moved, base, s) = a[m] /\ a[m] \in Int
  BY <1>1, <1>4 DEF StockSteps
<1>6. PICK b : StockSteps(b, a[m], t, n)
  BY <1>5, StockStepsExist
<1>7. PICK c : StockSteps(c, base, s \o t, m + n)
  BY <1>1, <1>3, StockStepsExist
<1> DEFINE all == s \o t
<1>8. /\ c[0] = base /\ c[m + n] = FoldLeft(Moved, base, all)
      /\ \A i \in 1..(m + n) : c[i] = Moved(c[i - 1], all[i])
  BY <1>7 DEF StockSteps
<1>9. /\ a[0] = base /\ \A i \in 1..m : a[i] = Moved(a[i - 1], s[i])
      /\ b[0] = a[m] /\ b[n] = FoldLeft(Moved, a[m], t)
      /\ \A i \in 1..n : b[i] = Moved(b[i - 1], t[i])
  BY <1>4, <1>6 DEF StockSteps
<1>10. /\ \A i \in 1..m : all[i] = s[i]
       /\ \A i \in 1..n : all[m + i] = t[i]
  BY <1>2
<1> HIDE DEF m, n, all
<1>11. c[m] = a[m]
  <2> DEFINE bad == {i \in 0..m : c[i] # a[i]}
  <2>1. ASSUME bad # {} PROVE FALSE
    <3>1. PICK i \in bad : \A j \in bad : i <= j
      <4>1. bad \subseteq Nat
        BY <1>1
      <4> HIDE DEF bad
      <4> QED  BY <2>1, <4>1, SmallestNumber
    <3>2. i \in 1..m /\ i \in 1..(m + n) /\ i - 1 \in 0..m /\ c[i - 1] = a[i - 1]
      BY <1>1, <1>8, <1>9, <3>1
    <3>3. c[i] = a[i]
      BY <1>8, <1>9, <1>10, <3>2
    <3> QED  BY <3>1, <3>3
  <2> QED  BY <1>1, <2>1
<1>12. c[m + n] = b[n]
  <2> DEFINE bad == {i \in 0..n : c[m + i] # b[i]}
  <2>1. ASSUME bad # {} PROVE FALSE
    <3>1. PICK i \in bad : \A j \in bad : i <= j
      <4>1. bad \subseteq Nat
        BY <1>1
      <4> HIDE DEF bad
      <4> QED  BY <2>1, <4>1, SmallestNumber
    <3>2. i # 0
      BY <1>1, <1>9, <1>11, <3>1
    <3>3. /\ i \in 1..n /\ m + i \in 1..(m + n) /\ i - 1 \in 0..n /\ (m + i) - 1 = m + (i - 1)
      BY <1>1, <3>1, <3>2
    <3>4. c[m + (i - 1)] = b[i - 1]
      <4>1. i - 1 \notin bad
        BY <3>1, <3>3
      <4> QED  BY <3>3, <4>1
    <3>5. c[m + i] = Moved(c[(m + i) - 1], all[m + i])
      BY <1>8, <3>3
    <3>6. c[m + i] = b[i]
      BY <1>9, <1>10, <3>3, <3>4, <3>5
    <3> QED  BY <3>1, <3>6
  <2> QED  BY <1>1, <2>1
<1> QED  BY <1>5, <1>8, <1>9, <1>12 DEF all

(* One movement,                                                           *)
LEMMA StockOne ==
  ASSUME NEW base \in Int, NEW m, m.meters \in Int
  PROVE  FoldLeft(Moved, base, <<m>>) = base + m.meters
<1> DEFINE ms == <<m>>
<1>1. ms \in Seq({m}) /\ Metres(ms) /\ Len(ms) = 1 /\ ms[1] = m
  BY DEF Metres
<1>2. FoldLeft(Moved, base, ms) = FoldLeft(Moved, base, <<m>>)
  OBVIOUS
<1> HIDE DEF ms
<1>3. PICK r : StockSteps(r, base, ms, Len(ms))
  BY <1>1, StockStepsExist
<1>4. /\ r[0] = base /\ r[1] = FoldLeft(Moved, base, ms)
      /\ \A i \in 1..Len(ms) : r[i] = Moved(r[i - 1], ms[i])
  BY <1>1, <1>3 DEF StockSteps
<1>5. r[1] = Moved(base, m)
  <2>1. \A i \in 1..Len(ms) : i = 1 => r[i] = Moved(r[0], ms[i])
    BY <1>1, <1>4
  <2>2. 1 \in 1..Len(ms)
    BY <1>1
  <2>3. r[1] = Moved(r[0], ms[1])
    BY <2>1, <2>2
  <2> QED  BY <1>1, <1>4, <2>3
<1> QED  BY <1>2, <1>4, <1>5 DEF Moved

(* two,                                                                    *)
LEMMA StockTwo ==
  ASSUME NEW base \in Int, NEW m, NEW k, m.meters \in Int, k.meters \in Int
  PROVE  FoldLeft(Moved, base, <<m, k>>) = base + m.meters + k.meters
<1> DEFINE ms == <<m, k>>
<1>1. ms \in Seq({m, k}) /\ Metres(ms) /\ Len(ms) = 2 /\ ms[1] = m /\ ms[2] = k
  BY DEF Metres
<1>2. FoldLeft(Moved, base, ms) = FoldLeft(Moved, base, <<m, k>>)
  OBVIOUS
<1> HIDE DEF ms
<1>3. PICK r : StockSteps(r, base, ms, Len(ms))
  BY <1>1, StockStepsExist
<1>4. /\ r[0] = base /\ r[2] = FoldLeft(Moved, base, ms)
      /\ \A i \in 1..Len(ms) : r[i] = Moved(r[i - 1], ms[i])
  BY <1>1, <1>3 DEF StockSteps
<1>5. r[1] = Moved(base, m)
  <2>1. \A i \in 1..Len(ms) : i = 1 => r[i] = Moved(r[0], ms[i])
    BY <1>1, <1>4
  <2>2. 1 \in 1..Len(ms)
    BY <1>1
  <2>3. r[1] = Moved(r[0], ms[1])
    BY <2>1, <2>2
  <2> QED  BY <1>1, <1>4, <2>3
<1>6. r[2] = Moved(r[1], k)
  <2>1. \A i \in 1..Len(ms) : i = 2 => r[i] = Moved(r[1], ms[i])
    BY <1>1, <1>4
  <2>2. 2 \in 1..Len(ms)
    BY <1>1
  <2>3. r[2] = Moved(r[1], ms[2])
    BY <2>1, <2>2
  <2> QED  BY <1>1, <2>3
<1> QED  BY <1>2, <1>4, <1>5, <1>6 DEF Moved

(* and none.                                                               *)
LEMMA StockNone == ASSUME NEW base \in Int PROVE FoldLeft(Moved, base, <<>>) = base
<1> DEFINE ms == <<>>
<1>1. ms \in Seq({}) /\ Metres(ms) /\ Len(ms) = 0
  BY DEF Metres
<1>2. FoldLeft(Moved, base, ms) = FoldLeft(Moved, base, <<>>)
  OBVIOUS
<1> HIDE DEF ms
<1>3. PICK r : StockSteps(r, base, ms, Len(ms))
  BY <1>1, StockStepsExist
<1> QED  BY <1>1, <1>2, <1>3 DEF StockSteps

-----------------------------------------------------------------------------
(* Revisions: the inductive invariant.                                     *)

(* Movements by what they are for.                                         *)
Kinds == {"receipt", "sale", "sale_return", "count", "cancellation",
          "revised_receipt", "revised_sale", "undone"}

(* What has no negative worth.                                             *)
Worths    == {x \in Rationals : ~Negative(x)}
(* What a movement holds.                                                  *)
Movements == [kind : Kinds, of : Documents \cup {NoOne}, meters : Int, value : Worths]
(* What an invoice holds.                                                  *)
Rows      == [status : {"NONE", "CONFIRMED", "CANCELLED"}, meters : Nat, worth : Worths,
              revision : 1..MaxRevision, returned : Nat]
(* The line a revision asks for.                                           *)
Bodies    == [meters : Nat \ {0}, worth : Worths]
(* What an entry holds.                                                    *)
Entries   == [status : {"NONE", "POSTED", "REVERSED"}, amount : Rationals]

(* The pool has its type,                                                  *)
PoolTyped  == stock \in Nat /\ average \in Worths /\ movements \in Seq(Movements)
(* its movements add up to what is on hand,                                *)
StockFits  == stock = FoldLeft(Moved, 0, movements)
(* and the invoices,                                                       *)
RowsTyped  == document \in [Documents -> Rows]
(* the journal                                                             *)
BookTyped  == entries \in [Documents -> [1..MaxRevision -> Entries]] /\ ledger \in Rationals
(* and the handlers have theirs.                                           *)
LocksTyped ==
    /\ lock \in [Documents -> Handlers \cup {NoOne}]
    /\ job = [c \in Handlers |-> job[c]]
    /\ requests \in 0..RequestLimit

(* An invoice has not more returned than it is of, and is of something.    *)
RowsFit ==
    \A d \in Documents :
       /\ document[d].returned <= document[d].meters
       /\ document[d].status # "NONE" => document[d].meters > 0

(* The movements of confirmations are of invoices that have been confirmed. *)
KindsFit ==
    \A i \in 1..Len(movements) :
       /\ movements[i].kind = "receipt" =>
            /\ movements[i].of \in Purchases /\ document[movements[i].of].status # "NONE"
            /\ movements[i].meters > 0
       /\ movements[i].kind = "sale" =>
            movements[i].of \in Sales /\ document[movements[i].of].status # "NONE"

(* The movement of the confirmation of d.                                  *)
First(d, m) == m.kind \in {"receipt", "sale"} /\ m.of = d

(* Every invoice that has been confirmed has one of them.                  *)
FirstsFit ==
    \A d \in Documents :
       document[d].status # "NONE" =>
         \E i \in 1..Len(movements) :
            /\ First(d, movements[i])
            /\ \A j \in 1..Len(movements) : First(d, movements[j]) => j = i

(* Every movement can be valued.                                           *)
LEMMA ClassifiedBought ==
  ASSUME RowsTyped, RowsFit, KindsFit, PoolTyped, NEW i \in 1..Len(movements)
  PROVE  /\ Bought(Classified(movements[i]))
         /\ Classified(movements[i]).meters = movements[i].meters
         /\ movements[i].kind = "receipt" =>
              /\ Classified(movements[i]).kind = "RECEIPT"
              /\ Classified(movements[i]).value = UnitCost(document[movements[i].of]) ** movements[i].meters
<1> DEFINE m == movements[i]
           e == Classified(m)
<1>1. m \in Movements
  BY DEF PoolTyped
<1>2. m.meters \in Int /\ m.value \in Rationals /\ ~Negative(m.value) /\ m.kind \in Kinds
  BY <1>1 DEF Movements, Worths
<1>3. ASSUME NEW d \in Documents, document[d].status # "NONE"
      PROVE  UnitCost(document[d]) \in Rationals /\ ~Negative(UnitCost(document[d]))
  <2>1. /\ document[d].meters \in Nat /\ document[d].meters \in Nat \ {0} /\ document[d].meters # 0
        /\ document[d].worth \in Rationals /\ ~Negative(document[d].worth)
    BY <1>3 DEF RowsTyped, RowsFit, Rows, Worths
  <2> QED  BY <2>1, PartType, SignTimes DEF UnitCost
<1>4. CASE m.kind = "receipt"
  <2>1. e = [kind |-> "RECEIPT", meters |-> m.meters, value |-> UnitCost(document[m.of]) ** m.meters, rate |-> NoRate]
    BY <1>4 DEF Classified
  <2>2. m.of \in Documents /\ document[m.of].status # "NONE" /\ m.meters \in Nat
    BY <1>2, <1>4 DEF KindsFit, Documents
  <2>3. UnitCost(document[m.of]) ** m.meters \in Rationals /\ ~Negative(UnitCost(document[m.of]) ** m.meters)
    BY <1>3, <2>2, TimesType, SignTimes
  <2> HIDE DEF m, e
  <2>4. Bought(e)
    BY <1>2, <2>1, <2>3 DEF Bought, Recorded
  <2> QED  BY <1>4, <2>1, <2>4 DEF m, e
<1>5. CASE m.kind = "sale"
  <2>1. e = [kind |-> "ISSUE", meters |-> m.meters, value |-> Nothing, rate |-> UnitCost(document[m.of])]
    BY <1>5 DEF Classified
  <2>2. UnitCost(document[m.of]) \in Rationals
    BY <1>3, <1>5 DEF KindsFit, Documents
  <2> HIDE DEF m, e
  <2>3. Bought(e)
    BY <1>2, <2>1, <2>2, NothingType DEF Bought, Recorded
  <2> QED  BY <1>5, <2>1, <2>3 DEF m, e
<1>6. CASE m.kind = "sale_return"
  <2>1. e = [kind |-> "VALUE_IN", meters |-> m.meters, value |-> m.value, rate |-> NoRate]
    BY <1>6 DEF Classified
  <2> HIDE DEF m, e
  <2>3. Bought(e)
    BY <1>2, <2>1 DEF Bought, Recorded
  <2> QED  BY <1>6, <2>1, <2>3 DEF m, e
<1>7. CASE m.kind \notin {"receipt", "sale", "sale_return"}
  <2>1. e \in {[kind |-> k, meters |-> m.meters, value |-> Nothing, rate |-> NoRate] : k \in {"ISSUE", "QUANTITY_ONLY"}}
    BY <1>7 DEF Classified
  <2> HIDE DEF m, e
  <2>2. /\ e.meters = m.meters /\ e.value = Nothing /\ e.rate = NoRate
        /\ e.kind # "VALUE_OUT" /\ e.kind \notin {"RECEIPT", "VALUE_IN"}
    BY <2>1
  <2>3. Bought(e)
    BY <1>2, <2>2, NothingType DEF Bought, Recorded
  <2> QED  BY <1>7, <2>2, <2>3 DEF m, e
<1> QED  BY <1>4, <1>5, <1>6, <1>7

(* The calculation of a revision.                                          *)
LEMMA RevisionCalculated ==
  ASSUME RowsTyped, RowsFit, KindsFit, FirstsFit, PoolTyped,
         NEW d \in Purchases, document[d].status # "NONE", NEW body \in Bodies,
         ForPurchaseRevision(d, body).established
  PROVE  \E n \in Int : Tells(ForPurchaseRevision(d, body), Present, body.meters - n,
                              body.worth -- (UnitCost(document[d]) ** n))
<1> DEFINE N == Len(movements)
           k == CHOOSE i \in DOMAIN movements : OwnReceipt(d, movements[i])
<1>1. N \in Nat /\ DOMAIN movements = 1..N /\ movements \in Seq(Movements)
  BY DEF PoolTyped
<1>2. d \in Documents /\ d \notin Sales
  BY RevisionAssumption DEF Documents
<1>3. \E i \in 1..N : OwnReceipt(d, movements[i])
  <2>1. PICK i \in 1..N : First(d, movements[i])
    BY <1>2 DEF FirstsFit
  <2>2. movements[i].kind # "sale"
    BY <1>2, <2>1 DEF KindsFit, First
  <2> QED  BY <2>1, <2>2 DEF First, OwnReceipt
<1>4. k \in 1..N /\ OwnReceipt(d, movements[k])
  BY <1>1, <1>3
<1>5. \A i \in 1..N : OwnReceipt(d, movements[i]) => i = k
  BY <1>2, <1>4 DEF FirstsFit, First, OwnReceipt
<1> DEFINE w == Window(d)
           n == N - k + 1
<1>6. w = SubSeq(movements, k, N)
  BY DEF Window
<1> HIDE DEF k, N
<1>7. Len(w) = n /\ n \in Nat \ {0} /\ DOMAIN w = 1..n
  BY <1>1, <1>4, <1>6
<1>8. \A i \in 1..n : w[i] = movements[k + i - 1] /\ k + i - 1 \in 1..N
  BY <1>1, <1>4, <1>6
<1> HIDE DEF w, n
<1> DEFINE es == [i \in DOMAIN w |-> Classified(w[i])]
           fs == Substituted(d, body, w)
           other == [kind |-> "RECEIPT", meters |-> body.meters, value |-> body.worth, rate |-> NoRate]
<1>9. DOMAIN es = 1..n /\ DOMAIN fs = 1..n /\ \A i \in 1..n : es[i] = Classified(w[i])
  BY <1>7 DEF Substituted
<1>10. 1 \in 1..n /\ w[1] = movements[k] /\ \A i \in 2..n : i \in 1..n /\ ~OwnReceipt(d, w[i])
  <2>1. \A i \in 2..n : i \in 1..n /\ k + i - 1 # k
    BY <1>1, <1>4, <1>7
  <2>2. \A i \in 2..n : ~OwnReceipt(d, w[i])
    BY <2>1, <1>5, <1>8
  <2>3. 1 \in 1..n /\ k + 1 - 1 = k
    BY <1>1, <1>4, <1>7
  <2> QED  BY <2>1, <2>2, <2>3, <1>8
<1>11. fs[1] = other /\ \A i \in 2..n : fs[i] = es[i]
  BY <1>4, <1>7, <1>9, <1>10 DEF Substituted
<1>12. Bought(other) /\ other.kind = "RECEIPT" /\ other.meters = body.meters /\ other.value = body.worth
  BY DEF Bodies, Worths, Bought, Recorded
<1>13. \A i \in 1..n : Bought(es[i])
  <2>1. ASSUME NEW i \in 1..n PROVE Bought(Classified(w[i]))
    BY <1>8, ClassifiedBought DEF N
  <2> QED  BY <1>9, <2>1
<1>14. /\ es[1].kind = "RECEIPT" /\ es[1].meters = movements[k].meters
       /\ es[1].value = UnitCost(document[d]) ** movements[k].meters
  BY <1>4, <1>9, <1>10, ClassifiedBought DEF OwnReceipt, N
<1> HIDE DEF es, fs, other
<1>15. \A i \in 1..n : Bought(es[i]) /\ Bought(fs[i])
  <2>1. \A i \in 1..n : i = 1 \/ i \in 2..n
    BY <1>7
  <2> QED  BY <2>1, <1>11, <1>12, <1>13
<1>16. Alternative(es, fs, n)
  BY <1>9, <1>11, <1>12, <1>14, <1>15 DEF Alternative, Events, Bought
<1>17. Present \in Pools
  BY TimesType DEF Present, Pools, PoolTyped, Worths
<1>18. ForPurchaseRevision(d, body) = Compare(Present, es, fs)
  BY DEF ForPurchaseRevision, es, fs, w
<1>19. Tells(Compare(Present, es, fs), Present, fs[1].meters - es[1].meters, fs[1].value -- es[1].value)
  BY <1>7, <1>15, <1>16, <1>17, <1>18, ComparisonTells
<1>20. movements[k].meters \in Int
  <2>1. movements[k] \in Movements
    BY <1>1, <1>4 DEF N
  <2> QED  BY <2>1 DEF Movements
<1> QED  BY <1>11, <1>12, <1>14, <1>18, <1>19, <1>20

(* What a handler knows of a calculation: a pool it has read, and a        *)
(* comparison that tells what revising `row` to its body changes.          *)
Calculated(j, row) ==
    /\ j.read[1] \in Nat /\ j.read[2] \in Worths
    /\ Conserves(j.comparison)
    /\ \E n \in Int : Tells(j.comparison, [meters |-> j.read[1], value |-> j.read[2] ** j.read[1]],
                            j.body.meters - n, j.body.worth -- (UnitCost(row) ** n))

(* A handler that has calculated holds an invoice that is still            *)
(* confirmed, and has less returned than the body asks for.                *)
JobFits(c) ==
    job[c] # NoJob =>
      /\ job[c].of \in Documents /\ lock[job[c].of] = c
      /\ document[job[c].of].status = "CONFIRMED" /\ document[job[c].of].revision < MaxRevision
      /\ job[c].body \in Bodies /\ document[job[c].of].returned <= job[c].body.meters
      /\ job[c].of \in Purchases => Calculated(job[c], document[job[c].of])

(* All of them,                                                            *)
JobsFit  == \A c \in Handlers : JobFits(c)
(* and every invoice is held by the handler that revises it.               *)
LocksFit == \A d \in Documents : lock[d] # NoOne => job[lock[d]].of = d

(* The inductive invariant.                                                *)
RevisionInv ==
    /\ PoolTyped /\ StockFits /\ RowsTyped /\ RowsFit /\ KindsFit /\ FirstsFit
    /\ BookTyped /\ EntryInForce
    /\ LocksTyped /\ LocksFit /\ JobsFit

(* Movements keep what is on hand.                                         *)
LEMMA MoveKeeps ==
  ASSUME PoolTyped, StockFits, NEW moves \in Seq(Movements), Move(moves)
  PROVE  /\ stock' \in Nat /\ movements' \in Seq(Movements) /\ StockFits'
         /\ movements' = movements \o moves /\ stock' = FoldLeft(Moved, stock, moves)
<1>1. ASSUME NEW s \in Seq(Movements) PROVE Metres(s)
  <2>1. \A i \in DOMAIN s : s[i] \in Movements
    OBVIOUS
  <2> QED  BY <2>1 DEF Metres, Movements
<1>2. /\ movements \in Seq(Movements) /\ stock \in Int /\ stock = FoldLeft(Moved, 0, movements)
      /\ stock' = FoldLeft(Moved, stock, moves) /\ stock' >= 0
      /\ movements' = movements \o moves
  BY DEF PoolTyped, StockFits, Move
<1>3. FoldLeft(Moved, 0, movements \o moves) = FoldLeft(Moved, FoldLeft(Moved, 0, movements), moves)
  <2> DEFINE zero == 0
  <2>1. zero \in Int
    OBVIOUS
  <2> HIDE DEF zero
  <2>2. FoldLeft(Moved, zero, movements \o moves) = FoldLeft(Moved, FoldLeft(Moved, zero, movements), moves)
    BY <1>1, <1>2, <2>1, StockAppend
  <2> QED  BY <2>2 DEF zero
<1>4. FoldLeft(Moved, stock, moves) \in Int
  BY <1>1, <1>2, StockAppend
<1> QED  BY <1>2, <1>3, <1>4 DEF StockFits

(* A new average is not negative.                                          *)
LEMMA RepriceKeeps ==
  ASSUME stock' \in Nat, NEW value \in Rationals, ~Negative(value), Reprice(value)
  PROVE  average' \in Worths
<1> DEFINE p == [meters |-> stock', value |-> value]
<1>1. p \in Pools /\ ~Negative(p.value) /\ average' = Rate(p)
  BY DEF Pools, Reprice
<1> HIDE DEF p
<1> QED  BY <1>1, RateType, RateSigned DEF Worths

(* What the pool is worth.                                                 *)
LEMMA PresentWorth ==
  ASSUME PoolTyped
  PROVE  Present \in Pools /\ Present.value \in Worths /\ Present.value = average ** stock
<1>1. average \in Rationals /\ ~Negative(average) /\ stock \in Nat /\ stock \in Int
  BY DEF PoolTyped, Worths
<1>2. average ** stock \in Rationals /\ ~Negative(average ** stock)
  BY <1>1, TimesType, SignTimes
<1> QED  BY <1>1, <1>2 DEF Present, Pools, Worths

(* Worths add up and multiply.                                             *)
LEMMA WorthsAdd ==
  ASSUME NEW x \in Worths, NEW y \in Worths, NEW n \in Nat
  PROVE  x ++ y \in Worths /\ x ** n \in Worths
<1>1. x \in Rationals /\ ~Negative(x) /\ y \in Rationals /\ ~Negative(y) /\ n \in Int
  BY DEF Worths
<1>2. x ++ y \in Rationals /\ x ** n \in Rationals
  BY <1>1, AddType, TimesType
<1>3. ~Negative(x ++ y)
  BY <1>1, SignAdd
<1>4. ~Negative(x ** n)
  BY <1>1, SignTimes
<1> QED  BY <1>2, <1>3, <1>4 DEF Worths

(* Movements that are not of a confirmation leave the confirmations where  *)
(* they were.                                                              *)
LEMMA FirstsKept ==
  ASSUME PoolTyped, KindsFit, FirstsFit,
         NEW moves \in Seq(Movements), movements' = movements \o moves,
         \A i \in 1..Len(moves) : moves[i].kind \notin {"receipt", "sale"},
         \A d \in Documents : document'[d].status = "NONE" <=> document[d].status = "NONE"
  PROVE  KindsFit' /\ FirstsFit'
<1> DEFINE m == Len(movements)
           n == Len(moves)
           all == movements \o moves
<1>1. m \in Nat /\ n \in Nat /\ Len(all) = m + n /\ movements' = all
  BY DEF PoolTyped
<1>2. /\ \A i \in 1..m : all[i] = movements[i]
      /\ \A i \in 1..n : all[m + i] = moves[i]
  BY DEF PoolTyped
<1>3. ASSUME NEW i \in 1..(m + n), all[i].kind \in {"receipt", "sale"} PROVE i \in 1..m
  <2>1. CASE i \notin 1..m
    <3>1. i - m \in 1..n /\ m + (i - m) = i
      BY <1>1, <2>1
    <3>2. all[i] = moves[i - m]
      BY <1>2, <3>1
    <3> QED  BY <1>3, <3>1, <3>2
  <2> QED  BY <2>1
<1>4. \A i \in 1..m : i \in 1..(m + n)
  BY <1>1
<1> HIDE DEF all, n
<1>5. KindsFit'
  <2> SUFFICES ASSUME NEW i \in 1..(m + n), all[i].kind \in {"receipt", "sale"}
               PROVE  /\ all[i].kind = "receipt" =>
                           /\ all[i].of \in Purchases /\ document'[all[i].of].status # "NONE"
                           /\ all[i].meters > 0
                      /\ all[i].kind = "sale" =>
                           all[i].of \in Sales /\ document'[all[i].of].status # "NONE"
    BY <1>1 DEF KindsFit
  <2>1. i \in 1..m /\ all[i] = movements[i]
    BY <1>2, <1>3
  <2> HIDE DEF m
  <2> QED  BY <2>1 DEF KindsFit, Documents, m
<1>6. FirstsFit'
  <2> SUFFICES ASSUME NEW d \in Documents, document'[d].status # "NONE"
               PROVE  \E i \in 1..(m + n) : First(d, all[i]) /\ \A j \in 1..(m + n) : First(d, all[j]) => j = i
    BY <1>1 DEF FirstsFit
  <2>1. PICK i \in 1..m : First(d, movements[i]) /\ \A j \in 1..m : First(d, movements[j]) => j = i
    BY DEF FirstsFit
  <2>2. i \in 1..(m + n) /\ First(d, all[i])
    BY <1>2, <1>4, <2>1
  <2>3. ASSUME NEW j \in 1..(m + n), First(d, all[j]) PROVE j = i
    <3>1. j \in 1..m
      BY <1>3, <2>3 DEF First
    <3> QED  BY <1>2, <2>1, <2>3, <3>1
  <2> QED  BY <2>2, <2>3
<1> QED  BY <1>5, <1>6

(* A confirmation enters the first movement of its invoice.                *)
LEMMA FirstEntered ==
  ASSUME PoolTyped, KindsFit, FirstsFit, NEW d \in Documents, document[d].status = "NONE",
         NEW m \in Movements, movements' = movements \o <<m>>,
         \/ d \in Purchases /\ m.kind = "receipt" /\ m.meters > 0
         \/ d \in Sales /\ m.kind = "sale",
         m.of = d, document'[d].status # "NONE",
         \A e \in Documents \ {d} : document'[e] = document[e]
  PROVE  KindsFit' /\ FirstsFit'
<1> DEFINE n == Len(movements)
           all == movements \o <<m>>
<1>1. n \in Nat /\ Len(all) = n + 1 /\ movements' = all /\ all[n + 1] = m
  BY DEF PoolTyped
<1>2. \A i \in 1..n : all[i] = movements[i] /\ i \in 1..(n + 1)
  BY DEF PoolTyped
<1>3. \A i \in 1..(n + 1) : i \in 1..n \/ i = n + 1
  BY <1>1
<1>4. Purchases \cap Sales = {}
  BY RevisionAssumption
<1> HIDE DEF all
<1>5. KindsFit'
  <2> SUFFICES ASSUME NEW i \in 1..(n + 1)
               PROVE  /\ all[i].kind = "receipt" =>
                           /\ all[i].of \in Purchases /\ document'[all[i].of].status # "NONE"
                           /\ all[i].meters > 0
                      /\ all[i].kind = "sale" =>
                           all[i].of \in Sales /\ document'[all[i].of].status # "NONE"
    BY <1>1 DEF KindsFit
  <2>1. CASE i = n + 1
    BY <1>1, <2>1
  <2>2. CASE i \in 1..n
    <3>1. all[i] = movements[i]
      BY <1>2, <2>2
    <3> QED  BY <2>2, <3>1 DEF KindsFit, Documents
  <2> QED  BY <1>3, <2>1, <2>2
<1>6. \A i \in 1..n : ~First(d, movements[i])
  BY DEF KindsFit, First
<1>7. FirstsFit'
  <2> SUFFICES ASSUME NEW e \in Documents, document'[e].status # "NONE"
               PROVE  \E i \in 1..(n + 1) : First(e, all[i]) /\ \A j \in 1..(n + 1) : First(e, all[j]) => j = i
    BY <1>1 DEF FirstsFit
  <2>1. CASE e = d
    <3>1. n + 1 \in 1..(n + 1) /\ First(e, all[n + 1])
      BY <1>1, <2>1 DEF First
    <3>2. \A j \in 1..(n + 1) : First(e, all[j]) => j = n + 1
      BY <1>2, <1>3, <1>6, <2>1
    <3> QED  BY <3>1, <3>2
  <2>2. CASE e # d
    <3>1. PICK i \in 1..n : First(e, movements[i]) /\ \A j \in 1..n : First(e, movements[j]) => j = i
      BY <2>2 DEF FirstsFit
    <3>2. ~First(e, all[n + 1])
      BY <1>1, <2>2 DEF First
    <3>3. i \in 1..(n + 1) /\ First(e, all[i])
      BY <1>2, <3>1
    <3>4. \A j \in 1..(n + 1) : First(e, all[j]) => j = i
      BY <1>2, <1>3, <3>1, <3>2
    <3> QED  BY <3>3, <3>4
  <2> QED  BY <2>1, <2>2
<1> QED  BY <1>5, <1>7

-----------------------------------------------------------------------------
(* Revisions: every action keeps the invariant.                            *)

(* Who revises an invoice has something to do.                             *)
LEMMA NoJobOf ==
  ASSUME NEW c \in Handlers, job[c].of \in Documents
  PROVE  job[c] # NoJob
BY RevisionAssumption DEF NoJob, Documents

(* A request that is a transaction of its own leaves invoices that are     *)
(* held alone.                                                             *)
LEMMA JobsKept ==
  ASSUME LocksTyped, JobsFit, LocksFit, UNCHANGED <<lock, job>>, requests' \in 0..RequestLimit,
         \A d \in Documents : \/ lock[d] = NoOne \/ document[d].status = "NONE"
                              \/ document'[d] = document[d]
  PROVE  LocksTyped' /\ JobsFit' /\ LocksFit'
<1>1. LocksTyped' /\ LocksFit'
  BY DEF LocksTyped, LocksFit
<1>2. ASSUME NEW c \in Handlers PROVE JobFits(c)'
  <2>1. CASE job[c] = NoJob
    BY <2>1 DEF JobFits
  <2>2. CASE job[c] # NoJob
    <3>1. JobFits(c)
      BY DEF JobsFit
    <3>2. /\ job[c].of \in Documents /\ lock[job[c].of] = c /\ c # NoOne
          /\ document[job[c].of].status = "CONFIRMED"
      BY <2>2, <3>1, RevisionAssumption DEF JobFits
    <3>3. document'[job[c].of] = document[job[c].of]
      BY <3>2
    <3> QED  BY <2>2, <3>1, <3>3 DEF JobFits
  <2> QED  BY <2>1, <2>2
<1> QED  BY <1>1, <1>2 DEF JobsFit

(* A handler gives its invoice back.                                       *)
LEMMA JobDone ==
  ASSUME LocksTyped, JobsFit, LocksFit, NEW c \in Handlers, job[c] # NoJob, Finish(c),
         \A d \in Documents \ {job[c].of} : document'[d] = document[d]
  PROVE  LocksTyped' /\ JobsFit' /\ LocksFit'
<1> DEFINE d == job[c].of
<1>1. d \in Documents /\ lock[d] = c
  BY DEF JobsFit, JobFits
<1>2. /\ lock' = [lock EXCEPT ![d] = NoOne] /\ job' = [job EXCEPT ![c] = NoJob] /\ requests' = requests
  BY DEF Finish
<1> HIDE DEF d
<1>3. LocksTyped'
  BY <1>2 DEF LocksTyped
<1>4. /\ job'[c] = NoJob /\ \A b \in Handlers \ {c} : job'[b] = job[b]
      /\ lock'[d] = NoOne /\ \A e \in Documents \ {d} : lock'[e] = lock[e]
  BY <1>1, <1>2 DEF LocksTyped
<1>5. ASSUME NEW b \in Handlers PROVE JobFits(b)'
  <2>1. CASE b = c
    BY <1>4, <2>1 DEF JobFits
  <2>2. CASE b # c /\ job[b] # NoJob
    <3>1. JobFits(b) /\ job'[b] = job[b]
      BY <1>4, <2>2 DEF JobsFit
    <3>2. job[b].of \in Documents /\ lock[job[b].of] = b
      BY <2>2, <3>1 DEF JobFits
    <3>3. job[b].of # d
      BY <1>1, <2>2, <3>2
    <3>4. document'[job[b].of] = document[job[b].of] /\ lock'[job[b].of] = lock[job[b].of]
      BY <1>4, <3>2, <3>3 DEF d
    <3> QED  BY <2>2, <3>1, <3>4 DEF JobFits
  <2>3. CASE b # c /\ job[b] = NoJob
    BY <1>4, <2>3 DEF JobFits
  <2> QED  BY <2>1, <2>2, <2>3
<1>6. ASSUME NEW e \in Documents, lock'[e] # NoOne PROVE job'[lock'[e]].of = e
  <2>1. e # d /\ lock'[e] = lock[e] /\ job[lock[e]].of = e
    BY <1>4, <1>6 DEF LocksFit
  <2>2. lock[e] # c /\ lock[e] \in Handlers
    BY <1>4, <1>6, <2>1 DEF d, LocksTyped
  <2> QED  BY <1>4, <2>1, <2>2
<1> QED  BY <1>3, <1>5, <1>6 DEF JobsFit, LocksFit

(* A handler takes an invoice and has calculated.                          *)
LEMMA JobTaken ==
  ASSUME LocksTyped, JobsFit, LocksFit, NEW c \in Handlers, NEW d \in Documents, NEW request,
         Take(c, d, request), request.of = d, request.body \in Bodies,
         document[d].status = "CONFIRMED", document[d].revision < MaxRevision,
         document[d].returned <= request.body.meters,
         d \in Purchases => Calculated(request, document[d])
  PROVE  LocksTyped' /\ JobsFit' /\ LocksFit'
<1>1. /\ job[c] = NoJob /\ lock[d] = NoOne /\ requests < RequestLimit /\ requests' = requests + 1
      /\ lock' = [lock EXCEPT ![d] = c] /\ job' = [job EXCEPT ![c] = request]
      /\ document' = document
  BY DEF Take
<1>2. LocksTyped'
  <2>1. requests' \in 0..RequestLimit
    BY <1>1, RevisionAssumption DEF LocksTyped
  <2> QED  BY <1>1, <2>1 DEF LocksTyped
<1>3. /\ job'[c] = request /\ \A b \in Handlers \ {c} : job'[b] = job[b]
      /\ lock'[d] = c /\ \A e \in Documents \ {d} : lock'[e] = lock[e]
  BY <1>1 DEF LocksTyped
<1>4. ASSUME NEW b \in Handlers PROVE JobFits(b)'
  <2>1. CASE b = c
    BY <1>1, <1>3, <2>1 DEF JobFits
  <2>2. CASE b # c /\ job[b] # NoJob
    <3>1. JobFits(b) /\ job'[b] = job[b]
      BY <1>3, <2>2 DEF JobsFit
    <3>2. job[b].of \in Documents /\ lock[job[b].of] = b /\ b # NoOne
      BY <2>2, <3>1, RevisionAssumption DEF JobFits
    <3>3. job[b].of # d
      BY <1>1, <3>2
    <3>4. lock'[job[b].of] = lock[job[b].of]
      BY <1>3, <3>2, <3>3
    <3> QED  BY <1>1, <2>2, <3>1, <3>4 DEF JobFits
  <2>3. CASE b # c /\ job[b] = NoJob
    BY <1>3, <2>3 DEF JobFits
  <2> QED  BY <2>1, <2>2, <2>3
<1>5. ASSUME NEW e \in Documents, lock'[e] # NoOne PROVE job'[lock'[e]].of = e
  <2>1. CASE e = d
    BY <1>3, <2>1
  <2>2. CASE e # d
    <3>1. lock'[e] = lock[e] /\ job[lock[e]].of = e /\ lock[e] \in Handlers
      BY <1>3, <1>5, <2>2 DEF LocksFit, LocksTyped
    <3>2. lock[e] # c
      <4>1. e # NoOne
        BY RevisionAssumption DEF Documents
      <4> QED  BY <1>1, <3>1, <4>1 DEF NoJob
    <3> QED  BY <1>3, <3>1, <3>2
  <2> QED  BY <2>1, <2>2
<1> QED  BY <1>2, <1>4, <1>5 DEF JobsFit, LocksFit

(* What an entry is about is a fraction.                                   *)
LEMMA AmountType ==
  ASSUME NEW d \in Documents, NEW row, row.worth \in Worths PROVE Amount(d, row) \in Rationals
<1>1. row.worth \in Rationals /\ Inward(d) \in Int
  BY DEF Worths, Inward
<1> QED  BY <1>1, TimesType DEF Amount

(* The entries of a confirmation are posted.                               *)
LEMMA PostKeeps ==
  ASSUME BookTyped, RowsTyped, EntryInForce, NEW d \in Documents, document[d].status = "NONE",
         NEW row \in Rows, row.revision = 1, row.status = "CONFIRMED",
         PostEntries(d, row), document' = [document EXCEPT ![d] = row]
  PROVE  BookTyped' /\ EntryInForce'
<1> DEFINE posted == [status |-> "POSTED", amount |-> Amount(d, row)]
<1>1. 1 \in 1..MaxRevision
  BY RevisionAssumption
<1>2. Amount(d, row) \in Rationals
  BY AmountType DEF Rows
<1>3. /\ entries' = [entries EXCEPT ![d] = [entries[d] EXCEPT ![1] = posted]]
      /\ ledger' = ledger ++ Amount(d, row)
  BY DEF PostEntries, BookTyped
<1>4. posted \in Entries
  BY <1>2 DEF Entries
<1> HIDE DEF posted
<1>5. BookTyped'
  BY <1>1, <1>2, <1>3, <1>4, AddType DEF BookTyped
<1>6. /\ entries'[d][1] = posted /\ \A r \in 1..MaxRevision : r # 1 => entries'[d][r] = entries[d][r]
      /\ \A e \in Documents \ {d} : entries'[e] = entries[e]
      /\ document'[d] = row /\ \A e \in Documents \ {d} : document'[e] = document[e]
  BY <1>1, <1>3 DEF BookTyped, RowsTyped
<1>7. EntryInForce'
  <2> SUFFICES ASSUME NEW e \in Documents, NEW r \in 1..MaxRevision
               PROVE  IF document'[e].status = "CONFIRMED" /\ r = document'[e].revision
                      THEN entries'[e][r] = [status |-> "POSTED", amount |-> Amount(e, document'[e])]
                      ELSE entries'[e][r].status = "POSTED" =>
                             document'[e].status = "CANCELLED" /\ r = document'[e].revision
    BY DEF EntryInForce, Amount, Inward
  <2>1. CASE e # d
    BY <1>6, <2>1 DEF EntryInForce
  <2>2. CASE e = d /\ r = 1
    BY <1>6, <2>2 DEF posted
  <2>3. CASE e = d /\ r # 1
    <3>1. entries[d][r].status # "POSTED"
      BY <2>3 DEF EntryInForce
    <3> QED  BY <1>6, <2>3, <3>1
  <2> QED  BY <2>1, <2>2, <2>3
<1> QED  BY <1>5, <1>7

(* A revised invoice is one.                                               *)
LEMMA RevisedType ==
  ASSUME RowsTyped, RowsFit, NEW d \in Documents, document[d].status = "CONFIRMED",
         document[d].revision < MaxRevision, NEW body, body \in Bodies,
         document[d].returned <= body.meters
  PROVE  /\ Revised(d, body) \in Rows
         /\ Revised(d, body).status = "CONFIRMED" /\ Revised(d, body).revision = document[d].revision + 1
         /\ Revised(d, body).meters = body.meters /\ Revised(d, body).worth = body.worth
         /\ Revised(d, body).returned <= Revised(d, body).meters /\ Revised(d, body).meters > 0
<1>1. document[d] \in Rows /\ document[d].revision \in 1..MaxRevision
  BY DEF RowsTyped, Rows
<1>2. MaxRevision \in Nat
  BY RevisionAssumption
<1>3. document[d].revision + 1 \in 1..MaxRevision
  BY <1>1, <1>2
<1>4. body.meters \in Nat /\ body.meters > 0 /\ body.worth \in Worths
  BY DEF Bodies
<1> DEFINE row == Revised(d, body)
<1>5. /\ row = [document[d] EXCEPT !.meters = body.meters, !.worth = body.worth,
                                  !.revision = document[d].revision + 1]
  BY DEF Revised
<1> HIDE DEF row
<1>6. row \in Rows
  BY <1>1, <1>3, <1>4, <1>5 DEF Rows
<1>7. /\ row.status = document[d].status /\ row.revision = document[d].revision + 1
      /\ row.meters = body.meters /\ row.worth = body.worth /\ row.returned = document[d].returned
  BY <1>1, <1>5 DEF Rows
<1> QED  BY <1>4, <1>6, <1>7 DEF row

(* What is in force is a fraction.                                         *)
LEMMA InForceType ==
  ASSUME BookTyped, NEW d \in Documents, NEW r \in 1..MaxRevision
  PROVE  InForce(d, r) \in Rationals
BY NothingType DEF InForce, BookTyped, Entries

(* The entries of a revision are reversed, those of the next posted.       *)
LEMMA RepostKeeps ==
  ASSUME BookTyped, RowsTyped, EntryInForce, NEW d \in Documents, document[d].status = "CONFIRMED",
         NEW row \in Rows, row.status = "CONFIRMED", row.revision = document[d].revision + 1,
         NEW adjustment \in Rationals,
         Repost(d, row, adjustment), document' = [document EXCEPT ![d] = row]
  PROVE  BookTyped' /\ EntryInForce'
<1> DEFINE posted == [status |-> "POSTED", amount |-> Amount(d, row)]
           k == document[d].revision
<1>1. k \in 1..MaxRevision /\ k + 1 \in 1..MaxRevision /\ k # k + 1 /\ row.revision = k + 1
  BY DEF RowsTyped, Rows
<1> HIDE DEF k
<1>2. Amount(d, row) \in Rationals
  BY AmountType DEF Rows
<1>3. /\ entries' = [entries EXCEPT ![d] = [[entries[d] EXCEPT ![k] = [entries[d][k] EXCEPT !.status = "REVERSED"]]
                                             EXCEPT ![k + 1] = posted]]
      /\ ledger' = ((ledger -- InForce(d, k)) ++ Amount(d, row)) ++ adjustment
  BY <1>1 DEF Repost, BookTyped, k
<1>4. posted \in Entries
  BY <1>2 DEF Entries
<1> HIDE DEF posted
<1> DEFINE undone == [entries[d][k] EXCEPT !.status = "REVERSED"]
<1>5. undone \in Entries /\ undone.status = "REVERSED"
  <2>1. entries[d][k] \in Entries
    BY <1>1 DEF BookTyped
  <2> QED  BY <2>1 DEF Entries
<1> HIDE DEF undone
<1>6. /\ entries'[d] = [[entries[d] EXCEPT ![k] = undone] EXCEPT ![k + 1] = posted]
      /\ \A e \in Documents \ {d} : entries'[e] = entries[e]
      /\ document'[d] = row /\ \A e \in Documents \ {d} : document'[e] = document[e]
  BY <1>3 DEF BookTyped, RowsTyped, undone
<1>7. /\ entries'[d][k + 1] = posted /\ entries'[d][k] = undone
      /\ \A r \in 1..MaxRevision : r # k /\ r # k + 1 => entries'[d][r] = entries[d][r]
  BY <1>1, <1>6 DEF BookTyped
<1>8. ledger' \in Rationals
  <2>1. InForce(d, k) \in Rationals
    BY <1>1, InForceType
  <2>2. ledger -- InForce(d, k) \in Rationals
    BY <2>1, AddType DEF BookTyped
  <2>3. (ledger -- InForce(d, k)) ++ Amount(d, row) \in Rationals
    BY <1>2, <2>2, AddType
  <2> QED  BY <1>3, <2>3, AddType
<1>9. BookTyped'
  <2>1. [[entries[d] EXCEPT ![k] = undone] EXCEPT ![k + 1] = posted] \in [1..MaxRevision -> Entries]
    BY <1>1, <1>4, <1>5 DEF BookTyped
  <2> QED  BY <1>3, <1>8, <2>1 DEF BookTyped, undone
<1>10. EntryInForce'
  <2> SUFFICES ASSUME NEW e \in Documents, NEW r \in 1..MaxRevision
               PROVE  IF document'[e].status = "CONFIRMED" /\ r = document'[e].revision
                      THEN entries'[e][r] = [status |-> "POSTED", amount |-> Amount(e, document'[e])]
                      ELSE entries'[e][r].status = "POSTED" =>
                             document'[e].status = "CANCELLED" /\ r = document'[e].revision
    BY DEF EntryInForce, Amount, Inward
  <2>1. CASE e # d
    BY <1>6, <2>1 DEF EntryInForce
  <2>2. CASE e = d /\ r = k + 1
    BY <1>1, <1>6, <1>7, <2>2 DEF posted
  <2>3. CASE e = d /\ r = k
    <3>1. entries'[e][r] = undone /\ document'[e] = row
      BY <1>6, <1>7, <2>3
    <3>2. entries'[e][r].status # "POSTED" /\ r # document'[e].revision
      BY <1>1, <1>5, <2>3, <3>1
    <3> QED  BY <3>2
  <2>4. CASE e = d /\ r # k /\ r # k + 1
    <3>1. entries[d][r].status # "POSTED"
      BY <2>4 DEF EntryInForce, k
    <3>2. document'[e].revision = k + 1 /\ r # document'[e].revision
      BY <1>1, <1>6, <2>4
    <3>3. entries'[e][r] = entries[d][r]
      BY <1>7, <2>4
    <3> QED  BY <3>1, <3>2, <3>3
  <2> QED  BY <2>1, <2>2, <2>3, <2>4
<1> QED  BY <1>9, <1>10

(* A cancellation reverses the entry of the confirmation.                  *)
LEMMA CancelledKeeps ==
  ASSUME BookTyped, RowsTyped, EntryInForce, NEW d \in Documents, document[d].status = "CONFIRMED",
         ledger' = ledger -- InForce(d, 1),
         entries' = [entries EXCEPT ![d][1].status = "REVERSED"],
         document' = [document EXCEPT ![d].status = "CANCELLED"]
  PROVE  BookTyped' /\ EntryInForce' /\ RowsTyped'
<1>1. 1 \in 1..MaxRevision
  BY RevisionAssumption
<1> DEFINE undone == [entries[d][1] EXCEPT !.status = "REVERSED"]
           row == [document[d] EXCEPT !.status = "CANCELLED"]
<1>2. undone \in Entries /\ undone.status = "REVERSED"
  <2>1. entries[d][1] \in Entries
    BY <1>1 DEF BookTyped
  <2> QED  BY <2>1 DEF Entries
<1>3. row \in Rows /\ row.status = "CANCELLED" /\ row.revision = document[d].revision
  BY DEF RowsTyped, Rows
<1>4. entries' = [entries EXCEPT ![d] = [entries[d] EXCEPT ![1] = undone]]
  BY <1>1 DEF BookTyped
<1>5. document' = [document EXCEPT ![d] = row]
  BY DEF RowsTyped
<1> HIDE DEF undone, row
<1>6. RowsTyped'
  BY <1>3, <1>5 DEF RowsTyped
<1>7. BookTyped'
  <2>1. InForce(d, 1) \in Rationals
    BY <1>1, InForceType
  <2>2. ledger' \in Rationals
    BY <2>1, AddType DEF BookTyped
  <2>3. [entries[d] EXCEPT ![1] = undone] \in [1..MaxRevision -> Entries]
    BY <1>1, <1>2 DEF BookTyped
  <2> QED  BY <1>4, <2>2, <2>3 DEF BookTyped
<1>8. /\ entries'[d][1] = undone /\ \A r \in 1..MaxRevision : r # 1 => entries'[d][r] = entries[d][r]
      /\ \A e \in Documents \ {d} : entries'[e] = entries[e]
      /\ document'[d] = row /\ \A e \in Documents \ {d} : document'[e] = document[e]
  <2>1. entries'[d] = [entries[d] EXCEPT ![1] = undone] /\ \A e \in Documents \ {d} : entries'[e] = entries[e]
    BY <1>4 DEF BookTyped
  <2>2. document'[d] = row /\ \A e \in Documents \ {d} : document'[e] = document[e]
    BY <1>5 DEF RowsTyped
  <2>3. DOMAIN entries[d] = 1..MaxRevision
    BY DEF BookTyped
  <2>4. entries'[d][1] = undone /\ \A r \in 1..MaxRevision : r # 1 => entries'[d][r] = entries[d][r]
    <3>1. ASSUME NEW f, DOMAIN f = 1..MaxRevision, NEW u
          PROVE  /\ [f EXCEPT ![1] = u][1] = u
                 /\ \A r \in 1..MaxRevision : r # 1 => [f EXCEPT ![1] = u][r] = f[r]
      BY <1>1, <3>1
    <3> DEFINE f == entries[d]
    <3>2. DOMAIN f = 1..MaxRevision /\ entries'[d] = [f EXCEPT ![1] = undone]
      BY <2>1, <2>3
    <3>3. /\ [f EXCEPT ![1] = undone][1] = undone
          /\ \A r \in 1..MaxRevision : r # 1 => [f EXCEPT ![1] = undone][r] = f[r]
      <4> HIDE DEF f
      <4> QED  BY <3>1, <3>2
    <3> QED  BY <3>2, <3>3
  <2> QED  BY <2>1, <2>2, <2>4
<1>9. EntryInForce'
  <2> SUFFICES ASSUME NEW e \in Documents, NEW r \in 1..MaxRevision
               PROVE  IF document'[e].status = "CONFIRMED" /\ r = document'[e].revision
                      THEN entries'[e][r] = [status |-> "POSTED", amount |-> Amount(e, document'[e])]
                      ELSE entries'[e][r].status = "POSTED" =>
                             document'[e].status = "CANCELLED" /\ r = document'[e].revision
    BY DEF EntryInForce, Amount, Inward
  <2>1. CASE e # d
    BY <1>8, <2>1 DEF EntryInForce
  <2>2. CASE e = d /\ r = 1
    BY <1>2, <1>3, <1>8, <2>2
  <2>3. CASE e = d /\ r # 1
    <3>1. entries[d][r].status = "POSTED" => r = document[d].revision
      BY <2>3 DEF EntryInForce
    <3> QED  BY <1>3, <1>8, <2>3, <3>1
  <2> QED  BY <2>1, <2>2, <2>3
<1> QED  BY <1>6, <1>7, <1>9

(* What changes of an invoice without its entries.                         *)
LEMMA EntriesUntouched ==
  ASSUME BookTyped, EntryInForce, entries' = entries, ledger' \in Rationals,
         \A d \in Documents : /\ document'[d].status = document[d].status
                              /\ document'[d].revision = document[d].revision
                              /\ document'[d].worth = document[d].worth
  PROVE  BookTyped' /\ EntryInForce'
<1>1. BookTyped'
  BY DEF BookTyped
<1>2. \A d \in Documents : Amount(d, document'[d]) = Amount(d, document[d])
  BY DEF Amount
<1>3. EntryInForce'
  BY <1>2 DEF EntryInForce, Amount, Inward
<1> QED  BY <1>1, <1>3

(* The row a confirmation makes.                                           *)
Confirmed(row, m, w) == row = [NoDocument EXCEPT !.status = "CONFIRMED", !.meters = m, !.worth = w]

(* It is a row.                                                            *)
LEMMA NewRow ==
  ASSUME NEW m \in Nat, NEW w \in Worths, NEW row, Confirmed(row, m, w)
  PROVE  /\ row \in Rows /\ row.status = "CONFIRMED" /\ row.meters = m /\ row.worth = w
         /\ row.revision = 1 /\ row.returned = 0
<1>1. 1 \in 1..MaxRevision /\ Nothing \in Worths
  BY RevisionAssumption, NothingType DEF Worths
<1>2. NoDocument \in Rows /\ NoDocument.revision = 1 /\ NoDocument.returned = 0
  BY <1>1 DEF NoDocument, Rows
<1> DEFINE x == NoDocument
<1>3. x \in Rows /\ x.revision = 1 /\ x.returned = 0
      /\ row = [x EXCEPT !.status = "CONFIRMED", !.meters = m, !.worth = w]
  BY <1>2 DEF Confirmed
<1> HIDE DEF x
<1> QED  BY <1>3 DEF Rows

(* What Movement makes is one.                                             *)
LEMMA MovementType ==
  ASSUME NEW kind \in Kinds, NEW d \in Documents \cup {NoOne}, NEW meters \in Int, NEW value \in Worths
  PROVE  /\ Movement(kind, d, meters, value) \in Movements
         /\ Movement(kind, d, meters, value).kind = kind /\ Movement(kind, d, meters, value).of = d
         /\ Movement(kind, d, meters, value).meters = meters
BY DEF Movement, Movements

(* Nothing is a worth.                                                     *)
LEMMA NothingWorth == Nothing \in Worths
BY NothingType DEF Worths

(* One movement is a sequence of them.                                     *)
LEMMA OneMovement ==
  ASSUME NEW m \in Movements
  PROVE  <<m>> \in Seq(Movements) /\ Len(<<m>>) = 1 /\ <<m>>[1] = m
OBVIOUS

(* A request of its own counts and holds nothing.                          *)
LEMMA AtOnceRequests ==
  ASSUME LocksTyped, AtOnce
  PROVE  requests' \in 0..RequestLimit /\ UNCHANGED <<lock, job>>
BY RevisionAssumption DEF AtOnce, LocksTyped

(* A confirmation, of either kind: a first movement and a new row.         *)
LEMMA ConfirmKeeps ==
  ASSUME RevisionInv, NEW d \in Documents, document[d].status = "NONE", AtOnce,
         NEW m \in Movements, m.of = d, Move(<<m>>), average' \in Worths,
         \/ d \in Purchases /\ m.kind = "receipt" /\ m.meters > 0
         \/ d \in Sales /\ m.kind = "sale",
         NEW row \in Rows, row.revision = 1, row.status = "CONFIRMED", row.returned = 0, row.meters > 0,
         document' = [document EXCEPT ![d] = row], PostEntries(d, row)
  PROVE  RevisionInv'
<1>1. /\ PoolTyped /\ StockFits /\ RowsTyped /\ RowsFit /\ KindsFit /\ FirstsFit
      /\ BookTyped /\ EntryInForce
      /\ LocksTyped /\ LocksFit /\ JobsFit
  BY DEF RevisionInv
<1>2. /\ stock' \in Nat /\ movements' \in Seq(Movements) /\ StockFits'
      /\ movements' = movements \o <<m>>
  BY <1>1, OneMovement, MoveKeeps
<1>3. PoolTyped'
  BY <1>2 DEF PoolTyped
<1>4. document'[d] = row /\ \A e \in Documents \ {d} : document'[e] = document[e]
  BY <1>1 DEF RowsTyped
<1>5. RowsTyped'
  BY <1>1 DEF RowsTyped
<1>6. RowsFit'
  BY <1>1, <1>4 DEF RowsFit, Rows
<1>7. KindsFit' /\ FirstsFit'
  BY <1>1, <1>2, <1>4, FirstEntered
<1>8. BookTyped' /\ EntryInForce'
  BY <1>1, PostKeeps
<1>9. LocksTyped' /\ JobsFit' /\ LocksFit'
  <2>1. \A e \in Documents : \/ lock[e] = NoOne \/ document[e].status = "NONE"
                             \/ document'[e] = document[e]
    BY <1>4
  <2> QED  BY <1>1, <2>1, AtOnceRequests, JobsKept
<1> QED  BY <1>2, <1>3, <1>5, <1>6, <1>7, <1>8, <1>9 DEF RevisionInv

(* A purchase is confirmed.                                                *)
LEMMA ConfirmPurchaseKeeps ==
  ASSUME RevisionInv, NEW d \in Purchases, ConfirmPurchase(d)
  PROVE  RevisionInv'
<1>1. d \in Documents /\ document[d].status = "NONE" /\ AtOnce /\ PoolTyped /\ StockFits
  BY DEF ConfirmPurchase, Documents, RevisionInv
<1> DEFINE Row(line) == [NoDocument EXCEPT !.status = "CONFIRMED",
                                           !.meters = line[1], !.worth = Whole(line[2])]
<1>2. PICK line \in Receipts :
        /\ Move(<<Movement("receipt", d, Row(line).meters, Nothing)>>)
        /\ Reprice(Present.value ++ Row(line).worth)
        /\ document' = [document EXCEPT ![d] = Row(line)]
        /\ PostEntries(d, Row(line))
  BY DEF ConfirmPurchase
<1> DEFINE row == Row(line)
           m == Movement("receipt", d, row.meters, Nothing)
<1>3. line[1] \in Nat \ {0} /\ line[2] \in Nat
  BY RevisionAssumption
<1>4. Whole(line[2]) \in Worths
  BY <1>3, WholeType DEF Worths
<1>6. /\ row \in Rows /\ row.status = "CONFIRMED" /\ row.revision = 1 /\ row.returned = 0
      /\ row.meters > 0 /\ row.meters \in Int /\ row.worth \in Worths
  <2> DEFINE k == line[1]
             w == Whole(line[2])
  <2>1. Confirmed(row, k, w)
    BY DEF Confirmed
  <2>2. k \in Nat /\ k > 0 /\ w \in Worths
    BY <1>3, <1>4
  <2> HIDE DEF k, w, row
  <2> QED  BY <2>1, <2>2, NewRow
<1> HIDE DEF row
<1>7. m \in Movements /\ m.kind = "receipt" /\ m.of = d /\ m.meters > 0
  <2>1. "receipt" \in Kinds
    BY DEF Kinds
  <2> QED  BY <1>1, <1>6, <2>1, NothingWorth, MovementType
<1>8. /\ Move(<<m>>) /\ Reprice(Present.value ++ row.worth) /\ PostEntries(d, row)
      /\ document' = [document EXCEPT ![d] = row]
  BY <1>2 DEF row
<1> HIDE DEF m
<1>9. average' \in Worths
  <2>1. stock' \in Nat
    BY <1>1, <1>7, <1>8, OneMovement, MoveKeeps
  <2>2. Present.value \in Worths
    BY <1>1, PresentWorth
  <2>3. Present.value ++ row.worth \in Rationals /\ ~Negative(Present.value ++ row.worth)
    BY <1>6, <2>2, WorthsAdd DEF Worths
  <2> QED  BY <1>8, <2>1, <2>3, RepriceKeeps
<1> QED  BY <1>1, <1>6, <1>7, <1>8, <1>9, ConfirmKeeps

(* A sale is confirmed.                                                    *)
LEMMA ConfirmSaleKeeps ==
  ASSUME RevisionInv, NEW d \in Sales, ConfirmSale(d)
  PROVE  RevisionInv'
<1>1. d \in Documents /\ document[d].status = "NONE" /\ AtOnce /\ PoolTyped /\ average' = average
  BY DEF ConfirmSale, Documents, RevisionInv
<1> DEFINE Row(l) == [NoDocument EXCEPT !.status = "CONFIRMED", !.meters = l, !.worth = average ** l]
<1>2. PICK l \in Lengths :
        /\ Move(<<Movement("sale", d, -l, Nothing)>>)
        /\ document' = [document EXCEPT ![d] = Row(l)]
        /\ PostEntries(d, Row(l))
  BY DEF ConfirmSale
<1> DEFINE row == Row(l)
           m == Movement("sale", d, -l, Nothing)
<1>3. l \in Nat /\ l > 0 /\ -l \in Int
  BY RevisionAssumption
<1>4. average ** l \in Worths /\ average' \in Worths
  BY <1>1, <1>3, WorthsAdd DEF PoolTyped
<1>6. /\ row \in Rows /\ row.status = "CONFIRMED" /\ row.revision = 1 /\ row.returned = 0 /\ row.meters > 0
  <2> DEFINE w == average ** l
  <2>1. Confirmed(row, l, w)
    BY DEF Confirmed
  <2>2. w \in Worths
    BY <1>4
  <2> HIDE DEF w, row
  <2> QED  BY <1>3, <2>1, <2>2, NewRow
<1> HIDE DEF row
<1>7. m \in Movements /\ m.kind = "sale" /\ m.of = d
  <2>1. "sale" \in Kinds
    BY DEF Kinds
  <2> QED  BY <1>1, <1>3, <2>1, NothingWorth, MovementType
<1>8. Move(<<m>>) /\ PostEntries(d, row) /\ document' = [document EXCEPT ![d] = row]
  BY <1>2 DEF row
<1> HIDE DEF m
<1> QED  BY <1>1, <1>4, <1>6, <1>7, <1>8, ConfirmKeeps

(* A count.                                                                *)
LEMMA CountKeeps ==
  ASSUME RevisionInv, NEW difference \in {-1, 1}, Count(difference)
  PROVE  RevisionInv'
<1>1. /\ PoolTyped /\ StockFits /\ RowsTyped /\ RowsFit /\ KindsFit /\ FirstsFit
      /\ BookTyped /\ EntryInForce
      /\ LocksTyped /\ LocksFit /\ JobsFit
  BY DEF RevisionInv
<1> DEFINE m == Movement("count", NoOne, difference, Nothing)
<1>2. m \in Movements /\ m.kind = "count"
  <2>1. "count" \in Kinds
    BY DEF Kinds
  <2>2. NoOne \in Documents \cup {NoOne} /\ difference \in Int /\ Nothing \in Worths
    BY NothingWorth
  <2> QED  BY <2>1, <2>2 DEF Movement, Movements
<1>3. Move(<<m>>) /\ UNCHANGED <<average, document, entries, ledger>> /\ AtOnce
  BY DEF Count, book
<1> HIDE DEF m
<1>4. /\ stock' \in Nat /\ movements' \in Seq(Movements) /\ StockFits'
      /\ movements' = movements \o <<m>>
  BY <1>1, <1>2, <1>3, OneMovement, MoveKeeps
<1>5. PoolTyped'
  BY <1>1, <1>3, <1>4 DEF PoolTyped
<1>6. RowsTyped' /\ RowsFit'
  BY <1>1, <1>3 DEF RowsTyped, RowsFit
<1>7. KindsFit' /\ FirstsFit'
  <2>1. \A i \in 1..Len(<<m>>) : <<m>>[i].kind \notin {"receipt", "sale"}
    BY <1>2
  <2>2. <<m>> \in Seq(Movements)
    BY <1>2
  <2> QED  BY <1>1, <1>3, <1>4, <2>1, <2>2, FirstsKept
<1>8. BookTyped' /\ EntryInForce'
  BY <1>1, <1>3 DEF BookTyped, EntryInForce, Amount, Inward
<1>9. LocksTyped' /\ JobsFit' /\ LocksFit'
  <2>1. \A e \in Documents : document'[e] = document[e]
    BY <1>3
  <2> QED  BY <1>1, <1>3, <2>1, AtOnceRequests, JobsKept
<1> QED  BY <1>4, <1>5, <1>6, <1>7, <1>8, <1>9 DEF RevisionInv

(* A confirmed invoice has a unit cost.                                    *)
LEMMA UnitCostType ==
  ASSUME RowsTyped, RowsFit, NEW d \in Documents, document[d].status # "NONE"
  PROVE  UnitCost(document[d]) \in Worths
<1>1. /\ document[d].meters \in Nat /\ document[d].meters # 0 /\ document[d].meters \in Nat \ {0}
      /\ document[d].worth \in Rationals /\ ~Negative(document[d].worth)
  BY DEF RowsTyped, RowsFit, Rows, Worths
<1>2. UnitCost(document[d]) \in Rationals
  BY <1>1, PartType DEF UnitCost
<1>3. ~Negative(UnitCost(document[d]))
  BY <1>1, SignTimes DEF UnitCost
<1> QED  BY <1>2, <1>3 DEF Worths

(* Goods of a sale come back.                                              *)
LEMMA ReturnSaleKeeps ==
  ASSUME RevisionInv, NEW d \in Sales, NEW n \in Lengths, ReturnSale(d, n)
  PROVE  RevisionInv'
<1>1. /\ PoolTyped /\ StockFits /\ RowsTyped /\ RowsFit /\ KindsFit /\ FirstsFit
      /\ BookTyped /\ EntryInForce
      /\ LocksTyped /\ LocksFit /\ JobsFit
  BY DEF RevisionInv
<1> DEFINE value == UnitCost(document[d]) ** n
           m == Movement("sale_return", d, n, value)
<1>2. /\ d \in Documents /\ lock[d] = NoOne /\ document[d].status = "CONFIRMED"
      /\ document[d].returned + n <= document[d].meters
      /\ Move(<<m>>) /\ Reprice(Present.value ++ value) /\ ledger' = ledger ++ value
      /\ document' = [document EXCEPT ![d].returned = document[d].returned + n]
      /\ entries' = entries /\ AtOnce
  BY DEF ReturnSale, Documents
<1>3. n \in Nat /\ n \in Int
  BY RevisionAssumption
<1>4. value \in Worths
  BY <1>1, <1>2, <1>3, UnitCostType, WorthsAdd
<1> HIDE DEF value
<1>5. m \in Movements /\ m.kind = "sale_return"
  <2>1. "sale_return" \in Kinds
    BY DEF Kinds
  <2> QED  BY <1>2, <1>3, <1>4, <2>1, MovementType
<1> HIDE DEF m
<1>6. /\ stock' \in Nat /\ movements' \in Seq(Movements) /\ StockFits'
      /\ movements' = movements \o <<m>>
  BY <1>1, <1>2, <1>5, OneMovement, MoveKeeps
<1>7. average' \in Worths
  <2>1. Present.value \in Worths
    BY <1>1, PresentWorth
  <2>2. Present.value ++ value \in Rationals /\ ~Negative(Present.value ++ value)
    BY <1>4, <2>1, WorthsAdd DEF Worths
  <2> QED  BY <1>2, <1>6, <2>2, RepriceKeeps
<1>8. PoolTyped'
  BY <1>6, <1>7 DEF PoolTyped
<1> DEFINE row == [document[d] EXCEPT !.returned = document[d].returned + n]
<1>9. /\ row \in Rows /\ row.status = document[d].status /\ row.revision = document[d].revision
      /\ row.worth = document[d].worth /\ row.meters = document[d].meters
      /\ row.returned = document[d].returned + n
  <2>1. document[d] \in Rows /\ document[d].returned + n \in Nat
    BY <1>1, <1>2, <1>3 DEF RowsTyped, Rows
  <2> QED  BY <2>1 DEF Rows
<1>10. document' = [document EXCEPT ![d] = row]
  BY <1>1, <1>2 DEF RowsTyped
<1> HIDE DEF row
<1>11. document'[d] = row /\ \A e \in Documents \ {d} : document'[e] = document[e]
  BY <1>1, <1>2, <1>10 DEF RowsTyped
<1>12. RowsTyped'
  BY <1>1, <1>9, <1>10 DEF RowsTyped
<1>13. RowsFit'
  BY <1>1, <1>2, <1>9, <1>11 DEF RowsFit
<1>14. KindsFit' /\ FirstsFit'
  <2>1. \A i \in 1..Len(<<m>>) : <<m>>[i].kind \notin {"receipt", "sale"}
    BY <1>5
  <2>2. <<m>> \in Seq(Movements)
    BY <1>5
  <2>3. \A e \in Documents : document'[e].status = "NONE" <=> document[e].status = "NONE"
    BY <1>9, <1>11
  <2> QED  BY <1>1, <1>6, <2>1, <2>2, <2>3, FirstsKept
<1>15. BookTyped' /\ EntryInForce'
  <2>1. ledger' \in Rationals
    BY <1>1, <1>2, <1>4, AddType DEF BookTyped, Worths
  <2>2. \A e \in Documents : /\ document'[e].status = document[e].status
                             /\ document'[e].revision = document[e].revision
                             /\ document'[e].worth = document[e].worth
    BY <1>9, <1>11
  <2> QED  BY <1>1, <1>2, <2>1, <2>2, EntriesUntouched
<1>16. LocksTyped' /\ JobsFit' /\ LocksFit'
  <2>1. \A e \in Documents : \/ lock[e] = NoOne \/ document[e].status = "NONE"
                             \/ document'[e] = document[e]
    BY <1>2, <1>11
  <2> QED  BY <1>1, <1>2, <2>1, AtOnceRequests, JobsKept
<1> QED  BY <1>6, <1>8, <1>12, <1>13, <1>14, <1>15, <1>16 DEF RevisionInv

(* An invoice is cancelled.                                                *)
LEMMA CancelKeeps ==
  ASSUME RevisionInv, NEW d \in Documents, Cancel(d)
  PROVE  RevisionInv'
<1>1. /\ PoolTyped /\ StockFits /\ RowsTyped /\ RowsFit /\ KindsFit /\ FirstsFit
      /\ BookTyped /\ EntryInForce
      /\ LocksTyped /\ LocksFit /\ JobsFit
  BY DEF RevisionInv
<1> DEFINE first == CHOOSE m \in ToSet(movements) : m.of = d /\ m.kind \in {"receipt", "sale"}
           m == Movement("cancellation", d, -first.meters, Nothing)
<1>2. /\ lock[d] = NoOne /\ document[d].status = "CONFIRMED" /\ Move(<<m>>)
      /\ ledger' = ledger -- InForce(d, 1)
      /\ entries' = [entries EXCEPT ![d][1].status = "REVERSED"]
      /\ document' = [document EXCEPT ![d].status = "CANCELLED"]
      /\ average' = average /\ AtOnce
  BY DEF Cancel
<1>3. first \in Movements
  <2>1. \E x \in ToSet(movements) : x.of = d /\ x.kind \in {"receipt", "sale"}
    BY <1>1, <1>2 DEF FirstsFit, First, ToSet, PoolTyped
  <2>2. first \in ToSet(movements)
    BY <2>1
  <2> HIDE DEF first
  <2>3. PICK i \in DOMAIN movements : first = movements[i]
    BY <2>2 DEF ToSet
  <2> QED  BY <1>1, <2>3 DEF PoolTyped
<1>4. -first.meters \in Int
  BY <1>3 DEF Movements
<1> HIDE DEF first
<1>5. m \in Movements /\ m.kind = "cancellation"
  <2>1. "cancellation" \in Kinds
    BY DEF Kinds
  <2> QED  BY <1>4, <2>1, NothingWorth, MovementType
<1> HIDE DEF m
<1>6. /\ stock' \in Nat /\ movements' \in Seq(Movements) /\ StockFits'
      /\ movements' = movements \o <<m>>
  BY <1>1, <1>2, <1>5, OneMovement, MoveKeeps
<1>8. PoolTyped'
  BY <1>1, <1>2, <1>6 DEF PoolTyped
<1>9. BookTyped' /\ EntryInForce' /\ RowsTyped'
  BY <1>1, <1>2, CancelledKeeps
<1>11. /\ document'[d].status = "CANCELLED" /\ document'[d].meters = document[d].meters
       /\ document'[d].returned = document[d].returned
       /\ \A e \in Documents \ {d} : document'[e] = document[e]
  <2>1. document[d] \in Rows
    BY <1>1 DEF RowsTyped
  <2>2. document'[d] = [document[d] EXCEPT !.status = "CANCELLED"]
        /\ \A e \in Documents \ {d} : document'[e] = document[e]
    BY <1>1, <1>2 DEF RowsTyped
  <2> QED  BY <2>1, <2>2 DEF Rows
<1>13. RowsFit'
  BY <1>1, <1>2, <1>11 DEF RowsFit
<1>14. KindsFit' /\ FirstsFit'
  <2>1. \A i \in 1..Len(<<m>>) : <<m>>[i].kind \notin {"receipt", "sale"}
    BY <1>5
  <2>2. <<m>> \in Seq(Movements)
    BY <1>5
  <2>3. \A e \in Documents : document'[e].status = "NONE" <=> document[e].status = "NONE"
    BY <1>2, <1>11
  <2> QED  BY <1>1, <1>6, <2>1, <2>2, <2>3, FirstsKept
<1>16. LocksTyped' /\ JobsFit' /\ LocksFit'
  <2>1. \A e \in Documents : \/ lock[e] = NoOne \/ document[e].status = "NONE"
                             \/ document'[e] = document[e]
    BY <1>2, <1>11
  <2> QED  BY <1>1, <1>2, <2>1, AtOnceRequests, JobsKept
<1> QED  BY <1>6, <1>8, <1>9, <1>13, <1>14, <1>16 DEF RevisionInv

(* What takes an invoice and touches nothing else.                         *)
LEMMA TakeKeeps ==
  ASSUME RevisionInv, UNCHANGED <<pool, document, book>>, LocksTyped', LocksFit', JobsFit'
  PROVE  RevisionInv'
<1>1. /\ PoolTyped /\ StockFits /\ RowsTyped /\ RowsFit /\ KindsFit /\ FirstsFit
      /\ BookTyped /\ EntryInForce
  BY DEF RevisionInv
<1>2. UNCHANGED <<stock, average, movements, document, entries, ledger>>
  BY DEF pool, book
<1>3. PoolTyped' /\ StockFits'
  BY <1>1, <1>2 DEF PoolTyped, StockFits
<1>4. RowsTyped' /\ RowsFit' /\ KindsFit' /\ FirstsFit'
  BY <1>1, <1>2 DEF RowsTyped, RowsFit, KindsFit, FirstsFit
<1>5. BookTyped' /\ EntryInForce'
  BY <1>1, <1>2 DEF BookTyped, EntryInForce, Amount, Inward
<1> QED  BY <1>3, <1>4, <1>5 DEF RevisionInv

(* A revision of a purchase is calculated.                                 *)
LEMMA StartRevisePurchaseKeeps ==
  ASSUME RevisionInv, NEW c \in Handlers, NEW d \in Purchases, StartRevisePurchase(c, d)
  PROVE  RevisionInv'
<1>1. /\ PoolTyped /\ RowsTyped /\ RowsFit /\ KindsFit /\ FirstsFit
      /\ LocksTyped /\ LocksFit /\ JobsFit
  BY DEF RevisionInv
<1> DEFINE Body(line) == [meters |-> line[1], worth |-> Whole(line[2])]
           Asked(body, n, key) == [of |-> d, body |-> body, seen |-> n, key |-> key,
                                   comparison |-> ForPurchaseRevision(d, body), read |-> pool]
<1>2. PICK line \in Receipts, seen \in 1..MaxRevision, key \in Keys :
        /\ Allowed(d, Body(line))
        /\ ForPurchaseRevision(d, Body(line)).established /\ Conserves(ForPurchaseRevision(d, Body(line)))
        /\ Take(c, d, Asked(Body(line), seen, key))
  BY DEF StartRevisePurchase
<1> DEFINE body == Body(line)
           request == Asked(body, seen, key)
<1>3. body \in Bodies
  <2>1. line[1] \in Nat \ {0} /\ line[2] \in Nat
    BY RevisionAssumption
  <2>2. Whole(line[2]) \in Worths
    BY <2>1, WholeType DEF Worths
  <2> QED  BY <2>1, <2>2 DEF Bodies
<1>4. Allowed(d, body) /\ Take(c, d, request)
      /\ ForPurchaseRevision(d, body).established /\ Conserves(ForPurchaseRevision(d, body))
  BY <1>2
<1> HIDE DEF body
<1>5. /\ document[d].status = "CONFIRMED" /\ document[d].revision < MaxRevision
      /\ document[d].returned <= body.meters
  BY <1>4 DEF Allowed
<1>6. PICK n \in Int : Tells(ForPurchaseRevision(d, body), Present, body.meters - n,
                             body.worth -- (UnitCost(document[d]) ** n))
  BY <1>1, <1>3, <1>4, <1>5, RevisionCalculated
<1>7. /\ request.of = d /\ request.body = body /\ request.comparison = ForPurchaseRevision(d, body)
      /\ request.read = pool
  OBVIOUS
<1> HIDE DEF request
<1>8. Calculated(request, document[d])
  <2>1. request.read[1] = stock /\ request.read[2] = average
    BY <1>7 DEF pool
  <2>2. Present = [meters |-> request.read[1], value |-> request.read[2] ** request.read[1]]
    BY <2>1 DEF Present
  <2>3. stock \in Nat /\ average \in Worths
    BY <1>1 DEF PoolTyped
  <2> QED  BY <1>4, <1>6, <1>7, <2>1, <2>2, <2>3 DEF Calculated
<1>9. LocksTyped' /\ JobsFit' /\ LocksFit'
  <2>1. d \in Documents
    BY DEF Documents
  <2> QED  BY <1>1, <1>3, <1>4, <1>5, <1>7, <1>8, <2>1, JobTaken
<1>10. UNCHANGED <<pool, document, book>>
  BY <1>4 DEF Take
<1> QED  BY <1>9, <1>10, TakeKeeps

(* A revision of a sale is calculated.                                     *)
LEMMA StartReviseSaleKeeps ==
  ASSUME RevisionInv, NEW c \in Handlers, NEW d \in Sales, StartReviseSale(c, d)
  PROVE  RevisionInv'
<1>1. /\ PoolTyped /\ RowsTyped /\ RowsFit
      /\ LocksTyped /\ LocksFit /\ JobsFit
  BY DEF RevisionInv
<1>2. d \in Documents /\ d \notin Purchases
  BY RevisionAssumption DEF Documents
<1> DEFINE Unit(kept) == IF kept THEN UnitCost(document[d]) ELSE average
           Body(l, kept) == [meters |-> l, worth |-> Unit(kept) ** l]
           Asked(body, n, key) == [of |-> d, body |-> body, seen |-> n, key |-> key]
<1>3. PICK l \in Lengths, kept \in BOOLEAN, seen \in 1..MaxRevision, key \in Keys :
        Allowed(d, Body(l, kept)) /\ Take(c, d, Asked(Body(l, kept), seen, key))
  BY DEF StartReviseSale
<1> DEFINE body == Body(l, kept)
           request == Asked(body, seen, key)
<1>4. /\ document[d].status = "CONFIRMED" /\ document[d].revision < MaxRevision
      /\ document[d].returned <= body.meters
  BY <1>3 DEF Allowed
<1>5. body \in Bodies
  <2>1. l \in Nat \ {0}
    BY RevisionAssumption
  <2>2. UnitCost(document[d]) \in Worths /\ average \in Worths
    BY <1>1, <1>2, <1>4, UnitCostType DEF PoolTyped
  <2>3. Unit(kept) \in Worths
    BY <2>2
  <2> HIDE DEF Unit
  <2>4. Unit(kept) ** l \in Worths
    BY <2>1, <2>3, WorthsAdd
  <2> QED  BY <2>1, <2>4 DEF Bodies
<1>6. Take(c, d, request)
  BY <1>3
<1> HIDE DEF body
<1>7. request.of = d /\ request.body = body
  OBVIOUS
<1> HIDE DEF request
<1>9. LocksTyped' /\ JobsFit' /\ LocksFit'
  BY <1>1, <1>2, <1>4, <1>5, <1>6, <1>7, JobTaken
<1>10. UNCHANGED <<pool, document, book>>
  BY <1>6 DEF Take
<1> QED  BY <1>9, <1>10, TakeKeeps

(* A handler gives up.                                                     *)
LEMMA GiveUpKeeps ==
  ASSUME RevisionInv, NEW c \in Handlers, GiveUp(c)
  PROVE  RevisionInv'
<1>1. LocksTyped /\ LocksFit /\ JobsFit
  BY DEF RevisionInv
<1>2. job[c] # NoJob /\ UNCHANGED <<pool, document, book>> /\ Finish(c)
  BY DEF GiveUp
<1>3. LocksTyped' /\ JobsFit' /\ LocksFit'
  <2>1. \A d \in Documents \ {job[c].of} : document'[d] = document[d]
    BY <1>2
  <2> QED  BY <1>1, <1>2, <2>1, JobDone
<1> QED  BY <1>2, <1>3, TakeKeeps

(* A revision commits: two movements, a new row, new entries.              *)
LEMMA CommitKeeps ==
  ASSUME RevisionInv, NEW c \in Handlers, job[c].of \in Documents, Finish(c),
         NEW m \in Movements, NEW k \in Movements, Move(<<m, k>>), average' \in Worths,
         m.kind \notin {"receipt", "sale"}, k.kind \notin {"receipt", "sale"},
         NEW adjustment \in Rationals,
         Repost(job[c].of, Revised(job[c].of, job[c].body), adjustment),
         document' = [document EXCEPT ![job[c].of] = Revised(job[c].of, job[c].body)]
  PROVE  RevisionInv'
<1>1. /\ PoolTyped /\ StockFits /\ RowsTyped /\ RowsFit /\ KindsFit /\ FirstsFit
      /\ BookTyped /\ EntryInForce
      /\ LocksTyped /\ LocksFit /\ JobsFit
  BY DEF RevisionInv
<1> DEFINE d == job[c].of
           row == Revised(d, job[c].body)
<1>2. /\ job[c] # NoJob /\ d \in Documents /\ document[d].status = "CONFIRMED"
      /\ document[d].revision < MaxRevision
      /\ job[c].body \in Bodies /\ document[d].returned <= job[c].body.meters
  BY <1>1, NoJobOf DEF JobsFit, JobFits
<1>3. /\ row \in Rows /\ row.status = "CONFIRMED" /\ row.revision = document[d].revision + 1
      /\ row.returned <= row.meters /\ row.meters > 0
  BY <1>1, <1>2, RevisedType
<1>4. Repost(d, row, adjustment) /\ document' = [document EXCEPT ![d] = row]
  OBVIOUS
<1> HIDE DEF row, d
<1>5. document'[d] = row /\ \A e \in Documents \ {d} : document'[e] = document[e]
  BY <1>1, <1>2, <1>4 DEF RowsTyped
<1>6. <<m, k>> \in Seq(Movements)
  OBVIOUS
<1>7. /\ stock' \in Nat /\ movements' \in Seq(Movements) /\ StockFits'
      /\ movements' = movements \o <<m, k>>
  BY <1>1, <1>6, MoveKeeps
<1>8. PoolTyped'
  BY <1>7 DEF PoolTyped
<1>9. RowsTyped' /\ RowsFit'
  <2>1. RowsTyped'
    BY <1>1, <1>3, <1>4 DEF RowsTyped
  <2>2. RowsFit'
    BY <1>1, <1>3, <1>5 DEF RowsFit
  <2> QED  BY <2>1, <2>2
<1>10. KindsFit' /\ FirstsFit'
  <2>1. \A i \in 1..Len(<<m, k>>) : <<m, k>>[i].kind \notin {"receipt", "sale"}
    OBVIOUS
  <2>2. \A e \in Documents : document'[e].status = "NONE" <=> document[e].status = "NONE"
    BY <1>2, <1>3, <1>5
  <2> QED  BY <1>1, <1>6, <1>7, <2>1, <2>2, FirstsKept
<1>11. BookTyped' /\ EntryInForce'
  BY <1>1, <1>2, <1>3, <1>4, RepostKeeps
<1>12. LocksTyped' /\ JobsFit' /\ LocksFit'
  <2>1. \A e \in Documents \ {job[c].of} : document'[e] = document[e]
    BY <1>5 DEF d
  <2> QED  BY <1>1, <1>2, <2>1, JobDone
<1> QED  BY <1>7, <1>8, <1>9, <1>10, <1>11, <1>12 DEF RevisionInv

(* A revision of a purchase commits.                                       *)
LEMMA RevisePurchaseKeeps ==
  ASSUME RevisionInv, NEW c \in Handlers, RevisePurchase(c)
  PROVE  RevisionInv'
<1>1. /\ PoolTyped /\ StockFits /\ RowsTyped /\ RowsFit /\ LocksTyped /\ JobsFit
  BY DEF RevisionInv
<1> DEFINE d == job[c].of
           row == Revised(d, job[c].body)
           comparison == job[c].comparison
           m == Movement("revised_receipt", d, row.meters, Nothing)
           k == Movement("undone", d, -document[d].meters, Nothing)
<1>2. /\ d \in Purchases /\ d \in Documents /\ Finish(c) /\ Move(<<m, k>>)
      /\ stock' = comparison.ending.meters /\ average' = Rate(comparison.ending)
      /\ Repost(d, row, Adjustment(comparison))
      /\ document' = [document EXCEPT ![d] = row]
  BY DEF RevisePurchase, Documents
<1>3. /\ document[d].status = "CONFIRMED" /\ document[d].revision < MaxRevision
      /\ job[c].body \in Bodies /\ document[d].returned <= job[c].body.meters
      /\ Calculated(job[c], document[d])
  BY <1>1, <1>2, NoJobOf DEF JobsFit, JobFits
<1>4. /\ comparison.ending \in Pools /\ ~Negative(comparison.ending.value)
      /\ comparison.movedDelta \in Rationals /\ comparison.cogsDelta \in Rationals
  BY <1>3 DEF Calculated, Tells
<1>5. average' \in Worths
  BY <1>2, <1>4, RateType, RateSigned DEF Worths
<1>6. Adjustment(comparison) \in Rationals
  BY <1>4, AddType DEF Adjustment
<1>7. row.meters \in Int /\ -document[d].meters \in Int
  <2>1. row.meters = job[c].body.meters
    BY <1>1, <1>2, <1>3, RevisedType
  <2> QED  BY <1>1, <1>2, <1>3, <2>1 DEF Bodies, RowsTyped, Rows
<1> HIDE DEF row, d, comparison
<1>8. m \in Movements /\ m.kind = "revised_receipt" /\ k \in Movements /\ k.kind = "undone"
  <2>1. "revised_receipt" \in Kinds /\ "undone" \in Kinds
    BY DEF Kinds
  <2> DEFINE x == -document[d].meters
  <2>2. x \in Int /\ k = Movement("undone", d, x, Nothing)
    BY <1>7
  <2> HIDE DEF x, k
  <2> QED  BY <1>2, <1>7, <2>1, <2>2, NothingWorth, MovementType
<1> HIDE DEF m, k
<1> QED  BY <1>2, <1>5, <1>6, <1>8, CommitKeeps DEF d, row

(* A revision of a sale commits.                                           *)
LEMMA ReviseSaleKeeps ==
  ASSUME RevisionInv, NEW c \in Handlers, ReviseSale(c)
  PROVE  RevisionInv'
<1>1. /\ PoolTyped /\ StockFits /\ RowsTyped /\ RowsFit /\ LocksTyped /\ JobsFit
  BY DEF RevisionInv
<1> DEFINE d == job[c].of
           row == Revised(d, job[c].body)
           value == Present.value ++ (document[d].worth -- row.worth)
           m == Movement("undone", d, document[d].meters, Nothing)
           k == Movement("revised_sale", d, -row.meters, Nothing)
<1>2. /\ d \in Sales /\ d \in Documents /\ Finish(c) /\ Move(<<m, k>>)
      /\ average' = average \/ (~Negative(value) /\ Reprice(value))
      /\ Repost(d, row, Nothing)
      /\ document' = [document EXCEPT ![d] = row]
  BY DEF ReviseSale, Documents
<1>3. /\ document[d].status = "CONFIRMED" /\ document[d].revision < MaxRevision
      /\ job[c].body \in Bodies /\ document[d].returned <= job[c].body.meters
  BY <1>1, <1>2, NoJobOf DEF JobsFit, JobFits
<1>4. row.meters = job[c].body.meters /\ row.worth = job[c].body.worth
  BY <1>1, <1>2, <1>3, RevisedType
<1>5. row.meters \in Int /\ -row.meters \in Int /\ document[d].meters \in Int /\ row.worth \in Worths
      /\ document[d].worth \in Worths
  BY <1>1, <1>2, <1>3, <1>4 DEF Bodies, RowsTyped, Rows
<1> HIDE DEF row, d
<1>6. value \in Rationals
  <2>1. Present.value \in Rationals /\ document[d].worth \in Rationals /\ row.worth \in Rationals
    BY <1>1, <1>5, PresentWorth DEF Worths
  <2> QED  BY <2>1, AddType
<1>7. m \in Movements /\ m.kind = "undone" /\ k \in Movements /\ k.kind = "revised_sale"
  <2>1. "revised_sale" \in Kinds /\ "undone" \in Kinds
    BY DEF Kinds
  <2> DEFINE x == -row.meters
             y == document[d].meters
  <2>2. x \in Int /\ k = Movement("revised_sale", d, x, Nothing) /\ y \in Int /\ m = Movement("undone", d, y, Nothing)
    BY <1>5
  <2> HIDE DEF x, y, k, m
  <2> QED  BY <1>2, <2>1, <2>2, NothingWorth, MovementType
<1> HIDE DEF m, k, value
<1>8. average' \in Worths
  <2>1. stock' \in Nat
    <3>1. <<m, k>> \in Seq(Movements)
      BY <1>7
    <3> QED  BY <1>1, <1>2, <3>1, MoveKeeps
  <2>2. average \in Worths
    BY <1>1 DEF PoolTyped
  <2> QED  BY <1>2, <1>6, <2>1, <2>2, RepriceKeeps
<1>9. Nothing \in Rationals
  BY NothingType
<1> QED  BY <1>2, <1>7, <1>8, <1>9, CommitKeeps DEF d, row

(* The invariant holds at the start,                                       *)
LEMMA RevisionInvInit == RevisionInit => RevisionInv
<1> SUFFICES ASSUME RevisionInit PROVE RevisionInv
  OBVIOUS
<1>1. /\ stock = 0 /\ average = Nothing /\ movements = <<>> /\ ledger = Nothing /\ requests = 0
      /\ document = [d \in Documents |-> NoDocument]
      /\ entries  = [d \in Documents |-> [r \in 1..MaxRevision |-> NoEntry]]
      /\ lock     = [d \in Documents |-> NoOne]
      /\ job      = [c \in Handlers |-> NoJob]
  BY DEF RevisionInit
<1>2. Nothing \in Worths /\ Nothing \in Rationals
  BY NothingType DEF Worths
<1>3. PoolTyped /\ Len(movements) = 0
  BY <1>1, <1>2 DEF PoolTyped
<1>4. StockFits
  <2> DEFINE zero == 0
  <2>1. zero \in Int
    OBVIOUS
  <2> HIDE DEF zero
  <2>2. FoldLeft(Moved, zero, <<>>) = zero
    BY <2>1, StockNone
  <2> QED  BY <1>1, <2>2 DEF StockFits, zero
<1>5. RowsTyped
  <2>1. NoDocument \in Rows
    BY <1>2, RevisionAssumption DEF NoDocument, Rows
  <2> QED  BY <1>1, <2>1 DEF RowsTyped
<1>6. \A d \in Documents : document[d].status = "NONE" /\ document[d].returned = 0 /\ document[d].meters = 0
  BY <1>1 DEF NoDocument
<1>7. RowsFit /\ KindsFit /\ FirstsFit
  BY <1>3, <1>6 DEF RowsFit, KindsFit, FirstsFit
<1>8. BookTyped
  <2>1. NoEntry \in Entries
    BY <1>2 DEF NoEntry, Entries
  <2> QED  BY <1>1, <1>2, <2>1 DEF BookTyped
<1>9. EntryInForce
  <2>1. \A d \in Documents : \A r \in 1..MaxRevision : entries[d][r].status = "NONE"
    BY <1>1 DEF NoEntry
  <2> QED  BY <1>6, <2>1 DEF EntryInForce
<1>10. LocksTyped /\ LocksFit /\ JobsFit
  <2>1. 0 \in 0..RequestLimit
    BY RevisionAssumption
  <2> QED  BY <1>1, <2>1 DEF LocksTyped, LocksFit, JobsFit, JobFits
<1> QED  BY <1>3, <1>4, <1>5, <1>7, <1>8, <1>9, <1>10 DEF RevisionInv

(* while nothing happens,                                                  *)
LEMMA RevisionInvStutter == ASSUME RevisionInv, UNCHANGED revisionVars PROVE RevisionInv'
<1>1. LocksTyped /\ LocksFit /\ JobsFit
  BY DEF RevisionInv
<1>2. UNCHANGED <<pool, document, book>> /\ UNCHANGED <<lock, job, requests>>
  BY DEF revisionVars
<1>3. LocksTyped' /\ LocksFit' /\ JobsFit'
  <2>1. requests' \in 0..RequestLimit /\ \A d \in Documents : document'[d] = document[d]
    BY <1>1, <1>2 DEF LocksTyped
  <2> QED  BY <1>1, <1>2, <2>1, JobsKept
<1> QED  BY <1>2, <1>3, TakeKeeps

(* and whatever happens.                                                   *)
LEMMA RevisionInvNext == ASSUME RevisionInv, [RevisionNext]_revisionVars PROVE RevisionInv'
<1>1. ASSUME NEW d \in Purchases, ConfirmPurchase(d) PROVE RevisionInv'
  BY <1>1, ConfirmPurchaseKeeps
<1>2. ASSUME NEW d \in Sales, ConfirmSale(d) PROVE RevisionInv'
  BY <1>2, ConfirmSaleKeeps
<1>3. ASSUME NEW d \in Sales, NEW n \in Lengths, ReturnSale(d, n) PROVE RevisionInv'
  BY <1>3, ReturnSaleKeeps
<1>4. ASSUME NEW difference \in {-1, 1}, Count(difference) PROVE RevisionInv'
  BY <1>4, CountKeeps
<1>5. ASSUME NEW d \in Documents, Cancel(d) PROVE RevisionInv'
  BY <1>5, CancelKeeps
<1>6. ASSUME NEW c \in Handlers, NEW d \in Purchases, StartRevisePurchase(c, d) PROVE RevisionInv'
  BY <1>6, StartRevisePurchaseKeeps
<1>7. ASSUME NEW c \in Handlers, NEW d \in Sales, StartReviseSale(c, d) PROVE RevisionInv'
  BY <1>7, StartReviseSaleKeeps
<1>8. ASSUME NEW c \in Handlers, RevisePurchase(c) PROVE RevisionInv'
  BY <1>8, RevisePurchaseKeeps
<1>9. ASSUME NEW c \in Handlers, ReviseSale(c) PROVE RevisionInv'
  BY <1>9, ReviseSaleKeeps
<1>10. ASSUME NEW c \in Handlers, GiveUp(c) PROVE RevisionInv'
  BY <1>10, GiveUpKeeps
<1>11. CASE UNCHANGED revisionVars
  BY <1>11, RevisionInvStutter
<1> QED  BY <1>1, <1>2, <1>3, <1>4, <1>5, <1>6, <1>7, <1>8, <1>9, <1>10, <1>11 DEF RevisionNext

(* The inductive invariant of the revisions, for any handlers, invoices,   *)
(* lines and bounds.                                                       *)
THEOREM RevisionsInvariant == RevisionSpec => []RevisionInv
<1>1. RevisionInit => RevisionInv
  BY RevisionInvInit
<1>2. RevisionInv /\ [RevisionNext]_revisionVars => RevisionInv'
  BY RevisionInvNext
<1> QED  BY <1>1, <1>2, PTL DEF RevisionSpec

(* What is on hand is the sum of the movements and never negative, and no  *)
(* revision leaves an invoice with more returned than it is of.            *)
THEOREM RevisionsTypeCorrect == RevisionSpec => []RevisionTypeOK
<1>1. RevisionInv => RevisionTypeOK
  <2> SUFFICES ASSUME RevisionInv PROVE RevisionTypeOK
    OBVIOUS
  <2>1. /\ PoolTyped /\ StockFits /\ RowsTyped /\ RowsFit /\ LocksTyped /\ LocksFit
    BY DEF RevisionInv
  <2>2. stock \in Nat /\ ~Negative(average) /\ stock = FoldLeft(Moved, 0, movements)
    BY <2>1 DEF PoolTyped, StockFits, Worths
  <2>3. ASSUME NEW d \in Documents
        PROVE  /\ document[d].status \in {"NONE", "CONFIRMED", "CANCELLED"}
               /\ document[d].revision \in 1..MaxRevision
               /\ document[d].returned \in 0..document[d].meters
               /\ lock[d] # NoOne => job[lock[d]].of = d
    <3>1. document[d] \in Rows /\ document[d].returned <= document[d].meters
      BY <2>1 DEF RowsTyped, RowsFit
    <3> QED  BY <2>1, <3>1 DEF Rows, LocksFit
  <2> QED  BY <2>1, <2>2, <2>3 DEF RevisionTypeOK, LocksTyped
<1> QED  BY <1>1, RevisionsInvariant, PTL

(* Of all revisions of an invoice, whoever makes them, only the entry of   *)
(* the current one stands, with the amount of the current lines.           *)
THEOREM OneEntryInForce == RevisionSpec => []EntryInForce
<1>1. RevisionInv => EntryInForce
  BY DEF RevisionInv
<1> QED  BY <1>1, RevisionsInvariant, PTL

-----------------------------------------------------------------------------
(* Revisions: a revision that has been seen is revised once.               *)

(* The rows of an invoice that is at revision n.                           *)
MadeUpTo(n, made) ==
    /\ {row.seen : row \in made} = 1..(n - 1)
    /\ \A r, s \in made : r.seen = s.seen => r = s

(* What a handler revises is what its owner has seen, as long as it holds  *)
(* the invoice; and an invoice that is not confirmed has no revisions.     *)
SeenInv ==
    /\ \A d \in Documents : MadeUpTo(document[d].revision, MadeOf(d))
    /\ \A d \in Documents : document[d].status = "NONE" => document[d].revision = 1
    /\ \A c \in Handlers : job[c] # NoJob => job[c].seen = document[job[c].of].revision

(* One more row, of the revision there was, makes the next.                *)
LEMMA OneMoreMade ==
  ASSUME NEW n \in Nat \ {0}, NEW made, MadeUpTo(n, made), NEW row, row.seen = n
  PROVE  MadeUpTo(n + 1, made \cup {row})
<1>1. 1..((n + 1) - 1) = 1..(n - 1) \cup {n} /\ n \notin 1..(n - 1)
  OBVIOUS
<1>2. {r.seen : r \in made \cup {row}} = 1..((n + 1) - 1)
  <2>1. {r.seen : r \in made \cup {row}} = {r.seen : r \in made} \cup {row.seen}
    OBVIOUS
  <2> QED  BY <1>1, <2>1 DEF MadeUpTo
<1>3. \A r \in made : r.seen # row.seen
  BY <1>1 DEF MadeUpTo
<1>4. \A r, s \in made \cup {row} : r.seen = s.seen => r = s
  BY <1>3 DEF MadeUpTo
<1> QED  BY <1>2, <1>4 DEF MadeUpTo

(* A step that enters no revision and takes no invoice.                    *)
LEMMA SeenStays ==
  ASSUME SeenInv, revisions' = revisions,
         \A d \in Documents : document'[d].revision = document[d].revision,
         \A d \in Documents : document'[d].status = "NONE" => document[d].status = "NONE",
         \A c \in Handlers : job'[c] = NoJob \/ job'[c] = job[c],
         \A c \in Handlers : job[c] # NoJob => job[c].of \in Documents
  PROVE  SeenInv'
<1>1. \A d \in Documents : MadeUpTo(document'[d].revision, MadeOf(d)')
  BY DEF SeenInv, MadeOf
<1>2. \A c \in Handlers : job'[c] # NoJob => job'[c].seen = document'[job'[c].of].revision
  BY DEF SeenInv
<1>3. \A d \in Documents : document'[d].status = "NONE" => document'[d].revision = 1
  BY DEF SeenInv
<1> QED  BY <1>1, <1>2, <1>3 DEF SeenInv, MadeUpTo

(* What else is done to an invoice leaves its revision.                    *)
LEMMA SeenAtOnce ==
  ASSUME RevisionInv, SeenInv, NEW d \in Documents, AtOnce,
         ConfirmPurchase(d) \/ ConfirmSale(d) \/ Cancel(d) \/ \E n \in Lengths : ReturnSale(d, n)
  PROVE  SeenInv'
<1>1. revisions' = revisions /\ job' = job
  BY DEF AtOnce
<1>2. /\ document \in [Documents -> Rows] /\ document[d] \in Rows
      /\ \A c \in Handlers : job[c] # NoJob => job[c].of \in Documents
  BY DEF RevisionInv, RowsTyped, JobsFit, JobFits
<1>3. PICK new : /\ document' = [document EXCEPT ![d] = new]
                 /\ new.revision = document[d].revision /\ new.status # "NONE"
  <2>1. CASE ConfirmPurchase(d)
    <3>1. PICK line \in Receipts :
            document' = [document EXCEPT ![d] =
              [NoDocument EXCEPT !.status = "CONFIRMED", !.meters = line[1], !.worth = Whole(line[2])]]
      BY <2>1 DEF ConfirmPurchase
    <3> DEFINE new == [NoDocument EXCEPT !.status = "CONFIRMED", !.meters = line[1], !.worth = Whole(line[2])]
    <3>2. new.revision = 1 /\ new.status = "CONFIRMED"
      BY DEF NoDocument
    <3>3. document[d].revision = 1
      BY <2>1 DEF ConfirmPurchase, SeenInv
    <3>4. document' = [document EXCEPT ![d] = new]
      BY <3>1
    <3> HIDE DEF new
    <3> QED  BY <3>2, <3>3, <3>4
  <2>2. CASE ConfirmSale(d)
    <3>1. PICK m \in Lengths :
            document' = [document EXCEPT ![d] =
              [NoDocument EXCEPT !.status = "CONFIRMED", !.meters = m, !.worth = average ** m]]
      BY <2>2 DEF ConfirmSale
    <3> DEFINE new == [NoDocument EXCEPT !.status = "CONFIRMED", !.meters = m, !.worth = average ** m]
    <3>2. new.revision = 1 /\ new.status = "CONFIRMED"
      BY DEF NoDocument
    <3>3. document[d].revision = 1
      BY <2>2 DEF ConfirmSale, SeenInv
    <3>4. document' = [document EXCEPT ![d] = new]
      BY <3>1
    <3> HIDE DEF new
    <3> QED  BY <3>2, <3>3, <3>4
  <2>3. CASE Cancel(d)
    <3> DEFINE new == [document[d] EXCEPT !.status = "CANCELLED"]
    <3>1. document' = [document EXCEPT ![d] = new]
      BY <1>2, <2>3 DEF Cancel
    <3>2. new.revision = document[d].revision /\ new.status = "CANCELLED"
      BY <1>2 DEF Rows
    <3> HIDE DEF new
    <3> QED  BY <3>1, <3>2
  <2>4. ASSUME NEW n \in Lengths, ReturnSale(d, n)
        PROVE  \E new : /\ document' = [document EXCEPT ![d] = new]
                        /\ new.revision = document[d].revision /\ new.status # "NONE"
    <3> DEFINE new == [document[d] EXCEPT !.returned = @ + n]
    <3>1. document' = [document EXCEPT ![d] = new]
      BY <1>2, <2>4 DEF ReturnSale
    <3>2. new.revision = document[d].revision /\ new.status = "CONFIRMED"
      BY <1>2, <2>4 DEF Rows, ReturnSale
    <3> HIDE DEF new
    <3> QED  BY <3>1, <3>2
  <2> QED  BY <2>1, <2>2, <2>3, <2>4
<1>4. document'[d] = new /\ \A e \in Documents \ {d} : document'[e] = document[e]
  BY <1>2, <1>3
<1>5. \A e \in Documents : /\ document'[e].revision = document[e].revision
                           /\ document'[e].status = "NONE" => document[e].status = "NONE"
  BY <1>3, <1>4
<1> QED  BY <1>1, <1>2, <1>5, SeenStays

(* A handler takes an invoice whose current revision its owner has seen.   *)
LEMMA SeenTaken ==
  ASSUME RevisionInv, SeenInv, NEW c \in Handlers, NEW d \in Documents,
         NEW request, Take(c, d, request), request.of = d, request.seen = document[d].revision
  PROVE  SeenInv'
<1>1. /\ document' = document /\ revisions' = revisions /\ job' = [job EXCEPT ![c] = request]
      /\ job = [e \in Handlers |-> job[e]]
  BY DEF Take, RevisionInv, LocksTyped
<1>2. \A d1 \in Documents : MadeUpTo(document'[d1].revision, MadeOf(d1)')
  BY <1>1 DEF SeenInv, MadeOf
<1>3. job'[c] = request /\ \A e \in Handlers \ {c} : job'[e] = job[e]
  BY <1>1
<1>4. \A e \in Handlers : job'[e] # NoJob => job'[e].seen = document'[job'[e].of].revision
  BY <1>1, <1>3 DEF SeenInv
<1>5. \A e \in Documents : document'[e].status = "NONE" => document'[e].revision = 1
  BY <1>1 DEF SeenInv
<1> QED  BY <1>2, <1>4, <1>5 DEF SeenInv, MadeUpTo

(* A handler commits: its invoice gets one row and one revision more, and  *)
(* no other handler holds it.                                              *)
LEMMA SeenMade ==
  ASSUME RevisionInv, SeenInv, NEW c \in Handlers, RevisePurchase(c) \/ ReviseSale(c)
  PROVE  SeenInv'
<1>0. PICK d \in Documents : d = job[c].of
  BY DEF RevisePurchase, ReviseSale, Documents
<1> DEFINE new == Revised(d, job[c].body)
           row == [of |-> d, seen |-> job[c].seen, key |-> job[c].key]
<1>1. /\ Finish(c) /\ document' = [document EXCEPT ![d] = new]
      /\ revisions' = revisions \cup {row}
  BY <1>0 DEF RevisePurchase, ReviseSale, Enter
<1>2. job[c] # NoJob
  BY <1>0, NoJobOf
<1>3. /\ RowsTyped /\ RowsFit /\ document \in [Documents -> Rows]
      /\ document[d].status = "CONFIRMED" /\ document[d].revision < MaxRevision
      /\ job[c].body \in Bodies /\ document[d].returned <= job[c].body.meters
      /\ job = [e \in Handlers |-> job[e]]
      /\ \A e \in Handlers : job[e] # NoJob => job[e].of \in Documents /\ lock[job[e].of] = e
  BY <1>0, <1>2 DEF RevisionInv, RowsTyped, JobsFit, JobFits, LocksTyped
<1>4. new.status = "CONFIRMED" /\ new.revision = document[d].revision + 1
  BY <1>3, RevisedType
<1>5. document[d].revision \in Nat \ {0}
  BY <1>3 DEF Rows
<1>6. job[c].seen = document[d].revision /\ row.seen = document[d].revision /\ row.of = d
  BY <1>0, <1>2 DEF SeenInv
<1> HIDE DEF new, row
<1>7. document'[d] = new /\ \A e \in Documents \ {d} : document'[e] = document[e]
  BY <1>1, <1>3
<1>8. MadeOf(d)' = MadeOf(d) \cup {row} /\ \A e \in Documents \ {d} : MadeOf(e)' = MadeOf(e)
  <2>1. \A e : MadeOf(e)' = {r \in revisions \cup {row} : r.of = e}
    BY <1>1 DEF MadeOf
  <2>2. {r \in revisions \cup {row} : r.of = d} = {r \in revisions : r.of = d} \cup {row}
    BY <1>6
  <2>3. ASSUME NEW e \in Documents \ {d}
        PROVE  {r \in revisions \cup {row} : r.of = e} = {r \in revisions : r.of = e}
    BY <1>6
  <2> QED  BY <2>1, <2>2, <2>3 DEF MadeOf
<1>9. \A e \in Documents : MadeUpTo(document'[e].revision, MadeOf(e)')
  <2>1. MadeUpTo(document'[d].revision, MadeOf(d)')
    <3>1. MadeUpTo(document[d].revision, MadeOf(d))
      BY DEF SeenInv
    <3>2. MadeUpTo(document[d].revision + 1, MadeOf(d) \cup {row})
      BY <1>5, <1>6, <3>1, OneMoreMade
    <3> QED  BY <1>4, <1>7, <1>8, <3>2
  <2>2. ASSUME NEW e \in Documents \ {d} PROVE MadeUpTo(document'[e].revision, MadeOf(e)')
    <3>1. MadeUpTo(document[e].revision, MadeOf(e))
      BY DEF SeenInv
    <3> QED  BY <1>7, <1>8, <3>1
  <2> QED  BY <2>1, <2>2
<1>10. \A e \in Handlers : job'[e] # NoJob => job'[e].seen = document'[job'[e].of].revision
  <2> SUFFICES ASSUME NEW e \in Handlers, job'[e] # NoJob
               PROVE  job'[e].seen = document'[job'[e].of].revision
    OBVIOUS
  <2>1. e # c /\ job'[e] = job[e]
    BY <1>1, <1>3 DEF Finish
  <2>2. job[e].of \in Documents \ {d}
    BY <1>0, <1>2, <1>3, <2>1
  <2> QED  BY <1>7, <2>1, <2>2 DEF SeenInv
<1>11. \A e \in Documents : document'[e].status = "NONE" => document'[e].revision = 1
  BY <1>4, <1>7 DEF SeenInv
<1> QED  BY <1>9, <1>10, <1>11 DEF SeenInv, MadeUpTo

(* The invariant is kept whatever happens.                                 *)
LEMMA SeenInvNext == ASSUME RevisionInv, SeenInv, [RevisionNext]_revisionVars PROVE SeenInv'
<1>1. ASSUME NEW d \in Purchases, ConfirmPurchase(d) PROVE SeenInv'
  BY <1>1, SeenAtOnce DEF ConfirmPurchase, Documents
<1>2. ASSUME NEW d \in Sales, ConfirmSale(d) PROVE SeenInv'
  BY <1>2, SeenAtOnce DEF ConfirmSale, Documents
<1>3. ASSUME NEW d \in Sales, NEW n \in Lengths, ReturnSale(d, n) PROVE SeenInv'
  BY <1>3, SeenAtOnce DEF ReturnSale, Documents
<1>4. ASSUME NEW d \in Documents, Cancel(d) PROVE SeenInv'
  BY <1>4, SeenAtOnce DEF Cancel
<1>5. \A c \in Handlers : job[c] # NoJob => job[c].of \in Documents
  BY DEF RevisionInv, JobsFit, JobFits
<1>6. ASSUME NEW difference \in {-1, 1}, Count(difference) PROVE SeenInv'
  <2>1. revisions' = revisions /\ document' = document /\ job' = job
    BY <1>6 DEF Count, AtOnce
  <2> QED  BY <1>5, <2>1, SeenStays
<1>7. ASSUME NEW c \in Handlers, NEW d \in Purchases, StartRevisePurchase(c, d) PROVE SeenInv'
  <2>1. PICK request : /\ Take(c, d, request) /\ request.of = d
                       /\ request.seen = document[d].revision
    BY <1>7 DEF StartRevisePurchase, Current
  <2> QED  BY <2>1, SeenTaken DEF Documents
<1>8. ASSUME NEW c \in Handlers, NEW d \in Sales, StartReviseSale(c, d) PROVE SeenInv'
  <2>1. PICK request : /\ Take(c, d, request) /\ request.of = d
                       /\ request.seen = document[d].revision
    BY <1>8 DEF StartReviseSale, Current
  <2> QED  BY <2>1, SeenTaken DEF Documents
<1>9. ASSUME NEW c \in Handlers, RevisePurchase(c) \/ ReviseSale(c) PROVE SeenInv'
  BY <1>9, SeenMade
<1>10. ASSUME NEW c \in Handlers, GiveUp(c) PROVE SeenInv'
  <2>1. revisions' = revisions /\ document' = document /\ job' = [job EXCEPT ![c] = NoJob]
        /\ job = [e \in Handlers |-> job[e]]
    BY <1>10 DEF GiveUp, Finish, RevisionInv, LocksTyped
  <2>2. \A e \in Handlers : job'[e] = NoJob \/ job'[e] = job[e]
    BY <2>1
  <2> QED  BY <1>5, <2>1, <2>2, SeenStays
<1>11. CASE UNCHANGED revisionVars
  <2>1. revisions' = revisions /\ document' = document /\ job' = job
    BY <1>11 DEF revisionVars
  <2> QED  BY <1>5, <2>1, SeenStays
<1> QED  BY <1>1, <1>2, <1>3, <1>4, <1>6, <1>7, <1>8, <1>9, <1>10, <1>11 DEF RevisionNext

(* Every revision is one step from the revision its owner had seen: of     *)
(* requests that saw the same one, only one ever posts.                    *)
THEOREM RevisedOncePerLook == RevisionSpec => []SeenOnce
<1>1. RevisionInit => SeenInv
  <2> SUFFICES ASSUME RevisionInit PROVE SeenInv
    OBVIOUS
  <2>1. \A d \in Documents : document[d].revision = 1 /\ MadeOf(d) = {}
    BY DEF RevisionInit, NoDocument, MadeOf
  <2>2. MadeUpTo(1, {})
    BY DEF MadeUpTo
  <2>3. \A c \in Handlers : job[c] = NoJob
    BY DEF RevisionInit
  <2> QED  BY <2>1, <2>2, <2>3 DEF SeenInv
<1>2. RevisionInv /\ SeenInv /\ [RevisionNext]_revisionVars => SeenInv'
  BY SeenInvNext
<1>3. SeenInv => SeenOnce
  BY DEF SeenInv, MadeUpTo, SeenOnce
<1> QED  BY <1>1, <1>2, <1>3, RevisionsInvariant, PTL DEF RevisionSpec

(* Revisions take turns: one for each revision that was seen, and only the *)
(* entry of the last one stands (the row lock and the number in execute).  *)
THEOREM RevisionsTakeTurns == RevisionSpec => []RevisedInTurn
<1>1. SeenOnce /\ EntryInForce => RevisedInTurn
  BY DEF RevisedInTurn
<1> QED  BY <1>1, RevisedOncePerLook, OneEntryInForce, PTL

-----------------------------------------------------------------------------
(* Revisions: stock and ledger move by the same.                           *)

(* What has been issued and counted of a difference, taken together.       *)
LEMMA Regroup ==
  ASSUME NEW ending \in Rationals, NEW issued \in Rationals, NEW counted \in Rationals
  PROVE  (ending ++ issued) -- counted = ending -- (counted -- issued)
<1>1. PICK d \in Nat \ {0} : {ending, issued, counted} \subseteq Over(d)
  BY CommonDenominator
<1>2. PICK e \in Int, s \in Int, t \in Int :
        ending = Reduced(e, d) /\ issued = Reduced(s, d) /\ counted = Reduced(t, d)
  BY <1>1 DEF Over
<1>3. /\ ending ++ issued = Reduced(e + s, d) /\ e + s \in Int
      /\ counted -- issued = Reduced(t - s, d) /\ t - s \in Int
  BY <1>2, AddOver
<1>4. (ending ++ issued) -- counted = Reduced((e + s) - t, d)
  BY <1>2, <1>3, AddOver
<1>5. ending -- (counted -- issued) = Reduced(e - (t - s), d)
  BY <1>2, <1>3, AddOver
<1>6. (e + s) - t = e - (t - s)
  OBVIOUS
<1> QED  BY <1>4, <1>5, <1>6

(* What a purchase's revision enters: the old worth w out, the new v in,   *)
(* and the adjustment of what has left since; what stays is in stock.      *)
LEMMA PurchaseBalance ==
  ASSUME NEW ending \in Rationals, NEW L \in Rationals, NEW v \in Rationals,
         NEW w \in Rationals, NEW adjustment \in Rationals, v -- w = ending -- adjustment
  PROVE  (((L -- (w ** 1)) ++ (v ** 1)) ++ adjustment) -- L = ending
<1>1. PICK d \in Nat \ {0} : {ending, L, v, w, adjustment} \subseteq Over(d)
  <2>1. PICK d1 \in Nat \ {0} : ending \in Over(d1)
    BY DEF Rationals, Over
  <2>2. PICK d2 \in Nat \ {0} : Over(d1) \subseteq Over(d2) /\ L \in Over(d2)
    BY OverMore
  <2>3. PICK d3 \in Nat \ {0} : Over(d2) \subseteq Over(d3) /\ v \in Over(d3)
    BY OverMore
  <2>4. PICK d4 \in Nat \ {0} : Over(d3) \subseteq Over(d4) /\ w \in Over(d4)
    BY OverMore
  <2>5. PICK d \in Nat \ {0} : Over(d4) \subseteq Over(d) /\ adjustment \in Over(d)
    BY OverMore
  <2> QED  BY <2>1, <2>2, <2>3, <2>4, <2>5
<1>2. \A z \in {ending, L, v, w, adjustment} : \E i \in Int : z = Reduced(i, d)
  BY <1>1 DEF Over
<1>3. PICK e \in Int : ending = Reduced(e, d)
  BY <1>2
<1>4. PICK l \in Int : L = Reduced(l, d)
  BY <1>2
<1>5. PICK x \in Int : v = Reduced(x, d)
  BY <1>2
<1>6. PICK y \in Int : w = Reduced(y, d)
  BY <1>2
<1>7. PICK t \in Int : adjustment = Reduced(t, d)
  BY <1>2
<1> DEFINE p == x - y
           q == e - t
<1>8. v -- w = Reduced(p, d) /\ p \in Int
  BY <1>5, <1>6, AddOver
<1>9. ending -- adjustment = Reduced(q, d) /\ q \in Int
  BY <1>3, <1>7, AddOver
<1>10. p = q
  <2> HIDE DEF p, q
  <2> QED  BY <1>8, <1>9, SameOver
<1>11. w ** 1 = Reduced(y, d)
  <2>1. w ** 1 = Reduced(y * 1, d)
    BY <1>6, TimesOver
  <2> QED  BY <2>1
<1>12. v ** 1 = Reduced(x, d)
  <2>1. v ** 1 = Reduced(x * 1, d)
    BY <1>5, TimesOver
  <2> QED  BY <2>1
<1>13. L -- (w ** 1) = Reduced(l - y, d) /\ l - y \in Int
  BY <1>4, <1>11, AddOver
<1>14. (L -- (w ** 1)) ++ (v ** 1) = Reduced((l - y) + x, d) /\ (l - y) + x \in Int
  BY <1>12, <1>13, AddOver
<1>15. /\ ((L -- (w ** 1)) ++ (v ** 1)) ++ adjustment = Reduced(((l - y) + x) + t, d)
       /\ ((l - y) + x) + t \in Int
  BY <1>7, <1>14, AddOver
<1>16. (((L -- (w ** 1)) ++ (v ** 1)) ++ adjustment) -- L = Reduced((((l - y) + x) + t) - l, d)
  BY <1>4, <1>15, AddOver
<1>17. (((l - y) + x) + t) - l = e
  BY <1>10
<1> QED  BY <1>3, <1>16, <1>17

(* What a sale's revision enters: the old cost w back, the new v out.      *)
LEMMA SaleBalance ==
  ASSUME NEW B \in Rationals, NEW L \in Rationals, NEW v \in Rationals, NEW w \in Rationals
  PROVE  /\ (((L -- (w ** (-1))) ++ (v ** (-1))) ++ Nothing) -- L = (B ++ (w -- v)) -- B
         /\ B ++ (w -- w) = B
<1>1. PICK d \in Nat \ {0} : {B, L, v, w} \subseteq Over(d)
  BY CommonDenominator
<1>2. PICK b \in Int, l \in Int, x \in Int, y \in Int :
        B = Reduced(b, d) /\ L = Reduced(l, d) /\ v = Reduced(x, d) /\ w = Reduced(y, d)
  BY <1>1 DEF Over
<1>3. w ** (-1) = Reduced(-y, d) /\ v ** (-1) = Reduced(-x, d) /\ -y \in Int /\ -x \in Int
  <2> DEFINE one == -1
  <2>1. one \in Int /\ y * one = -y /\ x * one = -x
    OBVIOUS
  <2> HIDE DEF one
  <2>2. w ** one = Reduced(y * one, d) /\ v ** one = Reduced(x * one, d)
    BY <1>2, <2>1, TimesOver
  <2>3. w ** one = Reduced(-y, d) /\ v ** one = Reduced(-x, d) /\ -y \in Int /\ -x \in Int
    BY <2>1, <2>2
  <2> QED  BY <2>3 DEF one
<1>4. L -- (w ** (-1)) = Reduced(l - (-y), d) /\ l - (-y) \in Int
  BY <1>2, <1>3, AddOver
<1>5. (L -- (w ** (-1))) ++ (v ** (-1)) = Reduced((l - (-y)) + (-x), d) /\ (l - (-y)) + (-x) \in Int
  BY <1>3, <1>4, AddOver
<1>6. ((L -- (w ** (-1))) ++ (v ** (-1))) ++ Nothing = (L -- (w ** (-1))) ++ (v ** (-1))
  <2>1. (L -- (w ** (-1))) ++ (v ** (-1)) \in Rationals
    BY <1>5 DEF Rationals
  <2> QED  BY <2>1, AddNothing
<1>7. (((L -- (w ** (-1))) ++ (v ** (-1))) ++ Nothing) -- L = Reduced(((l - (-y)) + (-x)) - l, d)
  BY <1>2, <1>5, <1>6, AddOver
<1>8. w -- v = Reduced(y - x, d) /\ y - x \in Int /\ w -- w = Reduced(y - y, d) /\ y - y \in Int
  <2>1. w -- v = Reduced(y - x, d)
    BY <1>2, AddOver
  <2>2. w -- w = Reduced(y - y, d)
    BY <1>2, AddOver
  <2> QED  BY <2>1, <2>2
<1>9. B ++ (w -- v) = Reduced(b + (y - x), d) /\ b + (y - x) \in Int
      /\ B ++ (w -- w) = Reduced(b + (y - y), d)
  <2>1. B ++ (w -- v) = Reduced(b + (y - x), d)
    BY <1>2, <1>8, AddOver
  <2>2. B ++ (w -- w) = Reduced(b + (y - y), d)
    BY <1>2, <1>8, AddOver
  <2> QED  BY <2>1, <2>2
<1>10. (B ++ (w -- v)) -- B = Reduced((b + (y - x)) - b, d)
  BY <1>2, <1>9, AddOver
<1>11. ((l - (-y)) + (-x)) - l = (b + (y - x)) - b /\ b + (y - y) = b
  OBVIOUS
<1> QED  BY <1>2, <1>7, <1>9, <1>10, <1>11

(* What is in force of a confirmed invoice is what its lines say.          *)
LEMMA AmountInForce ==
  ASSUME EntryInForce, NEW d \in Documents, document[d].status = "CONFIRMED",
         document[d].revision \in 1..MaxRevision
  PROVE  InForce(d, document[d].revision) = Amount(d, document[d])
<1>1. entries[d][document[d].revision] = [status |-> "POSTED", amount |-> Amount(d, document[d])]
  BY DEF EntryInForce
<1> QED  BY <1>1 DEF InForce

(* A purchase's revision.                                                  *)
LEMMA PurchaseMovesBoth ==
  ASSUME RevisionInv, NEW c \in Handlers, RevisePurchase(c), stock' > 0, job[c].read = pool
  PROVE  (average' ** stock') -- Present.value = ledger' -- ledger
<1>1. /\ PoolTyped /\ RowsTyped /\ RowsFit /\ BookTyped /\ EntryInForce /\ JobsFit
  BY DEF RevisionInv
<1> DEFINE d == job[c].of
           row == Revised(d, job[c].body)
           told == job[c].comparison
           m == Movement("revised_receipt", d, row.meters, Nothing)
           k == Movement("undone", d, -document[d].meters, Nothing)
<1>2. /\ d \in Purchases /\ d \in Documents /\ d = job[c].of /\ Move(<<m, k>>)
      /\ stock' = told.ending.meters /\ average' = Rate(told.ending)
      /\ Repost(d, row, Adjustment(told))
  BY DEF RevisePurchase, Documents
<1>3. /\ document[d].status = "CONFIRMED" /\ document[d].revision < MaxRevision
      /\ job[c].body \in Bodies /\ document[d].returned <= job[c].body.meters
      /\ Calculated(job[c], document[d])
  BY <1>1, <1>2, NoJobOf DEF JobsFit, JobFits
<1>4. row.meters = job[c].body.meters /\ row.worth = job[c].body.worth
  BY <1>1, <1>2, <1>3, RevisedType
<1>5. /\ row.meters \in Int /\ document[d].meters \in Nat \ {0} /\ row.worth \in Rationals
      /\ document[d].worth \in Rationals /\ document[d].revision \in 1..MaxRevision
  BY <1>1, <1>2, <1>3, <1>4 DEF Bodies, RowsTyped, Rows, RowsFit, Worths
<1> HIDE DEF row, d, told
<1>6. stock' = stock + row.meters + (-document[d].meters)
  <2>1. m.meters = row.meters /\ k.meters = -document[d].meters /\ stock \in Int
    BY <1>1 DEF Movement, PoolTyped
  <2>2. -document[d].meters \in Int
    BY <1>5
  <2>3. stock' = FoldLeft(Moved, stock, <<m, k>>)
    BY <1>2 DEF Move
  <2> HIDE DEF m, k
  <2>4. m.meters \in Int /\ k.meters \in Int
    BY <1>5, <2>1, <2>2
  <2>5. FoldLeft(Moved, stock, <<m, k>>) = stock + m.meters + k.meters
    BY <2>1, <2>4, StockTwo
  <2> QED  BY <2>1, <2>3, <2>5
<1>7. PICK n \in Int : Tells(told, [meters |-> job[c].read[1], value |-> job[c].read[2] ** job[c].read[1]],
                             job[c].body.meters - n, job[c].body.worth -- (UnitCost(document[d]) ** n))
  BY <1>3 DEF Calculated, told
<1>8. job[c].read[1] = stock /\ job[c].read[2] ** job[c].read[1] = Present.value
  BY DEF pool, Present
<1>9. /\ told.ending \in Pools /\ told.ending.meters = stock + (row.meters - n)
      /\ told.cogsDelta \in Rationals /\ told.movedDelta \in Rationals
      /\ told.knownDelta = row.worth -- (UnitCost(document[d]) ** n)
      /\ told.endingDelta = told.ending.value -- Present.value
  BY <1>4, <1>7, <1>8 DEF Tells
<1>10. n = document[d].meters
  <2>1. stock \in Int /\ document[d].meters \in Int
    BY <1>1, <1>5 DEF PoolTyped
  <2>2. stock + row.meters + (-document[d].meters) = stock + (row.meters - n)
    BY <1>2, <1>6, <1>9
  <2> DEFINE s == stock
             r == row.meters
             o == document[d].meters
  <2>3. s \in Int /\ r \in Int /\ o \in Int /\ s + r + (-o) = s + (r - n)
    BY <1>5, <2>1, <2>2
  <2> HIDE DEF s, r, o
  <2>4. n = o
    BY <2>3
  <2> QED  BY <2>4 DEF o
<1>11. UnitCost(document[d]) ** n = document[d].worth
  BY <1>5, <1>10, PartsMakeWhole DEF UnitCost
<1>12. row.worth -- document[d].worth
         = ((told.ending.value -- Present.value) ++ told.cogsDelta) -- told.movedDelta
  BY <1>3, <1>9, <1>11 DEF Calculated, Conserves, told
<1>13. average' ** stock' = told.ending.value
  BY <1>2, <1>9, RateWhole
<1>14. InForce(d, document[d].revision) = document[d].worth ** 1 /\ Amount(d, row) = row.worth ** 1
  <2>1. Inward(d) = 1
    BY <1>2 DEF Inward
  <2> QED  BY <1>1, <1>2, <1>3, <1>5, <2>1, AmountInForce DEF Amount
<1>15. ledger' = ((ledger -- (document[d].worth ** 1)) ++ (row.worth ** 1)) ++ (told.movedDelta -- told.cogsDelta)
  BY <1>2, <1>14 DEF Repost, Adjustment
<1>16. told.ending.value \in Rationals /\ Present.value \in Rationals /\ ledger \in Rationals
  BY <1>1, <1>9, PresentWorth DEF Pools, Worths, BookTyped
<1>17. ledger' -- ledger = told.ending.value -- Present.value
  <2> DEFINE ending == told.ending.value -- Present.value
             L == ledger
             v == row.worth
             w == document[d].worth
             adjustment == told.movedDelta -- told.cogsDelta
  <2>1. ending \in Rationals /\ adjustment \in Rationals
    BY <1>9, <1>16, AddType
  <2>2. v -- w = ending -- adjustment
    BY <1>9, <1>12, <2>1, Regroup
  <2>3. L \in Rationals /\ v \in Rationals /\ w \in Rationals
    BY <1>5, <1>16
  <2>4. ledger' -- ledger = (((L -- (w ** 1)) ++ (v ** 1)) ++ adjustment) -- L
    BY <1>15
  <2> HIDE DEF ending, L, v, w, adjustment
  <2>5. ledger' -- ledger = ending
    BY <2>1, <2>2, <2>3, <2>4, PurchaseBalance
  <2> QED  BY <2>5 DEF ending
<1> QED  BY <1>13, <1>17

(* And a sale's.                                                           *)
LEMMA SaleMovesBoth ==
  ASSUME RevisionInv, NEW c \in Handlers, ReviseSale(c), stock' > 0
  PROVE  (average' ** stock') -- Present.value = ledger' -- ledger
<1>1. /\ PoolTyped /\ RowsTyped /\ RowsFit /\ BookTyped /\ EntryInForce /\ JobsFit
  BY DEF RevisionInv
<1> DEFINE d == job[c].of
           row == Revised(d, job[c].body)
           value == Present.value ++ (document[d].worth -- row.worth)
           m == Movement("undone", d, document[d].meters, Nothing)
           k == Movement("revised_sale", d, -row.meters, Nothing)
<1>2. /\ d \in Sales /\ d \in Documents /\ d \notin Purchases /\ d = job[c].of /\ Move(<<m, k>>)
      /\ IF row.meters = document[d].meters /\ row.worth = document[d].worth
         THEN average' = average
         ELSE ~Negative(value) /\ Reprice(value)
      /\ Repost(d, row, Nothing)
  BY RevisionAssumption DEF ReviseSale, Documents
<1>3. /\ document[d].status = "CONFIRMED" /\ document[d].revision < MaxRevision
      /\ job[c].body \in Bodies /\ document[d].returned <= job[c].body.meters
  BY <1>1, <1>2, NoJobOf DEF JobsFit, JobFits
<1>4. row.meters = job[c].body.meters /\ row.worth = job[c].body.worth
  BY <1>1, <1>2, <1>3, RevisedType
<1>5. /\ row.meters \in Int /\ document[d].meters \in Int /\ row.worth \in Rationals
      /\ document[d].worth \in Rationals /\ document[d].revision \in 1..MaxRevision
  BY <1>1, <1>2, <1>3, <1>4 DEF Bodies, RowsTyped, Rows, Worths
<1> HIDE DEF row, d
<1>6. stock' = stock + document[d].meters + (-row.meters)
  <2>1. m.meters = document[d].meters /\ k.meters = -row.meters /\ stock \in Int
    BY <1>1 DEF Movement, PoolTyped
  <2>2. -row.meters \in Int
    BY <1>5
  <2>3. stock' = FoldLeft(Moved, stock, <<m, k>>)
    BY <1>2 DEF Move
  <2> HIDE DEF m, k
  <2>4. m.meters \in Int /\ k.meters \in Int
    BY <1>5, <2>1, <2>2
  <2>5. FoldLeft(Moved, stock, <<m, k>>) = stock + m.meters + k.meters
    BY <2>1, <2>4, StockTwo
  <2> QED  BY <2>1, <2>3, <2>5
<1>7. Present.value \in Rationals /\ Present.value = average ** stock /\ ledger \in Rationals
  BY <1>1, PresentWorth DEF Worths, BookTyped
<1>8. average' ** stock' = value
  <2>1. CASE row.meters = document[d].meters /\ row.worth = document[d].worth
    <3>1. average' = average /\ stock' = stock
      BY <1>1, <1>2, <1>5, <1>6, <2>1 DEF PoolTyped
    <3>2. value = Present.value
      BY <1>5, <1>7, <2>1, SaleBalance
    <3> QED  BY <1>7, <3>1, <3>2
  <2>2. CASE ~(row.meters = document[d].meters /\ row.worth = document[d].worth)
    <3>1. value \in Rationals
      BY <1>5, <1>7, AddType
    <3>2. average' = Rate([meters |-> stock', value |-> value])
      BY <1>2, <2>2 DEF Reprice
    <3> HIDE DEF value
    <3>3. stock' \in Int
      BY <1>1, <1>5, <1>6 DEF PoolTyped
    <3> DEFINE p == [meters |-> stock', value |-> value]
    <3>4. p \in Pools /\ p.meters = stock' /\ p.value = value /\ p.meters > 0 /\ average' = Rate(p)
      BY <3>1, <3>2, <3>3 DEF Pools
    <3> HIDE DEF p
    <3> QED  BY <3>4, RateWhole
  <2> QED  BY <2>1, <2>2
<1>9. InForce(d, document[d].revision) = document[d].worth ** (-1) /\ Amount(d, row) = row.worth ** (-1)
  <2>1. Inward(d) = -1
    BY <1>2 DEF Inward
  <2> QED  BY <1>1, <1>2, <1>3, <1>5, <2>1, AmountInForce DEF Amount
<1>10. ledger' = ((ledger -- (document[d].worth ** (-1))) ++ (row.worth ** (-1))) ++ Nothing
  BY <1>2, <1>9 DEF Repost
<1>11. ledger' -- ledger = value -- Present.value
  BY <1>5, <1>7, <1>10, SaleBalance
<1> QED  BY <1>8, <1>11

(* A revision that commits changes the worth of the goods on hand by       *)
(* exactly what it enters in the inventory account: a sale always, a       *)
(* purchase if nobody has moved the pool since its calculation.            *)
THEOREM RevisionsMoveBoth == RevisionSpec => RevisionMovesBoth
<1> DEFINE Both ==
      \A c \in Handlers :
         /\ Commits(c) /\ stock' > 0
         /\ job[c].of \in Purchases => job[c].read = pool
         => (average' ** stock') -- Present.value = ledger' -- ledger
<1>1. ASSUME RevisionInv, RevisionNext PROVE Both
  <2> SUFFICES ASSUME NEW c \in Handlers, Commits(c), stock' > 0,
                      job[c].of \in Purchases => job[c].read = pool
               PROVE  (average' ** stock') -- Present.value = ledger' -- ledger
    OBVIOUS
  <2>1. job[c] # NoJob /\ job'[c] = NoJob /\ document' # document /\ job = [b \in Handlers |-> job[b]]
    BY <1>1 DEF Commits, RevisionInv, LocksTyped
  <2>2. ~AtOnce
    BY <2>1 DEF AtOnce
  <2>3. PICK b \in Handlers : RevisePurchase(b) \/ ReviseSale(b)
    <3>1. ASSUME NEW b \in Handlers, NEW d, NEW request PROVE ~Take(b, d, request)
      BY <2>1 DEF Take
    <3>2. ASSUME NEW b \in Handlers PROVE ~GiveUp(b)
      BY <2>1 DEF GiveUp
    <3> QED  BY <1>1, <2>2, <3>1, <3>2
             DEF RevisionNext, ConfirmPurchase, ConfirmSale, ReturnSale, Count, Cancel,
                 StartRevisePurchase, StartReviseSale
  <2>4. b = c
    <3>1. job' = [job EXCEPT ![b] = NoJob]
      BY <2>3 DEF RevisePurchase, ReviseSale, Finish
    <3> QED  BY <2>1, <3>1
  <2>5. CASE RevisePurchase(c)
    <3>1. job[c].of \in Purchases
      BY <2>5 DEF RevisePurchase
    <3> QED  BY <1>1, <2>5, <3>1, PurchaseMovesBoth
  <2>6. CASE ReviseSale(c)
    BY <1>1, <2>6, SaleMovesBoth
  <2> QED  BY <2>3, <2>4, <2>5, <2>6
<1>2. ASSUME RevisionInv, [RevisionNext]_revisionVars PROVE [Both]_revisionVars
  BY <1>1, <1>2
<1> QED  BY <1>2, RevisionsInvariant, PTL DEF RevisionMovesBoth, RevisionSpec

-----------------------------------------------------------------------------
(* Revisions: a first revision calculates the pool there would be.         *)

(* The pool on the way of AsIf,                                            *)
Stocks == [meters : Int, rate : Rationals, drained : BOOLEAN]

(* and a movement it can take.                                             *)
Stockish(line, m) ==
    /\ m.meters \in Int /\ m.value \in Rationals
    /\ m.kind = "receipt" => line[m.of].meters \in Int /\ line[m.of].worth \in Rationals

(* The metres a movement brings,                                           *)
AsIfMetres(line, m) == IF m.kind = "receipt" THEN line[m.of].meters ELSE m.meters
(* and the value.                                                          *)
AsIfInflow(line, p, m) ==
    CASE m.kind = "receipt"     -> line[m.of].worth
      [] m.kind = "sale_return" -> m.value
      [] OTHER                  -> p.rate ** m.meters

(* One movement more.                                                      *)
LEMMA AsIfFields ==
  ASSUME NEW line, NEW p, NEW m, NEW q, q = StockedAsIf(line, p, m)
  PROVE  /\ q.meters = p.meters + AsIfMetres(line, m)
         /\ q.rate = Rate([meters |-> q.meters, value |-> (p.rate ** p.meters) ++ AsIfInflow(line, p, m)])
         /\ q.drained <=> p.drained \/ q.meters <= 0
<1> DEFINE meters == p.meters + AsIfMetres(line, m)
           rate == Rate([meters |-> meters, value |-> (p.rate ** p.meters) ++ AsIfInflow(line, p, m)])
           drained == p.drained \/ meters <= 0
<1>1. q = [meters |-> meters, rate |-> rate, drained |-> drained]
  BY DEF StockedAsIf, AsIfMetres, AsIfInflow
<1> HIDE DEF meters, rate, drained
<1>2. q.meters = meters /\ q.rate = rate
  BY <1>1
<1>3. q.drained = drained
  BY <1>1
<1>4. q.drained <=> p.drained \/ meters <= 0
  BY <1>3, Zenon DEF drained
<1> QED  BY <1>2, <1>4 DEF meters, rate

(* The pool keeps its type.                                                *)
LEMMA AsIfType ==
  ASSUME NEW line, NEW p \in Stocks, NEW m, Stockish(line, m)
  PROVE  StockedAsIf(line, p, m) \in Stocks
<1> DEFINE inflow == CASE m.kind = "receipt"     -> line[m.of].worth
                       [] m.kind = "sale_return" -> m.value
                       [] OTHER                  -> p.rate ** m.meters
           meters == p.meters + (IF m.kind = "receipt" THEN line[m.of].meters ELSE m.meters)
           rate == Rate([meters |-> meters, value |-> (p.rate ** p.meters) ++ inflow])
           drained == p.drained \/ meters <= 0
<1>1. meters \in Int /\ p.rate \in Rationals /\ p.meters \in Int
  BY DEF Stocks, Stockish
<1>2. inflow \in Rationals
  <2>1. p.rate ** m.meters \in Rationals
    BY <1>1, TimesType DEF Stockish
  <2> QED  BY <2>1 DEF Stockish
<1>3. (p.rate ** p.meters) ++ inflow \in Rationals
  <2> HIDE DEF inflow
  <2> QED  BY <1>1, <1>2, TimesType, AddType
<1> HIDE DEF inflow, meters
<1>4. [meters |-> meters, value |-> (p.rate ** p.meters) ++ inflow] \in Pools
  BY <1>1, <1>3 DEF Pools
<1>5. rate \in Rationals
  BY <1>4, RateType
<1>6. drained \in BOOLEAN
  OBVIOUS
<1>7. StockedAsIf(line, p, m) = [meters |-> meters, rate |-> rate, drained |-> drained]
  BY DEF StockedAsIf, meters, inflow
<1> HIDE DEF rate, drained
<1> QED  BY <1>1, <1>5, <1>6, <1>7 DEF Stocks

(* The lines know every movement.                                          *)
LinesKnow(line, n) ==
    n \in Nat /\ DOMAIN movements = 1..n /\ \A i \in 1..n : Stockish(line, movements[i])

(* The pools b of AsIf along all movements.                                *)
AsIfSteps(b, line, n) ==
    /\ b[0] = Unstocked /\ b[n] = AsIf(line)
    /\ \A i \in 0..n : b[i] \in Stocks
    /\ \A i \in 1..n : b[i] = StockedAsIf(line, b[i - 1], movements[i])

(* AsIf, movement by movement.                                             *)
LEMMA AsIfRun ==
  ASSUME NEW n, NEW line, LinesKnow(line, n)
  PROVE  \E r : AsIfSteps(r, line, n)
<1> DEFINE base == Unstocked
           ms == movements
           Step(p, m) == StockedAsIf(line, p, m)
<1>0. base \in Stocks
  BY NothingType DEF Unstocked, Stocks
<1> DEFINE E == {ms[i] : i \in 1..n}
           f == [x \in Stocks \X E |-> Step(x[1], x[2])]
<1> n \in Nat /\ DOMAIN ms = 1..n
  BY DEF LinesKnow
<1>30. \A i \in 1..n : Stockish(line, ms[i])
  BY DEF LinesKnow
<1>1. \A a \in Stocks, e \in E : Step(a, e) \in Stocks /\ f[<<a, e>>] = Step(a, e)
  BY <1>30, AsIfType
<1>2. StepOn(f, Stocks, E)
  BY <1>1 DEF StepOn
<1>3. \A i \in 1..n : ms[i] \in E
  OBVIOUS
<1>31. Elements(ms, n, E)
  BY <1>3 DEF Elements
<1> HIDE DEF E, f, base, Step, ms
<1> DEFINE A == Stocks
<1>20. StepOn(f, A, E) /\ base \in A
  BY <1>0, <1>2
<1> HIDE DEF A
<1>21. \E g, r : LeftStages(r, g, A, f, base, ms, n)
  BY <1>20, <1>31, LeftSteps
<1>4. PICK g, r : /\ LeftFold(g, Stocks, f, base, ms, n)
                  /\ r \in [0..n -> Stocks] /\ r[0] = base /\ r[n] = g[1..n]
                  /\ \A i \in 1..n : r[i] = f[<<r[i - 1], ms[i]>>]
  BY <1>21 DEF A, LeftStages
<1>5. r[0] = base /\ r[n] = g[1..n] /\ \A i \in 0..n : r[i] \in Stocks
  BY <1>4
<1>6. \A i \in 1..n : r[i] = Step(r[i - 1], ms[i])
  <2>1. \A i \in 1..n : r[i - 1] \in Stocks /\ r[i] = f[<<r[i - 1], ms[i]>>]
    BY <1>4
  <2> QED  BY <2>1, <1>1, <1>3
<1> DEFINE S == 1..n
           Fold(h) == [s \in SUBSET S |-> IF s = {} THEN base ELSE Step(h[s \ {Max(s)}], ms[Max(s)])]
           iter == CHOOSE h : h = Fold(h)
<1>7. iter[S] = AsIf(line)
  BY DEF AsIf, FoldLeft, MapThenFoldSet, base, Step, ms
<1>8. g \in [SUBSET S -> Stocks] /\ LeftFold(g, Stocks, f, base, ms, n)
  BY <1>4 DEF LeftFold
<1>9. ASSUME NEW s \in SUBSET S, s # {}
      PROVE  Max(s) \in S /\ s \ {Max(s)} \in SUBSET S
  BY <1>9, MaxIn
<1>10. g = Fold(g)
  <2>1. ASSUME NEW s \in SUBSET S PROVE g[s] = Fold(g)[s]
    <3>1. CASE s = {}
      BY <1>8, <3>1 DEF LeftFold
    <3>2. CASE s # {}
      <4>1. g[s] = f[<<g[s \ {Max(s)}], ms[Max(s)]>>]
        BY <1>8, <3>2 DEF LeftFold
      <4>2. g[s \ {Max(s)}] \in Stocks /\ ms[Max(s)] \in E
        <5> HIDE DEF S
        <5>1. s \ {Max(s)} \in SUBSET S /\ Max(s) \in S
          BY <1>9, <3>2
        <5> QED  BY <1>3, <1>8, <5>1 DEF S
      <4>3. g[s] = Step(g[s \ {Max(s)}], ms[Max(s)])
        BY <1>1, <4>1, <4>2
      <4> QED  BY <3>2, <4>3
    <3> QED  BY <3>1, <3>2
  <2>2. g = [s \in SUBSET S |-> g[s]]
    BY <1>8
  <2> HIDE DEF S
  <2> QED  BY <2>1, <2>2
<1>11. iter = Fold(iter)
  <2> HIDE DEF Fold
  <2> QED  BY <1>10
<1>12. iter[S] = g[S]
  <2> HIDE DEF iter
  <2>1. iter[{}] = base
    BY <1>11
  <2>2. ASSUME NEW s \in SUBSET S, s # {}, iter[s \ {Max(s)}] \in Stocks
        PROVE  iter[s] = f[<<iter[s \ {Max(s)}], ms[Max(s)]>>]
    <3>1. Max(s) \in S
      BY <1>9, <2>2
    <3>2. iter[s] = Step(iter[s \ {Max(s)}], ms[Max(s)])
      BY <1>11, <2>2
    <3> QED  BY <1>1, <1>3, <2>2, <3>1, <3>2
  <2>3. LeftFold(g, A, f, base, ms, n) /\ LeftFollows(iter, A, f, base, ms, n)
    BY <1>8, <2>1, <2>2 DEF A, LeftFollows
  <2> HIDE DEF A
  <2> QED  BY <2>3, LeftUnique
<1> QED  BY <1>5, <1>6, <1>7, <1>12 DEF base, AsIfSteps, Step, ms

(* What was in the pool at some time.                                      *)
Times == [meters : Nat, rate : Worths]

(* An event, as a replay knows it, has led from p to q.                    *)
Led(p, e, q) ==
    /\ q.meters = p.meters + e.meters
    /\ \/ /\ e.kind \in {"RECEIPT", "VALUE_IN"} /\ e.meters > 0
          /\ q.rate = Rate([meters |-> q.meters, value |-> (p.rate ** p.meters) ++ e.value])
       \/ /\ e.kind = "ISSUE" /\ q.rate = p.rate /\ e.rate = p.rate
       \/ /\ e.kind = "QUANTITY_ONLY" /\ q.rate = p.rate /\ e.rate = NoRate

(* What has come from nothing and is not negative is nothing.              *)
LEMMA NothingLess ==
  ASSUME NEW x \in Worths, ~Negative(Nothing -- x)
  PROVE  x = Nothing
<1>1. PICK a \in Int, d \in Nat \ {0} : x = Reduced(a, d)
  BY DEF Worths, Rationals
<1>2. Nothing = Reduced(0, d)
  BY NothingOver
<1>3. Nothing -- x = Reduced(0 - a, d) /\ 0 - a \in Int
  BY <1>1, <1>2, AddOver
<1>4. ~(0 - a < 0) /\ ~(a < 0)
  BY <1>1, <1>3, SignOver DEF Worths
<1>5. a = 0
  BY <1>4
<1> QED  BY <1>1, <1>2, <1>5

(* Nothing has no rate.                                                    *)
LEMMA NothingPart == ASSUME NEW k \in Nat \ {0} PROVE Nothing // k = Nothing
<1>1. Nothing \in Rationals /\ k \in Int
  BY NothingType
<1>2. Nothing ** k = Nothing
  BY <1>1, AddNothing
<1> QED  BY <1>1, <1>2, TimesPart

(* The rate of metres at a rate.                                           *)
LEMMA RateOf ==
  ASSUME NEW w \in Pools, w.meters > 0, NEW x \in Rationals, w.value = x ** w.meters
  PROVE  Rate(w) = x
<1>1. w.meters \in Nat \ {0}
  BY DEF Pools
<1> QED  BY <1>1, TimesPart DEF Rate

(* The way back of one event: it comes to what there was, or knows of      *)
(* nothing; and a receipt that was worth something is never undone from a  *)
(* pool that knows of nothing.                                             *)
LEMMA BackStep ==
  ASSUME NEW p \in Times, NEW q \in Times, NEW e, Recorded(e), Led(p, e, q),
         e.kind \in {"RECEIPT", "VALUE_IN"} => ~Negative(e.value),
         NEW w \in Pools, w.meters = q.meters, w.value = q.rate ** q.meters \/ w.value = Nothing,
         Possible(w, e)
  PROVE  /\ Before(w, e).meters = p.meters
         /\ Before(w, e).value = p.rate ** p.meters \/ Before(w, e).value = Nothing
         /\ e.kind = "RECEIPT" /\ e.value # Nothing => Before(w, e).value = p.rate ** p.meters
<1>1. /\ p.meters \in Nat /\ q.meters \in Nat /\ e.meters \in Int /\ p.rate \in Rationals /\ q.rate \in Rationals
      /\ e.value \in Rationals /\ q.meters = p.meters + e.meters /\ p.meters \in Int /\ q.meters \in Int
  BY DEF Times, Recorded, Led, Worths
<1>2. Before(w, e).meters = p.meters
  <2>1. Before(w, e).meters = w.meters - e.meters
    BY DEF Before
  <2> QED  BY <1>1, <2>1
<1>3. CASE e.kind \in {"RECEIPT", "VALUE_IN"}
  <2>1. /\ e.meters > 0 /\ q.rate = Rate([meters |-> q.meters, value |-> (p.rate ** p.meters) ++ e.value])
        /\ ~Negative(e.value)
    BY <1>3 DEF Led
  <2>2. Before(w, e).value = w.value -- e.value
    <3>1. Inflow(w, e) = e.value
      BY <1>3 DEF Inflow
    <3> DEFINE late == Inflow(w, e)
    <3>2. Before(w, e).value = w.value -- late
      BY <1>3 DEF Before
    <3> QED  BY <3>1, <3>2
  <2>3. CASE w.value = q.rate ** q.meters
    <3> DEFINE v == (p.rate ** p.meters) ++ e.value
               now == [meters |-> q.meters, value |-> v]
    <3>1. p.rate ** p.meters \in Rationals
      BY <1>1, TimesType
    <3>2. v \in Rationals
      BY <1>1, <3>1, AddType
    <3>3. v -- e.value = p.rate ** p.meters
      BY <1>1, <3>1, AddBack
    <3> HIDE DEF v
    <3>4. now \in Pools /\ now.meters > 0 /\ now.meters = q.meters /\ now.value = v
      BY <1>1, <2>1, <3>2 DEF Pools
    <3>5. q.rate = Rate(now)
      BY <2>1 DEF v
    <3> HIDE DEF now
    <3>6. q.rate ** q.meters = v
      BY <3>4, <3>5, RateWhole
    <3> QED  BY <1>2, <2>2, <2>3, <3>3, <3>6
  <2>4. CASE w.value = Nothing
    <3>1. ~Negative(Nothing -- e.value)
      BY <2>2, <2>4 DEF Possible
    <3>2. e.value = Nothing
      BY <1>1, <2>1, <3>1, NothingLess DEF Worths
    <3>3. Nothing -- Nothing = Nothing
      <4>1. Nothing \in Rationals /\ 0 \in Int
        BY NothingType
      <4> QED  BY <4>1, AddNothing
    <3> QED  BY <1>2, <2>2, <2>4, <3>2, <3>3
  <2> QED  BY <2>3, <2>4
<1>4. CASE e.kind \in {"ISSUE", "QUANTITY_ONLY"}
  <2>1. q.rate = p.rate /\ (e.kind = "ISSUE" => e.rate = p.rate) /\ (e.kind = "QUANTITY_ONLY" => e.rate = NoRate)
    BY <1>4 DEF Led
  <2>2. e.kind \notin {"RECEIPT", "VALUE_IN", "VALUE_OUT"}
    BY <1>4
  <2>3. CASE w.meters > 0
    <3>1. Before(w, e).value = Rate(w) ** (w.meters - e.meters)
      <4>1. w.meters \in Int
        BY DEF Pools
      <4> QED  BY <2>2, <2>3, <4>1 DEF Before
    <3>2. Before(w, e).value = Rate(w) ** p.meters
      BY <1>1, <3>1
    <3>3. Rate(w) = p.rate \/ Rate(w) = Nothing
      <4>1. CASE w.value = q.rate ** q.meters
        BY <1>1, <2>1, <2>3, <4>1, RateOf
      <4>2. CASE w.value = Nothing
        <5>1. w.meters \in Nat \ {0}
          BY <1>1, <2>3
        <5> QED  BY <2>3, <4>2, <5>1, NothingPart DEF Rate
      <4> QED  BY <4>1, <4>2
    <3>4. Nothing ** p.meters = Nothing
      BY <1>1, AddNothing
    <3> QED  BY <1>2, <2>2, <3>2, <3>3, <3>4
  <2>4. CASE ~(w.meters > 0)
    <3>1. w.meters <= 0
      BY <1>1, <2>4
    <3>2. CASE e.rate # NoRate
      <4>1. Before(w, e).value = e.rate ** (w.meters - e.meters)
        BY <2>2, <2>4, <3>1, <3>2 DEF Before
      <4>2. e.rate = p.rate /\ w.meters - e.meters = p.meters
        BY <1>1, <1>4, <2>1, <3>2
      <4> QED  BY <1>2, <2>2, <4>1, <4>2
    <3>3. CASE e.rate = NoRate
      <4>1. Before(w, e).value = Nothing
        BY <2>2, <2>4, <3>1, <3>3 DEF Before
      <4> QED  BY <1>2, <2>2, <4>1
    <3> QED  BY <3>2, <3>3
  <2> QED  BY <2>3, <2>4
<1> QED  BY <1>3, <1>4 DEF Led

(* An event, as it would be with the lines `line`, is the movement m.      *)
Likewise(line, b, m, e) ==
    /\ e.meters = AsIfMetres(line, m)
    /\ \/ e.kind \in {"RECEIPT", "VALUE_IN"} /\ e.value = AsIfInflow(line, b, m)
       \/ e.kind \in {"ISSUE", "QUANTITY_ONLY"} /\ m.kind \notin {"receipt", "sale_return"} /\ b.meters > 0

(* A replay goes on as the pool would have.                                *)
LEMMA OnStep ==
  ASSUME NEW line, NEW b \in Stocks, NEW m, Stockish(line, m), NEW q, q = StockedAsIf(line, b, m),
         q.meters > 0,
         NEW u \in Pools, u.meters = b.meters, u.value = b.rate ** b.meters,
         NEW e, Recorded(e), Likewise(line, b, m, e)
  PROVE  u.meters + e.meters = q.meters /\ u.value ++ Inflow(u, e) = q.rate ** q.meters
<1>1. /\ b.meters \in Int /\ b.rate \in Rationals /\ m.meters \in Int
      /\ e.meters \in Int /\ e.value \in Rationals
  BY DEF Stocks, Stockish, Recorded
<1>2. Inflow(u, e) = AsIfInflow(line, b, m) /\ AsIfInflow(line, b, m) \in Rationals
  <2>1. CASE e.kind \in {"RECEIPT", "VALUE_IN"} /\ e.value = AsIfInflow(line, b, m)
    BY <1>1, <2>1 DEF Inflow
  <2>2. CASE e.kind \in {"ISSUE", "QUANTITY_ONLY"} /\ m.kind \notin {"receipt", "sale_return"} /\ b.meters > 0
    <3>1. Rate(u) = b.rate
      BY <1>1, <2>2, RateOf
    <3>2. Inflow(u, e) = Rate(u) ** e.meters
      BY <2>2 DEF Inflow
    <3>3. AsIfInflow(line, b, m) = b.rate ** m.meters /\ e.meters = m.meters
      BY <2>2 DEF AsIfInflow, AsIfMetres, Likewise
    <3> QED  BY <1>1, <3>1, <3>2, <3>3, TimesType
  <2> QED  BY <2>1, <2>2 DEF Likewise
<1> DEFINE v == (b.rate ** b.meters) ++ AsIfInflow(line, b, m)
           now == [meters |-> q.meters, value |-> v]
<1>3. q.meters = b.meters + AsIfMetres(line, m) /\ q.rate = Rate(now)
  BY AsIfFields
<1>4. v \in Rationals
  BY <1>1, <1>2, TimesType, AddType
<1>5. q.meters \in Int
  BY <1>1, <1>3 DEF Likewise
<1> HIDE DEF v
<1>6. now \in Pools /\ now.meters > 0 /\ now.meters = q.meters /\ now.value = v
  BY <1>4, <1>5 DEF Pools
<1> HIDE DEF now
<1>7. q.rate ** q.meters = v
  BY <1>3, <1>6, RateWhole
<1> QED  BY <1>2, <1>3, <1>7 DEF v, Likewise

(* A movement has led from p to q.                                         *)
Passed(line, p, m, q) ==
    /\ q.meters = p.meters + m.meters
    /\ m.kind \in {"receipt", "sale_return"} => m.meters > 0
    /\ m.kind = "receipt" => m.meters = line[m.of].meters
    /\ m.kind \in {"receipt", "sale_return"} =>
         q.rate = Rate([meters |-> q.meters, value |-> (p.rate ** p.meters) ++ AsIfInflow(line, p, m)])
    /\ m.kind \notin {"receipt", "sale_return"} => q.rate = p.rate
    /\ m.kind = "sale" => UnitCost(line[m.of]) = p.rate

(* Both know m by the same line.                                           *)
SameLine(line, other, m) ==
    /\ m.meters \in Int
    /\ m.kind = "receipt" =>
         other[m.of].meters = line[m.of].meters /\ other[m.of].worth = line[m.of].worth

(* With the same line, AsIf does what has happened.                        *)
LEMMA AgreeStep ==
  ASSUME NEW line, NEW other, NEW m, SameLine(line, other, m),
         NEW p \in Times, NEW q \in Times, Passed(line, p, m, q),
         NEW b, b.meters = p.meters, b.rate = p.rate,
         NEW c, c = StockedAsIf(other, b, m), c.meters > 0
  PROVE  c.meters = q.meters /\ c.rate = q.rate
<1>1. /\ p.meters \in Nat /\ q.meters \in Nat /\ p.rate \in Rationals /\ p.meters \in Int
      /\ q.meters = p.meters + m.meters
  BY DEF Times, Passed, Worths, SameLine
<1>2. /\ c.meters = b.meters + AsIfMetres(other, m)
      /\ c.rate = Rate([meters |-> c.meters, value |-> (b.rate ** b.meters) ++ AsIfInflow(other, b, m)])
  BY AsIfFields
<1>3. AsIfMetres(other, m) = m.meters
  BY DEF AsIfMetres, Passed, SameLine
<1>4. c.meters = q.meters
  BY <1>1, <1>2, <1>3
<1>5. AsIfInflow(other, b, m) = AsIfInflow(line, p, m)
  BY DEF AsIfInflow, SameLine
<1>6. c.rate = Rate([meters |-> q.meters, value |-> (p.rate ** p.meters) ++ AsIfInflow(line, p, m)])
  BY <1>2, <1>4, <1>5
<1>7. CASE m.kind \in {"receipt", "sale_return"}
  BY <1>4, <1>6, <1>7 DEF Passed
<1>8. CASE m.kind \notin {"receipt", "sale_return"}
  <2>1. AsIfInflow(line, p, m) = p.rate ** m.meters
    BY <1>8 DEF AsIfInflow
  <2>2. (p.rate ** p.meters) ++ (p.rate ** m.meters) = p.rate ** (p.meters + m.meters)
    <3>1. m.meters \in Int
      BY DEF SameLine
    <3> QED  BY <1>1, <3>1, TimesAdd
  <2> DEFINE now == [meters |-> q.meters, value |-> p.rate ** q.meters]
  <2>3. c.rate = Rate(now)
    BY <1>1, <1>6, <2>1, <2>2
  <2>4. now \in Pools /\ now.meters > 0 /\ now.value = p.rate ** now.meters
    <3>1. p.rate ** q.meters \in Rationals /\ q.meters \in Int /\ q.meters > 0
      BY <1>1, <1>4, TimesType
    <3> QED  BY <3>1 DEF Pools
  <2> HIDE DEF now
  <2>5. Rate(now) = p.rate
    BY <1>1, <2>4, RateOf
  <2> QED  BY <1>4, <1>8, <2>3, <2>5 DEF Passed
<1> QED  BY <1>7, <1>8

(* What is in the pool at some time, and its worth.                        *)
PoolOf(t) == [meters |-> t.meters, value |-> t.rate ** t.meters]

(* The events have led from c[0] to c[n].                                  *)
Course(es, c, n) ==
    /\ DOMAIN es = 1..n
    /\ \A i \in 0..n : c[i] \in Times
    /\ \A i \in 1..n : /\ Recorded(es[i]) /\ Led(c[i - 1], es[i], c[i])
                       /\ es[i].kind \in {"RECEIPT", "VALUE_IN"} => ~Negative(es[i].value)

(* A step of the way back that is safe comes from a safe one.              *)
LEMMA BackFields ==
  ASSUME NEW e, NEW w, NEW v, v = Back(e, w)
  PROVE  v.pool = Before(w.pool, e) /\ (v.safe => w.safe /\ Possible(w.pool, e))
<1>1. v.pool = Before(w.pool, e)
  BY DEF Back
<1>2. v.safe = (w.safe /\ Possible(w.pool, e))
  BY DEF Back
<1>3. v.safe => w.safe /\ Possible(w.pool, e)
  BY <1>2, Zenon
<1> QED  BY <1>1, <1>3

(* The way back, if it is possible at all, comes to the pool there was     *)
(* before a receipt that was worth something.                              *)
LEMMA Anchored ==
  ASSUME NEW n \in Nat \ {0}, NEW es, NEW c, Course(es, c, n),
         es[1].kind = "RECEIPT", es[1].value # Nothing, Rewind(PoolOf(c[n]), es).safe
  PROVE  Rewind(PoolOf(c[n]), es).pool = PoolOf(c[0])
<1> DEFINE present == PoolOf(c[n])
<1>1. /\ DOMAIN es = 1..n /\ \A i \in 1..n : Recorded(es[i])
      /\ \A i \in 0..n : c[i] \in Times
      /\ 0 \in 0..n /\ 1 \in 0..n /\ 1 \in 1..n /\ n \in 0..n
  BY DEF Course
<1>2. present \in Pools /\ present.meters = c[n].meters /\ present.value = c[n].rate ** c[n].meters
  <2>1. c[n].meters \in Int /\ c[n].rate \in Rationals
    BY <1>1 DEF Times, Worths
  <2> QED  BY <2>1, TimesType DEF PoolOf, Pools
<1> HIDE DEF present
<1>0. PICK r : RewindSteps(r, present, es, n)
  BY <1>1, <1>2, RewindRun
<1>3. /\ r[n] = [pool |-> present, safe |-> TRUE] /\ r[0] = Rewind(present, es)
      /\ \A i \in 0..n : r[i] \in Ways
      /\ \A i \in 1..n : r[i - 1] = Back(es[i], r[i])
  BY <1>0 DEF RewindSteps
<1>4. ASSUME NEW i \in 1..n, r[i - 1].safe
      PROVE  r[i].safe /\ Possible(r[i].pool, es[i])
  <2>1. r[i - 1] = Back(es[i], r[i])
    BY <1>3
  <2> QED  BY <1>4, <2>1, BackFields
<1>5. ASSUME NEW i \in 1..n PROVE r[i - 1].pool = Before(r[i].pool, es[i])
  <2>1. r[i - 1] = Back(es[i], r[i])
    BY <1>3
  <2> QED  BY <2>1, BackFields
<1>6. r[0].safe
  BY <1>3 DEF present
<1>7. \A i \in 0..n : r[i].safe
  <2> DEFINE bad == {i \in 0..n : ~r[i].safe}
  <2>1. ASSUME bad # {} PROVE FALSE
    <3>1. PICK i \in bad : \A j \in bad : i <= j
      <4>1. bad \subseteq Nat
        OBVIOUS
      <4> HIDE DEF bad
      <4> QED  BY <2>1, <4>1, SmallestNumber
    <3>2. i \in 1..n /\ i - 1 \in 0..n /\ i - 1 \notin bad
      BY <1>6, <3>1
    <3> QED  BY <1>4, <3>1, <3>2
  <2> QED  BY <2>1
<1> DEFINE good(i) == /\ r[i].pool.meters = c[i].meters
                      /\ r[i].pool.value = c[i].rate ** c[i].meters \/ r[i].pool.value = Nothing
<1>8. ASSUME NEW i \in 1..n, good(i)
      PROVE  /\ good(i - 1)
             /\ es[i].kind = "RECEIPT" /\ es[i].value # Nothing =>
                  r[i - 1].pool.value = c[i - 1].rate ** c[i - 1].meters
  <2> DEFINE p == c[i - 1]
             q == c[i]
             e == es[i]
             w == r[i].pool
  <2>1. i - 1 \in 0..n /\ i \in 0..n
    OBVIOUS
  <2>2. /\ p \in Times /\ q \in Times /\ Recorded(e) /\ Led(p, e, q)
        /\ e.kind \in {"RECEIPT", "VALUE_IN"} => ~Negative(e.value)
    BY <1>1, <2>1 DEF Course
  <2>3. w \in Pools /\ Possible(w, e) /\ r[i - 1].pool = Before(w, e)
    BY <1>3, <1>4, <1>5, <1>7, <2>1 DEF Ways
  <2>4. w.meters = q.meters /\ (w.value = q.rate ** q.meters \/ w.value = Nothing)
    BY <1>8
  <2> HIDE DEF p, q, e, w
  <2>5. /\ Before(w, e).meters = p.meters
        /\ Before(w, e).value = p.rate ** p.meters \/ Before(w, e).value = Nothing
        /\ e.kind = "RECEIPT" /\ e.value # Nothing => Before(w, e).value = p.rate ** p.meters
    BY <2>2, <2>3, <2>4, BackStep
  <2> QED  BY <2>3, <2>5 DEF p, e
<1>9. good(n)
  BY <1>2, <1>3
<1> HIDE DEF good
<1>10. \A i \in 0..n : good(n - i)
  <2> DEFINE bad == {i \in 0..n : ~good(n - i)}
  <2>1. ASSUME bad # {} PROVE FALSE
    <3>1. PICK i \in bad : \A j \in bad : i <= j
      <4>1. bad \subseteq Nat
        OBVIOUS
      <4> HIDE DEF bad
      <4> QED  BY <2>1, <4>1, SmallestNumber
    <3>2. n - 0 = n
      OBVIOUS
    <3>3. i # 0
      BY <1>9, <3>1, <3>2
    <3>4. i \in 1..n /\ i - 1 \in 0..n /\ i - 1 \notin bad
      BY <3>1, <3>3
    <3>5. good(n - (i - 1)) /\ ~good(n - i)
      BY <3>1, <3>4
    <3> DEFINE k == n - (i - 1)
    <3>6. k \in 1..n /\ k - 1 = n - i
      BY <3>4
    <3> HIDE DEF k
    <3>7. good(k - 1)
      BY <1>8, <3>5, <3>6 DEF k
    <3> QED  BY <3>5, <3>6, <3>7
  <2> QED  BY <2>1
<1>11. good(1)
  <2>1. n - 1 \in 0..n /\ n - (n - 1) = 1
    OBVIOUS
  <2>2. good(n - (n - 1))
    BY <1>10, <2>1
  <2> QED  BY <2>1, <2>2
<1>12. good(1 - 1) /\ r[1 - 1].pool.value = c[1 - 1].rate ** c[1 - 1].meters
  BY <1>1, <1>8, <1>11
<1>13. r[0].pool.meters = c[0].meters /\ r[0].pool.value = c[0].rate ** c[0].meters
  <2>1. 1 - 1 = 0
    OBVIOUS
  <2> QED  BY <1>12, <2>1 DEF good
<1>14. r[0].pool \in Pools
  BY <1>1, <1>3 DEF Ways
<1>15. r[0].pool = PoolOf(c[0])
  BY <1>13, <1>14 DEF PoolOf, Pools
<1> QED  BY <1>3, <1>15 DEF present

(* The pools b of AsIf along the movements ms, never empty after the first,*)
(* and the events that are those movements.                                *)
Onwards(line, b, ms, fs, n) ==
    /\ DOMAIN fs = 1..n /\ \A i \in 0..n : b[i] \in Stocks
    /\ \A i \in 1..n : /\ Stockish(line, ms[i]) /\ b[i] = StockedAsIf(line, b[i - 1], ms[i])
                       /\ b[i].meters > 0
                       /\ Recorded(fs[i]) /\ Likewise(line, b[i - 1], ms[i], fs[i])

(* A replay from a pool of AsIf ends with one of AsIf.                     *)
LEMMA ReplayedOnwards ==
  ASSUME NEW n \in Nat, NEW line, NEW b, NEW ms, NEW fs, Onwards(line, b, ms, fs, n)
  PROVE  Replay(PoolOf(b[0]), fs).pool = PoolOf(b[n])
<1> DEFINE start == PoolOf(b[0])
<1>1. DOMAIN fs = 1..n /\ \A i \in 1..n : Recorded(fs[i])
  BY DEF Onwards
<1>2. 0 \in 0..n /\ n \in 0..n /\ \A i \in 0..n : b[i] \in Stocks
  BY DEF Onwards
<1>3. start \in Pools
  BY <1>2, TimesType DEF PoolOf, Pools, Stocks
<1> HIDE DEF start
<1>0. PICK r : ForwardSteps(r, start, fs, n)
  BY <1>1, <1>3, ReplayRun
<1>4. /\ r[0] = Start(start) /\ r[n] = Replay(start, fs)
      /\ \A i \in 0..n : r[i] \in Replays
      /\ \A i \in 1..n : r[i] = Forward(r[i - 1], fs[i])
  BY <1>0 DEF ForwardSteps
<1> DEFINE good(i) == r[i].pool = PoolOf(b[i])
<1>5. good(0)
  BY <1>4 DEF Start, start
<1>6. ASSUME NEW i \in 1..n, good(i - 1) PROVE good(i)
  <2> DEFINE u == r[i - 1].pool
             e == fs[i]
             m == ms[i]
             p == b[i - 1]
             q == b[i]
  <2>1. i - 1 \in 0..n /\ i \in 0..n
    OBVIOUS
  <2>2. /\ p \in Stocks /\ Stockish(line, m) /\ q = StockedAsIf(line, p, m) /\ q.meters > 0
        /\ Recorded(e) /\ Likewise(line, p, m, e)
    BY <1>2, <2>1 DEF Onwards
  <2>3. u \in Pools /\ u = PoolOf(p)
    BY <1>4, <1>6, <2>1 DEF Replays
  <2>4. u.meters = p.meters /\ u.value = p.rate ** p.meters
    BY <2>3 DEF PoolOf
  <2>5. r[i] = Forward(r[i - 1], e)
    BY <1>4
  <2>6. r[i].pool.meters = u.meters + e.meters /\ r[i].pool.value = u.value ++ Inflow(u, e)
    BY <2>5, ForwardFields
  <2>7. r[i].pool \in Pools
    BY <1>4, <2>1 DEF Replays
  <2> HIDE DEF u, e, m, p, q
  <2>8. u.meters + e.meters = q.meters /\ u.value ++ Inflow(u, e) = q.rate ** q.meters
    BY <2>2, <2>3, <2>4, OnStep
  <2>9. r[i].pool = PoolOf(q)
    BY <2>6, <2>7, <2>8 DEF PoolOf, Pools
  <2> QED  BY <2>9 DEF q
<1> HIDE DEF good
<1>7. good(n)
  <2> DEFINE bad == {i \in 0..n : ~good(i)}
  <2>1. ASSUME bad # {} PROVE FALSE
    <3>1. PICK i \in bad : \A j \in bad : i <= j
      <4>1. bad \subseteq Nat
        OBVIOUS
      <4> HIDE DEF bad
      <4> QED  BY <2>1, <4>1, SmallestNumber
    <3>2. i \in 1..n /\ i - 1 \in 0..n /\ i - 1 \notin bad
      BY <1>5, <3>1
    <3>3. good(i - 1) /\ ~good(i)
      BY <3>1, <3>2
    <3> QED  BY <1>6, <3>2, <3>3
  <2> QED  BY <1>2, <2>1
<1> QED  BY <1>4, <1>7 DEF good, start

(* The times a have been those of the first n movements, with these lines. *)
Chronicle(a, line, ms, n) ==
    /\ a[0] = [meters |-> 0, rate |-> Nothing]
    /\ \A i \in 0..n : a[i] \in Times
    /\ \A i \in 1..n : Passed(line, a[i - 1], ms[i], a[i])

(* No revision has been made yet.                                          *)
Unrevised == \A i \in 1..Len(movements) : movements[i].kind \notin {"revised_receipt", "revised_sale"}

(* As long as nothing has been revised, the pool is what its movements and *)
(* the lines of the invoices have made of it.                              *)
ChronicleFits ==
    Unrevised =>
      \E a : /\ Chronicle(a, document, movements, Len(movements))
             /\ a[Len(movements)] = [meters |-> stock, rate |-> average]

(* A calculation is what it would be now, if nobody has moved the pool.    *)
JobsFresh ==
    \A c \in Handlers, d \in Purchases, body \in Bodies :
       job[c].of = d /\ job[c].body = body =>
         /\ Len(job[c].read[3]) \in Nat /\ Len(job[c].read[3]) <= Len(movements)
         /\ job[c].read = pool =>
              job[c].comparison = ForPurchaseRevision(d, body) /\ job[c].comparison.established

(* The window of d begins with movement k, its receipt, and has n of them. *)
Opens(d, k, n) ==
    /\ k \in 1..Len(movements) /\ n = Len(movements) - k + 1 /\ n \in Nat \ {0}
    /\ OwnReceipt(d, movements[k])
    /\ \A i \in 1..Len(movements) : OwnReceipt(d, movements[i]) => i = k
    /\ DOMAIN Window(d) = 1..n
    /\ \A i \in 1..n : Window(d)[i] = movements[k + i - 1] /\ k + i - 1 \in 1..Len(movements)

(* There is such a window for every purchase that has been confirmed.      *)
LEMMA WindowOpens ==
  ASSUME KindsFit, FirstsFit, PoolTyped, NEW d \in Purchases, document[d].status # "NONE"
  PROVE  \E k, n : Opens(d, k, n)
<1> DEFINE N == Len(movements)
           k == CHOOSE i \in DOMAIN movements : OwnReceipt(d, movements[i])
           n == N - k + 1
<1>1. N \in Nat /\ DOMAIN movements = 1..N /\ movements \in Seq(Movements)
  BY DEF PoolTyped
<1>2. d \in Documents /\ d \notin Sales
  BY RevisionAssumption DEF Documents
<1>3. \E i \in 1..N : OwnReceipt(d, movements[i])
  <2>1. PICK i \in 1..N : First(d, movements[i])
    BY <1>2 DEF FirstsFit
  <2>2. movements[i].kind # "sale"
    BY <1>2, <2>1 DEF KindsFit, First
  <2> QED  BY <2>1, <2>2 DEF First, OwnReceipt
<1>4. k \in 1..N /\ OwnReceipt(d, movements[k])
  BY <1>1, <1>3
<1>5. \A i \in 1..N : OwnReceipt(d, movements[i]) => i = k
  BY <1>2, <1>4 DEF FirstsFit, First, OwnReceipt
<1>6. Window(d) = SubSeq(movements, k, N)
  BY DEF Window
<1> HIDE DEF k, N
<1>7. n \in Nat \ {0} /\ DOMAIN Window(d) = 1..n
  BY <1>1, <1>4, <1>6
<1>8. \A i \in 1..n : Window(d)[i] = movements[k + i - 1] /\ k + i - 1 \in 1..N
  BY <1>1, <1>4, <1>6
<1>9. Opens(d, k, n)
  BY <1>4, <1>5, <1>7, <1>8 DEF Opens, N
<1> QED  BY <1>9

(* What a replay is told of a movement that nobody has revised.            *)
LEMMA EventLed ==
  ASSUME RowsTyped, RowsFit, KindsFit, PoolTyped, NEW i \in 1..Len(movements),
         movements[i].kind \notin {"revised_receipt", "revised_sale"},
         NEW p \in Times, NEW q \in Times, Passed(document, p, movements[i], q)
  PROVE  LET m == movements[i]
             e == Classified(m)
         IN  /\ Bought(e) /\ Led(p, e, q)
             /\ m.kind = "receipt" => /\ e.kind = "RECEIPT" /\ e.value = document[m.of].worth
                                      /\ e.meters = document[m.of].meters
             /\ m.kind = "sale_return" => e.kind = "VALUE_IN" /\ e.value = m.value
             /\ m.kind \notin {"receipt", "sale_return"} => e.kind \in {"ISSUE", "QUANTITY_ONLY"}
<1> DEFINE m == movements[i]
           e == Classified(m)
<1>1. m \in Movements
  BY DEF PoolTyped
<1>2. Bought(e) /\ e.meters = m.meters
  BY ClassifiedBought
<1>3. q.meters = p.meters + e.meters
  BY <1>2 DEF Passed
<1>4. CASE m.kind = "receipt"
  <2>1. e.kind = "RECEIPT" /\ e.value = UnitCost(document[m.of]) ** m.meters
    BY <1>4, ClassifiedBought
  <2>2. m.of \in Documents /\ document[m.of].status # "NONE"
    BY <1>4 DEF KindsFit, Documents
  <2>3. document[m.of].meters \in Nat \ {0} /\ document[m.of].worth \in Rationals
    BY <2>2 DEF RowsTyped, RowsFit, Rows, Worths
  <2>4. m.meters = document[m.of].meters /\ m.meters > 0
    BY <1>4 DEF Passed
  <2>5. e.value = document[m.of].worth
    BY <2>1, <2>3, <2>4, PartsMakeWhole DEF UnitCost
  <2>6. q.rate = Rate([meters |-> q.meters, value |-> (p.rate ** p.meters) ++ e.value])
    BY <1>4, <2>5 DEF Passed, AsIfInflow
  <2> HIDE DEF m, e
  <2>7. Led(p, e, q)
    BY <1>2, <1>3, <2>1, <2>4, <2>6 DEF Led
  <2> QED  BY <1>2, <1>4, <2>1, <2>4, <2>5, <2>7 DEF m, e
<1>5. CASE m.kind = "sale"
  <2>1. e.kind = "ISSUE" /\ e.rate = UnitCost(document[m.of])
    BY <1>5 DEF Classified
  <2>2. q.rate = p.rate /\ e.rate = p.rate
    BY <1>5, <2>1 DEF Passed
  <2> HIDE DEF m, e
  <2>7. Led(p, e, q)
    BY <1>3, <2>1, <2>2 DEF Led
  <2> QED  BY <1>2, <1>5, <2>1, <2>7 DEF m, e
<1>6. CASE m.kind = "sale_return"
  <2>1. e.kind = "VALUE_IN" /\ e.value = m.value
    BY <1>6 DEF Classified
  <2>2. q.rate = Rate([meters |-> q.meters, value |-> (p.rate ** p.meters) ++ e.value]) /\ m.meters > 0
    BY <1>6, <2>1 DEF Passed, AsIfInflow
  <2> HIDE DEF m, e
  <2>7. Led(p, e, q)
    BY <1>2, <1>3, <2>1, <2>2 DEF Led
  <2> QED  BY <1>2, <1>6, <2>1, <2>7 DEF m, e
<1>7. CASE m.kind \notin {"receipt", "sale", "sale_return"}
  <2>1. e.kind = "QUANTITY_ONLY" /\ e.rate = NoRate
    BY <1>7 DEF Classified
  <2>2. q.rate = p.rate
    BY <1>7 DEF Passed
  <2> HIDE DEF m, e
  <2>7. Led(p, e, q)
    BY <1>3, <2>1, <2>2 DEF Led
  <2> QED  BY <1>2, <1>7, <2>1, <2>7 DEF m, e
<1> QED  BY <1>4, <1>5, <1>6, <1>7

(* The lines, had d always been of body.                                   *)
LinesWith(d, body) == [e \in Documents |-> IF e = d THEN body ELSE document[e]]

(* They know every movement, and all but the receipt of d as it was.       *)
LEMMA LinesTyped ==
  ASSUME RowsTyped, KindsFit, PoolTyped, NEW d \in Documents, NEW body \in Bodies,
         NEW i \in 1..Len(movements)
  PROVE  /\ Stockish(LinesWith(d, body), movements[i])
         /\ movements[i].kind = "receipt" /\ ~OwnReceipt(d, movements[i]) =>
              LinesWith(d, body)[movements[i].of] = document[movements[i].of]
<1> DEFINE m == movements[i]
<1>1. m \in Movements
  BY DEF PoolTyped
<1>2. m.kind = "receipt" => m.of \in Documents /\ document[m.of] \in Rows
  BY DEF KindsFit, Documents, RowsTyped
<1> HIDE DEF m
<1>3. m.kind = "receipt" =>
        LinesWith(d, body)[m.of].meters \in Int /\ LinesWith(d, body)[m.of].worth \in Rationals
  BY <1>2 DEF LinesWith, Rows, Bodies, Worths
<1>4. m.meters \in Int /\ m.value \in Rationals
  BY <1>1 DEF Movements, Worths
<1>5. m.kind = "receipt" /\ ~OwnReceipt(d, m) => LinesWith(d, body)[m.of] = document[m.of]
  BY <1>2 DEF LinesWith, OwnReceipt
<1> QED  BY <1>3, <1>4, <1>5 DEF Stockish, m

(* If it is not drained at the end, it has never been.                     *)
LEMMA NeverDrained ==
  ASSUME NEW n \in Nat, NEW line, NEW b, AsIfSteps(b, line, n), ~AsIf(line).drained
  PROVE  \A i \in 1..n : b[i].meters > 0
<1>1. ASSUME NEW i \in 1..n PROVE b[i].drained <=> b[i - 1].drained \/ b[i].meters <= 0
  <2>1. b[i] = StockedAsIf(line, b[i - 1], movements[i])
    BY DEF AsIfSteps
  <2> DEFINE p == b[i - 1]
             q == b[i]
             m == movements[i]
  <2>2. q = StockedAsIf(line, p, m)
    BY <2>1
  <2> HIDE DEF p, q, m
  <2>3. q.drained <=> p.drained \/ q.meters <= 0
    BY <2>2, AsIfFields
  <2> QED  BY <2>3 DEF p, q
<1>2. ASSUME NEW k \in 1..n, b[k].drained PROVE FALSE
  <2> DEFINE dry == {i \in k..n : ~b[i].drained}
  <2>1. n \in dry
    BY DEF AsIfSteps
  <2>2. PICK i \in dry : \A j \in dry : i <= j
    <3>1. dry \subseteq Nat /\ dry # {}
      BY <2>1
    <3> HIDE DEF dry
    <3> QED  BY <3>1, SmallestNumber
  <2>3. i # k /\ i \in 1..n /\ i - 1 \in k..n /\ i - 1 \notin dry
    BY <1>2, <2>2
  <2>4. b[i - 1].drained /\ ~b[i].drained
    BY <2>2, <2>3
  <2> QED  BY <1>1, <2>3, <2>4
<1>3. ASSUME NEW i \in 1..n PROVE b[i].meters > 0
  <2>1. ~(b[i].meters <= 0)
    BY <1>1, <1>2
  <2>2. b[i].meters \in Int
    <3>1. b[i] \in Stocks
      BY DEF AsIfSteps
    <3> QED  BY <3>1 DEF Stocks
  <2> QED  BY <2>1, <2>2
<1> QED  BY <1>3

(* The movement k is the only one that could be the receipt of d.          *)
OnlyReceipt(d, k) ==
    /\ k \in 1..Len(movements)
    /\ \A i \in 1..Len(movements) : OwnReceipt(d, movements[i]) => i = k

(* Up to the receipt of d, AsIf is what has happened.                      *)
LEMMA AgreesBefore ==
  ASSUME RowsTyped, KindsFit, PoolTyped, NEW d \in Documents, NEW body \in Bodies,
         NEW a, Chronicle(a, document, movements, Len(movements)),
         NEW b, AsIfSteps(b, LinesWith(d, body), Len(movements)),
         \A i \in 1..Len(movements) : b[i].meters > 0,
         NEW k, OnlyReceipt(d, k)
  PROVE  PoolOf(b[k - 1]) = PoolOf(a[k - 1])
<1> DEFINE N == Len(movements)
           line == LinesWith(d, body)
           good(i) == b[i].meters = a[i].meters /\ b[i].rate = a[i].rate
<1>1. N \in Nat /\ k \in 1..N /\ k - 1 \in 0..N
  BY DEF PoolTyped, OnlyReceipt
<1>2. good(0)
  BY DEF AsIfSteps, Unstocked, Chronicle
<1>3. ASSUME NEW i \in 1..(k - 1), good(i - 1) PROVE good(i)
  <2> DEFINE m == movements[i]
             p == a[i - 1]
             q == a[i]
             x == b[i - 1]
             y == b[i]
  <2>1. i \in 1..N /\ i \in 0..N /\ i - 1 \in 0..N /\ i # k
    BY <1>1
  <2>2. p \in Times /\ q \in Times /\ Passed(document, p, m, q)
    BY <2>1 DEF Chronicle
  <2>3. y = StockedAsIf(line, x, m) /\ y.meters > 0
    BY <2>1 DEF AsIfSteps
  <2>4. m.kind = "receipt" => line[m.of] = document[m.of]
    <3>1. ~OwnReceipt(d, m)
      BY <2>1 DEF OnlyReceipt
    <3> QED  BY <2>1, <3>1, LinesTyped
  <2>5. m.kind = "receipt" => line[m.of].meters = document[m.of].meters /\ line[m.of].worth = document[m.of].worth
    BY <2>4
  <2>6. x.meters = p.meters /\ x.rate = p.rate
    BY <1>3
  <2>7. SameLine(document, line, m)
    <3>1. m \in Movements
      BY <2>1 DEF PoolTyped
    <3> QED  BY <2>5, <3>1 DEF Movements, SameLine
  <2> HIDE DEF m, p, q, x, y, line
  <2>8. y.meters = q.meters /\ y.rate = q.rate
    BY <2>2, <2>3, <2>6, <2>7, AgreeStep
  <2> QED  BY <2>8 DEF y, q
<1> HIDE DEF good
<1>4. good(k - 1)
  <2> DEFINE bad == {i \in 0..(k - 1) : ~good(i)}
  <2>1. ASSUME bad # {} PROVE FALSE
    <3>1. PICK i \in bad : \A j \in bad : i <= j
      <4>1. bad \subseteq Nat
        OBVIOUS
      <4> HIDE DEF bad
      <4> QED  BY <2>1, <4>1, SmallestNumber
    <3>2. i \in 1..(k - 1) /\ i - 1 \in 0..(k - 1) /\ i - 1 \notin bad
      <4>1. k \in Nat /\ i \in 0..(k - 1) /\ i # 0
        BY <1>1, <1>2, <3>1
      <4>2. i \in 1..(k - 1) /\ i - 1 \in 0..(k - 1) /\ ~(i <= i - 1)
        BY <4>1
      <4> HIDE DEF bad
      <4> QED  BY <3>1, <4>2
    <3>3. good(i - 1) /\ ~good(i)
      BY <3>1, <3>2
    <3> QED  BY <1>3, <3>2, <3>3
  <2>2. k - 1 \in 0..(k - 1)
    BY <1>1
  <2> QED  BY <2>1, <2>2
<1> QED  BY <1>4 DEF good, PoolOf

(* What a handler has calculated of a pool that nobody has revised or      *)
(* moved since is the pool there would be.                                 *)
LEMMA CalculatedAsIf ==
  ASSUME RowsTyped, RowsFit, KindsFit, FirstsFit, PoolTyped, ChronicleFits, Unrevised,
         NEW d \in Purchases, document[d].status # "NONE", document[d].worth # Nothing,
         NEW body \in Bodies, ForPurchaseRevision(d, body).established,
         ~AsIf(LinesWith(d, body)).drained
  PROVE  ForPurchaseRevision(d, body).ending = PoolOf(AsIf(LinesWith(d, body)))
<1> DEFINE N == Len(movements)
           line == LinesWith(d, body)
           w == Window(d)
           es == [i \in DOMAIN w |-> Classified(w[i])]
           fs == Substituted(d, body, w)
           other == [kind |-> "RECEIPT", meters |-> body.meters, value |-> body.worth, rate |-> NoRate]
<1>1. d \in Documents /\ N \in Nat /\ DOMAIN movements = 1..N
  BY DEF Documents, PoolTyped
<1>2. PICK k, n : Opens(d, k, n)
  BY WindowOpens
<1>3. /\ k \in 1..N /\ n = N - k + 1 /\ n \in Nat \ {0} /\ OwnReceipt(d, movements[k])
      /\ \A i \in 1..N : OwnReceipt(d, movements[i]) => i = k
      /\ DOMAIN w = 1..n
      /\ \A i \in 1..n : w[i] = movements[k + i - 1] /\ k + i - 1 \in 1..N
  BY <1>2 DEF Opens
<1>4. PICK a : /\ Chronicle(a, document, movements, N)
               /\ a[N] = [meters |-> stock, rate |-> average]
  BY DEF ChronicleFits
<1>5. /\ \A i \in 0..N : a[i] \in Times
      /\ \A i \in 1..N : Passed(document, a[i - 1], movements[i], a[i])
  BY <1>4 DEF Chronicle
<1>6. Present = PoolOf(a[N])
  BY <1>4 DEF Present, PoolOf
<1> DEFINE c == [i \in 0..n |-> a[k - 1 + i]]
<1>7. /\ \A i \in 0..n : c[i] = a[k - 1 + i] /\ k - 1 + i \in 0..N
      /\ c[0] = a[k - 1] /\ c[n] = a[N]
      /\ \A i \in 1..n : c[i - 1] = a[(k + i - 1) - 1] /\ c[i] = a[k + i - 1]
  BY <1>1, <1>3
<1> HIDE DEF c, w
<1>8. DOMAIN es = 1..n /\ \A i \in 1..n : es[i] = Classified(movements[k + i - 1])
  BY <1>3
<1>9. ASSUME NEW i \in 1..n
      PROVE  LET m == movements[k + i - 1]
             IN  /\ Bought(es[i]) /\ Led(c[i - 1], es[i], c[i])
                 /\ m.kind = "receipt" => /\ es[i].kind = "RECEIPT" /\ es[i].value = document[m.of].worth
                                          /\ es[i].meters = document[m.of].meters
                 /\ m.kind = "sale_return" => es[i].kind = "VALUE_IN" /\ es[i].value = m.value
                 /\ m.kind \notin {"receipt", "sale_return"} => es[i].kind \in {"ISSUE", "QUANTITY_ONLY"}
  <2> DEFINE j == k + i - 1
  <2>1. j \in 1..N /\ j \in 0..N /\ j - 1 \in 0..N
    BY <1>1, <1>3
  <2>2. c[i - 1] = a[j - 1]
    <3>1. \A x \in 1..n : c[x - 1] = a[(k + x - 1) - 1]
      BY <1>7
    <3> QED  BY <3>1, Zenon
  <2>5. c[i] = a[j]
    BY <1>7
  <2>6. es[i] = Classified(movements[j])
    BY <1>8
  <2> HIDE DEF j
  <2>3. a[j - 1] \in Times /\ a[j] \in Times /\ Passed(document, a[j - 1], movements[j], a[j])
    BY <1>5, <2>1
  <2>4. movements[j].kind \notin {"revised_receipt", "revised_sale"}
    BY <2>1 DEF Unrevised
  <2> HIDE DEF es
  <2> QED  BY <2>1, <2>2, <2>3, <2>4, <2>5, <2>6, EventLed DEF j
<1> HIDE DEF es
<1>10. Course(es, c, n)
  <2>1. \A i \in 0..n : c[i] \in Times
    BY <1>5, <1>7
  <2>2. \A i \in 1..n : /\ Recorded(es[i]) /\ Led(c[i - 1], es[i], c[i])
                        /\ es[i].kind \in {"RECEIPT", "VALUE_IN"} => ~Negative(es[i].value)
    BY <1>9 DEF Bought
  <2> QED  BY <1>8, <2>1, <2>2 DEF Course
<1>11. es[1].kind = "RECEIPT" /\ es[1].value # Nothing
  <2>1. 1 \in 1..n /\ k + 1 - 1 = k
    BY <1>3
  <2> QED  BY <1>3, <1>9, <2>1 DEF OwnReceipt
<1>12. ForPurchaseRevision(d, body) = Compare(PoolOf(c[n]), es, fs)
  BY <1>6, <1>7 DEF ForPurchaseRevision, es, w
<1> DEFINE way == Rewind(PoolOf(c[n]), es)
<1> HIDE DEF fs, line
<1>13. way.safe /\ ForPurchaseRevision(d, body).ending = Replay(way.pool, fs).pool
  <2> DEFINE was == Replay(way.pool, es)
             would == Replay(way.pool, fs)
             x == Compare(PoolOf(c[n]), es, fs)
  <2>1. /\ x.ending = would.pool
        /\ x.established = (way.safe /\ was.safe /\ would.safe /\ was.pool = PoolOf(c[n]))
    BY DEF Compare
  <2>2. x.established /\ x = ForPurchaseRevision(d, body)
    BY <1>12
  <2> HIDE DEF x, was, would, way
  <2>3. way.safe
    BY <2>1, <2>2, Zenon
  <2> QED  BY <2>1, <2>2, <2>3 DEF would
<1>14. way.pool = PoolOf(a[k - 1])
  <2>1. Rewind(PoolOf(c[n]), es).safe
    BY <1>13 DEF way
  <2>2. Rewind(PoolOf(c[n]), es).pool = PoolOf(c[0])
    BY <1>3, <1>10, <1>11, <2>1, Anchored
  <2> QED  BY <1>7, <2>2 DEF way
<1>15. PICK b : AsIfSteps(b, line, N)
  <2>1. \A i \in 1..N : Stockish(line, movements[i])
    BY <1>1, LinesTyped DEF line
  <2>3. LinesKnow(line, N)
    BY <1>1, <2>1 DEF LinesKnow
  <2> HIDE DEF N
  <2> QED  BY <2>3, AsIfRun
<1>16. \A i \in 1..N : b[i].meters > 0
  BY <1>1, <1>15, NeverDrained DEF line
<1>17. PoolOf(b[k - 1]) = PoolOf(a[k - 1])
  <2>1. /\ AsIfSteps(b, LinesWith(d, body), Len(movements))
        /\ \A i \in 1..Len(movements) : b[i].meters > 0
    BY <1>15, <1>16 DEF line
  <2>2. d \in Documents /\ OnlyReceipt(d, k)
    BY <1>1, <1>3 DEF OnlyReceipt
  <2>3. Chronicle(a, document, movements, Len(movements))
    BY <1>4
  <2> HIDE DEF line, N
  <2> QED  BY <2>1, <2>2, <2>3, AgreesBefore
<1> DEFINE g == [i \in 0..n |-> b[k - 1 + i]]
<1>18. /\ \A i \in 0..n : g[i] = b[k - 1 + i] /\ k - 1 + i \in 0..N
       /\ g[0] = b[k - 1] /\ g[n] = b[N]
       /\ \A i \in 1..n : g[i - 1] = b[(k + i - 1) - 1] /\ g[i] = b[k + i - 1]
  <2>1. N \in Nat /\ k \in 1..N /\ n = N - k + 1 /\ n \in Nat \ {0}
    BY <1>1, <1>3
  <2>2. \A i \in 0..n : g[i] = b[k - 1 + i]
    OBVIOUS
  <2> HIDE DEF N, g
  <2>3. k - 1 + 0 = k - 1 /\ k - 1 + n = N /\ 0 \in 0..n /\ n \in 0..n
    BY <2>1
  <2>4. ASSUME NEW i \in 0..n PROVE k - 1 + i \in 0..N
    BY <2>1
  <2>5. g[0] = b[k - 1] /\ g[n] = b[N]
    BY <2>2, <2>3
  <2>6. ASSUME NEW i \in 1..n PROVE g[i - 1] = b[(k + i - 1) - 1] /\ g[i] = b[k + i - 1]
    <3>1. /\ i - 1 \in 0..n /\ k - 1 + (i - 1) = (k + i - 1) - 1
          /\ i \in 0..n /\ k - 1 + i = k + i - 1
      BY <2>1
    <3> QED  BY <2>2, <3>1
  <2> QED  BY <2>2, <2>4, <2>5, <2>6
<1> HIDE DEF g
<1>19. DOMAIN fs = 1..n /\ fs[1] = other /\ \A i \in 2..n : fs[i] = es[i]
  <2>1. 1 \in 1..n /\ k + 1 - 1 = k /\ w[1] = movements[k]
    <3>1. 1 \in 1..n /\ k + 1 - 1 = k
      <4>1. n \in Nat \ {0} /\ k \in 1..N
        BY <1>3
      <4> HIDE DEF N
      <4> QED  BY <4>1
    <3>2. \A i \in 1..n : w[i] = movements[k + i - 1]
      BY <1>3
    <3> QED  BY <3>1, <3>2, Zenon
  <2>2. DOMAIN fs = 1..n /\ fs[1] = other
    BY <1>3, <2>1 DEF fs, Substituted
  <2>3. ASSUME NEW i \in 2..n PROVE fs[i] = es[i]
    <3>1. i \in 1..n /\ k + i - 1 # k
      BY <1>3
    <3>2. ~OwnReceipt(d, w[i])
      BY <1>3, <3>1
    <3>3. fs[i] = Classified(w[i])
      BY <1>3, <3>1, <3>2 DEF fs, Substituted
    <3> QED  BY <1>3, <1>8, <3>1, <3>3
  <2> QED  BY <2>2, <2>3
<1>20. ASSUME NEW i \in 1..n
       PROVE  /\ Stockish(line, w[i]) /\ g[i] = StockedAsIf(line, g[i - 1], w[i]) /\ g[i].meters > 0
              /\ Recorded(fs[i]) /\ Likewise(line, g[i - 1], w[i], fs[i])
  <2> DEFINE j == k + i - 1
  <2>5. g[i - 1] = b[j - 1]
    <3>1. \A x \in 1..n : g[x - 1] = b[(k + x - 1) - 1]
      BY <1>18
    <3> QED  BY <3>1, Zenon
  <2>6. g[i] = b[j]
    <3>1. \A x \in 1..n : g[x] = b[k + x - 1]
      BY <1>18
    <3> QED  BY <3>1, Zenon
  <2>7. w[i] = movements[j] /\ j \in 1..N
    <3>1. \A x \in 1..n : w[x] = movements[k + x - 1] /\ k + x - 1 \in 1..N
      BY <1>3
    <3> QED  BY <3>1, Zenon
  <2>1. j \in 1..N /\ w[i] = movements[j] /\ g[i - 1] = b[j - 1] /\ g[i] = b[j]
    BY <2>5, <2>6, <2>7, Zenon
  <2>2. Stockish(line, w[i]) /\ g[i] = StockedAsIf(line, g[i - 1], w[i]) /\ g[i].meters > 0
    <3> HIDE DEF j
    <3>1. Stockish(line, movements[j])
      BY <1>1, <2>1, LinesTyped DEF line
    <3>2. b[j] = StockedAsIf(line, b[j - 1], movements[j])
      BY <1>15, <2>1 DEF AsIfSteps
    <3> QED  BY <1>16, <2>1, <3>1, <3>2
  <2>3. CASE i = 1
    <3>1. w[i] = movements[k] /\ fs[i] = other
      BY <1>3, <1>19, <2>1, <2>3
    <3>2. w[i].kind = "receipt" /\ w[i].of = d
      BY <1>3, <3>1 DEF OwnReceipt
    <3>3. line[w[i].of] = body
      BY <1>1, <3>2 DEF line, LinesWith
    <3>4. AsIfMetres(line, w[i]) = body.meters /\ AsIfInflow(line, g[i - 1], w[i]) = body.worth
      BY <3>2, <3>3 DEF AsIfMetres, AsIfInflow
    <3>5. Recorded(other) /\ other.kind = "RECEIPT" /\ other.meters = body.meters /\ other.value = body.worth
      BY DEF Bodies, Worths, Recorded
    <3> HIDE DEF other
    <3>6. Likewise(line, g[i - 1], w[i], fs[i])
      BY <3>1, <3>4, <3>5 DEF Likewise
    <3> QED  BY <2>2, <3>1, <3>5, <3>6
  <2>4. CASE i # 1
    <3>1. i \in 2..n /\ j # k /\ j - 1 \in 1..N
      <4>1. /\ N \in Nat /\ k \in 1..N /\ n = N - k + 1
        BY <1>1, <1>3
      <4> HIDE DEF N
      <4> QED  BY <2>4, <4>1
    <3>2. fs[i] = es[i] /\ ~OwnReceipt(d, w[i])
      BY <1>3, <1>19, <2>1, <3>1
    <3>3. g[i - 1].meters > 0
      BY <1>16, <2>1, <3>1
    <3> DEFINE m == w[i]
               e == es[i]
               p == g[i - 1]
    <3>4. /\ Bought(e)
          /\ m.kind = "receipt" => /\ e.kind = "RECEIPT" /\ e.value = document[m.of].worth
                                   /\ e.meters = document[m.of].meters
          /\ m.kind = "sale_return" => e.kind = "VALUE_IN" /\ e.value = m.value
          /\ m.kind \notin {"receipt", "sale_return"} => e.kind \in {"ISSUE", "QUANTITY_ONLY"}
      BY <1>9, <2>1
    <3>5. m.kind = "receipt" => line[m.of] = document[m.of]
      <4> HIDE DEF j
      <4> QED  BY <1>1, <2>1, <3>2, LinesTyped DEF line
    <3>6. m.kind # "receipt" => e.meters = m.meters
      <4>1. e = Classified(movements[j])
        BY <1>8
      <4> HIDE DEF j
      <4> QED  BY <2>1, <4>1, ClassifiedBought
    <3> HIDE DEF m, e, p
    <3>7. Likewise(line, p, m, e)
      <4>1. e.meters = AsIfMetres(line, m)
        BY <3>4, <3>5, <3>6 DEF AsIfMetres
      <4>2. CASE m.kind = "receipt"
        BY <3>4, <3>5, <4>1, <4>2 DEF Likewise, AsIfInflow
      <4>3. CASE m.kind = "sale_return"
        BY <3>4, <4>1, <4>3 DEF Likewise, AsIfInflow
      <4>4. CASE m.kind \notin {"receipt", "sale_return"}
        BY <3>3, <3>4, <4>1, <4>4 DEF Likewise, p
      <4> QED  BY <4>2, <4>3, <4>4
    <3> QED  BY <2>2, <3>2, <3>4, <3>7 DEF Bought, m, e, p
  <2> QED  BY <2>3, <2>4
<1>21. Onwards(line, g, w, fs, n)
  <2>1. \A i \in 0..n : g[i] \in Stocks
    BY <1>15, <1>18 DEF AsIfSteps
  <2> QED  BY <1>19, <1>20, <2>1 DEF Onwards
<1>22. Replay(PoolOf(g[0]), fs).pool = PoolOf(g[n])
  BY <1>3, <1>21, ReplayedOnwards
<1>23. g[n] = AsIf(line)
  BY <1>15, <1>18 DEF AsIfSteps
<1> QED  BY <1>13, <1>14, <1>17, <1>18, <1>22, <1>23 DEF line

(* The lines by which movements are known stay as they are.                *)
LinesStay ==
    \A e \in Documents :
       document[e].status # "NONE" =>
         document'[e].meters = document[e].meters /\ document'[e].worth = document[e].worth

(* A movement more is a time more.                                         *)
LEMMA ChronicleExtended ==
  ASSUME PoolTyped, KindsFit, ChronicleFits, LinesStay,
         NEW m \in Movements, movements' = movements \o <<m>>,
         stock' \in Nat, average' \in Worths,
         Passed(document', [meters |-> stock, rate |-> average], m,
                [meters |-> stock', rate |-> average'])
  PROVE  ChronicleFits'
<1> DEFINE n == Len(movements)
           all == movements \o <<m>>
           last == [meters |-> stock, rate |-> average]
           new == [meters |-> stock', rate |-> average']
<1>1. n \in Nat /\ Len(all) = n + 1 /\ all[n + 1] = m /\ \A i \in 1..n : all[i] = movements[i]
  BY DEF PoolTyped
<1>2. movements' = all /\ new \in Times
  BY DEF Times
<1> HIDE DEF all
<1> SUFFICES ASSUME \A i \in 1..(n + 1) : all[i].kind \notin {"revised_receipt", "revised_sale"}
             PROVE  \E x : Chronicle(x, document', all, n + 1) /\ x[n + 1] = new
  <2>1. movements' = all /\ Len(movements') = n + 1
    BY <1>1, <1>2
  <2> HIDE DEF n
  <2> QED  BY <2>1 DEF ChronicleFits, Unrevised
<1>3. PICK a : Chronicle(a, document, movements, n) /\ a[n] = last
  <2>1. Unrevised
    BY <1>1 DEF Unrevised
  <2> QED  BY <2>1 DEF ChronicleFits
<1> DEFINE x == [i \in 0..(n + 1) |-> IF i = n + 1 THEN new ELSE a[i]]
<1>4. x[0] = a[0] /\ x[n] = last /\ x[n + 1] = new /\ \A i \in 0..n : x[i] = a[i]
  BY <1>1, <1>3
<1> HIDE DEF x, new, last
<1>5. ASSUME NEW i \in 1..(n + 1) PROVE Passed(document', x[i - 1], all[i], x[i])
  <2>1. CASE i = n + 1
    <3>1. x[i - 1] = last /\ x[i] = new /\ all[i] = m
      BY <1>1, <1>4, <2>1
    <3> QED  BY <3>1 DEF last, new
  <2>2. CASE i # n + 1
    <3>1. i \in 1..n /\ i - 1 \in 0..n /\ i \in 0..n
      BY <1>1, <2>2
    <3>2. x[i - 1] = a[i - 1] /\ x[i] = a[i] /\ all[i] = movements[i]
      BY <1>1, <1>4, <3>1
    <3>3. Passed(document, a[i - 1], movements[i], a[i])
      BY <1>3, <3>1 DEF Chronicle
    <3>4. movements[i].kind \in {"receipt", "sale"} =>
            /\ document'[movements[i].of].meters = document[movements[i].of].meters
            /\ document'[movements[i].of].worth = document[movements[i].of].worth
      BY <3>1 DEF KindsFit, LinesStay, Documents
    <3> DEFINE k == movements[i]
               p == a[i - 1]
               q == a[i]
    <3> HIDE DEF k, p, q
    <3>5. AsIfInflow(document', p, k) = AsIfInflow(document, p, k)
      BY <3>4 DEF AsIfInflow, k
    <3>6. k.kind = "sale" => UnitCost(document'[k.of]) = UnitCost(document[k.of])
      BY <3>4 DEF UnitCost, k
    <3>7. k.kind = "receipt" => document'[k.of].meters = document[k.of].meters
      BY <3>4 DEF k
    <3>8. Passed(document', p, k, q)
      BY <3>3, <3>5, <3>6, <3>7 DEF Passed, k, p, q
    <3> QED  BY <3>2, <3>8 DEF k, p, q
  <2> QED  BY <2>1, <2>2
<1>6. \A i \in 0..(n + 1) : x[i] \in Times
  <2>1. \A i \in 0..n : x[i] \in Times
    BY <1>3, <1>4 DEF Chronicle
  <2> QED  BY <1>1, <1>2, <1>4, <2>1
<1>7. x[0] = [meters |-> 0, rate |-> Nothing]
  BY <1>3, <1>4 DEF Chronicle
<1> QED  BY <1>4, <1>5, <1>6, <1>7 DEF Chronicle

(* A revision ends what is told of the pool.                               *)
LEMMA ChronicleEnds ==
  ASSUME PoolTyped, NEW m \in Movements, NEW k \in Movements, movements' = movements \o <<m, k>>,
         \/ m.kind \in {"revised_receipt", "revised_sale"}
         \/ k.kind \in {"revised_receipt", "revised_sale"}
  PROVE  ChronicleFits'
<1> DEFINE n == Len(movements)
           all == movements \o <<m, k>>
<1>1. n \in Nat /\ Len(all) = n + 2 /\ all[n + 1] = m /\ all[n + 2] = k
  BY DEF PoolTyped
<1>2. n + 1 \in 1..(n + 2) /\ n + 2 \in 1..(n + 2)
  BY <1>1
<1> HIDE DEF all
<1>3. \E i \in 1..(n + 2) : all[i].kind \in {"revised_receipt", "revised_sale"}
  BY <1>1, <1>2
<1>4. movements' = all
  BY DEF all
<1> QED  BY <1>1, <1>3, <1>4 DEF ChronicleFits, Unrevised

(* Where nothing moves, the chronicle stays.                               *)
LEMMA ChronicleStays ==
  ASSUME ChronicleFits, UNCHANGED <<pool, document>> PROVE ChronicleFits'
<1>1. stock' = stock /\ average' = average /\ movements' = movements /\ document' = document
  BY DEF pool
<1> QED  BY <1>1 DEF ChronicleFits, Unrevised, Chronicle, Passed

(* Whoever moves the pool, no calculation is of it any more.               *)
LEMMA FreshMoved ==
  ASSUME PoolTyped, JobsFresh, NEW s \in Seq(Movements), Len(s) > 0, movements' = movements \o s,
         \A c \in Handlers : job'[c] = job[c] \/ job'[c] = NoJob
  PROVE  JobsFresh'
<1>1. Len(movements) \in Nat /\ Len(s) \in Nat /\ Len(movements') = Len(movements) + Len(s)
  BY DEF PoolTyped
<1> SUFFICES ASSUME NEW c \in Handlers, NEW d \in Purchases, NEW body \in Bodies,
                    job'[c].of = d, job'[c].body = body
             PROVE  /\ Len(job'[c].read[3]) \in Nat /\ Len(job'[c].read[3]) <= Len(movements')
                    /\ job'[c].read # pool'
  BY DEF JobsFresh
<1>2. job'[c] = job[c]
  BY RevisionAssumption DEF NoJob
<1>3. Len(job[c].read[3]) \in Nat /\ Len(job[c].read[3]) <= Len(movements)
  BY <1>2 DEF JobsFresh
<1>4. pool'[3] = movements'
  BY DEF pool
<1>5. job[c].read[3] # movements'
  BY <1>1, <1>3
<1>6. Len(job[c].read[3]) <= Len(movements')
  BY <1>1, <1>3
<1>7. job[c].read # pool'
  BY <1>4, <1>5
<1> QED  BY <1>2, <1>3, <1>6, <1>7

(* A calculation is of what it reads.                                      *)
LEMMA CalculationStays ==
  ASSUME UNCHANGED <<pool, document>>, NEW d, NEW body
  PROVE  ForPurchaseRevision(d, body)' = ForPurchaseRevision(d, body)
BY DEF ForPurchaseRevision, Window, Substituted, OwnReceipt, Classified, UnitCost, Present, pool

(* Where nothing moves, calculations stay fresh; a new one is.             *)
LEMMA FreshStays ==
  ASSUME PoolTyped, JobsFresh, UNCHANGED <<pool, document>>,
         \A c \in Handlers :
            \/ job'[c] = job[c]
            \/ job'[c].of \notin Purchases
            \/ \E d \in Purchases, body \in Bodies :
                 /\ job'[c].of = d /\ job'[c].body = body /\ job'[c].read = pool
                 /\ job'[c].comparison = ForPurchaseRevision(d, body)
                 /\ ForPurchaseRevision(d, body).established
  PROVE  JobsFresh'
<1>1. pool' = pool /\ movements' = movements /\ pool[3] = movements /\ Len(movements) \in Nat
  BY DEF pool, PoolTyped
<1> SUFFICES ASSUME NEW c \in Handlers, NEW d \in Purchases, NEW body \in Bodies,
                    job'[c].of = d, job'[c].body = body
             PROVE  /\ Len(job'[c].read[3]) \in Nat /\ Len(job'[c].read[3]) <= Len(movements')
                    /\ job'[c].read = pool' =>
                         job'[c].comparison = ForPurchaseRevision(d, body)' /\ job'[c].comparison.established
  BY DEF JobsFresh
<1>2. ForPurchaseRevision(d, body)' = ForPurchaseRevision(d, body)
  BY CalculationStays
<1>3. CASE job'[c] = job[c]
  BY <1>1, <1>2, <1>3 DEF JobsFresh
<1>4. CASE \E e \in Purchases, other \in Bodies :
             /\ job'[c].of = e /\ job'[c].body = other /\ job'[c].read = pool
             /\ job'[c].comparison = ForPurchaseRevision(e, other)
             /\ ForPurchaseRevision(e, other).established
  <2>1. /\ job'[c].read = pool /\ job'[c].comparison = ForPurchaseRevision(d, body)
        /\ ForPurchaseRevision(d, body).established
    BY <1>4
  <2> QED  BY <1>1, <1>2, <2>1
<1> QED  BY <1>3, <1>4

(* The inductive invariant of what a first revision calculates.            *)
ReplayInv == RevisionInv /\ ChronicleFits /\ JobsFresh

(* The pool before a step,                                                 *)
TimeNow   == [meters |-> stock, rate |-> average]
(* and after it.                                                           *)
TimeAfter == [meters |-> stock', rate |-> average']

(* A request that moves the pool once.                                     *)
LEMMA MovedOnce ==
  ASSUME ReplayInv, RevisionInv', LinesStay, AtOnce, NEW m \in Movements, Move(<<m>>),
         TimeAfter.meters = stock + m.meters => Passed(document', TimeNow, m, TimeAfter)
  PROVE  ChronicleFits' /\ JobsFresh'
<1>1. /\ PoolTyped /\ KindsFit /\ ChronicleFits /\ JobsFresh
      /\ stock \in Nat /\ m.meters \in Int
  BY DEF ReplayInv, RevisionInv, PoolTyped, Movements
<1>2. stock' \in Nat /\ average' \in Worths
  BY DEF RevisionInv, PoolTyped
<1>3. movements' = movements \o <<m>> /\ stock' = FoldLeft(Moved, stock, <<m>>)
  BY DEF Move
<1>4. FoldLeft(Moved, stock, <<m>>) = stock + m.meters
  <2>1. stock \in Int
    BY <1>1
  <2> QED  BY <1>1, <2>1, StockOne
<1>5. Passed(document', TimeNow, m, TimeAfter)
  BY <1>3, <1>4 DEF TimeAfter
<1>6. ChronicleFits'
  BY <1>1, <1>2, <1>3, <1>5, ChronicleExtended DEF TimeNow, TimeAfter
<1>7. JobsFresh'
  <2>1. <<m>> \in Seq(Movements) /\ Len(<<m>>) > 0
    BY OneMovement
  <2>2. \A c \in Handlers : job'[c] = job[c]
    BY DEF AtOnce
  <2> QED  BY <1>1, <1>3, <2>1, <2>2, FreshMoved
<1> QED  BY <1>6, <1>7

(* A purchase is confirmed.                                                *)
LEMMA ConfirmPurchaseTold ==
  ASSUME ReplayInv, RevisionInv', NEW d \in Purchases, ConfirmPurchase(d)
  PROVE  ChronicleFits' /\ JobsFresh'
<1>1. d \in Documents /\ document[d].status = "NONE" /\ AtOnce /\ PoolTyped /\ RowsTyped
  BY DEF ConfirmPurchase, Documents, ReplayInv, RevisionInv
<1> DEFINE Row(line) == [NoDocument EXCEPT !.status = "CONFIRMED",
                                           !.meters = line[1], !.worth = Whole(line[2])]
<1>2. PICK line \in Receipts :
        /\ Move(<<Movement("receipt", d, Row(line).meters, Nothing)>>)
        /\ Reprice(Present.value ++ Row(line).worth)
        /\ document' = [document EXCEPT ![d] = Row(line)]
  BY DEF ConfirmPurchase
<1> DEFINE row == Row(line)
           m == Movement("receipt", d, row.meters, Nothing)
<1>3. line[1] \in Nat \ {0} /\ row.meters = line[1]
  BY RevisionAssumption DEF NoDocument
<1> HIDE DEF row
<1>4. row.meters > 0 /\ row.meters \in Int
  BY <1>3
<1>5. m \in Movements /\ m.kind = "receipt" /\ m.of = d /\ m.meters = row.meters
  <2>1. "receipt" \in Kinds
    BY DEF Kinds
  <2> QED  BY <1>1, <1>4, <2>1, NothingWorth, MovementType
<1>6. Move(<<m>>) /\ Reprice(Present.value ++ row.worth) /\ document' = [document EXCEPT ![d] = row]
  BY <1>2 DEF row
<1> HIDE DEF m
<1>7. document'[d] = row /\ \A e \in Documents \ {d} : document'[e] = document[e]
  BY <1>1, <1>6 DEF RowsTyped
<1>8. LinesStay
  BY <1>1, <1>7 DEF LinesStay
<1>9. ASSUME TimeAfter.meters = stock + m.meters
      PROVE  Passed(document', TimeNow, m, TimeAfter)
  <2>1. AsIfInflow(document', TimeNow, m) = row.worth
    BY <1>5, <1>7 DEF AsIfInflow
  <2>2. average' = Rate([meters |-> stock', value |-> (average ** stock) ++ row.worth])
    BY <1>6 DEF Reprice, Present
  <2>3. /\ TimeNow.meters = stock /\ TimeNow.rate = average
        /\ TimeAfter.meters = stock' /\ TimeAfter.rate = average'
    BY DEF TimeNow, TimeAfter
  <2> QED  BY <1>4, <1>5, <1>7, <1>9, <2>1, <2>2, <2>3 DEF Passed
<1> QED  BY <1>1, <1>5, <1>6, <1>8, <1>9, MovedOnce

(* A sale is confirmed: its line has the average it left at.               *)
LEMMA ConfirmSaleTold ==
  ASSUME ReplayInv, RevisionInv', NEW d \in Sales, ConfirmSale(d)
  PROVE  ChronicleFits' /\ JobsFresh'
<1>1. d \in Documents /\ document[d].status = "NONE" /\ AtOnce /\ PoolTyped /\ RowsTyped /\ average' = average
  BY DEF ConfirmSale, Documents, ReplayInv, RevisionInv
<1> DEFINE Row(l) == [NoDocument EXCEPT !.status = "CONFIRMED", !.meters = l, !.worth = average ** l]
<1>2. PICK l \in Lengths :
        /\ Move(<<Movement("sale", d, -l, Nothing)>>)
        /\ document' = [document EXCEPT ![d] = Row(l)]
  BY DEF ConfirmSale
<1> DEFINE row == Row(l)
           m == Movement("sale", d, -l, Nothing)
<1>3. l \in Nat \ {0} /\ -l \in Int
  BY RevisionAssumption
<1>4. row.meters = l /\ row.worth = average ** l
  BY DEF NoDocument
<1> HIDE DEF row
<1>5. m \in Movements /\ m.kind = "sale" /\ m.of = d
  <2>1. "sale" \in Kinds
    BY DEF Kinds
  <2> QED  BY <1>1, <1>3, <2>1, NothingWorth, MovementType
<1>6. Move(<<m>>) /\ document' = [document EXCEPT ![d] = row]
  BY <1>2 DEF row
<1> HIDE DEF m
<1>7. document'[d] = row /\ \A e \in Documents \ {d} : document'[e] = document[e]
  BY <1>1, <1>6 DEF RowsTyped
<1>8. LinesStay
  BY <1>1, <1>7 DEF LinesStay
<1>9. UnitCost(document'[d]) = average
  <2>1. average \in Rationals
    BY <1>1 DEF PoolTyped, Worths
  <2>2. (average ** l) // l = average
    BY <1>3, <2>1, TimesPart
  <2> QED  BY <1>4, <1>7, <2>2 DEF UnitCost
<1>10. ASSUME TimeAfter.meters = stock + m.meters
       PROVE  Passed(document', TimeNow, m, TimeAfter)
  <2>1. /\ TimeNow.meters = stock /\ TimeNow.rate = average
        /\ TimeAfter.meters = stock' /\ TimeAfter.rate = average'
    BY DEF TimeNow, TimeAfter
  <2> QED  BY <1>1, <1>5, <1>9, <1>10, <2>1 DEF Passed
<1> QED  BY <1>1, <1>5, <1>6, <1>8, <1>10, MovedOnce

(* Goods come back.                                                        *)
LEMMA ReturnSaleTold ==
  ASSUME ReplayInv, RevisionInv', NEW d \in Sales, NEW n \in Lengths, ReturnSale(d, n)
  PROVE  ChronicleFits' /\ JobsFresh'
<1> DEFINE value == UnitCost(document[d]) ** n
           m == Movement("sale_return", d, n, value)
<1>1. /\ d \in Documents /\ PoolTyped /\ RowsTyped /\ RowsFit /\ AtOnce
      /\ document[d].status = "CONFIRMED" /\ Move(<<m>>) /\ Reprice(Present.value ++ value)
      /\ document' = [document EXCEPT ![d].returned = document[d].returned + n]
  BY DEF ReturnSale, Documents, ReplayInv, RevisionInv
<1>2. n \in Nat /\ n \in Int /\ n > 0
  BY RevisionAssumption
<1>3. value \in Worths
  BY <1>1, <1>2, UnitCostType, WorthsAdd
<1> HIDE DEF value
<1>4. m \in Movements /\ m.kind = "sale_return" /\ m.meters = n /\ m.value = value
  <2>1. "sale_return" \in Kinds
    BY DEF Kinds
  <2>2. m \in Movements /\ m.kind = "sale_return" /\ m.meters = n
    BY <1>1, <1>2, <1>3, <2>1, MovementType
  <2> QED  BY <2>2 DEF Movement
<1> HIDE DEF m
<1>5. LinesStay
  <2>1. ASSUME NEW e \in Documents
        PROVE  document'[e].meters = document[e].meters /\ document'[e].worth = document[e].worth
    <3>1. document[e] \in Rows /\ document[d] \in Rows
      BY <1>1 DEF RowsTyped
    <3> QED  BY <1>1, <3>1 DEF RowsTyped, Rows
  <2> QED  BY <2>1 DEF LinesStay
<1>6. ASSUME TimeAfter.meters = stock + m.meters
      PROVE  Passed(document', TimeNow, m, TimeAfter)
  <2>1. AsIfInflow(document', TimeNow, m) = value
    BY <1>4 DEF AsIfInflow
  <2>2. average' = Rate([meters |-> stock', value |-> (average ** stock) ++ value])
    BY <1>1 DEF Reprice, Present
  <2>3. /\ TimeNow.meters = stock /\ TimeNow.rate = average
        /\ TimeAfter.meters = stock' /\ TimeAfter.rate = average'
    BY DEF TimeNow, TimeAfter
  <2> QED  BY <1>2, <1>4, <1>6, <2>1, <2>2, <2>3 DEF Passed
<1> QED  BY <1>1, <1>4, <1>5, <1>6, MovedOnce

(* What moves at the average and leaves it: a count, a cancellation.       *)
LEMMA QuantityTold ==
  ASSUME ReplayInv, RevisionInv', LinesStay, AtOnce, average' = average, NEW m \in Movements,
         m.kind \notin {"receipt", "sale", "sale_return"}, Move(<<m>>)
  PROVE  ChronicleFits' /\ JobsFresh'
<1>1. ASSUME TimeAfter.meters = stock + m.meters
      PROVE  Passed(document', TimeNow, m, TimeAfter)
  BY <1>1 DEF Passed, TimeNow, TimeAfter
<1> QED  BY <1>1, MovedOnce

(* A count.                                                                *)
LEMMA CountTold ==
  ASSUME ReplayInv, RevisionInv', NEW difference \in {-1, 1}, Count(difference)
  PROVE  ChronicleFits' /\ JobsFresh'
<1> DEFINE m == Movement("count", NoOne, difference, Nothing)
<1>1. m \in Movements /\ m.kind = "count"
  <2>1. "count" \in Kinds
    BY DEF Kinds
  <2>2. NoOne \in Documents \cup {NoOne} /\ difference \in Int /\ Nothing \in Worths
    BY NothingWorth
  <2> QED  BY <2>1, <2>2 DEF Movement, Movements
<1>2. Move(<<m>>) /\ average' = average /\ document' = document /\ AtOnce
  BY DEF Count
<1> HIDE DEF m
<1>3. LinesStay
  BY <1>2 DEF LinesStay
<1> QED  BY <1>1, <1>2, <1>3, QuantityTold

(* A cancellation.                                                         *)
LEMMA CancelTold ==
  ASSUME ReplayInv, RevisionInv', NEW d \in Documents, Cancel(d)
  PROVE  ChronicleFits' /\ JobsFresh'
<1> DEFINE first == CHOOSE m \in ToSet(movements) : m.of = d /\ m.kind \in {"receipt", "sale"}
           m == Movement("cancellation", d, -first.meters, Nothing)
<1>1. /\ PoolTyped /\ RowsTyped /\ FirstsFit /\ document[d].status = "CONFIRMED" /\ Move(<<m>>)
      /\ document' = [document EXCEPT ![d].status = "CANCELLED"]
      /\ average' = average /\ AtOnce
  BY DEF Cancel, ReplayInv, RevisionInv
<1>2. first \in Movements
  <2>1. \E x \in ToSet(movements) : x.of = d /\ x.kind \in {"receipt", "sale"}
    BY <1>1 DEF FirstsFit, First, ToSet, PoolTyped
  <2>2. first \in ToSet(movements)
    BY <2>1
  <2> HIDE DEF first
  <2>3. PICK i \in DOMAIN movements : first = movements[i]
    BY <2>2 DEF ToSet
  <2> QED  BY <1>1, <2>3 DEF PoolTyped
<1>3. -first.meters \in Int
  BY <1>2 DEF Movements
<1> HIDE DEF first
<1>4. m \in Movements /\ m.kind = "cancellation"
  <2>1. "cancellation" \in Kinds
    BY DEF Kinds
  <2> QED  BY <1>3, <2>1, NothingWorth, MovementType
<1> HIDE DEF m
<1>5. LinesStay
  <2>1. ASSUME NEW e \in Documents
        PROVE  document'[e].meters = document[e].meters /\ document'[e].worth = document[e].worth
    <3>1. document[e] \in Rows /\ document[d] \in Rows
      BY <1>1 DEF RowsTyped
    <3> QED  BY <1>1, <3>1 DEF RowsTyped, Rows
  <2> QED  BY <2>1 DEF LinesStay
<1> QED  BY <1>1, <1>4, <1>5, QuantityTold

(* A revision of a purchase is calculated,                                 *)
LEMMA StartRevisePurchaseTold ==
  ASSUME ReplayInv, NEW c \in Handlers, NEW d \in Purchases, StartRevisePurchase(c, d)
  PROVE  ChronicleFits' /\ JobsFresh'
<1> DEFINE Body(line) == [meters |-> line[1], worth |-> Whole(line[2])]
           Asked(body, n, key) == [of |-> d, body |-> body, seen |-> n, key |-> key,
                                   comparison |-> ForPurchaseRevision(d, body), read |-> pool]
<1>1. PICK line \in Receipts, seen \in 1..MaxRevision, key \in Keys :
        ForPurchaseRevision(d, Body(line)).established /\ Take(c, d, Asked(Body(line), seen, key))
  BY DEF StartRevisePurchase
<1> DEFINE body == Body(line)
           request == Asked(body, seen, key)
<1>2. body \in Bodies
  <2>1. line[1] \in Nat \ {0} /\ line[2] \in Nat
    BY RevisionAssumption
  <2>2. Whole(line[2]) \in Worths
    BY <2>1, WholeType DEF Worths
  <2> QED  BY <2>1, <2>2 DEF Bodies
<1>3. Take(c, d, request) /\ ForPurchaseRevision(d, body).established
  BY <1>1
<1> HIDE DEF body
<1>4. /\ request.of = d /\ request.body = body /\ request.comparison = ForPurchaseRevision(d, body)
      /\ request.read = pool
  OBVIOUS
<1> HIDE DEF request
<1>5. UNCHANGED <<pool, document>> /\ job' = [job EXCEPT ![c] = request]
  BY <1>3 DEF Take
<1>6. /\ PoolTyped /\ ChronicleFits /\ JobsFresh /\ job = [e \in Handlers |-> job[e]]
  BY DEF ReplayInv, RevisionInv, LocksTyped
<1>7. ChronicleFits'
  BY <1>5, <1>6, ChronicleStays
<1>8. job'[c] = request /\ \A e \in Handlers : e # c => job'[e] = job[e]
  BY <1>5, <1>6
<1>9. ASSUME NEW e \in Handlers
      PROVE  \/ job'[e] = job[e]
             \/ job'[e].of \notin Purchases
             \/ \E x \in Purchases, other \in Bodies :
                  /\ job'[e].of = x /\ job'[e].body = other /\ job'[e].read = pool
                  /\ job'[e].comparison = ForPurchaseRevision(x, other)
                  /\ ForPurchaseRevision(x, other).established
  <2>1. CASE e = c
    BY <1>2, <1>3, <1>4, <1>8, <2>1
  <2> QED  BY <1>8, <2>1
<1>10. JobsFresh'
  BY <1>5, <1>6, <1>9, FreshStays
<1> QED  BY <1>7, <1>10

(* one of a sale,                                                          *)
LEMMA StartReviseSaleTold ==
  ASSUME ReplayInv, NEW c \in Handlers, NEW d \in Sales, StartReviseSale(c, d)
  PROVE  ChronicleFits' /\ JobsFresh'
<1>1. PICK request : request.of = d /\ Take(c, d, request)
  BY DEF StartReviseSale
<1>2. UNCHANGED <<pool, document>> /\ job' = [job EXCEPT ![c] = request]
  BY <1>1 DEF Take
<1>3. /\ PoolTyped /\ ChronicleFits /\ JobsFresh /\ job = [e \in Handlers |-> job[e]]
  BY DEF ReplayInv, RevisionInv, LocksTyped
<1>4. d \notin Purchases
  BY RevisionAssumption
<1>5. \A e \in Handlers : job'[e] = job[e] \/ job'[e].of \notin Purchases
  BY <1>1, <1>2, <1>3, <1>4
<1> QED  BY <1>2, <1>3, <1>5, ChronicleStays, FreshStays

(* and given up.                                                           *)
LEMMA GiveUpTold ==
  ASSUME ReplayInv, NEW c \in Handlers, GiveUp(c)
  PROVE  ChronicleFits' /\ JobsFresh'
<1>1. UNCHANGED <<pool, document>> /\ job' = [job EXCEPT ![c] = NoJob]
  BY DEF GiveUp, Finish
<1>2. /\ PoolTyped /\ ChronicleFits /\ JobsFresh /\ job = [e \in Handlers |-> job[e]]
  BY DEF ReplayInv, RevisionInv, LocksTyped
<1>3. NoJob.of \notin Purchases
  BY RevisionAssumption DEF NoJob
<1>4. \A e \in Handlers : job'[e] = job[e] \/ job'[e].of \notin Purchases
  BY <1>1, <1>2, <1>3
<1> QED  BY <1>1, <1>2, <1>4, ChronicleStays, FreshStays

(* A revision commits.                                                     *)
LEMMA CommitTold ==
  ASSUME ReplayInv, NEW c \in Handlers, Finish(c),
         NEW m \in Movements, NEW k \in Movements, Move(<<m, k>>),
         \/ m.kind \in {"revised_receipt", "revised_sale"}
         \/ k.kind \in {"revised_receipt", "revised_sale"}
  PROVE  ChronicleFits' /\ JobsFresh'
<1>1. /\ PoolTyped /\ JobsFresh /\ job = [e \in Handlers |-> job[e]]
  BY DEF ReplayInv, RevisionInv, LocksTyped
<1>2. movements' = movements \o <<m, k>> /\ job' = [job EXCEPT ![c] = NoJob]
  BY DEF Move, Finish
<1>3. ChronicleFits'
  BY <1>1, <1>2, ChronicleEnds
<1>4. <<m, k>> \in Seq(Movements) /\ Len(<<m, k>>) > 0
  OBVIOUS
<1>5. \A e \in Handlers : job'[e] = job[e] \/ job'[e] = NoJob
  BY <1>1, <1>2
<1> QED  BY <1>1, <1>2, <1>3, <1>4, <1>5, FreshMoved

(* Of a purchase:                                                          *)
LEMMA RevisePurchaseTold ==
  ASSUME ReplayInv, NEW c \in Handlers, RevisePurchase(c)
  PROVE  ChronicleFits' /\ JobsFresh'
<1> DEFINE d == job[c].of
           row == Revised(d, job[c].body)
           m == Movement("revised_receipt", d, row.meters, Nothing)
           k == Movement("undone", d, -document[d].meters, Nothing)
<1>1. /\ d \in Purchases /\ d \in Documents /\ Finish(c) /\ Move(<<m, k>>)
  BY DEF RevisePurchase, Documents
<1>2. /\ RowsTyped /\ RowsFit /\ document[d].status = "CONFIRMED" /\ document[d].revision < MaxRevision
      /\ job[c].body \in Bodies /\ document[d].returned <= job[c].body.meters
  BY <1>1, NoJobOf DEF ReplayInv, RevisionInv, JobsFit, JobFits
<1>3. row.meters \in Int /\ -document[d].meters \in Int
  <2>1. row.meters = job[c].body.meters
    BY <1>1, <1>2, RevisedType
  <2> QED  BY <1>1, <1>2, <2>1 DEF Bodies, RowsTyped, Rows
<1> HIDE DEF row, d
<1>4. m \in Movements /\ m.kind = "revised_receipt" /\ k \in Movements
  <2>1. "revised_receipt" \in Kinds /\ "undone" \in Kinds
    BY DEF Kinds
  <2> DEFINE x == -document[d].meters
  <2>2. x \in Int /\ k = Movement("undone", d, x, Nothing)
    BY <1>3
  <2> HIDE DEF x, k
  <2> QED  BY <1>1, <1>3, <2>1, <2>2, NothingWorth, MovementType
<1> HIDE DEF m, k
<1> QED  BY <1>1, <1>4, CommitTold

(* of a sale.                                                              *)
LEMMA ReviseSaleTold ==
  ASSUME ReplayInv, NEW c \in Handlers, ReviseSale(c)
  PROVE  ChronicleFits' /\ JobsFresh'
<1> DEFINE d == job[c].of
           row == Revised(d, job[c].body)
           m == Movement("undone", d, document[d].meters, Nothing)
           k == Movement("revised_sale", d, -row.meters, Nothing)
<1>1. /\ d \in Sales /\ d \in Documents /\ Finish(c) /\ Move(<<m, k>>)
  BY DEF ReviseSale, Documents
<1>2. /\ RowsTyped /\ RowsFit /\ document[d].status = "CONFIRMED" /\ document[d].revision < MaxRevision
      /\ job[c].body \in Bodies /\ document[d].returned <= job[c].body.meters
  BY <1>1, NoJobOf DEF ReplayInv, RevisionInv, JobsFit, JobFits
<1>3. -row.meters \in Int /\ document[d].meters \in Int
  <2>1. row.meters = job[c].body.meters
    BY <1>1, <1>2, RevisedType
  <2> QED  BY <1>1, <1>2, <2>1 DEF Bodies, RowsTyped, Rows
<1> HIDE DEF row, d
<1>4. m \in Movements /\ k \in Movements /\ k.kind = "revised_sale"
  <2>1. "revised_sale" \in Kinds /\ "undone" \in Kinds
    BY DEF Kinds
  <2> DEFINE x == -row.meters
             y == document[d].meters
  <2>2. x \in Int /\ k = Movement("revised_sale", d, x, Nothing) /\ y \in Int /\ m = Movement("undone", d, y, Nothing)
    BY <1>3
  <2> HIDE DEF x, y, k, m
  <2> QED  BY <1>1, <2>1, <2>2, NothingWorth, MovementType
<1> HIDE DEF m, k
<1> QED  BY <1>1, <1>4, CommitTold

(* Before anything has happened there is nothing to tell.                  *)
LEMMA ReplayInvInit == RevisionInit => ReplayInv
<1> SUFFICES ASSUME RevisionInit PROVE ReplayInv
  OBVIOUS
<1>1. /\ stock = 0 /\ average = Nothing /\ movements = <<>> /\ job = [c \in Handlers |-> NoJob]
  BY DEF RevisionInit
<1>2. RevisionInv
  BY RevisionInvInit
<1>3. ChronicleFits
  <2> DEFINE a == [i \in 0..0 |-> [meters |-> 0, rate |-> Nothing]]
  <2>1. a[0] = [meters |-> 0, rate |-> Nothing] /\ a[0] \in Times /\ \A i \in 0..0 : i = 0
    BY NothingWorth DEF Times
  <2> HIDE DEF a
  <2>2. Len(movements) = 0 /\ \A i \in 1..0 : FALSE
    BY <1>1
  <2>3. \A i \in 0..0 : a[i] \in Times
    BY <2>1
  <2>4. Chronicle(a, document, movements, 0) /\ a[0] = [meters |-> stock, rate |-> average]
    BY <1>1, <2>1, <2>2, <2>3 DEF Chronicle
  <2> QED  BY <2>2, <2>4 DEF ChronicleFits
<1>4. JobsFresh
  <2>1. \A c \in Handlers : job[c].of \notin Purchases
    BY <1>1, RevisionAssumption DEF NoJob
  <2> QED  BY <2>1 DEF JobsFresh
<1> QED  BY <1>2, <1>3, <1>4 DEF ReplayInv

(* The invariant is kept whatever happens.                                 *)
LEMMA ReplayInvNext == ASSUME ReplayInv, [RevisionNext]_revisionVars PROVE ReplayInv'
<1>0. RevisionInv'
  BY RevisionInvNext DEF ReplayInv
<1> DEFINE Told == ChronicleFits' /\ JobsFresh'
<1>1. ASSUME NEW d \in Purchases, ConfirmPurchase(d) PROVE Told
  BY <1>0, <1>1, ConfirmPurchaseTold
<1>2. ASSUME NEW d \in Sales, ConfirmSale(d) PROVE Told
  BY <1>0, <1>2, ConfirmSaleTold
<1>3. ASSUME NEW d \in Sales, NEW n \in Lengths, ReturnSale(d, n) PROVE Told
  BY <1>0, <1>3, ReturnSaleTold
<1>4. ASSUME NEW difference \in {-1, 1}, Count(difference) PROVE Told
  BY <1>0, <1>4, CountTold
<1>5. ASSUME NEW d \in Documents, Cancel(d) PROVE Told
  BY <1>0, <1>5, CancelTold
<1>6. ASSUME NEW c \in Handlers, NEW d \in Purchases, StartRevisePurchase(c, d) PROVE Told
  BY <1>6, StartRevisePurchaseTold
<1>7. ASSUME NEW c \in Handlers, NEW d \in Sales, StartReviseSale(c, d) PROVE Told
  BY <1>7, StartReviseSaleTold
<1>8. ASSUME NEW c \in Handlers, RevisePurchase(c) PROVE Told
  BY <1>8, RevisePurchaseTold
<1>9. ASSUME NEW c \in Handlers, ReviseSale(c) PROVE Told
  BY <1>9, ReviseSaleTold
<1>10. ASSUME NEW c \in Handlers, GiveUp(c) PROVE Told
  BY <1>10, GiveUpTold
<1>11. ASSUME UNCHANGED revisionVars PROVE Told
  <2>1. UNCHANGED <<pool, document>> /\ job' = job
    BY <1>11 DEF revisionVars
  <2>2. PoolTyped /\ ChronicleFits /\ JobsFresh /\ \A c \in Handlers : job'[c] = job[c]
    BY <2>1 DEF ReplayInv, RevisionInv
  <2> QED  BY <2>1, <2>2, ChronicleStays, FreshStays
<1>12. Told
  <2> HIDE DEF Told
  <2> QED  BY <1>1, <1>2, <1>3, <1>4, <1>5, <1>6, <1>7, <1>8, <1>9, <1>10, <1>11 DEF RevisionNext
<1> QED  BY <1>0, <1>12 DEF ReplayInv

(* The first revision of a purchase calculates the pool there would be,    *)
(* had it always been entered that way, for any number of invoices, lines  *)
(* and movements since: the way back comes to the pool before its receipt, *)
(* and the replay from there to that of AsIf.                              *)
THEOREM RevisedAsIfEntered == RevisionSpec => []RevisedAsIfAlways
<1>1. RevisionInit => ReplayInv
  BY ReplayInvInit
<1>2. ReplayInv /\ [RevisionNext]_revisionVars => ReplayInv'
  BY ReplayInvNext
<1>3. ReplayInv => RevisedAsIfAlways
  <2> SUFFICES ASSUME ReplayInv, NEW c \in Handlers,
                      FirstRevision(c), document[job[c].of].worth # Nothing,
                      ~AsIf(LinesWith(job[c].of, job[c].body)).drained
               PROVE  job[c].comparison.ending = PoolOf(AsIf(LinesWith(job[c].of, job[c].body)))
    BY DEF RevisedAsIfAlways, LinesWith, PoolOf
  <2>1. /\ RowsTyped /\ RowsFit /\ KindsFit /\ FirstsFit /\ PoolTyped /\ ChronicleFits /\ JobsFresh /\ JobsFit
    BY DEF ReplayInv, RevisionInv
  <2>2. job[c].of \in Purchases /\ job[c].of \in Documents /\ job[c].read = pool
    BY DEF FirstRevision, Documents
  <2>3. Unrevised
    BY <2>1 DEF FirstRevision, Unrevised, PoolTyped
  <2>4. document[job[c].of].status = "CONFIRMED" /\ job[c].body \in Bodies
    BY <2>1, <2>2, NoJobOf DEF JobsFit, JobFits
  <2> DEFINE d == job[c].of
             body == job[c].body
  <2>5. job[c].comparison = ForPurchaseRevision(d, body) /\ ForPurchaseRevision(d, body).established
    BY <2>1, <2>2, <2>4 DEF JobsFresh
  <2>6. document[d].worth # Nothing /\ ~AsIf(LinesWith(d, body)).drained
        /\ document[d].status # "NONE" /\ d \in Purchases /\ body \in Bodies
    BY <2>2, <2>4
  <2> HIDE DEF d, body
  <2>7. ForPurchaseRevision(d, body).ending = PoolOf(AsIf(LinesWith(d, body)))
    BY <2>1, <2>3, <2>5, <2>6, CalculatedAsIf
  <2> QED  BY <2>5, <2>7 DEF d, body
<1> QED  BY <1>1, <1>2, <1>3, PTL DEF RevisionSpec

=============================================================================
