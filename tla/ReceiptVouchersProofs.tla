------------------------- MODULE ReceiptVouchersProofs -------------------------
(***************************************************************************)
(* Proofs about ReceiptVouchers, with the treasuries and transfers it is   *)
(* composed with, for any treasuries, documents, amounts and handlers: the *)
(* types, that entries follow documents, that invoices are not taken too   *)
(* much of, one default per branch, and that no treasury is overdrawn.     *)
(*                                                                         *)
(* What a handler posts is what it has read at its first statement, so the *)
(* invariant says that a document somebody is posting is still what that   *)
(* handler has read (HeldDocuments), which is so because the handler holds *)
(* it (Control).                                                           *)
(***************************************************************************)
EXTENDS ReceiptVouchers, SumLemmas, FiniteSetTheorems, TLAPS

Columns == {"branch", "active", "mayGoNegative", "isDefault"}

TreasuryJob == [op : {"treasury"}, treasury : Treasuries, branch : Branches,
                columns : SUBSET Columns, after : ATreasury, unset : SUBSET Treasuries,
                seen : SUBSET Treasuries]
TransferJob == [op : {"transfer"}, doc : Transfers, seen : ATransfer, mayGoNegative : BOOLEAN]
VoucherJob  == [op : {"voucher"}, doc : Vouchers, body : Bodies]

AtTreasury == {"unset", "wait", "save"}
AtTransfer == {"accounts", "commit"}
AtVoucher  == {"invoices", "post"}

Owner == Handlers \cup {NoOne}

(* What is stored has its type.                                            *)
Stored ==
    /\ treasury \in [Treasuries -> ATreasury]
    /\ transfer \in [Transfers -> ATransfer \cup {NoTransfer}]
    /\ entry \in [Documents -> AnEntry]
    /\ voucher \in [Vouchers -> [status : {"NONE", "DRAFT", "POSTED", "REVERSED", "DELETED"},
                                 body : Bodies]]
    /\ invoice \in [Invoices -> [status : {"CONFIRMED", "CANCELLED"}, total : Nat]]

(* A handler serves a request of the kind its place is for.                *)
AtPlace ==
    \A c \in Handlers :
        /\ pc[c] = "idle" => job[c] = Idle
        /\ pc[c] \in AtTreasury => job[c] \in TreasuryJob
        /\ pc[c] \in AtTransfer => job[c] \in TransferJob
        /\ pc[c] \in AtVoucher  => job[c] \in VoucherJob

(* Who posts a document holds it, and holds no other; the other locks are  *)
(* held where they are needed only.                                        *)
Locks ==
    /\ \A t \in Treasuries : rowLock[t] # NoOne => pc[rowLock[t]] = "save"
    /\ \A t \in Treasuries : accountLock[t] # NoOne => pc[accountLock[t]] \in AtTransfer
    /\ \A i \in Invoices : invoiceLock[i] # NoOne => pc[invoiceLock[i]] \in AtVoucher
    /\ \A d \in Documents : docLock[d] # NoOne =>
         pc[docLock[d]] \in AtTransfer \cup AtVoucher /\ job[docLock[d]].doc = d
    /\ \A c \in Handlers : pc[c] \in AtTransfer \cup AtVoucher => docLock[job[c].doc] = c

Control ==
    /\ rowLock \in [Treasuries -> Owner] /\ accountLock \in [Treasuries -> Owner]
    /\ docLock \in [Documents -> Owner] /\ invoiceLock \in [Invoices -> Owner]
    /\ pc \in [Handlers -> {"idle"} \cup AtTreasury \cup AtTransfer \cup AtVoucher]
    /\ job = [c \in Handlers |-> job[c]]
    /\ raced \subseteq Branches /\ started \in Nat
    /\ AtPlace
    /\ Locks

(* A document somebody is posting is the draft he has read.                *)
HeldDocuments ==
    \A c \in Handlers :
        /\ pc[c] \in AtTransfer =>
             transfer[job[c].doc] = job[c].seen /\ job[c].seen.status = "DRAFT"
        /\ pc[c] \in AtVoucher =>
             voucher[job[c].doc] = [status |-> "DRAFT", body |-> job[c].body]

(* Entries follow documents, and a draft has none.                         *)
OfTransfer(x) ==
    /\ EntryFollows(x, transfer[x].status = "CONFIRMED", transfer[x].from, transfer[x].to,
                    transfer[x].amount)
    /\ transfer[x].status \in {"NONE", "DRAFT"} => entry[x] = NotPosted

OfVoucher(v) ==
    /\ EntryFollows(v, voucher[v].status = "POSTED", Nowhere, voucher[v].body.treasury,
                    voucher[v].body.amount)
    /\ voucher[v].status \in {"NONE", "DRAFT"} => entry[v] = NotPosted

Journal == (\A x \in Transfers : OfTransfer(x)) /\ (\A v \in Vouchers : OfVoucher(v))

IInv == Stored /\ Control /\ HeldDocuments /\ Journal

-----------------------------------------------------------------------------

LEMMA Apart ==
    /\ Transfers \subseteq Documents /\ Vouchers \subseteq Documents
    /\ Treasuries \subseteq Documents
    /\ Transfers \cap Vouchers = {} /\ Transfers \cap Treasuries = {} /\ Vouchers \cap Treasuries = {}
    /\ NoOne \notin Handlers
BY TreasuryAssumption, VoucherAssumption

LEMMA InvInit == Init => IInv
<1> SUFFICES ASSUME Init PROVE IInv
  OBVIOUS
<1> USE TreasuryAssumption, VoucherAssumption, Apart
<1>1. Stored
  <2>1. treasury \in [Treasuries -> ATreasury]
    BY DEF Init, TreasuryInit, ATreasury
  <2>2. NoVoucher.body \in Bodies
    BY DEF NoVoucher
  <2> QED  BY <2>1, <2>2 DEF Init, TreasuryInit, Stored, ATransfer, AnEntry, NoTransfer, NotPosted, NoVoucher
<1>2. Control
  BY DEF Init, TreasuryInit, Control, AtPlace, Locks, Owner, AtTreasury, AtTransfer, AtVoucher
<1>3. HeldDocuments
  BY DEF Init, TreasuryInit, HeldDocuments, AtTransfer, AtVoucher
<1>4. Journal
  BY DEF Init, TreasuryInit, Journal, OfTransfer, OfVoucher, EntryFollows, NotPosted, NoTransfer, NoVoucher
<1> QED  BY <1>1, <1>2, <1>3, <1>4 DEF IInv

(* A transaction of one step leaves the handlers alone, and the documents  *)
(* they hold.                                                              *)
LEMMA AtOnceKeepsInv ==
    ASSUME IInv, AtOnce, UNCHANGED invoiceLock, Stored', Journal',
           \A x \in Transfers : DocumentFree(x) \/ transfer'[x] = transfer[x]
                                \/ transfer[x].status # "DRAFT",
           \A v \in Vouchers : DocumentFree(v) \/ voucher'[v] = voucher[v]
                                \/ voucher[v].status # "DRAFT"
    PROVE  IInv'
<1>1. Control'
  BY DEF IInv, Control, AtPlace, Locks, AtOnce, locks
<1>2. HeldDocuments'
  BY Apart DEF IInv, HeldDocuments, Control, AtPlace, Locks, AtOnce, locks, DocumentFree, TransferJob, VoucherJob
<1> QED  BY <1>1, <1>2 DEF IInv

(* When a handler ends, its locks are free and nobody else's.              *)
LEMMA EndKeepsControl ==
    ASSUME Control, NEW c \in Handlers, End(c),
           invoiceLock' = Released(invoiceLock, c) \/ (UNCHANGED invoiceLock /\ pc[c] \notin AtVoucher)
    PROVE  Control'
<1> USE Apart
<1>1. /\ rowLock' \in [Treasuries -> Owner] /\ accountLock' \in [Treasuries -> Owner]
      /\ docLock' \in [Documents -> Owner] /\ invoiceLock' \in [Invoices -> Owner]
  BY DEF Control, End, Released, Owner
<1>2. pc' \in [Handlers -> {"idle"} \cup AtTreasury \cup AtTransfer \cup AtVoucher]
  BY DEF Control, End
<1>3. job' = [d \in Handlers |-> job'[d]]
  BY DEF Control, End
<1>4. raced' \subseteq Branches /\ started' \in Nat
  BY DEF Control, End
<1>5. AtPlace'
  BY DEF Control, AtPlace, End, AtTreasury, AtTransfer, AtVoucher
<1>6. Locks'
  <2>1. \A t \in Treasuries : rowLock'[t] # NoOne => pc'[rowLock'[t]] = "save"
    BY DEF Control, Locks, End, Released, Owner
  <2>2. \A t \in Treasuries : accountLock'[t] # NoOne => pc'[accountLock'[t]] \in AtTransfer
    BY DEF Control, Locks, End, Released, Owner
  <2>3. \A i \in Invoices : invoiceLock'[i] # NoOne => pc'[invoiceLock'[i]] \in AtVoucher
    BY DEF Control, Locks, End, Released, Owner
  <2>4. \A d \in Documents : docLock'[d] # NoOne =>
          pc'[docLock'[d]] \in AtTransfer \cup AtVoucher /\ job'[docLock'[d]].doc = d
    <3> SUFFICES ASSUME NEW d \in Documents, docLock'[d] # NoOne
                 PROVE  pc'[docLock'[d]] \in AtTransfer \cup AtVoucher /\ job'[docLock'[d]].doc = d
      OBVIOUS
    <3>1. docLock'[d] = docLock[d] /\ docLock[d] # c /\ docLock[d] \in Handlers
      BY DEF Control, End, Released, Owner
    <3>2. pc'[docLock[d]] = pc[docLock[d]] /\ job'[docLock[d]] = job[docLock[d]]
      BY <3>1 DEF Control, End
    <3>3. pc[docLock[d]] \in AtTransfer \cup AtVoucher /\ job[docLock[d]].doc = d
      BY <3>1 DEF Control, Locks
    <3> QED  BY <3>1, <3>2, <3>3, Zenon
  <2>5. \A d \in Handlers : pc'[d] \in AtTransfer \cup AtVoucher => docLock'[job'[d].doc] = d
    <3> SUFFICES ASSUME NEW d \in Handlers, pc'[d] \in AtTransfer \cup AtVoucher
                 PROVE  docLock'[job'[d].doc] = d
      OBVIOUS
    <3>1. d # c /\ pc'[d] = pc[d] /\ job'[d] = job[d]
      BY DEF Control, End, AtTransfer, AtVoucher
    <3>2. docLock[job[d].doc] = d /\ job[d].doc \in Documents
      BY <3>1 DEF Control, AtPlace, Locks, TransferJob, VoucherJob
    <3> QED  BY <3>1, <3>2 DEF Control, End, Released
  <2> QED  BY <2>1, <2>2, <2>3, <2>4, <2>5 DEF Locks
<1> QED  BY <1>1, <1>2, <1>3, <1>4, <1>5, <1>6 DEF Control

(* Ending keeps the invariant if what it stores is right.                  *)
LEMMA EndKeepsInv ==
    ASSUME IInv, NEW c \in Handlers, End(c), Stored', Journal',
           invoiceLock' = Released(invoiceLock, c) \/ (UNCHANGED invoiceLock /\ pc[c] \notin AtVoucher),
           \A x \in Transfers : docLock[x] \in {c, NoOne} \/ transfer'[x] = transfer[x],
           \A v \in Vouchers : docLock[v] \in {c, NoOne} \/ voucher'[v] = voucher[v]
    PROVE  IInv'
<1>1. Control'
  BY EndKeepsControl DEF IInv
<1>2. HeldDocuments'
  <2> SUFFICES ASSUME NEW d \in Handlers, pc'[d] # "idle"
               PROVE  /\ pc'[d] \in AtTransfer =>
                           transfer'[job'[d].doc] = job'[d].seen /\ job'[d].seen.status = "DRAFT"
                      /\ pc'[d] \in AtVoucher =>
                           voucher'[job'[d].doc] = [status |-> "DRAFT", body |-> job'[d].body]
    BY DEF HeldDocuments, AtTransfer, AtVoucher
  <2>1. d # c /\ pc'[d] = pc[d] /\ job'[d] = job[d]
    BY DEF IInv, Control, End
  <2>2. pc[d] \in AtTransfer \cup AtVoucher => docLock[job[d].doc] = d
    BY DEF IInv, Control, Locks
  <2>3. pc[d] \in AtTransfer => job[d].doc \in Transfers
    BY DEF IInv, Control, AtPlace, TransferJob
  <2>4. pc[d] \in AtVoucher => job[d].doc \in Vouchers
    BY DEF IInv, Control, AtPlace, VoucherJob
  <2>5. d # NoOne
    BY Apart
  <2> QED  BY <2>1, <2>2, <2>3, <2>4, <2>5 DEF IInv, HeldDocuments
<1> QED  BY <1>1, <1>2 DEF IInv

LEMMA RollbackKeepsInv ==
    ASSUME IInv, NEW c \in Handlers, Rollback(c), UNCHANGED <<voucher, invoice>>,
           invoiceLock' = Released(invoiceLock, c) \/ (UNCHANGED invoiceLock /\ pc[c] \notin AtVoucher)
    PROVE  IInv'
<1>1. Stored'
  BY DEF IInv, Stored, Rollback, stored
<1>2. Journal'
  BY DEF IInv, Journal, OfTransfer, OfVoucher, EntryFollows, Rollback, stored
<1> QED  BY <1>1, <1>2, EndKeepsInv DEF Rollback, stored

-----------------------------------------------------------------------------
(* The journal.                                                            *)

(* An entry that is posted once, or reversed, is an entry.                 *)
LEMMA PostedEntry ==
    ASSUME Stored, NEW c, NEW d \in Documents, NEW from \in Treasuries \cup {Nowhere},
           NEW to \in Treasuries \cup {Nowhere}, NEW n \in Nat, Post(c, d, Entry(from, to, n))
    PROVE  /\ entry' \in [Documents -> AnEntry]
           /\ \A e \in Documents \ {d} : entry'[e] = entry[e]
           /\ entry[d] = NotPosted => entry'[d] = Entry(from, to, n)
<1>1. Entry(from, to, n) \in AnEntry
  BY DEF Entry, AnEntry
<1> QED  BY <1>1 DEF Stored, Post

LEMMA ReversedEntry ==
    ASSUME Stored, NEW c, NEW d \in Documents, Reverse(c, d)
    PROVE  /\ entry' \in [Documents -> AnEntry]
           /\ \A e \in Documents \ {d} : entry'[e] = entry[e]
           /\ entry'[d].status # "POSTED"
           /\ entry'[d].from = entry[d].from /\ entry'[d].to = entry[d].to
           /\ entry'[d].amount = entry[d].amount
           /\ entry[d] = NotPosted => entry'[d] = NotPosted
           /\ entry[d].status \in {"POSTED", "REVERSED"} => entry'[d].status = "REVERSED"
<1>1. entry[d] \in AnEntry
  BY DEF Stored
<1> DEFINE new == [entry[d] EXCEPT !.status = "REVERSED"]
<1>2. new \in AnEntry /\ new.status = "REVERSED" /\ new.from = entry[d].from
      /\ new.to = entry[d].to /\ new.amount = entry[d].amount
  BY <1>1 DEF AnEntry
<1>3. entry' = IF entry[d].status = "POSTED" THEN [entry EXCEPT ![d] = new] ELSE entry
  BY DEF Reverse
<1> HIDE DEF new
<1> QED  BY <1>1, <1>2, <1>3 DEF Stored, NotPosted

(* A reversed entry still follows its document.                            *)
LEMMA ReversedFollows ==
    ASSUME Stored, NEW c, NEW d \in Documents, Reverse(c, d), NEW from, NEW to, NEW n,
           entry[d] \in {[status |-> s, from |-> from, to |-> to, amount |-> n] : s \in {"POSTED", "REVERSED"}}
    PROVE  entry'[d] = [status |-> "REVERSED", from |-> from, to |-> to, amount |-> n]
<1>1. entry'[d] \in AnEntry
  BY ReversedEntry
<1>2. entry[d].status \in {"POSTED", "REVERSED"} /\ entry[d].from = from /\ entry[d].to = to
      /\ entry[d].amount = n
  OBVIOUS
<1>3. entry'[d].status = "REVERSED" /\ entry'[d].from = from /\ entry'[d].to = to
      /\ entry'[d].amount = n
  BY <1>2, ReversedEntry
<1> QED  BY <1>1, <1>3 DEF AnEntry

(* Reversing an entry without a word to its document.                      *)
LEMMA ReverseKeepsJournal ==
    ASSUME IInv, NEW c, NEW d \in Documents, Reverse(c, d), UNCHANGED <<transfer, voucher>>
    PROVE  Journal'
<1> USE Apart
<1> USE DEF IInv
<1>1. \A e \in Documents \ {d} : entry'[e] = entry[e]
  BY ReversedEntry
<1>2. ASSUME NEW x \in Transfers PROVE OfTransfer(x)'
  <2>1. OfTransfer(x)
    BY DEF Journal
  <2>2. CASE x # d
    BY <1>1, <2>1, <2>2 DEF OfTransfer, EntryFollows
  <2>3. CASE x = d
    <3>1. transfer[x].status \in {"NONE", "DRAFT"} => entry'[x] = NotPosted
      BY <2>1, <2>3, ReversedEntry DEF OfTransfer
    <3>2. EntryFollows(x, transfer[x].status = "CONFIRMED", transfer[x].from, transfer[x].to,
                       transfer[x].amount)'
      <4>1. EntryFollows(d, transfer[x].status = "CONFIRMED", transfer[x].from, transfer[x].to, transfer[x].amount)
        BY <2>1, <2>3 DEF OfTransfer
      <4>2. /\ transfer[x].status = "CONFIRMED" => entry'[d] =
                 [status |-> "REVERSED", from |-> transfer[x].from, to |-> transfer[x].to,
                  amount |-> transfer[x].amount]
            /\ entry'[d].status # "POSTED"
        <5>1. entry'[d].status # "POSTED"
          BY ReversedEntry
        <5>2. ASSUME transfer[x].status = "CONFIRMED"
              PROVE  entry'[d] = [status |-> "REVERSED", from |-> transfer[x].from,
                                  to |-> transfer[x].to, amount |-> transfer[x].amount]
          BY <4>1, <5>2, ReversedFollows DEF EntryFollows
        <5> QED  BY <5>1, <5>2
      <4> QED  BY <2>3, <4>2 DEF EntryFollows
    <3> QED  BY <3>1, <3>2 DEF OfTransfer
  <2> QED  BY <2>2, <2>3
<1>3. ASSUME NEW v \in Vouchers PROVE OfVoucher(v)'
  <2>1. OfVoucher(v)
    BY DEF Journal
  <2>2. CASE v # d
    BY <1>1, <2>1, <2>2 DEF OfVoucher, EntryFollows
  <2>3. CASE v = d
    <3>1. voucher[v].status \in {"NONE", "DRAFT"} => entry'[v] = NotPosted
      BY <2>1, <2>3, ReversedEntry DEF OfVoucher
    <3>2. EntryFollows(v, voucher[v].status = "POSTED", Nowhere, voucher[v].body.treasury,
                       voucher[v].body.amount)'
      <4>1. EntryFollows(d, voucher[v].status = "POSTED", Nowhere, voucher[v].body.treasury, voucher[v].body.amount)
        BY <2>1, <2>3 DEF OfVoucher
      <4>2. /\ voucher[v].status = "POSTED" => entry'[d] =
                 [status |-> "REVERSED", from |-> Nowhere, to |-> voucher[v].body.treasury,
                  amount |-> voucher[v].body.amount]
            /\ entry'[d].status # "POSTED"
        <5>1. entry'[d].status # "POSTED"
          BY ReversedEntry
        <5>2. ASSUME voucher[v].status = "POSTED"
              PROVE  entry'[d] = [status |-> "REVERSED", from |-> Nowhere,
                                  to |-> voucher[v].body.treasury, amount |-> voucher[v].body.amount]
          BY <4>1, <5>2, ReversedFollows DEF EntryFollows
        <5> QED  BY <5>1, <5>2
      <4> QED  BY <2>3, <4>2 DEF EntryFollows
    <3> QED  BY <3>1, <3>2 DEF OfVoucher
  <2> QED  BY <2>2, <2>3
<1> QED  BY <1>2, <1>3 DEF Journal

(* One transfer changes, with its entry.                                   *)
LEMMA TransferKeepsJournal ==
    ASSUME IInv, NEW x \in Transfers, OfTransfer(x)', UNCHANGED voucher,
           \A y \in Transfers \ {x} : transfer'[y] = transfer[y],
           \A d \in Documents \ {x} : entry'[d] = entry[d]
    PROVE  Journal'
<1>1. ASSUME NEW y \in Transfers PROVE OfTransfer(y)'
  BY Apart DEF IInv, Journal, OfTransfer, EntryFollows
<1>2. ASSUME NEW v \in Vouchers PROVE OfVoucher(v)'
  BY Apart DEF IInv, Journal, OfVoucher, EntryFollows
<1> QED  BY <1>1, <1>2 DEF Journal

LEMMA VoucherKeepsJournal ==
    ASSUME IInv, NEW v \in Vouchers, OfVoucher(v)', UNCHANGED transfer,
           \A w \in Vouchers \ {v} : voucher'[w] = voucher[w],
           \A d \in Documents \ {v} : entry'[d] = entry[d]
    PROVE  Journal'
<1>1. ASSUME NEW y \in Transfers PROVE OfTransfer(y)'
  BY Apart DEF IInv, Journal, OfTransfer, EntryFollows
<1>2. ASSUME NEW w \in Vouchers PROVE OfVoucher(w)'
  BY Apart DEF IInv, Journal, OfVoucher, EntryFollows
<1> QED  BY <1>1, <1>2 DEF Journal

-----------------------------------------------------------------------------
(* Transactions of one step.                                               *)

LEMMA ReverseInJournalKeepsInv ==
    ASSUME IInv, NEW d \in Documents, ReverseInJournal(d) \/ (d \in Treasuries /\ ReverseOpening(d)),
           UNCHANGED voucherVars
    PROVE  IInv'
<1>1. Reverse(NoOne, d) /\ UNCHANGED <<treasury, transfer>> /\ AtOnce
  BY DEF ReverseInJournal, ReverseOpening
<1>2. Journal'
  BY <1>1, ReverseKeepsJournal DEF voucherVars
<1>3. Stored'
  BY <1>1, ReversedEntry DEF IInv, Stored, voucherVars
<1> QED  BY <1>1, <1>2, <1>3, AtOnceKeepsInv DEF voucherVars

LEMMA PostOpeningKeepsInv ==
    ASSUME IInv, NEW t \in Treasuries, PostOpening(t), UNCHANGED voucherVars
    PROVE  IInv'
<1> USE Apart
<1>1. /\ entry' \in [Documents -> AnEntry]
      /\ \A e \in Documents \ {t} : entry'[e] = entry[e]
  BY PostedEntry, TreasuryAssumption DEF IInv, PostOpening
<1>2. UNCHANGED <<treasury, transfer>> /\ AtOnce
  BY DEF PostOpening
<1>3. Stored'
  BY <1>1, <1>2 DEF IInv, Stored, voucherVars
<1>4. Journal'
  <2>1. ASSUME NEW x \in Transfers PROVE OfTransfer(x)'
    BY <1>1, <1>2 DEF IInv, Journal, OfTransfer, EntryFollows
  <2>2. ASSUME NEW v \in Vouchers PROVE OfVoucher(v)'
    BY <1>1, <1>2 DEF IInv, Journal, OfVoucher, EntryFollows, voucherVars
  <2> QED  BY <2>1, <2>2 DEF Journal
<1> QED  BY <1>2, <1>3, <1>4, AtOnceKeepsInv DEF voucherVars

LEMMA DraftTransferKeepsInv ==
    ASSUME IInv, NEW x \in Transfers, CreateTransfer(x) \/ UpdateTransfer(x), UNCHANGED voucherVars
    PROVE  IInv'
<1> USE Apart
<1>1. PICK from \in Treasuries, to \in Treasuries, n \in Amounts :
         transfer' = [transfer EXCEPT ![x] = [status |-> "DRAFT", from |-> from, to |-> to, amount |-> n]]
  <2>1. CASE CreateTransfer(x)
    BY <2>1 DEF CreateTransfer
  <2>2. CASE UpdateTransfer(x)
    <3>1. transfer[x] \in ATransfer
      BY <2>2 DEF UpdateTransfer, IInv, Stored, NoTransfer
    <3> QED  BY <2>2, <3>1 DEF UpdateTransfer, ATransfer
  <2> QED  BY <2>1, <2>2
<1> DEFINE new == [status |-> "DRAFT", from |-> from, to |-> to, amount |-> n]
<1>2. new \in ATransfer /\ new.status = "DRAFT"
  BY TreasuryAssumption DEF ATransfer
<1>3. transfer' = [transfer EXCEPT ![x] = new]
  BY <1>1
<1> HIDE DEF new
<1>4. transfer[x].status \in {"NONE", "DRAFT"} /\ UNCHANGED <<treasury, entry>> /\ AtOnce
      /\ (DocumentFree(x) \/ transfer[x].status # "DRAFT")
  BY DEF CreateTransfer, UpdateTransfer
<1>5. transfer'[x] = new /\ \A y \in Transfers \ {x} : transfer'[y] = transfer[y]
  BY <1>3 DEF IInv, Stored
<1>6. Stored'
  BY <1>2, <1>3, <1>4 DEF IInv, Stored, voucherVars
<1>7. entry[x] = NotPosted
  BY <1>4 DEF IInv, Journal, OfTransfer
<1>8. OfTransfer(x)'
  BY <1>2, <1>4, <1>5, <1>7 DEF OfTransfer, EntryFollows, NotPosted
<1>9. Journal'
  BY <1>4, <1>5, <1>8, TransferKeepsJournal DEF voucherVars
<1> QED  BY <1>4, <1>5, <1>6, <1>9, AtOnceKeepsInv DEF voucherVars

LEMMA CancelTransferKeepsInv ==
    ASSUME IInv, NEW x \in Transfers, CancelTransfer(x), UNCHANGED voucherVars
    PROVE  IInv'
<1> USE Apart
<1> DEFINE new == [transfer[x] EXCEPT !.status = "CANCELLED"]
<1>1. transfer' = [transfer EXCEPT ![x] = new] /\ UNCHANGED treasury /\ AtOnce /\ DocumentFree(x)
  BY DEF CancelTransfer
<1>2. new \in ATransfer /\ new.status = "CANCELLED"
  <2>1. transfer[x] \in ATransfer
    BY DEF CancelTransfer, IInv, Stored, NoTransfer
  <2> QED  BY <2>1 DEF ATransfer
<1> HIDE DEF new
<1>3. transfer'[x] = new /\ \A y \in Transfers \ {x} : transfer'[y] = transfer[y]
  BY <1>1 DEF IInv, Stored
<1>4. /\ entry' \in [Documents -> AnEntry]
      /\ \A d \in Documents \ {x} : entry'[d] = entry[d]
      /\ entry'[x].status # "POSTED"
  <2>1. CASE transfer[x].status = "CONFIRMED"
    <3>1. Reverse(NoOne, x)
      BY <2>1 DEF CancelTransfer
    <3> QED  BY <3>1, ReversedEntry DEF IInv
  <2>2. CASE transfer[x].status # "CONFIRMED"
    BY <2>2 DEF CancelTransfer, IInv, Stored, Journal, OfTransfer, NotPosted
  <2> QED  BY <2>1, <2>2
<1>5. Stored'
  BY <1>1, <1>2, <1>4 DEF IInv, Stored, voucherVars
<1>6. OfTransfer(x)'
  BY <1>2, <1>3, <1>4 DEF OfTransfer, EntryFollows
<1>7. Journal'
  BY <1>3, <1>4, <1>6, TransferKeepsJournal DEF voucherVars
<1> QED  BY <1>1, <1>3, <1>5, <1>7, AtOnceKeepsInv DEF voucherVars

LEMMA DraftVoucherKeepsInv ==
    ASSUME IInv, NEW v \in Vouchers, CreateVoucher(v) \/ UpdateVoucher(v) \/ RemoveVoucher(v)
    PROVE  IInv'
<1> USE Apart
<1>1. PICK b \in Bodies, status \in {"DRAFT", "DELETED"} :
        voucher' = [voucher EXCEPT ![v] = [status |-> status, body |-> b]]
  <2>1. CASE CreateVoucher(v)
    BY <2>1 DEF CreateVoucher
  <2>2. CASE UpdateVoucher(v)
    <3>1. PICK b \in Bodies : voucher' = [voucher EXCEPT ![v].body = b]
      BY <2>2 DEF UpdateVoucher
    <3>2. [voucher[v] EXCEPT !.body = b] = [status |-> "DRAFT", body |-> b]
      BY <2>2 DEF UpdateVoucher, IInv, Stored
    <3> QED  BY <3>1, <3>2
  <2>3. CASE RemoveVoucher(v)
    <3> DEFINE some == CHOOSE b \in Bodies : TRUE
    <3>1. some \in Bodies
      BY VoucherAssumption
    <3>2. NoVoucher = [status |-> "NONE", body |-> some]
      BY DEF NoVoucher
    <3> HIDE DEF some
    <3>3. [NoVoucher EXCEPT !.status = "DELETED"] = [status |-> "DELETED", body |-> some]
      BY <3>2
    <3> QED  BY <2>3, <3>1, <3>3 DEF RemoveVoucher
  <2> QED  BY <2>1, <2>2, <2>3
<1> DEFINE new == [status |-> status, body |-> b]
<1>2. new.status \in {"DRAFT", "DELETED"} /\ new.body \in Bodies
      /\ new \in [status : {"NONE", "DRAFT", "POSTED", "REVERSED", "DELETED"}, body : Bodies]
  OBVIOUS
<1>3. voucher' = [voucher EXCEPT ![v] = new]
  BY <1>1
<1> HIDE DEF new
<1>4. voucher[v].status \in {"NONE", "DRAFT"} /\ UNCHANGED <<stored, invoice, invoiceLock>> /\ AtOnce
      /\ (DocumentFree(v) \/ voucher[v].status # "DRAFT")
  BY DEF CreateVoucher, UpdateVoucher, RemoveVoucher
<1>5. voucher'[v] = new /\ \A w \in Vouchers \ {v} : voucher'[w] = voucher[w]
  BY <1>3 DEF IInv, Stored
<1>6. Stored'
  BY <1>2, <1>3, <1>4 DEF IInv, Stored, stored
<1>7. entry[v] = NotPosted
  BY <1>4 DEF IInv, Journal, OfVoucher
<1>8. OfVoucher(v)'
  BY <1>2, <1>4, <1>5, <1>7 DEF OfVoucher, EntryFollows, NotPosted, stored
<1>9. Journal'
  BY <1>4, <1>5, <1>8, VoucherKeepsJournal DEF stored
<1> QED  BY <1>4, <1>5, <1>6, <1>9, AtOnceKeepsInv DEF stored

LEMMA ReverseVoucherKeepsInv ==
    ASSUME IInv, NEW v \in Vouchers, ReverseVoucher(v)
    PROVE  IInv'
<1> USE Apart
<1> DEFINE new == [voucher[v] EXCEPT !.status = "REVERSED"]
<1>1. /\ voucher' = [voucher EXCEPT ![v] = new] /\ DocumentFree(v) /\ Reverse(NoOne, v)
      /\ UNCHANGED <<treasury, transfer, invoice, invoiceLock>> /\ AtOnce
  BY DEF ReverseVoucher
<1>2. new.status = "REVERSED"
      /\ new \in [status : {"NONE", "DRAFT", "POSTED", "REVERSED", "DELETED"}, body : Bodies]
  BY DEF IInv, Stored
<1> HIDE DEF new
<1>3. voucher'[v] = new /\ \A w \in Vouchers \ {v} : voucher'[w] = voucher[w]
  BY <1>1 DEF IInv, Stored
<1>4. /\ entry' \in [Documents -> AnEntry]
      /\ \A d \in Documents \ {v} : entry'[d] = entry[d]
      /\ entry'[v].status # "POSTED"
  BY <1>1, ReversedEntry DEF IInv
<1>5. Stored'
  BY <1>1, <1>2, <1>4 DEF IInv, Stored
<1>6. OfVoucher(v)'
  BY <1>2, <1>3, <1>4 DEF OfVoucher, EntryFollows
<1>7. Journal'
  BY <1>1, <1>3, <1>4, <1>6, VoucherKeepsJournal
<1> QED  BY <1>1, <1>3, <1>5, <1>7, AtOnceKeepsInv

LEMMA CancelInvoiceKeepsInv ==
    ASSUME IInv, NEW i \in Invoices, CancelInvoice(i)
    PROVE  IInv'
<1>1. Stored'
  BY DEF IInv, Stored, CancelInvoice, stored
<1>2. Journal'
  BY DEF IInv, Journal, OfTransfer, OfVoucher, EntryFollows, CancelInvoice, stored
<1> QED  BY <1>1, <1>2, AtOnceKeepsInv DEF CancelInvoice, stored

LEMMA ReviseInvoiceKeepsInv ==
    ASSUME IInv, NEW i \in Invoices, ReviseInvoice(i)
    PROVE  IInv'
<1>1. UNCHANGED <<treasury, transfer, entry, locks, pc, job, raced, voucher, invoiceLock>>
  BY DEF ReviseInvoice, stored
<1>2. Stored'
  <2>1. PICK n \in Revised : invoice' = [invoice EXCEPT ![i].total = n]
    BY DEF ReviseInvoice
  <2>2. n \in Nat
    BY VoucherAssumption
  <2> QED  BY <1>1, <2>1, <2>2 DEF IInv, Stored
<1>3. Control'
  <2>1. started' \in Nat
    BY DEF ReviseInvoice, IInv, Control
  <2> QED  BY <1>1, <2>1 DEF IInv, Control, AtPlace, Locks, locks
<1>4. HeldDocuments'
  BY <1>1 DEF IInv, HeldDocuments
<1>5. Journal'
  BY <1>1 DEF IInv, Journal, OfTransfer, OfVoucher, EntryFollows
<1> QED  BY <1>2, <1>3, <1>4, <1>5 DEF IInv

-----------------------------------------------------------------------------
(* Handlers at work: nothing is stored yet.                                *)

(* What is stored and what others hold is as it was.                       *)
LEMMA WorkKeepsInv ==
    ASSUME IInv, NEW c \in Handlers, UNCHANGED <<stored, voucher, invoice>>, Control',
           \A d \in Handlers \ {c} : pc'[d] = pc[d] /\ job'[d] = job[d],
           pc'[c] \in AtTransfer =>
             transfer[job'[c].doc] = job'[c].seen /\ job'[c].seen.status = "DRAFT",
           pc'[c] \in AtVoucher =>
             voucher[job'[c].doc] = [status |-> "DRAFT", body |-> job'[c].body]
    PROVE  IInv'
<1>1. Stored'
  BY DEF IInv, Stored, stored
<1>2. Journal'
  BY DEF IInv, Journal, OfTransfer, OfVoucher, EntryFollows, stored
<1>3. HeldDocuments'
  BY DEF IInv, HeldDocuments, stored
<1> QED  BY <1>1, <1>2, <1>3 DEF IInv

(* A request on the treasuries is on its way.                              *)
LEMMA TreasuryJobKeepsInv ==
    ASSUME IInv, NEW c \in Handlers, UNCHANGED <<stored, docLock, accountLock, voucherVars>>,
           pc[c] \in {"idle", "unset", "wait"}, NEW where \in AtTreasury, NEW new \in TreasuryJob,
           pc' = [pc EXCEPT ![c] = where], job' = [job EXCEPT ![c] = new],
           rowLock' \in [Treasuries -> Owner],
           \A t \in Treasuries : rowLock'[t] = rowLock[t] \/ (rowLock'[t] = c /\ where = "save"),
           raced' \subseteq Branches, started' \in Nat
    PROVE  IInv'
<1> USE Apart DEF AtTreasury, AtTransfer, AtVoucher
<1>0. /\ pc'[c] = where /\ job'[c] = new
      /\ \A d \in Handlers \ {c} : pc'[d] = pc[d] /\ job'[d] = job[d]
  BY DEF IInv, Control
<1>1. pc' \in [Handlers -> {"idle"} \cup AtTreasury \cup AtTransfer \cup AtVoucher]
  BY DEF IInv, Control
<1>2. job' = [d \in Handlers |-> job'[d]]
  BY DEF IInv, Control
<1>3. AtPlace'
  BY <1>0 DEF IInv, Control, AtPlace
<1>4. Locks'
  <2>1. \A t \in Treasuries : rowLock'[t] # NoOne => pc'[rowLock'[t]] = "save"
    BY <1>0 DEF IInv, Control, Locks, Owner
  <2>2. \A t \in Treasuries : accountLock'[t] # NoOne => pc'[accountLock'[t]] \in AtTransfer
    BY <1>0 DEF IInv, Control, Locks, Owner
  <2>3. \A i \in Invoices : invoiceLock'[i] # NoOne => pc'[invoiceLock'[i]] \in AtVoucher
    BY <1>0 DEF IInv, Control, Locks, Owner, voucherVars
  <2>4. \A d \in Documents : docLock'[d] # NoOne =>
          pc'[docLock'[d]] \in AtTransfer \cup AtVoucher /\ job'[docLock'[d]].doc = d
    <3> SUFFICES ASSUME NEW d \in Documents, docLock[d] # NoOne
                 PROVE  pc'[docLock[d]] \in AtTransfer \cup AtVoucher /\ job'[docLock[d]].doc = d
      OBVIOUS
    <3>1. docLock[d] \in Handlers
      BY DEF IInv, Control, Owner
    <3>2. Locks
      BY DEF IInv, Control
    <3>3. pc[docLock[d]] \in AtTransfer \cup AtVoucher /\ job[docLock[d]].doc = d
      BY <3>2 DEF Locks
    <3>4. docLock[d] # c
      BY <3>3
    <3>5. pc'[docLock[d]] = pc[docLock[d]] /\ job'[docLock[d]] = job[docLock[d]]
      BY <1>0, <3>1, <3>4
    <3> QED  BY <3>3, <3>5, Zenon
  <2>5. \A e \in Handlers : pc'[e] \in AtTransfer \cup AtVoucher => docLock'[job'[e].doc] = e
    BY <1>0 DEF IInv, Control, Locks
  <2> QED  BY <2>1, <2>2, <2>3, <2>4, <2>5 DEF Locks
<1>5. Control'
  BY <1>1, <1>2, <1>3, <1>4 DEF IInv, Control, voucherVars
<1> QED  BY <1>0, <1>5, WorkKeepsInv DEF voucherVars

LEMMA BeginKeepsInv ==
    ASSUME IInv, NEW c \in Handlers, NEW b \in Branches, NEW where \in AtTreasury,
           NEW t \in Treasuries, NEW columns \in SUBSET Columns, NEW after \in ATreasury,
           Begin(c, b, where, Request(t, columns, after)), UNCHANGED voucherVars
    PROVE  IInv'
<1> DEFINE new == [op |-> "treasury", treasury |-> t, branch |-> b, columns |-> columns,
                   after |-> after, unset |-> {}, seen |-> {}]
<1>1. new \in TreasuryJob
  BY DEF TreasuryJob
<1>2. pc[c] = "idle" /\ pc' = [pc EXCEPT ![c] = where] /\ started' = started + 1
      /\ UNCHANGED <<stored, locks>>
  BY DEF Begin, Start
<1>3. job' = [job EXCEPT ![c] = new]
  <2>1. [Request(t, columns, after) EXCEPT !.branch = b] = new
    BY DEF Request
  <2>2. job' = [job EXCEPT ![c] = [Request(t, columns, after) EXCEPT !.branch = b]]
    BY DEF Begin, Start
  <2> QED  BY <2>1, <2>2
<1> HIDE DEF new
<1>4. raced' \subseteq Branches
  BY DEF IInv, Control, Begin
<1>5. started' \in Nat
  BY <1>2 DEF IInv, Control
<1>6. rowLock' \in [Treasuries -> Owner] /\ \A u \in Treasuries : rowLock'[u] = rowLock[u]
  BY <1>2 DEF IInv, Control, locks
<1> QED  BY <1>1, <1>2, <1>3, <1>4, <1>5, <1>6, TreasuryJobKeepsInv DEF locks

(* What a request on treasury t of branch b sets out to write: a whole row *)
(* or columns of one there is; a default only after it has unset the old   *)
(* one, and no default only where there is another or there was none.      *)
Plan(b, where, t, columns, after) ==
    /\ IF "branch" \in columns THEN columns = Columns /\ after.branch = b
                               ELSE treasury[t].branch = b
    /\ where # "save" => "isDefault" \in columns /\ after.isDefault
    /\ "isDefault" \in columns /\ ~after.isDefault =>
         IF "branch" \in columns THEN TreasuriesOf(b) # {} ELSE ~treasury[t].isDefault

(* Each of the three requests, as what it will write.                      *)
LEMMA BeginOfRequest ==
    ASSUME IInv, NEW c \in Handlers, NEW t \in Treasuries,
           CreateTreasury(c, t) \/ UpdateTreasury(c, t) \/ SetActive(c, t)
    PROVE  \E b \in Branches, where \in AtTreasury, columns \in SUBSET Columns, after \in ATreasury :
             Begin(c, b, where, Request(t, columns, after)) /\ Plan(b, where, t, columns, after)
<1> USE DEF AtTreasury
<1>1. treasury[t] \in ATreasury /\ treasury[t] = [f \in Columns |-> treasury[t][f]]
  BY DEF IInv, Stored, ATreasury, Columns
<1>2. Exists(t) => treasury[t].branch \in Branches
  BY <1>1 DEF ATreasury, Exists
<1>3. CASE CreateTreasury(c, t)
  <2>1. PICK b \in Branches, asked \in BOOLEAN :
          Begin(c, b, IF StartsAsDefault(b, asked) THEN "unset" ELSE "save",
                Request(t, DOMAIN treasury[t], [branch |-> b, active |-> TRUE,
                          mayGoNegative |-> FALSE, isDefault |-> StartsAsDefault(b, asked)]))
    BY <1>3 DEF CreateTreasury
  <2> DEFINE where == IF StartsAsDefault(b, asked) THEN "unset" ELSE "save"
             after == [branch |-> b, active |-> TRUE, mayGoNegative |-> FALSE,
                       isDefault |-> StartsAsDefault(b, asked)]
  <2>2. StartsAsDefault(b, asked) \in BOOLEAN
    BY DEF StartsAsDefault
  <2>3. after \in ATreasury /\ after.branch = b /\ after.isDefault = StartsAsDefault(b, asked)
    BY <2>2 DEF ATreasury
  <2>4. DOMAIN treasury[t] = Columns
    BY <1>1
  <2>5. where \in AtTreasury /\ (where # "save" => StartsAsDefault(b, asked))
    OBVIOUS
  <2>6. Begin(c, b, where, Request(t, Columns, after))
    BY <2>1, <2>4
  <2> HIDE DEF where, after
  <2>7. Plan(b, where, t, Columns, after)
    BY <2>3, <2>5 DEF Plan, Columns, StartsAsDefault
  <2> QED  BY <2>3, <2>5, <2>6, <2>7
<1>4. CASE UpdateTreasury(c, t)
  <2>1. PICK columns \in SUBSET {"isDefault", "mayGoNegative"}, asked \in BOOLEAN, negative \in BOOLEAN :
          /\ "isDefault" \in columns \/ asked = treasury[t].isDefault
          /\ treasury[t].isDefault => asked
          /\ Begin(c, treasury[t].branch,
                IF asked /\ ~treasury[t].isDefault THEN "unset" ELSE "save",
                Request(t, columns, [treasury[t] EXCEPT !.isDefault = asked,
                                                        !.mayGoNegative = negative]))
    BY <1>4 DEF UpdateTreasury
  <2> DEFINE where == IF asked /\ ~treasury[t].isDefault THEN "unset" ELSE "save"
             after == [treasury[t] EXCEPT !.isDefault = asked, !.mayGoNegative = negative]
  <2>2. after \in ATreasury /\ after.isDefault = asked
    BY <1>1 DEF ATreasury
  <2>3. columns \in SUBSET Columns /\ "branch" \notin columns /\ treasury[t].branch \in Branches
    BY <1>2, <1>4 DEF Columns, UpdateTreasury
  <2>4. where \in AtTreasury /\ (where # "save" => asked /\ ~treasury[t].isDefault)
    OBVIOUS
  <2>5. Begin(c, treasury[t].branch, where, Request(t, columns, after))
    BY <2>1
  <2> HIDE DEF where, after
  <2>6. Plan(treasury[t].branch, where, t, columns, after)
    BY <2>1, <2>2, <2>3, <2>4 DEF Plan
  <2> QED  BY <2>2, <2>3, <2>4, <2>5, <2>6
<1>5. CASE SetActive(c, t)
  <2> DEFINE after == [treasury[t] EXCEPT !.active = ~@]
  <2>1. after \in ATreasury
    BY <1>1 DEF ATreasury
  <2>2. {"active"} \in SUBSET Columns /\ treasury[t].branch \in Branches /\ "save" \in AtTreasury
    BY <1>2, <1>5 DEF Columns, SetActive
  <2>3. Begin(c, treasury[t].branch, "save", Request(t, {"active"}, after))
    BY <1>5 DEF SetActive
  <2> HIDE DEF after
  <2>4. Plan(treasury[t].branch, "save", t, {"active"}, after)
    BY DEF Plan
  <2> QED  BY <2>1, <2>2, <2>3, <2>4
<1> QED  BY <1>3, <1>4, <1>5

LEMMA UnsetKeepsInv ==
    ASSUME IInv, NEW c \in Handlers, Unset(c), UNCHANGED voucherVars
    PROVE  IInv'
<1> USE Apart
<1>1. job[c] \in TreasuryJob /\ pc[c] \in {"unset", "wait"}
  BY DEF Unset, IInv, Control, AtPlace, AtTreasury
<1> DEFINE now  == DefaultsOf(job[c].branch)
           it   == IF pc[c] = "unset" THEN now ELSE job[c].seen \cap now
           held == [job[c] EXCEPT !.unset = it]
           wait == [job[c] EXCEPT !.seen = now]
<1>2. now \subseteq Treasuries /\ it \subseteq Treasuries
  BY <1>1 DEF DefaultsOf, TreasuriesOf
<1>3. held \in TreasuryJob /\ wait \in TreasuryJob
  <2> HIDE DEF now, it
  <2> QED  BY <1>1, <1>2 DEF TreasuryJob
<1>4. UNCHANGED <<stored, docLock, accountLock, raced, started>>
  BY DEF Unset
<1>5. \/ /\ rowLock' = [d \in Treasuries |-> IF d \in it THEN c ELSE rowLock[d]]
         /\ job' = [job EXCEPT ![c] = held] /\ pc' = [pc EXCEPT ![c] = "save"]
      \/ /\ UNCHANGED rowLock
         /\ job' = [job EXCEPT ![c] = wait] /\ pc' = [pc EXCEPT ![c] = "wait"]
  BY DEF Unset, Goto
<1> HIDE DEF now, it, held, wait
<1>6. raced' \subseteq Branches /\ started' \in Nat
  BY <1>4 DEF IInv, Control
<1>7. CASE /\ rowLock' = [d \in Treasuries |-> IF d \in it THEN c ELSE rowLock[d]]
           /\ job' = [job EXCEPT ![c] = held] /\ pc' = [pc EXCEPT ![c] = "save"]
  <2>1. rowLock' \in [Treasuries -> Owner]
    BY <1>7 DEF IInv, Control, Owner
  <2>2. \A t \in Treasuries : rowLock'[t] = rowLock[t] \/ rowLock'[t] = c
    BY <1>7
  <2> QED  BY <1>1, <1>3, <1>4, <1>6, <1>7, <2>1, <2>2, TreasuryJobKeepsInv DEF AtTreasury
<1>8. CASE /\ UNCHANGED rowLock
           /\ job' = [job EXCEPT ![c] = wait] /\ pc' = [pc EXCEPT ![c] = "wait"]
  <2>1. rowLock' \in [Treasuries -> Owner]
    BY <1>8 DEF IInv, Control
  <2> QED  BY <1>1, <1>3, <1>4, <1>6, <1>8, <2>1, TreasuryJobKeepsInv DEF AtTreasury
<1> QED  BY <1>5, <1>7, <1>8

LEMMA SaveKeepsInv ==
    ASSUME IInv, NEW c \in Handlers, SaveTreasury(c), UNCHANGED voucherVars
    PROVE  IInv'
<1>1. job[c] \in TreasuryJob /\ pc[c] = "save" /\ UNCHANGED <<transfer, entry>> /\ End(c)
  BY DEF SaveTreasury, IInv, Control, AtPlace, AtTreasury
<1>2. ASSUME NEW row \in ATreasury PROVE Written(c, row) \in ATreasury
  BY <1>1 DEF Written, ATreasury, TreasuryJob
<1>3. ASSUME NEW row \in ATreasury PROVE [row EXCEPT !.isDefault = FALSE] \in ATreasury
  BY DEF ATreasury
<1>4. treasury' \in [Treasuries -> ATreasury]
  <2>1. treasury' = [u \in Treasuries |->
             IF u = job[c].treasury THEN Written(c, treasury[u])
             ELSE IF u \in job[c].unset THEN [treasury[u] EXCEPT !.isDefault = FALSE]
             ELSE treasury[u]]
    BY DEF SaveTreasury
  <2>2. \A u \in Treasuries : treasury[u] \in ATreasury
    BY DEF IInv, Stored
  <2> QED  BY <1>2, <1>3, <2>1, <2>2
<1>5. Stored'
  BY <1>1, <1>4 DEF IInv, Stored, voucherVars
<1>6. Journal'
  BY <1>1 DEF IInv, Journal, OfTransfer, OfVoucher, EntryFollows, voucherVars
<1>7. pc[c] \notin AtVoucher
  BY <1>1 DEF AtVoucher
<1> QED  BY <1>1, <1>5, <1>6, <1>7, EndKeepsInv DEF voucherVars

-----------------------------------------------------------------------------
(* Posting a document.                                                     *)

(* A handler takes a document, or goes on with the one it has.             *)
LEMMA PostingKeepsInv ==
    ASSUME IInv, NEW c \in Handlers, UNCHANGED <<stored, rowLock, raced, voucher, invoice>>,
           NEW where, NEW new, NEW d \in Documents,
           \/ where \in AtTransfer /\ new \in TransferJob /\ UNCHANGED invoiceLock
              /\ pc[c] \in {"idle"} \cup AtTransfer
              /\ transfer[new.doc] = new.seen /\ new.seen.status = "DRAFT"
           \/ where \in AtVoucher /\ new \in VoucherJob /\ UNCHANGED accountLock
              /\ pc[c] \in {"idle"} \cup AtVoucher
              /\ voucher[new.doc] = [status |-> "DRAFT", body |-> new.body],
           pc' = [pc EXCEPT ![c] = where], job' = [job EXCEPT ![c] = new], new.doc = d,
           pc[c] # "idle" => job[c].doc = d,
           docLock[d] \in {c, NoOne}, docLock' = [docLock EXCEPT ![d] = c],
           accountLock' \in [Treasuries -> Owner], invoiceLock' \in [Invoices -> Owner],
           \A t \in Treasuries : accountLock'[t] \in {accountLock[t], c},
           \A i \in Invoices : invoiceLock'[i] \in {invoiceLock[i], c},
           started' \in Nat
    PROVE  IInv'
<1> USE Apart DEF AtTreasury, AtTransfer, AtVoucher
<1>0. /\ pc'[c] = where /\ job'[c] = new
      /\ \A h \in Handlers \ {c} : pc'[h] = pc[h] /\ job'[h] = job[h]
  BY DEF IInv, Control
<1>1. pc' \in [Handlers -> {"idle"} \cup AtTreasury \cup AtTransfer \cup AtVoucher]
  BY DEF IInv, Control
<1>2. job' = [h \in Handlers |-> job'[h]]
  BY DEF IInv, Control
<1>3. docLock' \in [Documents -> Owner] /\ docLock'[d] = c
      /\ \A e \in Documents \ {d} : docLock'[e] = docLock[e]
  BY DEF IInv, Control, Owner
<1>4. AtPlace'
  BY <1>0 DEF IInv, Control, AtPlace
<1>5. Locks'
  <2>1. \A t \in Treasuries : rowLock'[t] # NoOne => pc'[rowLock'[t]] = "save"
    BY <1>0 DEF IInv, Control, Locks, Owner
  <2>2. \A t \in Treasuries : accountLock'[t] # NoOne => pc'[accountLock'[t]] \in AtTransfer
    BY <1>0 DEF IInv, Control, Locks, Owner
  <2>3. \A i \in Invoices : invoiceLock'[i] # NoOne => pc'[invoiceLock'[i]] \in AtVoucher
    BY <1>0 DEF IInv, Control, Locks, Owner
  <2>4. ASSUME NEW e \in Documents, docLock'[e] # NoOne
        PROVE  pc'[docLock'[e]] \in AtTransfer \cup AtVoucher /\ job'[docLock'[e]].doc = e
    <3>1. CASE e = d
      BY <1>0, <1>3, <3>1
    <3>2. CASE e # d
      <4>1. docLock[e] \in Handlers /\ docLock'[e] = docLock[e]
        BY <1>3, <2>4, <3>2 DEF IInv, Control, Owner
      <4>2. pc[docLock[e]] \in AtTransfer \cup AtVoucher /\ job[docLock[e]].doc = e
        BY <2>4, <4>1 DEF IInv, Control, Locks
      <4>3. docLock[e] # c
        BY <3>2, <4>2
      <4> QED  BY <1>0, <4>1, <4>2, <4>3
    <3> QED  BY <3>1, <3>2
  <2>5. ASSUME NEW h \in Handlers, pc'[h] \in AtTransfer \cup AtVoucher
        PROVE  docLock'[job'[h].doc] = h
    <3>1. CASE h = c
      BY <1>0, <1>3, <3>1
    <3>2. CASE h # c
      <4>1. docLock[job[h].doc] = h /\ job[h].doc \in Documents
        BY <1>0, <2>5, <3>2 DEF IInv, Control, AtPlace, Locks, TransferJob, VoucherJob
      <4>2. job[h].doc # d
        BY <3>2, <4>1
      <4> QED  BY <1>0, <1>3, <3>2, <4>1, <4>2
    <3> QED  BY <3>1, <3>2
  <2> QED  BY <2>1, <2>2, <2>3, <2>4, <2>5 DEF Locks
<1>6. Control'
  BY <1>1, <1>2, <1>3, <1>4, <1>5 DEF IInv, Control
<1> QED  BY <1>0, <1>6, WorkKeepsInv DEF stored

LEMMA StartConfirmTransferKeepsInv ==
    ASSUME IInv, NEW c \in Handlers, NEW x \in Transfers, StartConfirmTransfer(c, x),
           UNCHANGED voucherVars
    PROVE  IInv'
<1> USE Apart
<1> DEFINE new == [op |-> "transfer", doc |-> x, seen |-> transfer[x],
                   mayGoNegative |-> treasury[transfer[x].from].mayGoNegative]
<1>1. /\ pc[c] = "idle" /\ pc' = [pc EXCEPT ![c] = "accounts"] /\ job' = [job EXCEPT ![c] = new]
      /\ started' = started + 1 /\ UNCHANGED <<stored, rowLock, accountLock, raced>>
      /\ docLock' = [docLock EXCEPT ![x] = c] /\ docLock[x] = NoOne /\ transfer[x].status = "DRAFT"
  BY DEF StartConfirmTransfer, Start, LockDocument, DocumentFree
<1>2. new.doc = x /\ new.seen = transfer[x]
  OBVIOUS
<1>3. new \in TransferJob
  <2>1. transfer[x] \in ATransfer
    BY <1>1 DEF IInv, Stored, NoTransfer
  <2>2. treasury[transfer[x].from] \in ATreasury
    BY <2>1 DEF IInv, Stored, ATransfer
  <2>3. treasury[transfer[x].from].mayGoNegative \in BOOLEAN
    BY <2>2 DEF ATreasury
  <2> QED  BY <2>1, <2>3 DEF TransferJob
<1> HIDE DEF new
<1>4. /\ accountLock' \in [Treasuries -> Owner] /\ invoiceLock' \in [Invoices -> Owner]
      /\ \A t \in Treasuries : accountLock'[t] = accountLock[t]
      /\ \A i \in Invoices : invoiceLock'[i] = invoiceLock[i]
      /\ started' \in Nat
  BY <1>1 DEF IInv, Control, voucherVars
<1> QED  BY <1>1, <1>2, <1>3, <1>4, PostingKeepsInv DEF AtTransfer, voucherVars

LEMMA LockAccountKeepsInv ==
    ASSUME IInv, NEW c \in Handlers, LockAccount(c), UNCHANGED voucherVars
    PROVE  IInv'
<1> USE Apart
<1>1. CASE Rollback(c)
  <2>1. pc[c] \notin AtVoucher
    BY DEF LockAccount, AtVoucher
  <2> QED  BY <1>1, <2>1, RollbackKeepsInv DEF voucherVars
<1>2. CASE ~Rollback(c)
  <2>1. \E t : \E where \in AtTransfer :
          /\ accountLock' = [accountLock EXCEPT ![t] = c]
          /\ pc' = [pc EXCEPT ![c] = where]
          /\ UNCHANGED <<stored, rowLock, docLock, job, raced, started>>
    <3> DEFINE side  == NextSide(c)
               last  == Sides(c) \ {side} \subseteq {u \in Treasuries : accountLock[u] = c}
               place == IF last THEN "commit" ELSE "accounts"
    <3>1. /\ accountLock' = [accountLock EXCEPT ![side] = c]
          /\ pc' = [pc EXCEPT ![c] = place]
          /\ UNCHANGED <<stored, rowLock, docLock, job, raced, started>>
      BY <1>2 DEF LockAccount, Goto
    <3>2. place \in AtTransfer
      BY DEF AtTransfer
    <3> HIDE DEF side, place
    <3> QED  BY <3>1, <3>2
  <2> PICK t, where : /\ where \in AtTransfer
                      /\ accountLock' = [accountLock EXCEPT ![t] = c]
                      /\ pc' = [pc EXCEPT ![c] = where]
                      /\ UNCHANGED <<stored, rowLock, docLock, job, raced, started>>
    BY <2>1
  <2>2. pc[c] = "accounts"
    BY DEF LockAccount
  <2>3. job[c] \in TransferJob /\ docLock[job[c].doc] = c /\ transfer[job[c].doc] = job[c].seen
        /\ job[c].seen.status = "DRAFT"
    BY <2>2 DEF IInv, Control, AtPlace, Locks, HeldDocuments, AtTransfer
  <2>4. job' = [job EXCEPT ![c] = job[c]] /\ docLock' = [docLock EXCEPT ![job[c].doc] = c]
    BY <2>3 DEF IInv, Control
  <2>5. /\ accountLock' \in [Treasuries -> Owner] /\ invoiceLock' \in [Invoices -> Owner]
        /\ \A u \in Treasuries : accountLock'[u] \in {accountLock[u], c}
        /\ \A i \in Invoices : invoiceLock'[i] = invoiceLock[i]
        /\ started' \in Nat
    BY DEF IInv, Control, voucherVars, Owner
  <2>6. job[c].doc \in Documents
    BY <2>3 DEF TransferJob
  <2> QED  BY <2>2, <2>3, <2>4, <2>5, <2>6, PostingKeepsInv DEF AtTransfer, voucherVars
<1> QED  BY <1>1, <1>2

LEMMA ConfirmTransferKeepsInv ==
    ASSUME IInv, NEW c \in Handlers, ConfirmTransfer(c), UNCHANGED voucherVars
    PROVE  IInv'
<1> USE Apart
<1>0. PICK x \in Transfers : x = job[c].doc
  BY DEF ConfirmTransfer, IInv, Control, AtPlace, AtTransfer, TransferJob
<1> DEFINE new == [transfer[x] EXCEPT !.status = "CONFIRMED"]
<1>1. pc[c] = "commit" /\ job[c] \in TransferJob /\ docLock[x] = c
      /\ transfer[x] = job[c].seen /\ transfer[x].status = "DRAFT"
  <2>1. pc[c] = "commit" /\ pc[c] \in AtTransfer
    BY DEF ConfirmTransfer, AtTransfer
  <2>2. AtPlace /\ Locks /\ HeldDocuments
    BY DEF IInv, Control
  <2>3. job[c] \in TransferJob
    BY <2>1, <2>2 DEF AtPlace
  <2>4. docLock[x] = c
    BY <1>0, <2>1, <2>2 DEF Locks
  <2>5. transfer[x] = job[c].seen /\ transfer[x].status = "DRAFT"
    BY <1>0, <2>1, <2>2 DEF HeldDocuments
  <2> QED  BY <2>1, <2>3, <2>4, <2>5
<1>2. transfer[x] \in ATransfer
  BY <1>1 DEF IInv, Stored, NoTransfer
<1>3. new \in ATransfer /\ new.status = "CONFIRMED" /\ new.from = transfer[x].from
      /\ new.to = transfer[x].to /\ new.amount = transfer[x].amount
  BY <1>2 DEF ATransfer
<1>4. transfer' = [transfer EXCEPT ![x] = new] /\ UNCHANGED treasury /\ End(c)
      /\ Post(c, x, Entry(transfer[x].from, transfer[x].to, transfer[x].amount))
  BY <1>0, <1>1 DEF ConfirmTransfer
<1>5. transfer[x].from \in Treasuries /\ transfer[x].to \in Treasuries /\ transfer[x].amount \in Nat
  BY <1>2 DEF ATransfer
<1>6. entry[x] = NotPosted
  BY <1>1 DEF IInv, Journal, OfTransfer
<1> HIDE DEF new
<1>7. /\ entry' \in [Documents -> AnEntry]
      /\ \A d \in Documents \ {x} : entry'[d] = entry[d]
      /\ entry'[x] = Entry(new.from, new.to, new.amount)
  <2>1. PICK from \in Treasuries \cup {Nowhere}, to \in Treasuries \cup {Nowhere}, n \in Nat :
          from = transfer[x].from /\ to = transfer[x].to /\ n = transfer[x].amount
    BY <1>5
  <2>2. /\ entry' \in [Documents -> AnEntry]
        /\ \A d \in Documents \ {x} : entry'[d] = entry[d]
        /\ entry'[x] = Entry(from, to, n)
    <3>1. Post(c, x, Entry(from, to, n))
      BY <1>4, <2>1 DEF Post, Entry, Shareable
    <3>2. Stored /\ x \in Documents
      BY DEF IInv
    <3>3. /\ entry' \in [Documents -> AnEntry]
          /\ \A d \in Documents \ {x} : entry'[d] = entry[d]
      BY <3>1, <3>2, PostedEntry
    <3>4. entry'[x] = Entry(from, to, n)
      BY <1>6, <3>1, <3>2 DEF Post, Stored
    <3> QED  BY <3>3, <3>4
  <2> QED  BY <1>3, <2>1, <2>2
<1>8. transfer'[x] = new /\ \A y \in Transfers \ {x} : transfer'[y] = transfer[y]
  BY <1>1, <1>4 DEF IInv, Stored
<1>9. Stored'
  BY <1>3, <1>4, <1>7 DEF IInv, Stored, voucherVars
<1>10. OfTransfer(x)'
  BY <1>3, <1>7, <1>8 DEF OfTransfer, EntryFollows, Entry
<1>11. Journal'
  BY <1>1, <1>7, <1>8, <1>10, TransferKeepsJournal DEF voucherVars
<1>12. pc[c] \notin AtVoucher
  BY <1>1 DEF AtVoucher
<1> QED  BY <1>1, <1>4, <1>8, <1>9, <1>11, <1>12, EndKeepsInv DEF voucherVars

LEMMA AbortKeepsInv ==
    ASSUME IInv, NEW c \in Handlers, (Abort(c) /\ UNCHANGED voucherVars) \/ AbortVoucher(c)
    PROVE  IInv'
<1>1. CASE Abort(c) /\ UNCHANGED voucherVars
  BY <1>1, RollbackKeepsInv DEF Abort, AtVoucher, voucherVars
<1>2. CASE AbortVoucher(c)
  BY <1>2, RollbackKeepsInv DEF AbortVoucher
<1> QED  BY <1>1, <1>2

LEMMA StartPostVoucherKeepsInv ==
    ASSUME IInv, NEW c \in Handlers, NEW v \in Vouchers, StartPostVoucher(c, v)
    PROVE  IInv'
<1> USE Apart
<1> DEFINE new   == [op |-> "voucher", doc |-> v, body |-> voucher[v].body]
           place == IF Targets(voucher[v].body) = {} THEN "post" ELSE "invoices"
<1>1. /\ pc[c] = "idle" /\ pc' = [pc EXCEPT ![c] = place] /\ job' = [job EXCEPT ![c] = new]
      /\ started' = started + 1 /\ UNCHANGED <<stored, rowLock, accountLock, raced, voucherVars>>
      /\ docLock' = [docLock EXCEPT ![v] = c] /\ docLock[v] = NoOne /\ voucher[v].status = "DRAFT"
  BY DEF StartPostVoucher, Start, LockDocument, DocumentFree
<1>2. new.doc = v /\ voucher[v] = [status |-> "DRAFT", body |-> new.body]
  BY <1>1 DEF IInv, Stored
<1>3. new \in VoucherJob
  BY DEF IInv, Stored, VoucherJob
<1>4. place \in AtVoucher
  BY DEF AtVoucher
<1> HIDE DEF new, place
<1>5. /\ accountLock' \in [Treasuries -> Owner] /\ invoiceLock' \in [Invoices -> Owner]
      /\ \A t \in Treasuries : accountLock'[t] = accountLock[t]
      /\ \A i \in Invoices : invoiceLock'[i] = invoiceLock[i]
      /\ started' \in Nat
  BY <1>1 DEF IInv, Control, voucherVars
<1> QED  BY <1>1, <1>2, <1>3, <1>4, <1>5, PostingKeepsInv DEF voucherVars

LEMMA LockInvoiceKeepsInv ==
    ASSUME IInv, NEW c \in Handlers, LockInvoice(c)
    PROVE  IInv'
<1> USE Apart
<1> DEFINE open  == {i \in Targets(job[c].body) : invoiceLock[i] # c}
           place == IF Cardinality(open) = 1 THEN "post" ELSE "invoices"
           first == Min(open)
<1>1. /\ pc[c] = "invoices" /\ pc' = [pc EXCEPT ![c] = place]
      /\ invoiceLock' = [invoiceLock EXCEPT ![first] = c]
      /\ UNCHANGED <<stored, locks, job, raced, started, voucher, invoice>>
  BY DEF LockInvoice, Goto
<1>2. place \in AtVoucher
  BY DEF AtVoucher
<1> HIDE DEF place, first, open
<1>3. job[c] \in VoucherJob /\ docLock[job[c].doc] = c
      /\ voucher[job[c].doc] = [status |-> "DRAFT", body |-> job[c].body]
  BY <1>1 DEF IInv, Control, AtPlace, Locks, HeldDocuments, AtVoucher
<1>4. job[c].doc \in Documents
  BY <1>3 DEF VoucherJob
<1>5. job' = [job EXCEPT ![c] = job[c]] /\ docLock' = [docLock EXCEPT ![job[c].doc] = c]
  BY <1>1, <1>3 DEF IInv, Control, locks
<1>6. /\ accountLock' \in [Treasuries -> Owner] /\ invoiceLock' \in [Invoices -> Owner]
      /\ \A t \in Treasuries : accountLock'[t] = accountLock[t]
      /\ \A i \in Invoices : invoiceLock'[i] \in {invoiceLock[i], c}
      /\ started' \in Nat
  BY <1>1 DEF IInv, Control, locks, Owner
<1> QED  BY <1>1, <1>2, <1>3, <1>4, <1>5, <1>6, PostingKeepsInv DEF AtVoucher, locks

LEMMA PostVoucherKeepsInv ==
    ASSUME IInv, NEW c \in Handlers, PostVoucher(c)
    PROVE  IInv'
<1> USE Apart
<1>0. PICK v \in Vouchers : v = job[c].doc
  BY DEF PostVoucher, IInv, Control, AtPlace, AtVoucher, VoucherJob
<1> DEFINE new == [voucher[v] EXCEPT !.status = "POSTED"]
<1>1. pc[c] = "post" /\ job[c] \in VoucherJob /\ docLock[v] = c
      /\ voucher[v] = [status |-> "DRAFT", body |-> job[c].body]
  BY <1>0 DEF PostVoucher, IInv, Control, AtPlace, Locks, HeldDocuments, AtVoucher, VoucherJob
<1>2. voucher[v].body \in Body
  BY <1>1, VoucherAssumption DEF VoucherJob
<1>3. new.status = "POSTED" /\ new.body = voucher[v].body
      /\ new \in [status : {"NONE", "DRAFT", "POSTED", "REVERSED", "DELETED"}, body : Bodies]
  BY <1>1 DEF VoucherJob
<1>4. /\ voucher' = [voucher EXCEPT ![v] = new] /\ UNCHANGED <<treasury, transfer, invoice>>
      /\ Post(c, v, Entry(Nowhere, voucher[v].body.treasury, voucher[v].body.amount))
      /\ invoiceLock' = Released(invoiceLock, c) /\ End(c)
  BY <1>0, <1>1 DEF PostVoucher
<1>5. voucher[v].body.treasury \in Treasuries /\ voucher[v].body.amount \in Nat
  BY <1>2 DEF Body
<1>6. entry[v] = NotPosted
  BY <1>1 DEF IInv, Journal, OfVoucher
<1> HIDE DEF new
<1>7. /\ entry' \in [Documents -> AnEntry]
      /\ \A d \in Documents \ {v} : entry'[d] = entry[d]
      /\ entry'[v] = Entry(Nowhere, new.body.treasury, new.body.amount)
  <2>1. PICK to \in Treasuries \cup {Nowhere}, n \in Nat :
          to = voucher[v].body.treasury /\ n = voucher[v].body.amount
    BY <1>5
  <2>2. /\ entry' \in [Documents -> AnEntry]
        /\ \A d \in Documents \ {v} : entry'[d] = entry[d]
        /\ entry'[v] = Entry(Nowhere, to, n)
    <3>1. Post(c, v, Entry(Nowhere, to, n))
      BY <1>4, <2>1 DEF Post, Entry, Shareable
    <3> QED  BY <1>6, <3>1, PostedEntry DEF IInv
  <2> QED  BY <1>3, <2>1, <2>2
<1>8. voucher'[v] = new /\ \A w \in Vouchers \ {v} : voucher'[w] = voucher[w]
  BY <1>1, <1>4 DEF IInv, Stored
<1>9. Stored'
  BY <1>3, <1>4, <1>7 DEF IInv, Stored
<1>10. OfVoucher(v)'
  BY <1>3, <1>7, <1>8 DEF OfVoucher, EntryFollows, Entry
<1>11. Journal'
  BY <1>1, <1>4, <1>7, <1>8, <1>10, VoucherKeepsJournal
<1> QED  BY <1>1, <1>4, <1>8, <1>9, <1>11, EndKeepsInv

-----------------------------------------------------------------------------
(* The invariant.                                                          *)

LEMMA InvNext == IInv /\ [Next]_vars => IInv'
<1> SUFFICES ASSUME IInv, [Next]_vars PROVE IInv'
  OBVIOUS
<1>1. CASE TreasuryNext /\ UNCHANGED voucherVars
  <2>1. CASE \E d \in Documents : ReverseInJournal(d)
    BY <1>1, <2>1, ReverseInJournalKeepsInv
  <2>2. CASE \E t \in Treasuries : PostOpening(t) \/ ReverseOpening(t)
    BY <1>1, <2>2, PostOpeningKeepsInv, ReverseInJournalKeepsInv, Apart
  <2>3. CASE \E x \in Transfers : CreateTransfer(x) \/ UpdateTransfer(x) \/ CancelTransfer(x)
    BY <1>1, <2>3, DraftTransferKeepsInv, CancelTransferKeepsInv
  <2>4. ASSUME NEW c \in Handlers, NEW t \in Treasuries,
               CreateTreasury(c, t) \/ UpdateTreasury(c, t) \/ SetActive(c, t)
        PROVE  IInv'
    <3>1. PICK b \in Branches, where \in AtTreasury, columns \in SUBSET Columns, after \in ATreasury :
            Begin(c, b, where, Request(t, columns, after))
      BY <2>4, BeginOfRequest
    <3> QED  BY <1>1, <3>1, BeginKeepsInv
  <2>5. ASSUME NEW c \in Handlers, \E x \in Transfers : StartConfirmTransfer(c, x)
        PROVE  IInv'
    BY <1>1, <2>5, StartConfirmTransferKeepsInv
  <2>6. ASSUME NEW c \in Handlers,
               Unset(c) \/ SaveTreasury(c) \/ LockAccount(c) \/ ConfirmTransfer(c) \/ Abort(c)
        PROVE  IInv'
    BY <1>1, <2>6, UnsetKeepsInv, SaveKeepsInv, LockAccountKeepsInv, ConfirmTransferKeepsInv, AbortKeepsInv
  <2> QED  BY <1>1, <2>1, <2>2, <2>3, <2>4, <2>5, <2>6 DEF TreasuryNext
<1>2. CASE \E v \in Vouchers : CreateVoucher(v) \/ UpdateVoucher(v) \/ RemoveVoucher(v) \/ ReverseVoucher(v)
  BY <1>2, DraftVoucherKeepsInv, ReverseVoucherKeepsInv
<1>3. ASSUME NEW c \in Handlers,
             \/ \E v \in Vouchers : StartPostVoucher(c, v)
             \/ LockInvoice(c) \/ PostVoucher(c) \/ AbortVoucher(c)
      PROVE  IInv'
  BY <1>3, StartPostVoucherKeepsInv, LockInvoiceKeepsInv, PostVoucherKeepsInv, AbortKeepsInv
<1>4. CASE \E i \in Invoices : CancelInvoice(i) \/ ReviseInvoice(i)
  BY <1>4, CancelInvoiceKeepsInv, ReviseInvoiceKeepsInv
<1>5. CASE UNCHANGED vars
  <2>1. UNCHANGED <<stored, locks, pc, job, raced, started, voucher, invoice, invoiceLock>>
    BY <1>5 DEF vars, treasuryVars, voucherVars
  <2>2. Stored'
    BY <2>1 DEF IInv, Stored, stored
  <2>3. Journal'
    BY <2>1 DEF IInv, Journal, OfTransfer, OfVoucher, EntryFollows, stored
  <2> QED  BY <2>1, <2>2, <2>3, AtOnceKeepsInv DEF AtOnce, stored
<1> QED  BY <1>1, <1>2, <1>3, <1>4, <1>5 DEF Next

(* In every behaviour, every handler that posts a document holds it, the   *)
(* document is the draft it has read, and the entries say what the         *)
(* documents say (treasury-transfers.service.ts,                           *)
(* receipt-vouchers.service.ts).                                           *)
THEOREM CashInvariant == Spec => []IInv
BY InvInit, InvNext, PTL DEF Spec

(* Every variable keeps its type, and a lock is held only by a handler at  *)
(* a place where it has it: no transaction leaves one behind.              *)
THEOREM CashTypeCorrect == Spec => []TypeOK
<1>1. IInv => TypeOK
  <2> SUFFICES ASSUME IInv PROVE TypeOK
    OBVIOUS
  <2>1. ASSUME NEW d \in Documents, docLock[d] # NoOne
        PROVE  job[docLock[d]].op \in {"transfer", "voucher"}
    <3>3. AtPlace /\ Locks /\ docLock[d] \in Owner
      BY DEF IInv, Control
    <3>1. docLock[d] \in Handlers /\ pc[docLock[d]] \in AtTransfer \cup AtVoucher
      BY <2>1, <3>3 DEF Locks, Owner
    <3>2. job[docLock[d]] \in TransferJob \/ job[docLock[d]] \in VoucherJob
      BY <3>1, <3>3 DEF AtPlace
    <3> QED  BY <3>2 DEF TransferJob, VoucherJob
  <2>2. TreasuryTypeOK
    BY <2>1 DEF IInv, Stored, Control, Locks, TreasuryTypeOK, AtTransfer
  <2> QED  BY <2>2 DEF IInv, Stored, Control, Locks, TypeOK, AtVoucher
<1> QED  BY CashInvariant, <1>1, PTL

(* Whatever happens to transfers and vouchers while others post, cancel,   *)
(* edit or reverse them, the journal has of each what the document says.   *)
THEOREM EntriesAlwaysFollow == Spec => []EntriesFollowDocuments
<1>1. IInv => EntriesFollowDocuments
  BY DEF IInv, Journal, OfTransfer, OfVoucher, EntriesFollowDocuments
<1> QED  BY CashInvariant, <1>1, PTL

-----------------------------------------------------------------------------
(* Allocations: who is about to post holds the invoices, and what he will  *)
(* take of them is still there.                                            *)

Ready(c, v) ==
    \A i \in Targets(job[c].body) :
        /\ invoiceLock[i] = c
        /\ job[c].body.allocated[i] + Allocated(i, Vouchers \ {v}) <= invoice[i].total

Invoiced ==
    \A c \in Handlers, v \in Vouchers : pc[c] = "post" /\ job[c].doc = v => Ready(c, v)

(* What AllocatedWithinInvoice says of a step.                             *)
GrowsWithin ==
    \A i \in Invoices :
        Allocated(i, Vouchers)' > Allocated(i, Vouchers)
        => Allocated(i, Vouchers)' <= invoice'[i].total

LEMMA ConsumedType ==
    ASSUME IInv, NEW i \in Invoices
    PROVE  /\ invoice[i].total \in Nat /\ IsFiniteSet(Vouchers)
           /\ \A v \in Vouchers : voucher[v].body.allocated[i] \in Nat /\ Consumed(i)[v] \in Nat
<1>1. ASSUME NEW v \in Vouchers PROVE voucher[v].body \in Body
  BY VoucherAssumption DEF IInv, Stored
<1>2. ASSUME NEW v \in Vouchers PROVE voucher[v].body.allocated[i] \in Nat
  BY <1>1 DEF Body
<1>3. invoice[i].total \in Nat
  BY DEF IInv, Stored
<1> QED  BY <1>2, <1>3, VoucherAssumption DEF Consumed

LEMMA AllocatedType ==
    ASSUME IInv, NEW i \in Invoices, NEW S \in SUBSET Vouchers
    PROVE  Allocated(i, S) \in Int /\ IsFiniteSet(S)
<1>1. IsFiniteSet(S) /\ \A v \in S : Consumed(i)[v] \in Int
  BY ConsumedType, FS_Subset
<1> QED  BY <1>1, SumType DEF Allocated

(* The same of the next state.                                             *)
LEMMA ChargedTypeNext ==
    ASSUME IInv', NEW i \in Invoices, NEW S \in SUBSET Vouchers
    PROVE  /\ \A v \in Vouchers : Consumed(i)'[v] \in Nat
           /\ Allocated(i, S)' \in Int
<1>1. ASSUME NEW v \in Vouchers PROVE Consumed(i)'[v] \in Nat
  <2>1. voucher'[v].body \in Body
    BY VoucherAssumption DEF IInv, Stored
  <2>2. voucher'[v].body.allocated[i] \in Nat
    BY <2>1 DEF Body
  <2> QED  BY <2>2 DEF Consumed
<1> DEFINE f == Consumed(i)'
<1>2. IsFiniteSet(S) /\ \A v \in S : f[v] \in Int
  BY <1>1, VoucherAssumption, FS_Subset
<1>3. SumFunctionOnSet(f, S) \in Int
  <2> HIDE DEF f
  <2> QED  BY <1>2, SumType
<1> QED  BY <1>1, <1>3 DEF Allocated

(* What an invoice has been charged is the same if each voucher's charge is.*)
LEMMA AllocatedSame ==
    ASSUME IInv, NEW i \in Invoices, NEW S \in SUBSET Vouchers,
           \A v \in S : Consumed(i)'[v] = Consumed(i)[v]
    PROVE  Allocated(i, S)' = Allocated(i, S)
<1>1. IsFiniteSet(S)
  BY AllocatedType
<1> DEFINE f == Consumed(i)'
           g == Consumed(i)
<1>2. \A v \in S : f[v] = g[v]
  OBVIOUS
<1>3. SumFunctionOnSet(f, S) = SumFunctionOnSet(g, S)
  <2> HIDE DEF f, g
  <2> QED  BY <1>1, <1>2, SumSame
<1> QED  BY <1>3 DEF Allocated

LEMMA ConsumedSame ==
    ASSUME NEW v \in Vouchers, NEW i \in Invoices,
           \/ voucher'[v] = voucher[v]
           \/ voucher[v].status # "POSTED" /\ voucher'[v].status # "POSTED"
    PROVE  Consumed(i)'[v] = Consumed(i)[v]
BY DEF Consumed

(* A step that changes no charge keeps the allocations in order, if whoever*)
(* is about to post was so before or has looked at this moment.            *)
LEMMA ChargesKept ==
    ASSUME IInv, IInv', Invoiced,
           \A v \in Vouchers : \/ voucher'[v] = voucher[v]
                               \/ voucher[v].status # "POSTED" /\ voucher'[v].status # "POSTED",
           \A c \in Handlers, v \in Vouchers : pc'[c] = "post" /\ job'[c].doc = v =>
               \/ Ready(c, v)'
               \/ /\ pc[c] = "post" /\ job'[c] = job[c]
                  /\ \A i \in Invoices : invoiceLock[i] = c =>
                       invoiceLock'[i] = c /\ invoice'[i].total = invoice[i].total
    PROVE  Invoiced' /\ GrowsWithin
<1>1. ASSUME NEW i \in Invoices, NEW S \in SUBSET Vouchers
      PROVE  Allocated(i, S)' = Allocated(i, S)
  BY ConsumedSame, AllocatedSame
<1>2. GrowsWithin
  <2> SUFFICES ASSUME NEW i \in Invoices,
                      Allocated(i, Vouchers)' > Allocated(i, Vouchers)
               PROVE  FALSE
    BY DEF GrowsWithin
  <2>1. Allocated(i, Vouchers)' = Allocated(i, Vouchers) /\ Allocated(i, Vouchers) \in Int
    BY <1>1, AllocatedType
  <2> QED  BY <2>1
<1>3. ASSUME NEW c \in Handlers, NEW v \in Vouchers, pc'[c] = "post", job'[c].doc = v
      PROVE  Ready(c, v)'
  <2>1. CASE /\ pc[c] = "post" /\ job'[c] = job[c]
             /\ \A i \in Invoices : invoiceLock[i] = c =>
                  invoiceLock'[i] = c /\ invoice'[i].total = invoice[i].total
    <3>1. Ready(c, v)
      BY <1>3, <2>1 DEF Invoiced
    <3>2. \A i \in Targets(job[c].body) : i \in Invoices
      BY DEF Targets
    <3>3. Targets(job[c].body)' = Targets(job[c].body)
      BY <2>1 DEF Targets
    <3>4. ASSUME NEW i \in Targets(job[c].body)
          PROVE  /\ invoiceLock'[i] = c
                 /\ job[c].body.allocated[i] + Allocated(i, Vouchers \ {v})' <= invoice'[i].total
      <4>1. Vouchers \ {v} \in SUBSET Vouchers
        OBVIOUS
      <4>2. Allocated(i, Vouchers \ {v})' = Allocated(i, Vouchers \ {v})
        BY <1>1, <3>2, <4>1
      <4> QED  BY <2>1, <3>1, <3>2, <4>2 DEF Ready
    <3> QED  BY <2>1, <3>3, <3>4 DEF Ready
  <2> QED  BY <1>3, <2>1
<1> QED  BY <1>2, <1>3 DEF Invoiced

(* No step of a treasury, a transfer or the journal makes anybody about to *)
(* post a voucher.                                                         *)
LEMMA TreasuryPostsNoVoucher ==
    ASSUME IInv, TreasuryNext, NEW c \in Handlers, pc'[c] = "post"
    PROVE  pc[c] = "post" /\ job'[c] = job[c]
<1>1. ASSUME NEW d \in Handlers, NEW t \in Treasuries,
             CreateTreasury(d, t) \/ UpdateTreasury(d, t) \/ SetActive(d, t)
      PROVE  pc[c] = "post" /\ job'[c] = job[c]
  <2>1. PICK b \in Branches, where \in AtTreasury, columns \in SUBSET Columns, after \in ATreasury :
          Begin(d, b, where, Request(t, columns, after))
    BY <1>1, BeginOfRequest
  <2> QED  BY <2>1 DEF Begin, Start, IInv, Control, AtTreasury
<1>2. ASSUME NEW d \in Handlers, NEW x \in Transfers, StartConfirmTransfer(d, x)
      PROVE  pc[c] = "post" /\ job'[c] = job[c]
  BY <1>2 DEF StartConfirmTransfer, Start, IInv, Control
<1>3. ASSUME NEW d \in Handlers,
             Unset(d) \/ SaveTreasury(d) \/ LockAccount(d) \/ ConfirmTransfer(d) \/ Abort(d)
      PROVE  pc[c] = "post" /\ job'[c] = job[c]
  BY <1>3 DEF Unset, SaveTreasury, LockAccount, ConfirmTransfer, Abort, Rollback, End, Goto, IInv, Control
<1>4. CASE \/ \E d \in Documents : ReverseInJournal(d)
           \/ \E t \in Treasuries : PostOpening(t) \/ ReverseOpening(t)
           \/ \E x \in Transfers : CreateTransfer(x) \/ UpdateTransfer(x) \/ CancelTransfer(x)
  BY <1>4 DEF ReverseInJournal, PostOpening, ReverseOpening, CreateTransfer, UpdateTransfer,
     CancelTransfer, AtOnce
<1> QED  BY <1>1, <1>2, <1>3, <1>4 DEF TreasuryNext

(* Who takes the last invoice has looked at all of them under their locks. *)
LEMMA LockInvoiceIsReady ==
    ASSUME IInv, IInv', NEW c \in Handlers, LockInvoice(c), pc'[c] = "post"
    PROVE  \A v \in Vouchers : job[c].doc = v => Ready(c, v)'
<1> SUFFICES ASSUME NEW v \in Vouchers, job[c].doc = v PROVE Ready(c, v)'
  OBVIOUS
<1> DEFINE open == {i \in Targets(job[c].body) : invoiceLock[i] # c}
<1>1. /\ Cardinality(open) = 1
      /\ invoiceLock' = [invoiceLock EXCEPT ![Min(open)] = c]
      /\ Fits(v, job[c].body)
      /\ job' = job /\ voucher' = voucher /\ invoice' = invoice
  BY DEF LockInvoice, Goto, IInv, Control
<1>2. PICK m : open = {m}
  <2>1. IsFiniteSet(Targets(job[c].body)) /\ open \subseteq Targets(job[c].body)
    BY VoucherAssumption, FS_Subset DEF Targets
  <2>2. IsFiniteSet(open)
    BY <2>1, FS_Subset
  <2> QED  BY <1>1, <2>2, FS_Singleton
<1>3. Min(open) = m
  <2>1. m \in Nat
    BY <1>2, VoucherAssumption DEF Targets
  <2> HIDE DEF open
  <2> QED  BY <1>2, <2>1 DEF Min
<1>4. ASSUME NEW i \in Targets(job[c].body) PROVE invoiceLock'[i] = c
  <2>1. i \in Invoices /\ m \in Invoices /\ invoiceLock \in [Invoices -> Owner]
    BY <1>2 DEF Targets, IInv, Control
  <2>2. i = m \/ invoiceLock[i] = c
    BY <1>2
  <2> HIDE DEF open
  <2> QED  BY <1>1, <1>3, <2>1, <2>2
<1>5. ASSUME NEW i \in Targets(job[c].body)
      PROVE  job[c].body.allocated[i] + Allocated(i, Vouchers \ {v})' <= invoice'[i].total
  <2>1. i \in Invoices
    BY DEF Targets
  <2>2. Allocated(i, Vouchers \ {v})' = Allocated(i, Vouchers \ {v})
    BY <1>1, <2>1, ConsumedSame, AllocatedSame
  <2>3. job[c].body.allocated[i] <= invoice[i].total - Allocated(i, Vouchers \ {v})
    BY <1>1 DEF Fits
  <2>4. job[c].body.allocated[i] \in Nat
    <3>1. job[c].body \in Body
      BY VoucherAssumption DEF LockInvoice, IInv, Control, AtPlace, AtVoucher, VoucherJob
    <3> QED  BY <2>1, <3>1 DEF Body
  <2>5. invoice[i].total \in Nat /\ Allocated(i, Vouchers \ {v}) \in Int
    BY <2>1, ConsumedType, AllocatedType
  <2> QED  BY <1>1, <2>2, <2>3, <2>4, <2>5
<1>6. Targets(job[c].body)' = Targets(job[c].body)
  BY <1>1 DEF Targets
<1> QED  BY <1>1, <1>4, <1>5, <1>6 DEF Ready

(* The charge of a posted voucher is within what it found, and the other   *)
(* handlers hold other invoices.                                           *)
LEMMA PostVoucherKeepsInvoiced ==
    ASSUME IInv, IInv', Invoiced, NEW c \in Handlers, PostVoucher(c)
    PROVE  Invoiced' /\ GrowsWithin
<1>1. PICK v \in Vouchers : v = job[c].doc
  BY DEF PostVoucher, IInv, Control, AtPlace, AtVoucher, VoucherJob
<1>2. /\ pc[c] = "post" /\ docLock[v] = c
      /\ voucher[v] = [status |-> "DRAFT", body |-> job[c].body]
  BY <1>1 DEF PostVoucher, IInv, Control, Locks, HeldDocuments, AtVoucher
<1>3. Ready(c, v)
  BY <1>1, <1>2 DEF Invoiced
<1>4. voucher'[v] = [status |-> "POSTED", body |-> job[c].body]
  BY <1>1, <1>2 DEF PostVoucher, IInv, Stored
<1>5. \A w \in Vouchers \ {v} : voucher'[w] = voucher[w]
  BY <1>1 DEF PostVoucher, IInv, Stored
<1>6. ASSUME NEW i \in Invoices, NEW w \in Vouchers \ {v}
      PROVE  Consumed(i)'[w] = Consumed(i)[w]
  BY <1>5, <1>6, ConsumedSame
<1>7. ASSUME NEW i \in Invoices
      PROVE  Consumed(i)[v] = 0 /\ Consumed(i)'[v] = job[c].body.allocated[i]
  BY <1>2, <1>4 DEF Consumed
<1>8. ASSUME NEW i \in Invoices \ Targets(job[c].body), NEW w \in Vouchers
      PROVE  Consumed(i)'[w] = Consumed(i)[w]
  <2>1. job[c].body.allocated[i] \in Nat
    BY <1>2, ConsumedType
  <2>2. job[c].body.allocated[i] = 0
    BY <2>1 DEF Targets
  <2> QED  BY <1>6, <1>7, <2>2
<1>0. invoice' = invoice
  BY DEF PostVoucher
<1>9. ASSUME NEW i \in Invoices, Allocated(i, Vouchers)' > Allocated(i, Vouchers)
      PROVE  Allocated(i, Vouchers)' <= invoice'[i].total
  <2>1. CASE i \in Targets(job[c].body)
    <3> DEFINE S == Vouchers \ {v}
               f == Consumed(i)'
    <3>1. job[c].body.allocated[i] + Allocated(i, S) <= invoice[i].total
      BY <1>3, <2>1 DEF Ready
    <3>2. IsFiniteSet(Vouchers) /\ \A w \in Vouchers : f[w] \in Int
      BY ConsumedType, ChargedTypeNext
    <3>3. SumFunctionOnSet(f, Vouchers) = f[v] + SumFunctionOnSet(f, S)
      <4> HIDE DEF f
      <4> QED  BY <3>2, SumRemove
    <3>4. Allocated(i, S)' = Allocated(i, S)
      BY <1>6, AllocatedSame
    <3>5. f[v] = job[c].body.allocated[i]
      BY <1>7
    <3>6. /\ Allocated(i, Vouchers)' = SumFunctionOnSet(f, Vouchers)
          /\ Allocated(i, S)' = SumFunctionOnSet(f, S)
      BY DEF Allocated
    <3> HIDE DEF f, S
    <3> QED  BY <1>0, <3>1, <3>3, <3>4, <3>5, <3>6
  <2>2. CASE i \notin Targets(job[c].body)
    <3>1. Allocated(i, Vouchers)' = Allocated(i, Vouchers) /\ Allocated(i, Vouchers) \in Int
      BY <1>8, <2>2, AllocatedSame, AllocatedType
    <3> QED  BY <1>9, <3>1
  <2> QED  BY <2>1, <2>2
<1>10. ASSUME NEW d \in Handlers, NEW w \in Vouchers, pc'[d] = "post", job'[d].doc = w
       PROVE  Ready(d, w)'
  <2>1. d # c /\ pc[d] = "post" /\ job'[d] = job[d] /\ d # NoOne
    BY <1>10, Apart DEF PostVoucher, End, IInv, Control
  <2>2. Ready(d, w)
    BY <1>10, <2>1 DEF Invoiced
  <2>3. Targets(job[d].body)' = Targets(job[d].body)
    BY <2>1 DEF Targets
  <2>4. ASSUME NEW i \in Targets(job[d].body)
        PROVE  /\ invoiceLock'[i] = d
               /\ job[d].body.allocated[i] + Allocated(i, Vouchers \ {w})' <= invoice'[i].total
    <3>1. i \in Invoices /\ invoiceLock[i] = d
      BY <2>2 DEF Targets, Ready
    <3>2. i \notin Targets(job[c].body)
      BY <1>3, <2>1, <3>1 DEF Ready
    <3>3. Vouchers \ {w} \in SUBSET Vouchers
      OBVIOUS
    <3>4. Allocated(i, Vouchers \ {w})' = Allocated(i, Vouchers \ {w})
      BY <1>8, <3>1, <3>2, <3>3, AllocatedSame
    <3>5. invoiceLock'[i] = d
      BY <2>1, <3>1 DEF PostVoucher, Released, IInv, Control
    <3> QED  BY <1>0, <2>2, <3>4, <3>5 DEF Ready
  <2> QED  BY <2>1, <2>3, <2>4 DEF Ready
<1> QED  BY <1>9, <1>10 DEF Invoiced, GrowsWithin

(* A reversal gives its charges back.                                      *)
LEMMA ReverseVoucherKeepsInvoiced ==
    ASSUME IInv, IInv', Invoiced, NEW v \in Vouchers, ReverseVoucher(v)
    PROVE  Invoiced' /\ GrowsWithin
<1>1. /\ voucher[v].status = "POSTED" /\ voucher'[v].status = "REVERSED"
      /\ \A w \in Vouchers \ {v} : voucher'[w] = voucher[w]
      /\ UNCHANGED <<pc, job, invoice, invoiceLock>>
  BY DEF ReverseVoucher, IInv, Stored, AtOnce
<1>2. ASSUME NEW i \in Invoices, NEW S \in SUBSET Vouchers, v \in S
      PROVE  Allocated(i, S)' <= Allocated(i, S)
  <2> DEFINE f == Consumed(i)
             g == Consumed(i)'
  <2>1. IsFiniteSet(S) /\ \A w \in S : f[w] \in Nat /\ g[w] \in Nat
    BY AllocatedType, ConsumedType, ChargedTypeNext
  <2>2. \A w \in S \ {v} : g[w] = f[w]
    BY <1>1, ConsumedSame
  <2>3. g[v] = 0 /\ f[v] \in Nat
    BY <1>1, <1>2, <2>1 DEF Consumed
  <2>4. Allocated(i, S) = SumFunctionOnSet(f, S) /\ Allocated(i, S)' = SumFunctionOnSet(g, S)
    BY DEF Allocated
  <2>5. Allocated(i, S) \in Int
    BY AllocatedType
  <2> HIDE DEF f, g
  <2>6. SumFunctionOnSet(g, S) = SumFunctionOnSet(f, S) - f[v] + g[v]
    <3>1. \A y \in S : f[y] \in Int /\ g[y] \in Int
      BY <2>1
    <3> QED  BY <1>2, <2>1, <2>2, <3>1, SumChange
  <2> QED  BY <2>3, <2>4, <2>5, <2>6
<1>3. GrowsWithin
  <2> SUFFICES ASSUME NEW i \in Invoices,
                      Allocated(i, Vouchers)' > Allocated(i, Vouchers)
               PROVE  FALSE
    BY DEF GrowsWithin
  <2>1. Allocated(i, Vouchers)' <= Allocated(i, Vouchers)
    BY <1>2
  <2>2. Allocated(i, Vouchers) \in Int /\ Allocated(i, Vouchers)' \in Int
    BY AllocatedType, ChargedTypeNext
  <2> QED  BY <2>1, <2>2
<1>4. ASSUME NEW c \in Handlers, NEW w \in Vouchers, pc'[c] = "post", job'[c].doc = w
      PROVE  Ready(c, w)'
  <2>1. pc[c] = "post" /\ job'[c] = job[c] /\ w = job[c].doc
    BY <1>1, <1>4
  <2>2. voucher[w].status = "DRAFT" /\ voucher[w].body = job[c].body
    <3>1. c \in Handlers /\ pc[c] \in AtVoucher
      BY <2>1 DEF AtVoucher
    <3>2. voucher[job[c].doc] = [status |-> "DRAFT", body |-> job[c].body]
      BY <3>1 DEF IInv, HeldDocuments
    <3>3. voucher[w] = [status |-> "DRAFT", body |-> job[c].body]
      BY <2>1, <3>2
    <3> QED  BY <3>3
  <2>3. v \in Vouchers \ {w} /\ Vouchers \ {w} \in SUBSET Vouchers
    BY <1>1, <2>2
  <2>4. Ready(c, w)
    BY <2>1 DEF Invoiced
  <2>5. Targets(job[c].body)' = Targets(job[c].body)
    BY <2>1 DEF Targets
  <2>6. ASSUME NEW i \in Targets(job[c].body)
        PROVE  job[c].body.allocated[i] + Allocated(i, Vouchers \ {w})' <= invoice'[i].total
    <3>1. i \in Invoices
      BY DEF Targets
    <3>2. Allocated(i, Vouchers \ {w})' <= Allocated(i, Vouchers \ {w})
      BY <1>2, <2>3, <3>1
    <3>3. Allocated(i, Vouchers \ {w})' \in Int /\ Allocated(i, Vouchers \ {w}) \in Int
      BY <2>3, <3>1, AllocatedType, ChargedTypeNext
    <3>4. job[c].body.allocated[i] \in Int /\ invoice[i].total \in Int
      BY <2>2, <3>1, ConsumedType
    <3>5. job[c].body.allocated[i] + Allocated(i, Vouchers \ {w}) <= invoice[i].total
      BY <2>4 DEF Ready
    <3> QED  BY <1>1, <3>2, <3>3, <3>4, <3>5
  <2> QED  BY <1>1, <2>1, <2>4, <2>5, <2>6 DEF Ready
<1> QED  BY <1>3, <1>4 DEF Invoiced

LEMMA InvoicedInit == Init => Invoiced
BY DEF Init, TreasuryInit, Invoiced

LEMMA InvoicedNext == IInv /\ IInv' /\ Invoiced /\ [Next]_vars => Invoiced' /\ GrowsWithin
<1> SUFFICES ASSUME IInv, IInv', Invoiced, [Next]_vars PROVE Invoiced' /\ GrowsWithin
  OBVIOUS
<1>1. CASE TreasuryNext /\ UNCHANGED voucherVars
  <2>1. UNCHANGED <<voucher, invoice, invoiceLock>>
    BY <1>1 DEF voucherVars
  <2> QED  BY <1>1, <2>1, TreasuryPostsNoVoucher, ChargesKept
<1>2. CASE UNCHANGED vars
  <2>1. UNCHANGED <<voucher, invoice, invoiceLock, pc, job>>
    BY <1>2 DEF vars, voucherVars, treasuryVars
  <2> QED  BY <2>1, ChargesKept
<1>3. ASSUME NEW v \in Vouchers, CreateVoucher(v) \/ UpdateVoucher(v) \/ RemoveVoucher(v)
      PROVE  Invoiced' /\ GrowsWithin
  <2>1. UNCHANGED <<pc, job, invoice, invoiceLock>>
    BY <1>3 DEF CreateVoucher, UpdateVoucher, RemoveVoucher, AtOnce
  <2>2. \A w \in Vouchers : \/ voucher'[w] = voucher[w]
                            \/ voucher[w].status # "POSTED" /\ voucher'[w].status # "POSTED"
    BY <1>3 DEF CreateVoucher, UpdateVoucher, RemoveVoucher, NoVoucher, IInv, Stored
  <2> QED  BY <2>1, <2>2, ChargesKept
<1>4. ASSUME NEW v \in Vouchers, ReverseVoucher(v) PROVE Invoiced' /\ GrowsWithin
  BY <1>4, ReverseVoucherKeepsInvoiced
<1>5. ASSUME NEW c \in Handlers, NEW v \in Vouchers, StartPostVoucher(c, v) PROVE Invoiced' /\ GrowsWithin
  <2>1. UNCHANGED <<voucher, invoice, invoiceLock>> /\ \A d \in Handlers \ {c} : pc'[d] = pc[d] /\ job'[d] = job[d]
    BY <1>5 DEF StartPostVoucher, Start, voucherVars, IInv, Control
  <2>2. ASSUME pc'[c] = "post", NEW w \in Vouchers PROVE Ready(c, w)'
    <3>1. Targets(voucher[v].body) = {} /\ job'[c].body = voucher[v].body
      BY <1>5, <2>2 DEF StartPostVoucher, Start, IInv, Control
    <3>2. Targets(job[c].body)' = {}
      BY <3>1 DEF Targets
    <3> QED  BY <3>2 DEF Ready
  <2> QED  BY <2>1, <2>2, ChargesKept
<1>6. ASSUME NEW c \in Handlers, LockInvoice(c) PROVE Invoiced' /\ GrowsWithin
  <2>1. UNCHANGED <<voucher, invoice, job>> /\ \A d \in Handlers \ {c} : pc'[d] = pc[d]
    BY <1>6 DEF LockInvoice, Goto, IInv, Control
  <2>2. \A v \in Vouchers : pc'[c] = "post" /\ job'[c].doc = v => Ready(c, v)'
    BY <1>6, <2>1, LockInvoiceIsReady
  <2>3. ASSUME NEW d \in Handlers \ {c}, NEW i \in Invoices, invoiceLock[i] = d
        PROVE  invoiceLock'[i] = d
    <3>1. d # NoOne
      BY Apart
    <3> QED  BY <1>6, <2>3, <3>1 DEF LockInvoice, InvoiceFree, IInv, Control
  <2> QED  BY <2>1, <2>2, <2>3, ChargesKept
<1>7. ASSUME NEW c \in Handlers, PostVoucher(c) PROVE Invoiced' /\ GrowsWithin
  BY <1>7, PostVoucherKeepsInvoiced
<1>8. ASSUME NEW c \in Handlers, AbortVoucher(c) PROVE Invoiced' /\ GrowsWithin
  <2>1. /\ UNCHANGED <<voucher, invoice>> /\ pc'[c] = "idle"
        /\ \A d \in Handlers \ {c} : pc'[d] = pc[d] /\ job'[d] = job[d]
    BY <1>8 DEF AbortVoucher, Rollback, End, IInv, Control
  <2>2. ASSUME NEW d \in Handlers \ {c}, NEW i \in Invoices, invoiceLock[i] = d
        PROVE  invoiceLock'[i] = d
    BY <1>8, <2>2 DEF AbortVoucher, Released, IInv, Control
  <2> QED  BY <2>1, <2>2, ChargesKept
<1>9. ASSUME NEW i \in Invoices, CancelInvoice(i) PROVE Invoiced' /\ GrowsWithin
  <2>1. /\ UNCHANGED <<voucher, invoiceLock, pc, job>>
        /\ \A j \in Invoices : invoice'[j].total = invoice[j].total
    BY <1>9 DEF CancelInvoice, AtOnce, IInv, Stored
  <2> QED  BY <2>1, ChargesKept
<1>10. ASSUME NEW i \in Invoices, ReviseInvoice(i) PROVE Invoiced' /\ GrowsWithin
  <2>1. UNCHANGED <<voucher, invoiceLock, pc, job>>
    BY <1>10 DEF ReviseInvoice
  <2>2. ASSUME NEW c \in Handlers, NEW j \in Invoices, invoiceLock[j] = c
        PROVE  invoice'[j].total = invoice[j].total
    <3>1. j # i
      BY <1>10, <2>2, Apart DEF ReviseInvoice
    <3> QED  BY <1>10, <3>1 DEF ReviseInvoice, IInv, Stored
  <2> QED  BY <2>1, <2>2, ChargesKept
<1> QED  BY <1>1, <1>2, <1>3, <1>4, <1>5, <1>6, <1>7, <1>8, <1>9, <1>10 DEF Next

(* Whatever is posted, reversed and revised at once, posted vouchers take  *)
(* of an invoice no more than fits the total it has at that moment         *)
(* (receipt-vouchers.service.ts:308).                                      *)
THEOREM AllocationsFit == Spec => AllocatedWithinInvoice
<1>1. IInv /\ Invoiced /\ [Next]_vars => (IInv /\ Invoiced)'
  BY InvNext, InvoicedNext
<1>2. Init => IInv /\ Invoiced
  BY InvInit, InvoicedInit
<1>3. IInv /\ IInv' /\ Invoiced /\ [Next]_vars =>
        [\A i \in Invoices :
           Allocated(i, Vouchers)' > Allocated(i, Vouchers)
           => Allocated(i, Vouchers)' <= invoice'[i].total]_vars
  BY InvoicedNext DEF GrowsWithin
<1> QED  BY <1>1, <1>2, <1>3, PTL DEF Spec, AllocatedWithinInvoice

-----------------------------------------------------------------------------
(* Defaults.  The unique index looks at what is stored; a handler writes   *)
(* what it has planned before.  The invariant says that the plan is still  *)
(* good when the handler is the only one of its branch (Planned).          *)

AtMostOne == \A b \in Branches : \A t, u \in DefaultsOf(b) : t = u

Settled == \A b \in Branches \ raced : TreasuriesOf(b) # {} => DefaultsOf(b) # {}

(* What handler c is about to write still suits its branch.                *)
Planned(c) ==
    LET j == job[c]
    IN  /\ IF "branch" \in j.columns THEN j.columns = Columns /\ j.after.branch = j.branch
                                     ELSE treasury[j.treasury].branch = j.branch
        /\ \A d \in j.unset : treasury[d].branch = j.branch
        /\ pc[c] # "save" \/ j.unset # {} => "isDefault" \in j.columns /\ j.after.isDefault
        /\ j.branch \notin raced /\ "isDefault" \in j.columns /\ ~j.after.isDefault =>
             IF "branch" \in j.columns THEN TreasuriesOf(j.branch) # {}
                                       ELSE ~treasury[j.treasury].isDefault

(* Two handlers of one branch are a race.                                  *)
Alone ==
    \A c, d \in Handlers :
        /\ pc[c] \in AtTreasury /\ pc[d] \in AtTreasury /\ c # d
        /\ job[c].branch = job[d].branch
        => job[c].branch \in raced

DefaultInv ==
    /\ AtMostOne
    /\ Settled
    /\ \A c \in Handlers : pc[c] \in AtTreasury => Planned(c)
    /\ Alone

-----------------------------------------------------------------------------

LEMMA DefaultInit == Init => DefaultInv
<1> SUFFICES ASSUME Init PROVE DefaultInv
  OBVIOUS
<1>1. \A c \in Handlers : pc[c] = "idle"
  BY DEF Init, TreasuryInit
<1> DEFINE ofBranch(b) == CHOOSE u \in Treasuries : First[u] = b
<1>2. ASSUME NEW t \in Treasuries
      PROVE  /\ treasury[t].branch = First[t]
             /\ treasury[t].isDefault <=> First[t] # Nowhere /\ t = ofBranch(First[t])
  BY DEF Init, TreasuryInit
<1>3. AtMostOne
  <2> SUFFICES ASSUME NEW b \in Branches, NEW t \in DefaultsOf(b), NEW u \in DefaultsOf(b)
               PROVE  t = u
    BY DEF AtMostOne
  <2>1. t \in Treasuries /\ u \in Treasuries /\ First[t] = b /\ First[u] = b
    BY <1>2 DEF DefaultsOf, TreasuriesOf
  <2>2. t = ofBranch(b) /\ u = ofBranch(b)
    BY <1>2, <2>1 DEF DefaultsOf
  <2> QED  BY <2>2
<1>4. Settled
  <2> SUFFICES ASSUME NEW b \in Branches, NEW u \in TreasuriesOf(b)
               PROVE  DefaultsOf(b) # {}
    BY DEF Settled
  <2>1. u \in Treasuries /\ First[u] = b
    BY <1>2 DEF TreasuriesOf
  <2>2. ofBranch(b) \in Treasuries /\ First[ofBranch(b)] = b
    BY <2>1
  <2>3. b # Nowhere
    BY TreasuryAssumption
  <2>4. treasury[ofBranch(b)].branch = b /\ treasury[ofBranch(b)].isDefault
    <3> HIDE DEF ofBranch
    <3> QED  BY <1>2, <2>2, <2>3
  <2> QED  BY <2>2, <2>4 DEF DefaultsOf, TreasuriesOf
<1> QED  BY <1>1, <1>3, <1>4 DEF DefaultInv, Alone, AtTreasury

(* Whoever does not touch the treasuries does not disturb the plans.       *)
LEMMA ElsewhereKeepsDefaults ==
    ASSUME DefaultInv, UNCHANGED <<treasury, raced>>,
           \A c \in Handlers : pc'[c] \in AtTreasury => pc'[c] = pc[c] /\ job'[c] = job[c]
    PROVE  DefaultInv'
<1>1. AtMostOne' /\ Settled'
  BY DEF DefaultInv, AtMostOne, Settled, DefaultsOf, TreasuriesOf
<1>2. ASSUME NEW c \in Handlers, pc'[c] \in AtTreasury PROVE Planned(c)'
  BY <1>2 DEF DefaultInv, Planned, TreasuriesOf
<1>3. Alone'
  BY DEF DefaultInv, Alone
<1> QED  BY <1>1, <1>2, <1>3 DEF DefaultInv

LEMMA BeginKeepsDefaults ==
    ASSUME IInv, DefaultInv, NEW c \in Handlers, NEW b \in Branches, NEW where \in AtTreasury,
           NEW t \in Treasuries, NEW columns \in SUBSET Columns, NEW after \in ATreasury,
           Begin(c, b, where, Request(t, columns, after)), Plan(b, where, t, columns, after)
    PROVE  DefaultInv'
<1> DEFINE new == [op |-> "treasury", treasury |-> t, branch |-> b, columns |-> columns,
                   after |-> after, unset |-> {}, seen |-> {}]
<1>1. pc' = [pc EXCEPT ![c] = where] /\ UNCHANGED treasury
  BY DEF Begin, Start, stored
<1>2. job' = [job EXCEPT ![c] = new]
  <2>1. [Request(t, columns, after) EXCEPT !.branch = b] = new
    BY DEF Request
  <2>2. job' = [job EXCEPT ![c] = [Request(t, columns, after) EXCEPT !.branch = b]]
    BY DEF Begin, Start
  <2> QED  BY <2>1, <2>2
<1>3. /\ new.treasury = t /\ new.branch = b /\ new.columns = columns
      /\ new.after = after /\ new.unset = {}
  OBVIOUS
<1> HIDE DEF new
<1>4. /\ pc'[c] = where /\ job'[c] = new
      /\ \A d \in Handlers \ {c} : pc'[d] = pc[d] /\ job'[d] = job[d]
  BY <1>1, <1>2 DEF IInv, Control
<1>5. /\ raced \subseteq raced'
      /\ \A d \in Handlers : pc[d] \in AtTreasury /\ job[d].branch = b => b \in raced'
  BY DEF Begin, AtTreasury
<1>6. AtMostOne' /\ Settled'
  BY <1>1, <1>5 DEF DefaultInv, AtMostOne, Settled, DefaultsOf, TreasuriesOf
<1>7. ASSUME NEW d \in Handlers, pc'[d] \in AtTreasury PROVE Planned(d)'
  <2>1. CASE d = c
    <3>1. TreasuriesOf(b)' = TreasuriesOf(b)
      BY <1>1 DEF TreasuriesOf
    <3> QED  BY <1>1, <1>3, <1>4, <2>1, <3>1 DEF Planned, Plan
  <2>2. CASE d # c
    <3>1. Planned(d) /\ pc'[d] = pc[d] /\ job'[d] = job[d]
      BY <1>4, <1>7, <2>2 DEF DefaultInv
    <3>2. TreasuriesOf(job[d].branch)' = TreasuriesOf(job'[d].branch)
      BY <1>1, <3>1 DEF TreasuriesOf
    <3> QED  BY <1>1, <1>5, <3>1, <3>2 DEF Planned, TreasuriesOf
  <2> QED  BY <2>1, <2>2
<1>8. Alone'
  BY <1>3, <1>4, <1>5 DEF DefaultInv, Alone
<1> QED  BY <1>6, <1>7, <1>8 DEF DefaultInv

LEMMA UnsetKeepsDefaults ==
    ASSUME IInv, DefaultInv, NEW c \in Handlers, Unset(c)
    PROVE  DefaultInv'
<1> DEFINE b    == job[c].branch
           now  == DefaultsOf(b)
           it   == IF pc[c] = "unset" THEN now ELSE job[c].seen \cap now
           held == [job[c] EXCEPT !.unset = it]
           wait == [job[c] EXCEPT !.seen = now]
<1>1. job[c] \in TreasuryJob /\ pc[c] \in {"unset", "wait"} /\ UNCHANGED <<treasury, raced>>
  BY DEF Unset, stored, IInv, Control, AtPlace, AtTreasury
<1>2. PICK new \in {held, wait}, where \in {"save", "wait"} :
        job' = [job EXCEPT ![c] = new] /\ pc' = [pc EXCEPT ![c] = where]
  BY DEF Unset, Goto
<1>3. /\ new.treasury = job[c].treasury /\ new.branch = b /\ new.columns = job[c].columns
      /\ new.after = job[c].after /\ (new.unset = it \/ new.unset = job[c].unset)
  <2> HIDE DEF now, it, b
  <2>1. b = job[c].branch
    BY DEF b
  <2> QED  BY <1>1, <2>1 DEF TreasuryJob
<1>4. \A d \in it : treasury[d].branch = b
  BY DEF DefaultsOf, TreasuriesOf
<1> HIDE DEF now, it, held, wait
<1>5. /\ pc'[c] = where /\ job'[c] = new
      /\ \A d \in Handlers \ {c} : pc'[d] = pc[d] /\ job'[d] = job[d]
  BY <1>2 DEF IInv, Control
<1>6. AtMostOne' /\ Settled'
  BY <1>1 DEF DefaultInv, AtMostOne, Settled, DefaultsOf, TreasuriesOf
<1>7. ASSUME NEW d \in Handlers, pc'[d] \in AtTreasury PROVE Planned(d)'
  <2>1. CASE d = c
    <3>1. Planned(c)
      BY <1>1 DEF DefaultInv, AtTreasury
    <3> QED  BY <1>1, <1>3, <1>4, <1>5, <2>1, <3>1 DEF Planned, TreasuriesOf
  <2>2. CASE d # c
    BY <1>1, <1>5, <1>7, <2>2 DEF DefaultInv, Planned, TreasuriesOf
  <2> QED  BY <2>1, <2>2
<1>8. Alone'
  BY <1>1, <1>3, <1>5 DEF DefaultInv, Alone, AtTreasury
<1> QED  BY <1>6, <1>7, <1>8 DEF DefaultInv

(* What a handler writes, treasury by treasury.                            *)
LEMMA SaveWrites ==
    ASSUME IInv, DefaultInv, NEW c \in Handlers, SaveTreasury(c),
           NEW t, NEW b, NEW cols, NEW after, NEW unset,
           t = job[c].treasury, b = job[c].branch, cols = job[c].columns, after = job[c].after,
           unset = job[c].unset
    PROVE  /\ \A u \in Treasuries \ {t} :
                 /\ treasury'[u].branch = treasury[u].branch
                 /\ treasury'[u].isDefault <=> treasury[u].isDefault /\ u \notin unset
           /\ treasury'[t].branch = b
           /\ "isDefault" \in cols => (treasury'[t].isDefault <=> after.isDefault)
           /\ "isDefault" \notin cols => (treasury'[t].isDefault <=> treasury[t].isDefault)
           /\ "branch" \in cols => "isDefault" \in cols /\ treasury[t].branch = Nowhere
           /\ "branch" \notin cols => treasury[t].branch = b
           /\ "isDefault" \in cols /\ after.isDefault => DefaultsOf(b) \subseteq unset \cup {t}
           /\ ~("isDefault" \in cols /\ after.isDefault) => unset = {}
           /\ \A u \in unset : treasury[u].branch = b
           /\ b \notin raced /\ "isDefault" \in cols /\ ~after.isDefault =>
                IF "branch" \in cols THEN TreasuriesOf(b) # {} ELSE ~treasury[t].isDefault
           /\ t \in Treasuries /\ b \in Branches /\ raced' = raced
<1>1. job[c] \in TreasuryJob /\ pc[c] = "save" /\ Planned(c)
  BY DEF SaveTreasury, IInv, Control, AtPlace, AtTreasury, DefaultInv
<1>2. t \in Treasuries /\ b \in Branches /\ after \in ATreasury /\ raced' = raced
  BY <1>1 DEF TreasuryJob, SaveTreasury, End
<1>3. \A u \in Treasuries : treasury[u] \in ATreasury
  BY DEF IInv, Stored
<1>4. treasury' = [u \in Treasuries |->
             IF u = t THEN Written(c, treasury[u])
             ELSE IF u \in unset THEN [treasury[u] EXCEPT !.isDefault = FALSE]
             ELSE treasury[u]]
  BY DEF SaveTreasury
<1>5. ASSUME NEW u \in Treasuries \ {t}
      PROVE  /\ treasury'[u].branch = treasury[u].branch
             /\ treasury'[u].isDefault <=> treasury[u].isDefault /\ u \notin unset
  <2>1. treasury'[u] = IF u \in unset THEN [treasury[u] EXCEPT !.isDefault = FALSE] ELSE treasury[u]
    BY <1>4
  <2>2. [treasury[u] EXCEPT !.isDefault = FALSE].branch = treasury[u].branch
        /\ ~[treasury[u] EXCEPT !.isDefault = FALSE].isDefault
    BY <1>3 DEF ATreasury
  <2> QED  BY <2>1, <2>2
<1>6. /\ "isDefault" \in cols => (treasury'[t].isDefault <=> after.isDefault)
      /\ "isDefault" \notin cols => (treasury'[t].isDefault <=> treasury[t].isDefault)
      /\ "branch" \in cols => treasury'[t].branch = after.branch
      /\ "branch" \notin cols => treasury'[t].branch = treasury[t].branch
  <2>1. treasury'[t] = Written(c, treasury[t])
    BY <1>2, <1>4
  <2>2. treasury'[t] = [f \in Columns |-> IF f \in cols THEN after[f] ELSE treasury[t][f]]
    BY <1>2, <1>3, <2>1 DEF Written, ATreasury, Columns
  <2>3. treasury'[t].isDefault = IF "isDefault" \in cols THEN after.isDefault ELSE treasury[t].isDefault
    BY <1>2, <1>3, <2>2 DEF Columns, ATreasury
  <2>4. treasury'[t].branch = IF "branch" \in cols THEN after.branch ELSE treasury[t].branch
    BY <1>2, <1>3, <2>2 DEF Columns, ATreasury
  <2> QED  BY <2>3, <2>4
<1>7. /\ "branch" \in cols => cols = Columns /\ after.branch = b
      /\ "branch" \notin cols => treasury[t].branch = b
      /\ unset # {} => "isDefault" \in cols /\ after.isDefault
      /\ \A u \in unset : treasury[u].branch = b
      /\ b \notin raced /\ "isDefault" \in cols /\ ~after.isDefault =>
           IF "branch" \in cols THEN TreasuriesOf(b) # {} ELSE ~treasury[t].isDefault
  BY <1>1 DEF Planned, TreasuriesOf
<1>8. "branch" \in cols => treasury[t].branch = Nowhere
  BY DEF SaveTreasury, Exists
<1>9. "isDefault" \in cols /\ after.isDefault => DefaultsOf(b) \subseteq unset \cup {t}
  BY DEF SaveTreasury, Unique, DefaultsOf, TreasuriesOf
<1> QED  BY <1>2, <1>5, <1>6, <1>7, <1>8, <1>9 DEF Columns

LEMMA SaveKeepsDefaults ==
    ASSUME IInv, DefaultInv, NEW c \in Handlers, SaveTreasury(c)
    PROVE  DefaultInv'
<1>0. PICK t, b, cols, after, unset :
        /\ t = job[c].treasury /\ b = job[c].branch /\ cols = job[c].columns /\ after = job[c].after
        /\ unset = job[c].unset
  OBVIOUS
<1>1. /\ \A u \in Treasuries \ {t} :
           /\ treasury'[u].branch = treasury[u].branch
           /\ treasury'[u].isDefault <=> treasury[u].isDefault /\ u \notin unset
      /\ treasury'[t].branch = b
      /\ "isDefault" \in cols => (treasury'[t].isDefault <=> after.isDefault)
      /\ "isDefault" \notin cols => (treasury'[t].isDefault <=> treasury[t].isDefault)
      /\ "branch" \in cols => "isDefault" \in cols /\ treasury[t].branch = Nowhere
      /\ "branch" \notin cols => treasury[t].branch = b
      /\ "isDefault" \in cols /\ after.isDefault => DefaultsOf(b) \subseteq unset \cup {t}
      /\ ~("isDefault" \in cols /\ after.isDefault) => unset = {}
      /\ \A u \in unset : treasury[u].branch = b
      /\ b \notin raced /\ "isDefault" \in cols /\ ~after.isDefault =>
           IF "branch" \in cols THEN TreasuriesOf(b) # {} ELSE ~treasury[t].isDefault
      /\ t \in Treasuries /\ b \in Branches /\ raced' = raced
  BY <1>0, SaveWrites
<1>2. Nowhere \notin Branches
  BY TreasuryAssumption
<1>3. AtMostOne'
  <2> SUFFICES ASSUME NEW a \in Branches, NEW u \in DefaultsOf(a)', NEW v \in DefaultsOf(a)'
               PROVE  u = v
    BY DEF AtMostOne
  <2>1. /\ u \in Treasuries /\ treasury'[u].branch = a /\ treasury'[u].isDefault
        /\ v \in Treasuries /\ treasury'[v].branch = a /\ treasury'[v].isDefault
    BY DEF DefaultsOf, TreasuriesOf
  <2>2. ASSUME NEW w \in Treasuries \ {t}, treasury'[w].branch = a, treasury'[w].isDefault
        PROVE  w \in DefaultsOf(a) \ unset
    BY <1>1, <2>2 DEF DefaultsOf, TreasuriesOf
  <2>3. \A w, z \in DefaultsOf(a) : w = z
    BY DEF DefaultInv, AtMostOne
  <2>4. CASE a # b
    BY <1>1, <2>1, <2>2, <2>3, <2>4
  <2>5. CASE a = b /\ "isDefault" \in cols /\ after.isDefault
    BY <1>1, <2>1, <2>2, <2>5
  <2>6. CASE a = b /\ "isDefault" \in cols /\ ~after.isDefault
    BY <1>1, <2>1, <2>2, <2>3, <2>6
  <2>7. CASE a = b /\ "isDefault" \notin cols
    <3>1. treasury'[t].isDefault => t \in DefaultsOf(a)
      BY <1>1, <2>7 DEF DefaultsOf, TreasuriesOf
    <3> QED  BY <2>1, <2>2, <2>3, <3>1
  <2> QED  BY <2>4, <2>5, <2>6, <2>7
<1>4. Settled'
  <2> SUFFICES ASSUME NEW a \in Branches \ raced, NEW u \in TreasuriesOf(a)'
               PROVE  DefaultsOf(a)' # {}
    BY <1>1 DEF Settled
  <2>1. u \in Treasuries /\ treasury'[u].branch = a
    BY DEF TreasuriesOf
  <2>2. TreasuriesOf(a) # {} => DefaultsOf(a) # {}
    BY DEF DefaultInv, Settled
  <2>3. ASSUME NEW d \in DefaultsOf(a), d # t, d \notin unset
        PROVE  d \in DefaultsOf(a)'
    BY <1>1, <2>3 DEF DefaultsOf, TreasuriesOf
  <2>4. CASE a # b
    <3>1. u # t
      BY <1>1, <2>1, <2>4
    <3>2. u \in TreasuriesOf(a)
      BY <1>1, <2>1, <3>1 DEF TreasuriesOf
    <3>3. PICK d \in DefaultsOf(a) : TRUE
      BY <2>2, <3>2
    <3>4. treasury[d].branch = a
      BY DEF DefaultsOf, TreasuriesOf
    <3>5. d # t /\ d \notin unset
      BY <1>1, <1>2, <2>4, <3>4
    <3> QED  BY <2>3, <3>5
  <2>5. CASE a = b /\ "isDefault" \in cols /\ after.isDefault
    BY <1>1, <2>5 DEF DefaultsOf, TreasuriesOf
  <2>6. CASE a = b /\ "isDefault" \in cols /\ ~after.isDefault
    <3>1. "branch" \notin cols => t \in TreasuriesOf(a) /\ ~treasury[t].isDefault
      BY <1>1, <2>6 DEF TreasuriesOf
    <3>2. PICK d \in DefaultsOf(a) : TRUE
      BY <1>1, <2>2, <2>6, <3>1
    <3>3. treasury[d].branch = a /\ treasury[d].isDefault
      BY DEF DefaultsOf, TreasuriesOf
    <3>4. d # t
      BY <1>1, <1>2, <2>6, <3>1, <3>3
    <3> QED  BY <1>1, <2>3, <2>6, <3>4
  <2>7. CASE a = b /\ "isDefault" \notin cols
    <3>1. t \in TreasuriesOf(a)
      BY <1>1, <2>7 DEF TreasuriesOf
    <3>2. PICK d \in DefaultsOf(a) : TRUE
      BY <2>2, <3>1
    <3>3. d \in DefaultsOf(a)'
      BY <1>1, <2>7 DEF DefaultsOf, TreasuriesOf
    <3> QED  BY <3>3
  <2> QED  BY <2>4, <2>5, <2>6, <2>7
<1>5. \A d \in Handlers : pc'[d] \in AtTreasury => d # c /\ pc'[d] = pc[d] /\ job'[d] = job[d]
  BY DEF SaveTreasury, End, AtTreasury, IInv, Control
<1>6. ASSUME NEW d \in Handlers, pc'[d] \in AtTreasury PROVE Planned(d)'
  <2>1. Planned(d) /\ d # c /\ pc'[d] = pc[d] /\ job'[d] = job[d] /\ job[d] \in TreasuryJob
    BY <1>5, <1>6 DEF DefaultInv, IInv, Control, AtPlace
  <2>2. PICK j : j = job[d]
    OBVIOUS
  <2>3. j.branch \in Branches /\ j.treasury \in Treasuries /\ j.unset \subseteq Treasuries
    BY <2>1, <2>2 DEF TreasuryJob
  <2>4. ASSUME NEW u \in Treasuries, treasury[u].branch \in Branches
        PROVE  treasury'[u].branch = treasury[u].branch
    BY <1>1, <1>2, <2>4
  <2>5. j.branch \notin raced => j.branch # b
    <3>1. pc[c] \in AtTreasury /\ pc[d] \in AtTreasury
      BY <1>6, <2>1 DEF SaveTreasury, AtTreasury
    <3> QED  BY <1>0, <2>1, <2>2, <3>1 DEF DefaultInv, Alone
  <2>6. ASSUME j.branch \notin raced, NEW u \in Treasuries, treasury[u].branch = j.branch
        PROVE  u # t /\ (treasury'[u].isDefault => treasury[u].isDefault)
    BY <1>1, <1>2, <2>3, <2>5, <2>6
  <2>7. j.branch \notin raced /\ TreasuriesOf(j.branch) # {} => TreasuriesOf(j.branch)' # {}
    BY <2>3, <2>4 DEF TreasuriesOf
  <2>8. IF "branch" \in j.columns THEN j.columns = Columns /\ j.after.branch = j.branch
                                  ELSE treasury'[j.treasury].branch = j.branch
    BY <2>1, <2>2, <2>3, <2>4 DEF Planned
  <2>9. \A u \in j.unset : treasury'[u].branch = j.branch
    BY <2>1, <2>2, <2>3, <2>4 DEF Planned
  <2>10. pc[d] # "save" \/ j.unset # {} => "isDefault" \in j.columns /\ j.after.isDefault
    BY <2>1, <2>2 DEF Planned
  <2>11. j.branch \notin raced /\ "isDefault" \in j.columns /\ ~j.after.isDefault =>
             IF "branch" \in j.columns THEN TreasuriesOf(j.branch)' # {}
                                       ELSE ~treasury'[j.treasury].isDefault
    <3>1. j.branch \notin raced /\ "isDefault" \in j.columns /\ ~j.after.isDefault =>
             IF "branch" \in j.columns THEN TreasuriesOf(j.branch) # {}
                                       ELSE ~treasury[j.treasury].isDefault
      BY <2>1, <2>2 DEF Planned, TreasuriesOf
    <3>2. "branch" \notin j.columns => treasury[j.treasury].branch = j.branch
      BY <2>1, <2>2 DEF Planned
    <3> QED  BY <2>3, <2>6, <2>7, <3>1, <3>2
  <2> QED  BY <1>1, <2>1, <2>2, <2>8, <2>9, <2>10, <2>11 DEF Planned, TreasuriesOf
<1>7. Alone'
  BY <1>1, <1>5 DEF DefaultInv, Alone
<1> QED  BY <1>3, <1>4, <1>6, <1>7 DEF DefaultInv

-----------------------------------------------------------------------------

LEMMA DefaultNext == IInv /\ DefaultInv /\ [Next]_vars => DefaultInv'
<1> SUFFICES ASSUME IInv, DefaultInv, [Next]_vars PROVE DefaultInv'
  OBVIOUS
<1> DEFINE Elsewhere ==
      /\ UNCHANGED <<treasury, raced>>
      /\ \A c \in Handlers : pc'[c] \in AtTreasury => pc'[c] = pc[c] /\ job'[c] = job[c]
<1>1. Elsewhere => DefaultInv'
  BY ElsewhereKeepsDefaults
<1>2. AtOnce /\ UNCHANGED treasury => Elsewhere
  BY DEF AtOnce
<1>3. ASSUME NEW c \in Handlers, End(c), UNCHANGED treasury PROVE Elsewhere
  BY <1>3 DEF End, AtTreasury, IInv, Control
<1>4. ASSUME NEW c \in Handlers, NEW where \in AtTransfer \cup AtVoucher,
             pc' = [pc EXCEPT ![c] = where], \A d \in Handlers \ {c} : job'[d] = job[d],
             UNCHANGED <<treasury, raced>>
      PROVE  Elsewhere
  BY <1>4 DEF AtTreasury, AtTransfer, AtVoucher, IInv, Control
<1> HIDE DEF Elsewhere
<1>5. CASE TreasuryNext /\ UNCHANGED voucherVars
  <2>1. CASE \E d \in Documents : ReverseInJournal(d)
    BY <1>1, <1>2, <2>1 DEF ReverseInJournal
  <2>2. CASE \E t \in Treasuries : PostOpening(t) \/ ReverseOpening(t)
    BY <1>1, <1>2, <2>2 DEF PostOpening, ReverseOpening
  <2>3. CASE \E x \in Transfers : CreateTransfer(x) \/ UpdateTransfer(x) \/ CancelTransfer(x)
    BY <1>1, <1>2, <2>3 DEF CreateTransfer, UpdateTransfer, CancelTransfer
  <2>4. ASSUME NEW c \in Handlers, NEW t \in Treasuries,
               CreateTreasury(c, t) \/ UpdateTreasury(c, t) \/ SetActive(c, t)
        PROVE  DefaultInv'
    <3>1. PICK b \in Branches, where \in AtTreasury, columns \in SUBSET Columns, after \in ATreasury :
            Begin(c, b, where, Request(t, columns, after)) /\ Plan(b, where, t, columns, after)
      BY <2>4, BeginOfRequest
    <3> QED  BY <3>1, BeginKeepsDefaults
  <2>5. ASSUME NEW c \in Handlers, NEW x \in Transfers, StartConfirmTransfer(c, x)
        PROVE  DefaultInv'
    <3>1. pc' = [pc EXCEPT ![c] = "accounts"] /\ \A d \in Handlers \ {c} : job'[d] = job[d]
      BY <2>5 DEF StartConfirmTransfer, Start, IInv, Control
    <3> QED  BY <1>1, <1>4, <2>5, <3>1 DEF StartConfirmTransfer, stored, AtTransfer
  <2>6. ASSUME NEW c \in Handlers, LockAccount(c)
        PROVE  DefaultInv'
    <3>1. CASE Rollback(c)
      BY <1>1, <1>3, <3>1 DEF Rollback, stored
    <3>2. CASE ~Rollback(c)
      <4> DEFINE side  == NextSide(c)
                 last  == Sides(c) \ {side} \subseteq {u \in Treasuries : accountLock[u] = c}
                 place == IF last THEN "commit" ELSE "accounts"
      <4>1. pc' = [pc EXCEPT ![c] = place] /\ UNCHANGED <<stored, job, raced>>
        BY <2>6, <3>2 DEF LockAccount, Goto
      <4>2. place \in AtTransfer
        BY DEF AtTransfer
      <4> HIDE DEF place
      <4> QED  BY <1>1, <1>4, <4>1, <4>2 DEF stored
    <3> QED  BY <3>1, <3>2
  <2>7. ASSUME NEW c \in Handlers, ConfirmTransfer(c) \/ Abort(c)
        PROVE  DefaultInv'
    BY <1>1, <1>3, <2>7 DEF ConfirmTransfer, Abort, Rollback, stored
  <2>8. ASSUME NEW c \in Handlers, Unset(c) \/ SaveTreasury(c)
        PROVE  DefaultInv'
    BY <2>8, UnsetKeepsDefaults, SaveKeepsDefaults
  <2> QED  BY <1>5, <2>1, <2>2, <2>3, <2>4, <2>5, <2>6, <2>7, <2>8 DEF TreasuryNext
<1>6. CASE \E v \in Vouchers : CreateVoucher(v) \/ UpdateVoucher(v) \/ RemoveVoucher(v) \/ ReverseVoucher(v)
  BY <1>1, <1>2, <1>6 DEF CreateVoucher, UpdateVoucher, RemoveVoucher, ReverseVoucher, stored
<1>7. ASSUME NEW c \in Handlers, NEW v \in Vouchers, StartPostVoucher(c, v) PROVE DefaultInv'
  <2> DEFINE place == IF Targets(voucher[v].body) = {} THEN "post" ELSE "invoices"
  <2>1. pc' = [pc EXCEPT ![c] = place] /\ \A d \in Handlers \ {c} : job'[d] = job[d]
    BY <1>7 DEF StartPostVoucher, Start, IInv, Control
  <2>2. place \in AtVoucher
    BY DEF AtVoucher
  <2> HIDE DEF place
  <2> QED  BY <1>1, <1>4, <1>7, <2>1, <2>2 DEF StartPostVoucher, stored
<1>8. ASSUME NEW c \in Handlers, LockInvoice(c) PROVE DefaultInv'
  <2> DEFINE open  == {i \in Targets(job[c].body) : invoiceLock[i] # c}
             place == IF Cardinality(open) = 1 THEN "post" ELSE "invoices"
  <2>1. pc' = [pc EXCEPT ![c] = place] /\ UNCHANGED <<stored, job, raced>>
    BY <1>8 DEF LockInvoice, Goto
  <2>2. place \in AtVoucher
    BY DEF AtVoucher
  <2> HIDE DEF place
  <2> QED  BY <1>1, <1>4, <2>1, <2>2 DEF stored
<1>9. ASSUME NEW c \in Handlers, PostVoucher(c) \/ AbortVoucher(c) PROVE DefaultInv'
  BY <1>1, <1>3, <1>9 DEF PostVoucher, AbortVoucher, Rollback, stored
<1>10. CASE \E i \in Invoices : CancelInvoice(i) \/ ReviseInvoice(i)
  <2>1. UNCHANGED <<treasury, raced, pc, job>>
    BY <1>10 DEF CancelInvoice, ReviseInvoice, stored, AtOnce
  <2>2. Elsewhere
    BY <2>1 DEF Elsewhere
  <2> QED  BY <1>1, <2>2
<1>11. CASE UNCHANGED vars
  BY <1>1, <1>2, <1>11 DEF vars, treasuryVars, stored, AtOnce
<1> QED  BY <1>5, <1>6, <1>7, <1>8, <1>9, <1>10, <1>11 DEF Next

(* In every behaviour, what a handler has planned for the treasuries of a  *)
(* branch is still good unless another has worked on the same branch.      *)
THEOREM DefaultsInvariant == Spec => []DefaultInv
BY InvInit, InvNext, DefaultInit, DefaultNext, PTL DEF Spec

(* However creations, updates and deactivations of treasuries interleave,  *)
(* no branch has two default treasuries; and one that two requests have    *)
(* not met on has one as soon as it has a treasury.                        *)
THEOREM OneDefaultAlways == Spec => []OneDefaultPerBranch
<1>1. DefaultInv => OneDefaultPerBranch
  <2> SUFFICES ASSUME DefaultInv, NEW b \in Branches
               PROVE  /\ Cardinality(DefaultsOf(b)) <= 1
                      /\ TreasuriesOf(b) # {} /\ b \notin raced => DefaultsOf(b) # {}
    BY DEF OneDefaultPerBranch
  <2>1. Cardinality(DefaultsOf(b)) <= 1
    <3>1. CASE DefaultsOf(b) = {}
      BY <3>1, FS_EmptySet
    <3>2. CASE DefaultsOf(b) # {}
      <4>1. PICK t \in DefaultsOf(b) : DefaultsOf(b) = {t}
        BY <3>2 DEF DefaultInv, AtMostOne
      <4>2. Cardinality({t}) = 1
        BY FS_Singleton, Zenon
      <4> QED  BY <4>1, <4>2
    <3> QED  BY <3>1, <3>2
  <2> QED  BY <2>1 DEF DefaultInv, Settled
<1> QED  BY DefaultsInvariant, <1>1, PTL

-----------------------------------------------------------------------------
(* Overdrafts: the balance a confirmation has looked at is still there when*)
(* it commits, because it holds the account and every entry of the account *)
(* shares it.                                                              *)

Funded ==
    \A c \in Handlers : pc[c] = "commit" =>
        /\ accountLock[job[c].seen.from] = c
        /\ ~job[c].mayGoNegative => BalanceIn(entry, job[c].seen.from) >= job[c].seen.amount

LEMMA EffectType ==
    ASSUME NEW e \in AnEntry, NEW t \in Treasuries
    PROVE  Effect(e, t) \in Int
BY DEF Effect, AnEntry

(* A balance is the same if the effect of every entry is.                  *)
LEMMA BalanceSame ==
    ASSUME NEW before \in [Documents -> AnEntry], NEW after \in [Documents -> AnEntry],
           NEW t \in Treasuries,
           \A d \in Documents : Effect(after[d], t) = Effect(before[d], t)
    PROVE  BalanceIn(after, t) = BalanceIn(before, t) /\ BalanceIn(before, t) \in Int
<1> DEFINE f == [d \in Documents |-> Effect(before[d], t)]
           g == [d \in Documents |-> Effect(after[d], t)]
<1>1. IsFiniteSet(Documents)
  BY TreasuryAssumption
<1>2. \A d \in Documents : g[d] = f[d] /\ f[d] \in Int
  BY EffectType
<1>3. BalanceIn(before, t) = SumFunction(f) /\ BalanceIn(after, t) = SumFunction(g)
  BY DEF BalanceIn
<1>4. DOMAIN f = Documents /\ DOMAIN g = Documents
  OBVIOUS
<1> HIDE DEF f, g
<1>5. SumFunctionOnSet(g, Documents) = SumFunctionOnSet(f, Documents)
  BY <1>1, <1>2, SumSame
<1>6. SumFunctionOnSet(f, Documents) \in Int
  BY <1>1, <1>2, SumType
<1> QED  BY <1>3, <1>4, <1>5, <1>6 DEF SumFunction

(* A balance when one document gets its entry.                             *)
LEMMA BalanceOfPosted ==
    ASSUME NEW before \in [Documents -> AnEntry], NEW after \in [Documents -> AnEntry],
           NEW t \in Treasuries, NEW x \in Documents,
           before[x] = NotPosted, \A d \in Documents \ {x} : after[d] = before[d]
    PROVE  /\ BalanceIn(after, t) = BalanceIn(before, t) + Effect(after[x], t)
           /\ BalanceIn(before, t) \in Int
<1> DEFINE f == [d \in Documents |-> Effect(before[d], t)]
           g == [d \in Documents |-> Effect(after[d], t)]
<1>1. IsFiniteSet(Documents)
  BY TreasuryAssumption
<1>2. \A d \in Documents : f[d] \in Int /\ g[d] \in Int
  BY EffectType
<1>3. BalanceIn(before, t) = SumFunction(f) /\ BalanceIn(after, t) = SumFunction(g)
  BY DEF BalanceIn
<1>4. DOMAIN f = Documents /\ DOMAIN g = Documents
  OBVIOUS
<1>5. \A d \in Documents \ {x} : g[d] = f[d]
  OBVIOUS
<1>6. f[x] = 0 /\ g[x] = Effect(after[x], t)
  BY DEF Effect, NotPosted
<1> HIDE DEF f, g
<1>7. SumFunctionOnSet(g, Documents) = SumFunctionOnSet(f, Documents) - f[x] + g[x]
  BY <1>1, <1>2, <1>5, SumChange
<1>8. SumFunctionOnSet(f, Documents) \in Int /\ g[x] \in Int
  BY <1>1, <1>2, SumType
<1> QED  BY <1>3, <1>4, <1>6, <1>7, <1>8 DEF SumFunction

(* Whoever posts or reverses an entry does nothing to an account another   *)
(* handler holds.                                                          *)
LEMMA PostElsewhere ==
    ASSUME IInv, NEW o, NEW d, NEW e, Post(o, d, e),
           NEW t \in Treasuries, accountLock[t] \notin {o, NoOne}, NEW x \in Documents
    PROVE  Effect(entry'[x], t) = Effect(entry[x], t)
<1>1. t # Nowhere
  BY TreasuryAssumption
<1>2. e.from # t /\ e.to # t
  BY <1>1 DEF Post, Shareable, AccountFree
<1>3. Effect(e, t) = 0 /\ Effect(NotPosted, t) = 0
  BY <1>1, <1>2 DEF Effect, NotPosted
<1>4. entry'[x] = entry[x] \/ (x = d /\ entry[x] = NotPosted /\ entry'[x] = e)
  BY DEF Post, IInv, Stored
<1> QED  BY <1>3, <1>4

LEMMA ReverseElsewhere ==
    ASSUME IInv, NEW o, NEW d, Reverse(o, d),
           NEW t \in Treasuries, accountLock[t] \notin {o, NoOne}, NEW x \in Documents
    PROVE  Effect(entry'[x], t) = Effect(entry[x], t)
<1>1. t # Nowhere
  BY TreasuryAssumption
<1>2. entry[d].from # t /\ entry[d].to # t
  BY <1>1 DEF Reverse, Shareable, AccountFree
<1>3. CASE x # d
  BY <1>3 DEF Reverse, IInv, Stored
<1>4. CASE x = d
  <2>1. entry[x] \in AnEntry
    BY DEF IInv, Stored
  <2>2. \/ entry'[x] = entry[x]
        \/ entry'[x].from = entry[x].from /\ entry'[x].to = entry[x].to
           /\ entry'[x].status = "REVERSED"
    BY <1>4, <2>1 DEF Reverse, IInv, Stored, AnEntry
  <2> QED  BY <1>2, <1>4, <2>2 DEF Effect
<1> QED  BY <1>3, <1>4

(* Only its own commit changes an account a confirmation holds.            *)
LEMMA AccountHeld ==
    ASSUME IInv, [Next]_vars, NEW c \in Handlers, pc[c] = "commit", ~ConfirmTransfer(c),
           NEW t \in Treasuries, accountLock[t] = c, NEW x \in Documents
    PROVE  Effect(entry'[x], t) = Effect(entry[x], t)
<1>0. c # NoOne
  BY Apart
<1>1. ASSUME UNCHANGED entry PROVE Effect(entry'[x], t) = Effect(entry[x], t)
  BY <1>1
<1>2. CASE TreasuryNext
  <2>1. ASSUME NEW d, ReverseInJournal(d) \/ ReverseOpening(d) \/ PostOpening(d)
        PROVE  Effect(entry'[x], t) = Effect(entry[x], t)
    BY <1>0, <2>1, PostElsewhere, ReverseElsewhere DEF ReverseInJournal, ReverseOpening, PostOpening
  <2>2. ASSUME NEW y \in Transfers, CreateTransfer(y) \/ UpdateTransfer(y) \/ CancelTransfer(y)
        PROVE  Effect(entry'[x], t) = Effect(entry[x], t)
    BY <1>0, <1>1, <2>2, ReverseElsewhere DEF CreateTransfer, UpdateTransfer, CancelTransfer
  <2>3. ASSUME NEW d \in Handlers, NEW u \in Treasuries,
               CreateTreasury(d, u) \/ UpdateTreasury(d, u) \/ SetActive(d, u)
        PROVE  UNCHANGED entry
    BY <2>3 DEF CreateTreasury, UpdateTreasury, SetActive, Begin, stored
  <2>4. ASSUME NEW d \in Handlers,
               (\E y \in Transfers : StartConfirmTransfer(d, y)) \/ Unset(d) \/ SaveTreasury(d)
               \/ LockAccount(d) \/ Abort(d)
        PROVE  UNCHANGED entry
    BY <2>4 DEF StartConfirmTransfer, Unset, SaveTreasury, LockAccount, Abort, Rollback, stored
  <2>5. ASSUME NEW d \in Handlers, ConfirmTransfer(d)
        PROVE  Effect(entry'[x], t) = Effect(entry[x], t)
    <3>1. d # c
      BY <2>5
    <3> QED  BY <1>0, <2>5, <3>1, PostElsewhere DEF ConfirmTransfer
  <2> QED  BY <1>1, <1>2, <2>1, <2>2, <2>3, <2>4, <2>5 DEF TreasuryNext
<1>3. CASE \E v \in Vouchers : CreateVoucher(v) \/ UpdateVoucher(v) \/ RemoveVoucher(v)
  BY <1>1, <1>3 DEF CreateVoucher, UpdateVoucher, RemoveVoucher, stored
<1>4. CASE \E v \in Vouchers : ReverseVoucher(v)
  BY <1>0, <1>4, ReverseElsewhere DEF ReverseVoucher
<1>5. ASSUME NEW d \in Handlers,
             (\E v \in Vouchers : StartPostVoucher(d, v)) \/ LockInvoice(d) \/ AbortVoucher(d)
      PROVE  UNCHANGED entry
  BY <1>5 DEF StartPostVoucher, LockInvoice, AbortVoucher, Rollback, stored
<1>6. ASSUME NEW d \in Handlers, PostVoucher(d)
      PROVE  Effect(entry'[x], t) = Effect(entry[x], t)
  <2>1. d # c
    BY <1>6 DEF PostVoucher
  <2> QED  BY <1>0, <1>6, <2>1, PostElsewhere DEF PostVoucher
<1>7. CASE UNCHANGED vars \/ \E i \in Invoices : CancelInvoice(i) \/ ReviseInvoice(i)
  BY <1>1, <1>7 DEF vars, treasuryVars, stored, CancelInvoice, ReviseInvoice
<1> QED  BY <1>1, <1>2, <1>3, <1>4, <1>5, <1>6, <1>7 DEF Next

(* Who is about to confirm a transfer, and what he holds, after a step.    *)
LEMMA StillAtCommit ==
    ASSUME IInv, [Next]_vars, NEW c \in Handlers, pc'[c] = "commit", ~LockAccount(c)
    PROVE  /\ pc[c] = "commit" /\ job'[c] = job[c]
           /\ \A t \in Treasuries : accountLock[t] = c => accountLock'[t] = c
<1>0. c # NoOne
  BY Apart
<1> DEFINE Still == /\ pc[c] = "commit" /\ job'[c] = job[c]
                    /\ \A t \in Treasuries : accountLock[t] = c => accountLock'[t] = c
<1> SUFFICES Still
  OBVIOUS
<1>1. ASSUME NEW d \in Handlers, NEW t \in Treasuries,
             CreateTreasury(d, t) \/ UpdateTreasury(d, t) \/ SetActive(d, t)
      PROVE  Still
  <2>1. PICK b \in Branches, where \in AtTreasury, columns \in SUBSET Columns, after \in ATreasury :
          Begin(d, b, where, Request(t, columns, after))
    BY <1>1, BeginOfRequest
  <2> QED  BY <2>1 DEF Begin, Start, locks, IInv, Control, AtTreasury
<1>2. ASSUME NEW d \in Handlers, NEW x \in Transfers, StartConfirmTransfer(d, x) PROVE Still
  BY <1>2 DEF StartConfirmTransfer, Start, IInv, Control
<1>3. ASSUME NEW d \in Handlers,
             SaveTreasury(d) \/ ConfirmTransfer(d) \/ Abort(d) \/ PostVoucher(d) \/ AbortVoucher(d)
      PROVE  Still
  BY <1>3 DEF SaveTreasury, ConfirmTransfer, Abort, PostVoucher, AbortVoucher, Rollback, End,
     Released, IInv, Control
<1>4. ASSUME NEW d \in Handlers, LockAccount(d) PROVE Still
  <2>1. d # c
    BY <1>4
  <2>2. CASE Rollback(d)
    BY <2>1, <2>2 DEF Rollback, End, Released, IInv, Control
  <2>3. CASE ~Rollback(d)
    <3>1. /\ AccountFree(d, NextSide(d)) /\ UNCHANGED job
          /\ accountLock' = [accountLock EXCEPT ![NextSide(d)] = d]
          /\ \E where : Goto(d, where)
      BY <1>4, <2>3 DEF LockAccount
    <3> QED  BY <1>0, <2>1, <3>1 DEF AccountFree, Goto, IInv, Control
  <2> QED  BY <2>2, <2>3
<1>5. ASSUME NEW d \in Handlers, Unset(d) PROVE Still
  <2>1. /\ UNCHANGED accountLock
        /\ pc' = [pc EXCEPT ![d] = "save"] \/ pc' = [pc EXCEPT ![d] = "wait"]
        /\ \E it : job' = [job EXCEPT ![d].unset = it] \/ job' = [job EXCEPT ![d].seen = it]
    BY <1>5 DEF Unset, Goto
  <2>2. d # c
    BY <2>1 DEF IInv, Control
  <2>3. pc'[c] = pc[c] /\ job'[c] = job[c]
    BY <2>1, <2>2 DEF IInv, Control
  <2> QED  BY <2>1, <2>3
<1>6. ASSUME NEW d \in Handlers, LockInvoice(d) PROVE Still
  BY <1>6 DEF LockInvoice, Goto, locks, IInv, Control
<1>7. ASSUME NEW d \in Handlers, NEW v \in Vouchers, StartPostVoucher(d, v) PROVE Still
  BY <1>7 DEF StartPostVoucher, Start, IInv, Control
<1>8. ASSUME UNCHANGED <<locks, pc, job>> PROVE Still
  BY <1>8 DEF locks
<1>9. CASE \/ \E d \in Documents : ReverseInJournal(d)
           \/ \E t \in Treasuries : PostOpening(t) \/ ReverseOpening(t)
           \/ \E x \in Transfers : CreateTransfer(x) \/ UpdateTransfer(x) \/ CancelTransfer(x)
           \/ \E v \in Vouchers : CreateVoucher(v) \/ UpdateVoucher(v) \/ RemoveVoucher(v) \/ ReverseVoucher(v)
           \/ \E i \in Invoices : CancelInvoice(i) \/ ReviseInvoice(i)
  BY <1>8, <1>9 DEF AtOnce, ReviseInvoice, ReverseInJournal, PostOpening, ReverseOpening,
     CreateTransfer, UpdateTransfer, CancelTransfer, CreateVoucher, UpdateVoucher, RemoveVoucher, ReverseVoucher, CancelInvoice
<1>10. CASE UNCHANGED vars
  BY <1>10 DEF vars, treasuryVars, locks
<1> HIDE DEF Still
<1>11. CASE TreasuryNext
  BY <1>1, <1>2, <1>3, <1>4, <1>5, <1>9, <1>11 DEF TreasuryNext
<1>12. CASE Next /\ ~TreasuryNext
  BY <1>3, <1>6, <1>7, <1>9, <1>12 DEF Next
<1> QED  BY <1>10, <1>11, <1>12

LEMMA AtCommitType ==
    ASSUME IInv, NEW c \in Handlers, pc[c] \in AtTransfer
    PROVE  /\ job[c].doc \in Transfers /\ job[c].doc \in Documents
           /\ job[c].seen.from \in Treasuries /\ job[c].seen.to \in Treasuries
           /\ job[c].seen.amount \in Nat
           /\ entry[job[c].doc] = NotPosted
<1>1. job[c] \in TransferJob
  BY DEF IInv, Control, AtPlace
<1>2. job[c].seen \in ATransfer /\ job[c].doc \in Transfers
  BY <1>1 DEF TransferJob
<1>3. transfer[job[c].doc].status = "DRAFT"
  BY DEF IInv, HeldDocuments
<1>4. entry[job[c].doc] = NotPosted
  BY <1>2, <1>3 DEF IInv, Journal, OfTransfer
<1> QED  BY <1>2, <1>4, Apart DEF ATransfer

(* Under the last of the two locks the balance has been looked at.         *)
LEMMA LockAccountIsFunded ==
    ASSUME IInv, NEW c \in Handlers, LockAccount(c), pc'[c] = "commit"
    PROVE  /\ accountLock'[job'[c].seen.from] = c
           /\ ~job'[c].mayGoNegative => BalanceIn(entry', job'[c].seen.from) >= job'[c].seen.amount
<1> DEFINE from == job[c].seen.from
           t == NextSide(c)
           last == Sides(c) \ {t} \subseteq {u \in Treasuries : accountLock[u] = c}
<1>1. from \in Treasuries
  BY AtCommitType DEF LockAccount, AtTransfer
<1>2. pc[c] = "accounts" /\ ~Rollback(c)
  BY DEF LockAccount, Rollback, End, IInv, Control
<1>3. /\ last /\ (job[c].mayGoNegative \/ Covered(c))
      /\ accountLock' = [accountLock EXCEPT ![t] = c]
      /\ UNCHANGED <<entry, job>>
  BY <1>2 DEF LockAccount, Goto, stored, IInv, Control
<1>4. accountLock'[from] = c
  <2>1. from = t \/ accountLock[from] = c
    BY <1>3 DEF Sides
  <2>2. accountLock \in [Treasuries -> Owner]
    BY DEF IInv, Control
  <2> HIDE DEF t, from, last
  <2> QED  BY <1>1, <1>3, <2>1, <2>2
<1> QED  BY <1>3, <1>4 DEF Covered, Balance

LEMMA FundedNext == IInv /\ IInv' /\ Funded /\ [Next]_vars => Funded'
<1> SUFFICES ASSUME IInv, IInv', Funded, [Next]_vars, NEW c \in Handlers, pc'[c] = "commit"
             PROVE  /\ accountLock'[job'[c].seen.from] = c
                    /\ ~job'[c].mayGoNegative =>
                         BalanceIn(entry', job'[c].seen.from) >= job'[c].seen.amount
  BY DEF Funded
<1>1. CASE LockAccount(c)
  BY <1>1, LockAccountIsFunded
<1>2. CASE ~LockAccount(c)
  <2>1. /\ pc[c] = "commit" /\ job'[c] = job[c]
        /\ \A t \in Treasuries : accountLock[t] = c => accountLock'[t] = c
    BY <1>2, StillAtCommit
  <2>2. ~ConfirmTransfer(c)
    BY DEF ConfirmTransfer, End, IInv, Control
  <2>3. job[c].seen.from \in Treasuries
    BY <2>1, AtCommitType DEF AtTransfer
  <2>4. accountLock[job[c].seen.from] = c
    BY <2>1 DEF Funded
  <2>5. \A x \in Documents : Effect(entry'[x], job[c].seen.from) = Effect(entry[x], job[c].seen.from)
    BY <2>1, <2>2, <2>3, <2>4, AccountHeld
  <2>6. BalanceIn(entry', job[c].seen.from) = BalanceIn(entry, job[c].seen.from)
    BY <2>3, <2>5, BalanceSame DEF IInv, Stored
  <2> QED  BY <2>1, <2>3, <2>4, <2>6 DEF Funded
<1> QED  BY <1>1, <1>2

(* What a handler that must not overdraw leaves in its source treasury.    *)
LEMMA CommitLeavesEnough ==
    ASSUME IInv, IInv', Funded, [Next]_vars, NEW c \in Handlers,
           pc[c] = "commit", ~job[c].mayGoNegative
    PROVE  BalanceIn(entry', job[c].seen.from) >= 0
<1>1. PICK from \in Treasuries, to \in Treasuries, n \in Nat, x \in Documents :
        /\ from = job[c].seen.from /\ to = job[c].seen.to /\ n = job[c].seen.amount
        /\ x = job[c].doc /\ entry[x] = NotPosted
  BY AtCommitType DEF AtTransfer
<1>2. accountLock[from] = c /\ BalanceIn(entry, from) >= n
  BY <1>1 DEF Funded
<1>3. entry \in [Documents -> AnEntry] /\ entry' \in [Documents -> AnEntry]
  BY DEF IInv, Stored
<1>4. CASE ~ConfirmTransfer(c)
  <2>1. \A y \in Documents : Effect(entry'[y], from) = Effect(entry[y], from)
    BY <1>2, <1>4, AccountHeld
  <2>2. BalanceIn(entry', from) = BalanceIn(entry, from) /\ BalanceIn(entry, from) \in Int
    BY <1>3, <2>1, BalanceSame
  <2> QED  BY <1>1, <1>2, <2>2
<1>5. CASE ConfirmTransfer(c)
  <2>1. entry' = [entry EXCEPT ![x] = Entry(from, to, n)]
    BY <1>1, <1>5 DEF ConfirmTransfer, Post
  <2>2. entry'[x] = Entry(from, to, n) /\ \A y \in Documents \ {x} : entry'[y] = entry[y]
    BY <1>3, <2>1
  <2>3. /\ BalanceIn(entry', from) = BalanceIn(entry, from) + Effect(entry'[x], from)
        /\ BalanceIn(entry, from) \in Int
    BY <1>1, <1>3, <2>2, BalanceOfPosted
  <2>4. Effect(entry'[x], from) \in {n, -n}
    BY <2>2 DEF Effect, Entry
  <2> QED  BY <1>1, <1>2, <2>3, <2>4
<1> QED  BY <1>4, <1>5

(* A transfer from a treasury that must not become negative leaves it with *)
(* no less than nothing, whatever else is posted, reversed or confirmed    *)
(* meanwhile (treasury-transfers.service.ts:187).                          *)
THEOREM NeverOverdrawn == Spec => NoOverdraft
<1>1. IInv /\ Funded /\ [Next]_vars => (IInv /\ Funded)'
  BY InvNext, FundedNext
<1>2. Init => IInv /\ Funded
  BY InvInit DEF Init, TreasuryInit, Funded
<1>3. IInv /\ IInv' /\ Funded /\ [Next]_vars =>
        [\A c \in Handlers :
           pc[c] = "commit" /\ entry'[job[c].doc] # entry[job[c].doc] /\ ~job[c].mayGoNegative =>
             BalanceIn(entry', job[c].seen.from) >= 0]_treasuryVars
  BY CommitLeavesEnough
<1> QED  BY <1>1, <1>2, <1>3, PTL DEF Spec, NoOverdraft

=============================================================================
