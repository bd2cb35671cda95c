----------------------- MODULE InventoryTransfersProofs -----------------------
(***************************************************************************)
(* Proofs about InventoryTransfers, for any branches, variants, documents, *)
(* trades and handlers: the types, with stock never negative, that what is *)
(* posted is what was approved, that the company's goods stay what they    *)
(* were, and that it implements StockRelocation.                           *)
(*                                                                         *)
(* A posting reads again under its locks and writes later.  The invariant  *)
(* says of each handler what its locks protect (Posts, Tradings), and one  *)
(* lemma, OthersKeep, that no step of another handler disturbs it: so a    *)
(* proof about a step is about the handler that takes it.                  *)
(***************************************************************************)
EXTENDS InventoryTransfers, SumLemmas

AtEdit    == {"edit", "document", "delete", "cascade"}
AtTrade   == {"variant", "row", "share", "done"}
AtPosting == {"begin", "variants", "rows", "check", "post"}
Holding   == {"variants", "rows", "check", "post"}

Ops == {"confirm", "cancel"}

Stored ==
    /\ stock \in [Rows -> Nat] /\ wac \in [Variants -> Nat]
    /\ transfer \in [Transfers -> Document]
    /\ posted \in [Transfers -> [Rows -> Int]] /\ returned \in [Transfers -> [Rows -> Int]]
    /\ \A a \in approvals : a.op \in Ops /\ a.transfer \in Transfers
    /\ previews \in Nat

Control ==
    /\ docLock \in [Transfers -> Handlers \cup {NoOne}]
    /\ lineLock \in [Transfers -> Handlers \cup {NoOne}]
    /\ variantLock \in [Variants -> Handlers \cup {NoOne}]
    /\ variantShare \in [Variants -> SUBSET Handlers]
    /\ rowLock \in [Rows -> Handlers \cup {NoOne}]
    /\ pc \in [Handlers -> {"idle"} \cup AtEdit \cup AtTrade \cup AtPosting]
    /\ job = [c \in Handlers |-> job[c]]
    /\ started \in Nat

(* A handler serves a request of the kind its place is for.                *)
AtPlace(c) ==
    /\ pc[c] = "idle" => job[c] = Idle
    /\ pc[c] \in AtEdit => job[c] \in [op : {"update", "delete"}, transfer : Transfers]
    /\ pc[c] \in {"edit", "document"} => job[c].op = "update"
    /\ pc[c] \in AtTrade => job[c] \in Trades
    /\ pc[c] \in AtPosting =>
         /\ job[c].op \in Ops /\ job[c].transfer \in Transfers /\ job[c].key \in Keys
         /\ pc[c] # "post" =>
              job[c] = [op |-> job[c].op, transfer |-> job[c].transfer,
                        approval |-> job[c].approval, key |-> job[c].key, try |-> job[c].try]

(* What a deletion or a posting holds, and what it therefore knows.        *)
Posts(c) ==
    /\ pc[c] = "cascade" =>
         docLock[job[c].transfer] = c /\ transfer[job[c].transfer].status = "DRAFT"
    /\ pc[c] \in Holding =>
         /\ docLock[job[c].transfer] = c
         /\ transfer[job[c].transfer].status = IF job[c].op = "cancel" THEN "CONFIRMED" ELSE "DRAFT"
    /\ pc[c] \in {"rows", "check", "post"} => \A v \in DocLines(c) : variantLock[v] = c
    /\ pc[c] \in {"check", "post"} => \A r \in DocRows(c) : rowLock[r] = c
    /\ pc[c] = "post" =>
         /\ Preview(job[c].op, job[c].transfer) = job[c].approval
         /\ ~Blocking(job[c].approval)

Standing(t) == transfer[t].status \in {"DRAFT", "CONFIRMED"}

(* What a trade holds.                                                     *)
Tradings(c) ==
    /\ pc[c] \in {"row", "share", "done"} /\ job[c].op = "costing" =>
         variantLock[job[c].row[2]] = c
    /\ pc[c] \in {"share", "done"} => rowLock[job[c].row] = c

(* What a document has moved.  Lines that were replaced after the posting  *)
(* have no cost, which blocks the cancellation.                            *)
Moved(t) ==
    /\ transfer[t].status \in {"NONE", "DRAFT", "DELETED"} => posted[t] = Nothing
    /\ transfer[t].status # "CANCELLED" => returned[t] = Nothing
    /\ transfer[t].status = "CONFIRMED" =>
         posted[t] = Pair(transfer[t].body) \/ transfer[t].cost = Free

Handled(c) == AtPlace(c) /\ Posts(c) /\ Tradings(c)

IInv ==
    /\ Stored
    /\ Control
    /\ \A c \in Handlers : Handled(c)
    /\ \A t \in Transfers : Moved(t)

-----------------------------------------------------------------------------
(* The preview, and what a posting moves.                                  *)

LEMMA NoTransferType == NoTransfer \in Document
<1>1. (CHOOSE d \in Bodies : TRUE) \in Bodies
  BY TransferAssumption
<1> QED  BY <1>1 DEF NoTransfer, Document, Free

LEMMA InvInit == Init => IInv
<1> SUFFICES ASSUME Init PROVE IInv
  OBVIOUS
<1> USE TransferAssumption
<1>1. NoTransfer \in Document
  BY NoTransferType
<1>2. Stored
  BY <1>1 DEF Init, Stored, Nothing
<1>3. Control
  BY DEF Init, Control
<1>4. \A c \in Handlers : Handled(c)
  BY DEF Init, Handled, AtPlace, Posts, Tradings, AtEdit, AtTrade, AtPosting, Holding
<1>5. \A t \in Transfers : Moved(t)
  BY DEF Init, Moved, NoTransfer
<1> QED  BY <1>2, <1>3, <1>4, <1>5 DEF IInv

(* A preview depends on its document, and on cost and stock of its lines.  *)
LEMMA PreviewStays ==
    ASSUME NEW op \in Ops, NEW t \in Transfers, IInv,
           transfer'[t] = transfer[t],
           \A v \in Lines(transfer[t].body) : wac'[v] = wac[v],
           \A r \in {transfer[t].body.from, transfer[t].body.to} \X Lines(transfer[t].body) :
              stock'[r] = stock[r]
    PROVE  Preview(op, t)' = Preview(op, t)
<1> DEFINE body == transfer[t].body
<1>1. body \in Body
  BY TransferAssumption DEF IInv, Stored, Document
<1>2. Direction(op, body)' = Direction(op, body)
  BY DEF Direction
<1>3. Lines(Direction(op, body)) = Lines(body)
  BY <1>1 DEF Direction, Lines, Body
<1>4. {Direction(op, body).from, Direction(op, body).to} = {body.from, body.to}
  BY <1>1 DEF Direction, Body
<1>5. \A v \in Lines(body) : CostOf(op, t, v)' = CostOf(op, t, v)
  BY DEF CostOf
<1> DEFINE d == Direction(op, body)
<1>6. [v \in Lines(d) |-> CostOf(op, t, v)]' = [v \in Lines(d) |-> CostOf(op, t, v)]
  BY <1>2, <1>3, <1>5
<1>7. [r \in {d.from, d.to} \X Lines(d) |-> stock[r]]' = [r \in {d.from, d.to} \X Lines(d) |-> stock[r]]
  BY <1>2, <1>3, <1>4
<1> QED  BY <1>2, <1>6, <1>7 DEF Preview


(* What a posting is about to write: it takes from one row of each line    *)
(* what it brings to another, and never more than there is.                *)
LEMMA PreviewOf ==
    ASSUME NEW op \in Ops, NEW t \in Transfers, IInv
    PROVE  /\ Preview(op, t).op = op /\ Preview(op, t).transfer = t
           /\ Preview(op, t).version = transfer[t].version
           /\ Preview(op, t).body = Direction(op, transfer[t].body)
           /\ DOMAIN Preview(op, t).cost = Lines(Direction(op, transfer[t].body))
           /\ \A v \in Lines(Direction(op, transfer[t].body)) :
                Preview(op, t).cost[v] = CostOf(op, t, v)
           /\ \A b \in {transfer[t].body.from, transfer[t].body.to},
                 v \in Lines(Direction(op, transfer[t].body)) :
                Preview(op, t).stock[<<b, v>>] = stock[<<b, v>>]
<1>1. PICK d \in {Direction(op, transfer[t].body)} : d = Direction(op, transfer[t].body)
  OBVIOUS
<1>2. {d.from, d.to} = {transfer[t].body.from, transfer[t].body.to}
  BY <1>1, TransferAssumption DEF Direction, IInv, Stored, Document, Body
<1>3. PICK p \in {Preview(op, t)} : p = Preview(op, t)
  OBVIOUS
<1>4. p = [op |-> op, transfer |-> t, version |-> transfer[t].version, body |-> d,
           cost  |-> [v \in Lines(d) |-> CostOf(op, t, v)],
           stock |-> [r \in {d.from, d.to} \X Lines(d) |-> stock[r]]]
  BY <1>1, <1>3 DEF Preview
<1>5. \A b \in {d.from, d.to}, v \in Lines(d) : p.stock[<<b, v>>] = stock[<<b, v>>]
  BY <1>4
<1>6. /\ p.op = op /\ p.transfer = t /\ p.version = transfer[t].version /\ p.body = d
      /\ DOMAIN p.cost = Lines(d) /\ \A v \in Lines(d) : p.cost[v] = CostOf(op, t, v)
  BY <1>4
<1>7. d = Direction(op, transfer[t].body) /\ p = Preview(op, t)
  BY <1>1, <1>3
<1> QED  BY <1>2, <1>5, <1>6, <1>7

LEMMA Directed ==
    ASSUME NEW op \in Ops, NEW t \in Transfers, IInv
    PROVE  /\ Direction(op, transfer[t].body) \in Body
           /\ Lines(Direction(op, transfer[t].body)) = Lines(transfer[t].body)
           /\ Direction(op, transfer[t].body).from # Direction(op, transfer[t].body).to
           /\ Lines(transfer[t].body) # {}
           /\ Lines(transfer[t].body) \subseteq Variants
<1>1. transfer[t].body \in Bodies /\ transfer[t].body \in Body
  BY TransferAssumption DEF IInv, Stored, Document
<1>2. transfer[t].body.from # transfer[t].body.to
      /\ \E v \in Variants : transfer[t].body.boards[v] > 0
  BY <1>1, TransferAssumption
<1> QED  BY <1>1, <1>2 DEF Direction, Lines, Body

LEMMA OfTrade ==
    ASSUME NEW m \in Trades
    PROVE  /\ m.row \in Rows /\ m.row[1] \in Branches /\ m.row[2] \in Variants
           /\ m.row = <<m.row[1], m.row[2]>> /\ m.boards \in Int /\ m.op \in {"engine", "costing"}
<1>1. m \in Trade
  BY TransferAssumption
<1>2. m.row \in Rows
  BY <1>1 DEF Trade
<1> QED  BY <1>1, <1>2 DEF Trade, Rows

(* Nobody's step disturbs what another handler's locks protect.            *)
LEMMA OthersKeep ==
    ASSUME NEW c, IInv,
           \A d \in Handlers \ {c} : pc'[d] = pc[d] /\ job'[d] = job[d],
           \A d \in Handlers \ {c} :
             /\ \A t \in Transfers : docLock[t] = d =>
                  docLock'[t] = d /\ (Standing(t) => transfer'[t] = transfer[t])
             /\ \A v \in Variants : variantLock[v] = d => variantLock'[v] = d /\ wac'[v] = wac[v]
             /\ \A r \in Rows : rowLock[r] = d => rowLock'[r] = d /\ stock'[r] = stock[r]
    PROVE  \A d \in Handlers \ {c} : Handled(d)'
<1> SUFFICES ASSUME NEW d \in Handlers \ {c} PROVE Handled(d)'
  OBVIOUS
<1>1. Handled(d) /\ pc'[d] = pc[d] /\ job'[d] = job[d]
  BY DEF IInv
<1>2. AtPlace(d)'
  BY <1>1 DEF Handled, AtPlace
<1>3. Tradings(d)'
  <2>1. CASE pc[d] \in {"row", "share", "done"}
    <3>1. job[d].row \in Rows /\ job[d].row[2] \in Variants
      <4>1. job[d] \in Trades
        BY <1>1, <2>1 DEF Handled, AtPlace, AtTrade
      <4> QED  BY <4>1, OfTrade
    <3>2. PICK r \in Rows, v \in Variants : r = job[d].row /\ v = job[d].row[2]
      BY <3>1
    <3>3. /\ variantLock[v] = d => variantLock'[v] = d
          /\ rowLock[r] = d => rowLock'[r] = d
      OBVIOUS
    <3>4. Tradings(d)
      BY <1>1 DEF Handled
    <3> QED  BY <1>1, <3>2, <3>3, <3>4 DEF Tradings
  <2> QED  BY <1>1, <2>1 DEF Tradings
<1>4. Posts(d)'
  <2>1. CASE pc[d] \in Holding
    <3>1. PICK t \in Transfers : t = job[d].transfer
      BY <1>1, <2>1 DEF Handled, AtPlace, AtPosting, Holding
    <3>2. PICK op \in Ops : op = job[d].op
      BY <1>1, <2>1 DEF Handled, AtPlace, AtPosting, Holding
    <3>3. docLock'[t] = d /\ transfer'[t] = transfer[t]
      BY <1>1, <2>1, <3>1 DEF Handled, Posts, Standing
    <3>4. DocLines(d)' = DocLines(d) /\ DocRows(d)' = DocRows(d)
      BY <1>1, <3>1, <3>3 DEF DocLines, DocRows
    <3>5. DocLines(d) \subseteq Variants /\ DocRows(d) \subseteq Rows
      BY <3>1, TransferAssumption DEF DocLines, DocRows, Lines, Rows, Body, IInv, Stored, Document
    <3>6. pc[d] \in {"rows", "check", "post"} =>
            \A v \in DocLines(d) : variantLock'[v] = d /\ wac'[v] = wac[v]
      BY <1>1, <3>5 DEF Handled, Posts
    <3>7. pc[d] \in {"check", "post"} =>
            \A r \in DocRows(d) : rowLock'[r] = d /\ stock'[r] = stock[r]
      BY <1>1, <3>5 DEF Handled, Posts
    <3>8. pc[d] = "post" => Preview(op, t)' = Preview(op, t)
      BY <3>1, <3>3, <3>6, <3>7, PreviewStays DEF DocLines, DocRows
    <3>9. pc[d] = "post" => Preview(job[d].op, job[d].transfer)' = job'[d].approval
                            /\ ~Blocking(job'[d].approval)
      BY <1>1, <3>1, <3>2, <3>8 DEF Handled, Posts
    <3>10. pc'[d] = "post" => (Preview(job[d].op, job[d].transfer) = job[d].approval)'
                              /\ (~Blocking(job[d].approval))'
      BY <1>1, <3>9 DEF Blocking
    <3> QED  BY <1>1, <3>1, <3>3, <3>4, <3>6, <3>7, <3>10 DEF Handled, Posts
  <2>2. CASE pc[d] = "cascade"
    <3>1. PICK t \in Transfers : t = job[d].transfer
      BY <1>1, <2>2 DEF Handled, AtPlace, AtEdit
    <3>2. docLock[t] = d /\ transfer[t].status = "DRAFT"
      BY <1>1, <2>2, <3>1 DEF Handled, Posts
    <3>3. docLock'[t] = d /\ transfer'[t] = transfer[t]
      BY <3>2 DEF Standing
    <3> QED  BY <1>1, <2>2, <3>1, <3>2, <3>3 DEF Posts, Holding
  <2> QED  BY <1>1, <2>1, <2>2 DEF Posts, Holding
<1> QED  BY <1>2, <1>3, <1>4 DEF Handled

-----------------------------------------------------------------------------
(* The kinds of steps.                                                     *)

(* Locks that are there, and somebody else's, stay.                        *)
LEMMA ReleaseKeeps ==
    ASSUME IInv, NEW c \in Handlers, Release(c)
    PROVE  /\ docLock' \in [Transfers -> Handlers \cup {NoOne}]
           /\ lineLock' \in [Transfers -> Handlers \cup {NoOne}]
           /\ variantLock' \in [Variants -> Handlers \cup {NoOne}]
           /\ variantShare' \in [Variants -> SUBSET Handlers]
           /\ rowLock' \in [Rows -> Handlers \cup {NoOne}]
           /\ \A d \in Handlers \ {c} :
                /\ \A t \in Transfers : docLock[t] = d => docLock'[t] = d
                /\ \A v \in Variants : variantLock[v] = d => variantLock'[v] = d
                /\ \A r \in Rows : rowLock[r] = d => rowLock'[r] = d
BY DEF Release, IInv, Control

LEMMA EndKeepsInv ==
    ASSUME IInv, NEW c \in Handlers, End(c), Stored', \A t \in Transfers : Moved(t)',
           \A d \in Handlers \ {c} :
             /\ \A t \in Transfers : docLock[t] = d /\ Standing(t) => transfer'[t] = transfer[t]
             /\ \A v \in Variants : variantLock[v] = d => wac'[v] = wac[v]
             /\ \A r \in Rows : rowLock[r] = d => stock'[r] = stock[r]
    PROVE  IInv'
<1>1. pc' = [pc EXCEPT ![c] = "idle"] /\ job' = [job EXCEPT ![c] = Idle] /\ Release(c)
      /\ started' = started
  BY DEF End
<1>2. Control'
  BY <1>1, ReleaseKeeps DEF IInv, Control
<1>3. pc'[c] = "idle" /\ job'[c] = Idle
  BY <1>1 DEF IInv, Control
<1>4. Handled(c)'
  BY <1>3 DEF Handled, AtPlace, Posts, Tradings, AtEdit, AtTrade, AtPosting, Holding
<1>5. \A d \in Handlers \ {c} : pc'[d] = pc[d] /\ job'[d] = job[d]
  BY <1>1 DEF IInv, Control
<1>6. \A d \in Handlers \ {c} :
        /\ \A t \in Transfers : docLock[t] = d =>
             docLock'[t] = d /\ (Standing(t) => transfer'[t] = transfer[t])
        /\ \A v \in Variants : variantLock[v] = d => variantLock'[v] = d /\ wac'[v] = wac[v]
        /\ \A r \in Rows : rowLock[r] = d => rowLock'[r] = d /\ stock'[r] = stock[r]
  BY <1>1, ReleaseKeeps
<1>7. \A d \in Handlers \ {c} : Handled(d)'
  BY <1>5, <1>6, OthersKeep
<1> QED  BY <1>2, <1>4, <1>7 DEF IInv

(* Moved is about documents only.                                          *)
LEMMA StillMoved ==
    ASSUME IInv, UNCHANGED <<transfer, posted, returned>>
    PROVE  \A t \in Transfers : Moved(t)'
BY DEF IInv, Moved

LEMMA StillStored ==
    ASSUME IInv, UNCHANGED <<committed, approvals, previews>>
    PROVE  Stored'
BY DEF IInv, Stored, committed

LEMMA RollbackKeepsInv ==
    ASSUME IInv, NEW c \in Handlers, Rollback(c)
    PROVE  IInv'
<1>1. End(c) /\ UNCHANGED <<committed, approvals, previews>>
  BY DEF Rollback, End
<1> QED  BY <1>1, EndKeepsInv, StillStored, StillMoved DEF committed

(* A transaction of nobody in particular.                                  *)
LEMMA AtOnceKeepsInv ==
    ASSUME IInv, UNCHANGED <<stock, wac, locks, pc, job, started>>, Stored',
           \A t \in Transfers : Moved(t)',
           \A t \in Transfers : docLock[t] \in Handlers /\ Standing(t) => transfer'[t] = transfer[t]
    PROVE  IInv'
<1>1. NoOne \notin Handlers
  BY TransferAssumption
<1>2. \A d \in Handlers \ {NoOne} : Handled(d)'
  BY OthersKeep DEF locks
<1>3. Control'
  BY DEF IInv, Control, locks
<1> QED  BY <1>1, <1>2, <1>3 DEF IInv

(* A handler begins.                                                       *)
LEMMA StartKeepsInv ==
    ASSUME IInv, NEW c \in Handlers, NEW where \in {"edit", "delete", "begin", "variant", "row"},
           NEW request, Start(c, where, request),
           where \in AtEdit => request \in [op : {"update", "delete"}, transfer : Transfers],
           where = "edit" => request.op = "update",
           where \in AtTrade => request \in Trades,
           where = "row" => request.op = "engine",
           where = "begin" =>
             /\ request.op \in Ops /\ request.transfer \in Transfers /\ request.key \in Keys
             /\ request = [op |-> request.op, transfer |-> request.transfer,
                           approval |-> request.approval, key |-> request.key, try |-> request.try]
    PROVE  IInv'
<1>1. /\ pc' = [pc EXCEPT ![c] = where] /\ job' = [job EXCEPT ![c] = request]
      /\ started' = started + 1 /\ UNCHANGED <<committed, approvals, previews, locks>>
  BY DEF Start
<1>2. Control'
  <2>1. pc' \in [Handlers -> {"idle"} \cup AtEdit \cup AtTrade \cup AtPosting]
    BY <1>1 DEF IInv, Control, AtEdit, AtTrade, AtPosting
  <2>2. (job = [d \in Handlers |-> job[d]])'
    BY <1>1 DEF IInv, Control
  <2> QED  BY <1>1, <2>1, <2>2 DEF IInv, Control, locks
<1>3. pc'[c] = where /\ job'[c] = request
  BY <1>1 DEF IInv, Control
<1>4. AtPlace(c)'
  BY <1>3 DEF AtPlace, AtEdit, AtTrade, AtPosting
<1>5. Posts(c)' /\ Tradings(c)'
  BY <1>3 DEF Posts, Tradings, Holding
<1>6. \A d \in Handlers \ {c} : pc'[d] = pc[d] /\ job'[d] = job[d]
  BY <1>1 DEF IInv, Control
<1>7. \A d \in Handlers \ {c} : Handled(d)'
  BY <1>1, <1>6, OthersKeep DEF locks, committed
<1> QED  BY <1>1, <1>2, <1>4, <1>5, <1>7, StillStored, StillMoved DEF IInv, Handled, committed

(* A handler takes a lock, or goes on with those it has.                   *)
LEMMA GoOnKeepsInv ==
    ASSUME IInv, NEW c \in Handlers, UNCHANGED <<committed, approvals, previews>>,
           Control', Handled(c)',
           \A d \in Handlers \ {c} :
             /\ pc'[d] = pc[d] /\ job'[d] = job[d]
             /\ \A t \in Transfers : docLock[t] = d => docLock'[t] = d
             /\ \A v \in Variants : variantLock[v] = d => variantLock'[v] = d
             /\ \A r \in Rows : rowLock[r] = d => rowLock'[r] = d
    PROVE  IInv'
<1>1. \A d \in Handlers \ {c} : Handled(d)'
  BY OthersKeep DEF committed
<1> QED  BY <1>1, StillStored, StillMoved DEF IInv, committed

-----------------------------------------------------------------------------
(* Drafts and previews.                                                    *)

LEMMA CreateKeepsInv ==
    ASSUME IInv, NEW t \in Transfers, Create(t)
    PROVE  IInv'
<1>1. PICK d \in Bodies :
        transfer' = [transfer EXCEPT ![t] = [NoTransfer EXCEPT !.status = "DRAFT", !.body = d]]
  BY DEF Create
<1>2. UNCHANGED <<stock, wac, posted, returned, approvals, previews, locks, pc, job, started>>
      /\ transfer[t].status = "NONE"
  BY DEF Create
<1>3. PICK x \in Document : /\ x.status = "DRAFT" /\ x.body = d
                            /\ transfer' = [transfer EXCEPT ![t] = x]
  <2> DEFINE new == [NoTransfer EXCEPT !.status = "DRAFT", !.body = d]
  <2>1. new \in Document /\ new.status = "DRAFT" /\ new.body = d
    BY NoTransferType DEF Document
  <2> HIDE DEF new
  <2> QED  BY <1>1, <2>1 DEF new
<1>4. transfer'[t].status = "DRAFT" /\ \A u \in Transfers \ {t} : transfer'[u] = transfer[u]
  BY <1>3 DEF IInv, Stored
<1>5. Stored'
  BY <1>2, <1>3 DEF IInv, Stored
<1>6. ASSUME NEW u \in Transfers PROVE Moved(u)'
  BY <1>2, <1>4 DEF IInv, Moved
<1>7. ASSUME NEW u \in Transfers, Standing(u) PROVE transfer'[u] = transfer[u]
  BY <1>2, <1>4, <1>7 DEF Standing
<1> QED  BY <1>2, <1>5, <1>6, <1>7, AtOnceKeepsInv

LEMMA TakePreviewKeepsInv ==
    ASSUME IInv, NEW t \in Transfers, NEW op \in Ops, TakePreview(op, t)
    PROVE  IInv'
<1>1. /\ approvals' = approvals \cup {Preview(op, t)} /\ previews' = previews + 1
      /\ UNCHANGED <<committed, locks, pc, job, started>>
  BY DEF TakePreview
<1>2. Preview(op, t).op = op /\ Preview(op, t).transfer = t
  BY PreviewOf
<1>3. Stored'
  BY <1>1, <1>2 DEF IInv, Stored, committed
<1> QED  BY <1>1, <1>3, StillMoved, AtOnceKeepsInv DEF committed

LEMMA ReadKeepsInv ==
    ASSUME IInv, NEW c \in Handlers, NEW t \in Transfers,
           ReadForUpdate(c, t) \/ ReadForDelete(c, t)
    PROVE  IInv'
<1>1. PICK where \in {"edit", "delete"}, request \in [op : {"update", "delete"}, transfer : Transfers] :
        Start(c, where, request) /\ (where = "edit" => request.op = "update")
  <2>1. CASE ReadForUpdate(c, t)
    <3> DEFINE request == [op |-> "update", transfer |-> t]
    <3>1. /\ Start(c, "edit", request) /\ request \in [op : {"update", "delete"}, transfer : Transfers]
          /\ request.op = "update"
      BY <2>1 DEF ReadForUpdate
    <3> HIDE DEF request
    <3> QED  BY <3>1
  <2>2. CASE ReadForDelete(c, t)
    <3> DEFINE request == [op |-> "delete", transfer |-> t]
    <3>1. Start(c, "delete", request) /\ request \in [op : {"update", "delete"}, transfer : Transfers]
      BY <2>2 DEF ReadForDelete
    <3> HIDE DEF request
    <3> QED  BY <3>1
  <2> QED  BY <2>1, <2>2
<1>2. where \in {"edit", "delete", "begin", "variant", "row"} /\ where \notin AtTrade
      /\ where # "row" /\ where # "begin"
  BY DEF AtTrade
<1> QED  BY <1>1, <1>2, StartKeepsInv

(* Lines that replace others have no cost, whatever has been posted.       *)
LEMMA UpdateKeepsInv ==
    ASSUME IInv, NEW c \in Handlers, Update(c)
    PROVE  IInv'
<1>1. PICK t \in Transfers : t = job[c].transfer
  BY DEF IInv, Handled, AtPlace, Update, AtEdit
<1>2. PICK d \in Bodies :
        transfer' = [transfer EXCEPT ![t].body = d, ![t].cost = Free, ![t].version = @ + 1]
  BY <1>1 DEF Update
<1>3. /\ docLock[t] = NoOne /\ End(c) /\ UNCHANGED <<stock, wac, posted, returned, approvals, previews>>
  BY <1>1 DEF Update, End
<1>4. transfer[t] \in Document /\ Free \in [Variants -> Nat]
  BY DEF IInv, Stored, Free
<1> DEFINE new == [transfer[t] EXCEPT !.body = d, !.cost = Free, !.version = @ + 1]
<1>5. /\ new \in Document /\ new.status = transfer[t].status /\ new.cost = Free
  <2>1. PICK n \in Nat : n = transfer[t].version + 1
    BY <1>4 DEF Document
  <2>2. PICK x \in Document, f \in [Variants -> Nat] : x = transfer[t] /\ f = Free
    BY <1>4
  <2> DEFINE y == [x EXCEPT !.body = d, !.cost = f, !.version = n]
  <2>3. y \in Document /\ y.status = x.status /\ y.cost = f
    BY DEF Document
  <2>4. y = new
    BY <2>1, <2>2
  <2> HIDE DEF y, new
  <2> QED  BY <2>2, <2>3, <2>4
<1>6. transfer' = [transfer EXCEPT ![t] = new]
  BY <1>2
<1> HIDE DEF new
<1>7. /\ transfer'[t] = new /\ \A u \in Transfers \ {t} : transfer'[u] = transfer[u]
      /\ transfer' \in [Transfers -> Document]
  BY <1>5, <1>6 DEF IInv, Stored
<1>8. Stored'
  BY <1>3, <1>7 DEF IInv, Stored
<1>9. ASSUME NEW u \in Transfers PROVE Moved(u)'
  BY <1>3, <1>5, <1>7 DEF IInv, Moved
<1>10. NoOne \notin Handlers
  BY TransferAssumption
<1> QED  BY <1>3, <1>7, <1>8, <1>9, <1>10, EndKeepsInv

LEMMA DeleteKeepsInv ==
    ASSUME IInv, NEW c \in Handlers, Delete(c)
    PROVE  IInv'
<1>1. PICK t \in Transfers : t = job[c].transfer
  BY DEF IInv, Handled, AtPlace, Delete, AtEdit
<1>2. /\ End(c) /\ UNCHANGED <<stock, wac, posted, returned, approvals, previews>>
      /\ transfer' = [transfer EXCEPT ![t].status = "DELETED"]
  BY <1>1 DEF Delete, End
<1>9. docLock[t] = c /\ transfer[t].status = "DRAFT"
  BY <1>1 DEF Delete, IInv, Handled, Posts
<1> DEFINE new == [transfer[t] EXCEPT !.status = "DELETED"]
<1>3. transfer[t] \in Document
  BY DEF IInv, Stored
<1>4. new \in Document /\ new.status = "DELETED"
  BY <1>3 DEF Document
<1>5. transfer' = [transfer EXCEPT ![t] = new]
  BY <1>2
<1> HIDE DEF new
<1>6. /\ transfer'[t] = new /\ \A u \in Transfers \ {t} : transfer'[u] = transfer[u]
      /\ transfer' \in [Transfers -> Document]
  BY <1>4, <1>5 DEF IInv, Stored
<1>7. Stored'
  BY <1>2, <1>6 DEF IInv, Stored
<1>8. ASSUME NEW u \in Transfers PROVE Moved(u)'
  BY <1>2, <1>4, <1>6, <1>9 DEF IInv, Moved
<1> QED  BY <1>2, <1>6, <1>7, <1>8, <1>9, EndKeepsInv

(* An edit takes the lines, a deletion the document.                       *)
LEMMA DraftLockKeepsInv ==
    ASSUME IInv, NEW c \in Handlers, DeleteLines(c) \/ LockForDelete(c)
    PROVE  IInv'
<1>1. PICK t \in Transfers : t = job[c].transfer
  BY DEF IInv, Handled, AtPlace, DeleteLines, LockForDelete, AtEdit
<1>2. NoOne \notin Handlers /\ Handled(c)
  BY TransferAssumption DEF IInv
<1>3. PICK place \in {"document", "cascade"} : pc' = [pc EXCEPT ![c] = place]
      /\ \/ /\ pc[c] = "edit" /\ place = "document" /\ lineLock' = [lineLock EXCEPT ![t] = c]
            /\ UNCHANGED docLock
         \/ /\ pc[c] = "delete" /\ place = "cascade" /\ docLock[t] = NoOne
            /\ transfer[t].status = "DRAFT"
            /\ docLock' = [docLock EXCEPT ![t] = c] /\ UNCHANGED lineLock
  <2>1. CASE DeleteLines(c)
    BY <1>1, <2>1 DEF DeleteLines, Goto
  <2>2. CASE LockForDelete(c)
    BY <1>1, <2>2 DEF LockForDelete, Deletable, Goto
  <2> QED  BY <2>1, <2>2
<1>4. UNCHANGED <<committed, approvals, previews, variantLock, variantShare, rowLock, job, started>>
  BY DEF DeleteLines, LockForDelete
<1>5. Control'
  <2>1. pc' \in [Handlers -> {"idle"} \cup AtEdit \cup AtTrade \cup AtPosting]
    BY <1>3 DEF IInv, Control, AtEdit
  <2>2. docLock' \in [Transfers -> Handlers \cup {NoOne}] /\ lineLock' \in [Transfers -> Handlers \cup {NoOne}]
    BY <1>3 DEF IInv, Control
  <2> QED  BY <1>4, <2>1, <2>2 DEF IInv, Control
<1>6. pc'[c] = place /\ job'[c] = job[c] /\ transfer' = transfer
  BY <1>3, <1>4 DEF IInv, Control, committed
<1>7. AtPlace(c)'
  BY <1>2, <1>3, <1>6 DEF Handled, AtPlace, AtEdit, AtTrade, AtPosting
<1>8. place = "cascade" => docLock'[t] = c /\ transfer[t].status = "DRAFT"
  BY <1>3 DEF IInv, Control
<1>9. Posts(c)' /\ Tradings(c)'
  BY <1>1, <1>6, <1>8 DEF Posts, Tradings, Holding
<1>10. ASSUME NEW d \in Handlers \ {c}
       PROVE  /\ pc'[d] = pc[d] /\ job'[d] = job[d]
              /\ \A u \in Transfers : docLock[u] = d => docLock'[u] = d
  BY <1>2, <1>3, <1>4 DEF IInv, Control
<1> QED  BY <1>4, <1>5, <1>7, <1>9, <1>10, GoOnKeepsInv DEF Handled

-----------------------------------------------------------------------------
(* Postings.                                                               *)

LEMMA ReadForPostingKeepsInv ==
    ASSUME IInv, NEW c \in Handlers, NEW a \in approvals, NEW k \in Keys, ReadForPosting(c, a, k)
    PROVE  IInv'
<1> DEFINE request == [op |-> a.op, transfer |-> a.transfer, approval |-> a, key |-> k, try |-> 1]
<1>1. Start(c, "begin", request)
  BY DEF ReadForPosting
<1>2. a.op \in Ops /\ a.transfer \in Transfers
  BY DEF IInv, Stored
<1>3. /\ request.op \in Ops /\ request.transfer \in Transfers /\ request.key \in Keys
      /\ request = [op |-> request.op, transfer |-> request.transfer,
                    approval |-> request.approval, key |-> request.key, try |-> request.try]
  BY <1>2
<1>4. "begin" \notin AtEdit /\ "begin" \notin AtTrade
  BY DEF AtEdit, AtTrade
<1> HIDE DEF request
<1> QED  BY <1>1, <1>3, <1>4, StartKeepsInv

(* What a posting is, and what it holds already.                           *)
LEMMA PostingOf ==
    ASSUME IInv, NEW c \in Handlers, pc[c] \in AtPosting
    PROVE  /\ job[c].op \in Ops /\ job[c].transfer \in Transfers /\ job[c].key \in Keys
           /\ DocLines(c) \subseteq Variants
           /\ DocRows(c) \subseteq Rows
<1>1. job[c].op \in Ops /\ job[c].transfer \in Transfers /\ job[c].key \in Keys
  BY DEF IInv, Handled, AtPlace
<1>2. transfer[job[c].transfer].body \in Body
  BY <1>1, TransferAssumption DEF IInv, Stored, Document
<1> QED  BY <1>1, <1>2 DEF DocLines, DocRows, Lines, Rows, Body

LEMMA LockDocumentKeepsInv ==
    ASSUME IInv, NEW c \in Handlers, LockDocument(c)
    PROVE  IInv'
<1>1. CASE Rollback(c)
  BY <1>1, RollbackKeepsInv
<1>2. CASE ~Rollback(c)
  <2>1. PICK t \in Transfers : t = job[c].transfer
    BY PostingOf DEF LockDocument, AtPosting
  <2>2. /\ pc[c] = "begin" /\ docLock[t] = NoOne
        /\ Postable(job[c].op, t, job[c].approval.version)
        /\ docLock' = [docLock EXCEPT ![t] = c] /\ pc' = [pc EXCEPT ![c] = "variants"]
        /\ UNCHANGED <<committed, approvals, previews, lineLock, variantLock, variantShare, rowLock, job,
                       started>>
    BY <1>2, <2>1 DEF LockDocument, Goto
  <2>3. Control'
    BY <2>2 DEF IInv, Control, AtEdit, AtTrade, AtPosting
  <2>4. pc'[c] = "variants" /\ job'[c] = job[c] /\ docLock'[t] = c /\ transfer' = transfer
    BY <2>2 DEF IInv, Control, committed
  <2>5. Handled(c)
    BY DEF IInv
  <2>6. AtPlace(c)'
    BY <2>2, <2>4, <2>5 DEF Handled, AtPlace, AtEdit, AtTrade, AtPosting
  <2>7. transfer[t].status = IF job[c].op = "cancel" THEN "CONFIRMED" ELSE "DRAFT"
    BY <2>2 DEF Postable
  <2>8. Posts(c)' /\ Tradings(c)'
    BY <2>1, <2>4, <2>7 DEF Posts, Tradings
  <2>9. NoOne \notin Handlers
    BY TransferAssumption
  <2>10. ASSUME NEW d \in Handlers \ {c}
         PROVE  /\ pc'[d] = pc[d] /\ job'[d] = job[d]
                /\ \A u \in Transfers : docLock[u] = d => docLock'[u] = d
    BY <2>2, <2>9 DEF IInv, Control
  <2> QED  BY <2>2, <2>3, <2>6, <2>8, <2>10, GoOnKeepsInv DEF Handled
<1> QED  BY <1>1, <1>2

LEMMA LockVariantKeepsInv ==
    ASSUME IInv, NEW c \in Handlers, LockVariant(c)
    PROVE  IInv'
<1> DEFINE v == NextVariant(c, DocLines(c))
           place == IF \A w \in DocLines(c) \ {v} : variantLock[w] = c THEN "rows" ELSE "variants"
<1>1. /\ pc[c] = "variants" /\ variantLock[v] \in {c, NoOne}
      /\ variantLock' = [variantLock EXCEPT ![v] = c] /\ pc' = [pc EXCEPT ![c] = place]
      /\ UNCHANGED <<committed, approvals, previews, docLock, lineLock, variantShare, rowLock, job,
                     started>>
  BY DEF LockVariant, Goto, VariantFree
<1> HIDE DEF v
<1>2. place \in {"rows", "variants"}
      /\ (place = "rows" => \A w \in DocLines(c) \ {v} : variantLock[w] = c)
  OBVIOUS
<1> HIDE DEF place
<1>3. Control'
  <2>1. pc' \in [Handlers -> {"idle"} \cup AtEdit \cup AtTrade \cup AtPosting]
    BY <1>1, <1>2 DEF IInv, Control, AtPosting
  <2> QED  BY <1>1, <2>1 DEF IInv, Control
<1>4. pc'[c] = place /\ job'[c] = job[c] /\ transfer' = transfer /\ docLock' = docLock
  BY <1>1 DEF IInv, Control, committed
<1>5. Handled(c) /\ DocLines(c) \subseteq Variants
  BY <1>1, PostingOf DEF IInv, AtPosting
<1>6. AtPlace(c)'
  BY <1>1, <1>2, <1>4, <1>5 DEF Handled, AtPlace, AtEdit, AtTrade, AtPosting
<1>7. place = "rows" => \A w \in DocLines(c) : variantLock'[w] = c
  BY <1>1, <1>2, <1>5 DEF IInv, Control
<1>8. DocLines(c)' = DocLines(c)
  BY <1>4 DEF DocLines
<1>9. Posts(c)'
  BY <1>1, <1>2, <1>4, <1>5, <1>7, <1>8 DEF Handled, Posts, Holding
<1>10. Tradings(c)'
  BY <1>2, <1>4 DEF Tradings
<1>11. NoOne \notin Handlers
  BY TransferAssumption
<1>12. ASSUME NEW d \in Handlers \ {c}
       PROVE  /\ pc'[d] = pc[d] /\ job'[d] = job[d]
              /\ \A w \in Variants : variantLock[w] = d => variantLock'[w] = d
  BY <1>1, <1>11 DEF IInv, Control
<1> QED  BY <1>1, <1>3, <1>6, <1>9, <1>10, <1>12, GoOnKeepsInv DEF Handled

LEMMA LockRowKeepsInv ==
    ASSUME IInv, NEW c \in Handlers, LockRow(c)
    PROVE  IInv'
<1> DEFINE r == NextRow(c, DocRows(c))
           place == IF \A s \in DocRows(c) \ {r} : rowLock[s] = c THEN "check" ELSE "rows"
<1>1. /\ pc[c] = "rows" /\ rowLock[r] = NoOne
      /\ rowLock' = [rowLock EXCEPT ![r] = c] /\ pc' = [pc EXCEPT ![c] = place]
      /\ UNCHANGED <<committed, approvals, previews, docLock, lineLock, variantLock, variantShare, job,
                     started>>
  BY DEF LockRow, Goto
<1> HIDE DEF r
<1>2. place \in {"rows", "check"}
      /\ (place = "check" => \A s \in DocRows(c) \ {r} : rowLock[s] = c)
  OBVIOUS
<1> HIDE DEF place
<1>3. Control'
  <2>1. pc' \in [Handlers -> {"idle"} \cup AtEdit \cup AtTrade \cup AtPosting]
    BY <1>1, <1>2 DEF IInv, Control, AtPosting
  <2> QED  BY <1>1, <2>1 DEF IInv, Control
<1>4. pc'[c] = place /\ job'[c] = job[c] /\ transfer' = transfer /\ docLock' = docLock
      /\ variantLock' = variantLock
  BY <1>1 DEF IInv, Control, committed
<1>5. Handled(c) /\ DocRows(c) \subseteq Rows
  BY <1>1, PostingOf DEF IInv, AtPosting
<1>6. AtPlace(c)'
  BY <1>1, <1>2, <1>4, <1>5 DEF Handled, AtPlace, AtEdit, AtTrade, AtPosting
<1>7. place = "check" => \A s \in DocRows(c) : rowLock'[s] = c
  BY <1>1, <1>2, <1>5 DEF IInv, Control
<1>8. DocLines(c)' = DocLines(c) /\ DocRows(c)' = DocRows(c)
  BY <1>4 DEF DocLines, DocRows
<1>9. Posts(c)'
  BY <1>1, <1>2, <1>4, <1>5, <1>7, <1>8 DEF Handled, Posts, Holding
<1>10. Tradings(c)'
  BY <1>2, <1>4 DEF Tradings
<1>11. NoOne \notin Handlers
  BY TransferAssumption
<1>12. ASSUME NEW d \in Handlers \ {c}
       PROVE  /\ pc'[d] = pc[d] /\ job'[d] = job[d]
              /\ \A s \in Rows : rowLock[s] = d => rowLock'[s] = d
  BY <1>1, <1>11 DEF IInv, Control
<1> QED  BY <1>1, <1>3, <1>6, <1>9, <1>10, <1>12, GoOnKeepsInv DEF Handled

LEMMA CheckKeepsInv ==
    ASSUME IInv, NEW c \in Handlers, Check(c)
    PROVE  IInv'
<1>1. CASE Rollback(c)
  BY <1>1, RollbackKeepsInv
<1>2. CASE ~Rollback(c)
  <2> DEFINE p    == Preview(job[c].op, job[c].transfer)
             held == [v \in DOMAIN p.cost |-> CompanyBoards(stock, v)]
             new  == [op |-> job[c].op, transfer |-> job[c].transfer, approval |-> job[c].approval,
                      key |-> job[c].key, try |-> job[c].try, company |-> held]
  <2>1. /\ pc[c] = "check" /\ Usable(p, job[c].approval) /\ pc' = [pc EXCEPT ![c] = "post"]
        /\ job' = [job EXCEPT ![c] = new]
        /\ UNCHANGED <<committed, approvals, previews, locks, started>>
    BY <1>2 DEF Check, Goto
  <2>2. new.op = job[c].op /\ new.transfer = job[c].transfer /\ new.approval = job[c].approval
        /\ new.key = job[c].key
    OBVIOUS
  <2>3. p = job[c].approval /\ ~Blocking(job[c].approval)
    BY <2>1 DEF Usable
  <2> HIDE DEF new
  <2>4. Control'
    <3>1. pc' \in [Handlers -> {"idle"} \cup AtEdit \cup AtTrade \cup AtPosting]
      BY <2>1 DEF IInv, Control, AtPosting
    <3>2. (job = [d \in Handlers |-> job[d]])'
      BY <2>1 DEF IInv, Control
    <3> QED  BY <2>1, <3>1, <3>2 DEF IInv, Control, locks
  <2>5. pc'[c] = "post" /\ job'[c] = new /\ transfer' = transfer /\ stock' = stock /\ wac' = wac
        /\ docLock' = docLock /\ variantLock' = variantLock /\ rowLock' = rowLock
    BY <2>1 DEF IInv, Control, committed, locks
  <2>6. Handled(c)
    BY DEF IInv
  <2>7. AtPlace(c)'
    BY <2>1, <2>2, <2>5, <2>6 DEF Handled, AtPlace, AtEdit, AtTrade, AtPosting
  <2>8. DocLines(c)' = DocLines(c) /\ DocRows(c)' = DocRows(c)
    BY <2>2, <2>5 DEF DocLines, DocRows
  <2>9. PICK op \in Ops, t \in Transfers : op = job[c].op /\ t = job[c].transfer
    BY <2>1, PostingOf DEF AtPosting
  <2>10. Preview(op, t)' = Preview(op, t)
    BY <2>5, PreviewStays
  <2>11. (Preview(job[c].op, job[c].transfer) = job[c].approval)'
    <3>1. job'[c].op = op /\ job'[c].transfer = t /\ job'[c].approval = job[c].approval
      BY <2>2, <2>5, <2>9
    <3>2. Preview(op, t)' = job[c].approval
      BY <2>3, <2>9, <2>10
    <3> QED  BY <3>1, <3>2
  <2>12. (~Blocking(job[c].approval))'
    BY <2>2, <2>3, <2>5 DEF Blocking
  <2>13. Posts(c)'
    BY <2>1, <2>2, <2>5, <2>6, <2>8, <2>11, <2>12 DEF Handled, Posts, Holding
  <2>14. Tradings(c)'
    BY <2>5 DEF Tradings
  <2>15. ASSUME NEW d \in Handlers \ {c} PROVE pc'[d] = pc[d] /\ job'[d] = job[d]
    BY <2>1 DEF IInv, Control
  <2> QED  BY <2>1, <2>4, <2>5, <2>7, <2>13, <2>14, <2>15, GoOnKeepsInv DEF Handled
<1> QED  BY <1>1, <1>2

LEMMA PairOf ==
    ASSUME NEW d \in Body
    PROVE  /\ Pair(d) \in [Rows -> Int]
           /\ \A r \in Rows : r \notin {d.from, d.to} \X Lines(d) => Pair(d)[r] = 0
           /\ \A r \in Rows : r[1] # d.from => Pair(d)[r] >= 0
           /\ \A r \in Rows : Pair(d)[r] >= -d.boards[r[2]]
<1>1. \A r \in Rows : /\ r[1] \in Branches /\ r[2] \in Variants /\ r = <<r[1], r[2]>>
                      /\ d.boards[r[2]] \in Nat
  BY DEF Rows, Body
<1>2. Pair(d) = [r \in Rows |-> IF r[1] = d.to THEN d.boards[r[2]]
                               ELSE IF r[1] = d.from THEN -d.boards[r[2]] ELSE 0]
  BY DEF Pair
<1>3. \A r \in Rows : r \notin {d.from, d.to} \X Lines(d) =>
        r[1] \notin {d.from, d.to} \/ d.boards[r[2]] = 0
  BY <1>1 DEF Lines
<1> QED  BY <1>1, <1>2, <1>3

(* A posting that is about to write: its goods are there, and have a cost. *)
Ready(c, op, t, d) ==
    /\ job[c].approval.body = d
    /\ \A v \in Lines(d) : stock[<<d.from, v>>] >= d.boards[v] /\ CostOf(op, t, v) # 0
    /\ Plus(stock, Pair(d)) \in [Rows -> Nat]
    /\ \A r \in Rows : rowLock[r] # c => Plus(stock, Pair(d))[r] = stock[r]

LEMMA ReadyToPost ==
    ASSUME IInv, NEW c \in Handlers, pc[c] = "post", NEW op \in Ops, NEW t \in Transfers,
           op = job[c].op, t = job[c].transfer,
           NEW b \in Body, b = transfer[t].body, NEW d \in Body, d = Direction(op, b)
    PROVE  Ready(c, op, t, d)
<1>1. PICK p \in {Preview(op, t)} : p = Preview(op, t)
  OBVIOUS
<1>2. Handled(c) /\ stock \in [Rows -> Nat]
  BY DEF IInv, Stored
<1>3. p = job[c].approval /\ ~Blocking(p)
  BY <1>1, <1>2 DEF Handled, Posts
<1>4. p.body = d /\ DOMAIN p.cost = Lines(d)
      /\ (\A v \in Lines(d) : p.cost[v] = CostOf(op, t, v) /\ p.stock[<<d.from, v>>] = stock[<<d.from, v>>])
  <2>1. d.from \in {transfer[t].body.from, transfer[t].body.to}
    BY TransferAssumption DEF Direction, IInv, Stored, Document, Body
  <2> QED  BY <1>1, <2>1, PreviewOf
<1>5. Lines(d) \subseteq Variants /\ d.from \in Branches /\ d.boards \in [Variants -> Nat]
      /\ \A v \in Lines(d) : d.boards[v] > 0 /\ <<d.from, v>> \in Rows
  BY DEF Lines, Body, Rows
<1>6. ASSUME NEW v \in Lines(d)
      PROVE  stock[<<d.from, v>>] >= d.boards[v] /\ CostOf(op, t, v) # 0
  <2>1. ~(p.stock[<<p.body.from, v>>] < p.body.boards[v])
        /\ ~(p.cost[v] = 0 /\ p.stock[<<p.body.from, v>>] > 0)
    BY <1>3, <1>4 DEF Blocking
  <2>2. ~(stock[<<d.from, v>>] < d.boards[v]) /\ ~(CostOf(op, t, v) = 0 /\ stock[<<d.from, v>>] > 0)
    BY <1>4, <2>1
  <2>3. d.boards[v] \in Nat /\ d.boards[v] > 0 /\ stock[<<d.from, v>>] \in Nat
    BY <1>2, <1>5
  <2> QED  BY <2>2, <2>3
<1>7. ASSUME NEW r \in Rows PROVE stock[r] + Pair(d)[r] \in Nat
  <2>1. /\ stock[r] \in Nat /\ Pair(d)[r] \in Int /\ r[2] \in Variants /\ r = <<r[1], r[2]>>
        /\ d.boards[r[2]] \in Nat
    BY <1>2, <1>5, PairOf DEF Rows
  <2>2. CASE r[1] # d.from
    BY <2>1, <2>2, PairOf
  <2>3. CASE r[1] = d.from /\ r[2] \in Lines(d)
    <3>1. stock[r] >= d.boards[r[2]]
      BY <1>6, <2>1, <2>3
    <3>2. Pair(d)[r] >= -d.boards[r[2]]
      BY PairOf
    <3> QED  BY <2>1, <3>1, <3>2
  <2>4. CASE r[2] \notin Lines(d)
    <3>1. r \notin {d.from, d.to} \X Lines(d)
      BY <2>1, <2>4
    <3>2. Pair(d)[r] = 0
      BY <3>1, PairOf
    <3> QED  BY <2>1, <3>2
  <2> QED  BY <2>2, <2>3, <2>4
<1>8. ASSUME NEW r \in Rows, rowLock[r] # c PROVE stock[r] + Pair(d)[r] = stock[r]
  <2>1. r \notin DocRows(c)
    BY <1>2, <1>8 DEF Handled, Posts
  <2>2. DocRows(c) = {d.from, d.to} \X Lines(d)
    <3>1. {d.from, d.to} = {transfer[t].body.from, transfer[t].body.to}
      BY TransferAssumption DEF Direction, IInv, Stored, Document, Body
    <3>2. Lines(d) = Lines(transfer[t].body)
      BY Directed
    <3> QED  BY <3>1, <3>2 DEF DocRows
  <2>3. Pair(d)[r] = 0
    BY <2>1, <2>2, PairOf
  <2> QED  BY <1>2, <2>3
<1> QED  BY <1>3, <1>4, <1>6, <1>7, <1>8 DEF Plus, Ready

(* A posting writes its document and moves the document's goods, once.     *)
PostWrites(c, t, d, new) ==
    /\ docLock[t] = c /\ End(c)
    /\ d.from # d.to
    /\ transfer' = [transfer EXCEPT ![t] = new]
    /\ stock' = Plus(stock, Pair(d)) /\ stock' \in [Rows -> Nat] /\ wac' = wac
    /\ \A r \in Rows : rowLock[r] # c => stock'[r] = stock[r]
    /\ \/ /\ transfer[t].status = "DRAFT" /\ new.status = "CONFIRMED" /\ new.body = d
          /\ posted' = [posted EXCEPT ![t] = Plus(posted[t], Pair(d))] /\ UNCHANGED returned
       \/ /\ transfer[t].status = "CONFIRMED" /\ new.status = "CANCELLED"
          /\ d = Direction("cancel", transfer[t].body) /\ transfer[t].cost # Free
          /\ returned' = [returned EXCEPT ![t] = Plus(returned[t], Pair(d))] /\ UNCHANGED posted

LEMMA PostEither ==
    ASSUME IInv, NEW c \in Handlers, Post(c)
    PROVE  \/ Rollback(c)
           \/ \E t \in Transfers, d \in Body, new \in Document : PostWrites(c, t, d, new)
<1> SUFFICES ASSUME ~Rollback(c)
             PROVE  \E t \in Transfers, d \in Body, new \in Document : PostWrites(c, t, d, new)
  OBVIOUS
<1>1. pc[c] = "post" /\ Handled(c) /\ DocLines(c) \subseteq Variants
  BY PostingOf DEF Post, IInv, AtPosting
<1>2. PICK op \in Ops, t \in Transfers, k \in Keys :
        op = job[c].op /\ t = job[c].transfer /\ k = job[c].key
  BY <1>1, PostingOf DEF AtPosting
<1>3. PICK d \in Body : d = Direction(op, transfer[t].body) /\ d.from # d.to
                        /\ Lines(d) # {} /\ Lines(d) \subseteq Variants
  BY Directed
<1>4. Ready(c, op, t, d)
  <2>1. pc[c] = "post" /\ op = job[c].op /\ t = job[c].transfer
    BY <1>1, <1>2
  <2>2. PICK b \in Body : b = transfer[t].body /\ d = Direction(op, b)
    BY <1>3, TransferAssumption DEF IInv, Stored, Document
  <2> QED  BY <2>1, <2>2, ReadyToPost
<1>5. docLock[t] = c /\ transfer[t].status = IF op = "cancel" THEN "CONFIRMED" ELSE "DRAFT"
  BY <1>1, <1>2 DEF Handled, Posts, Holding
<1>6. stock' = Plus(stock, Pair(d)) /\ wac' = wac /\ End(c)
  BY <1>1, <1>2, <1>4 DEF Post, Ready
<1>7. transfer[t] \in Document /\ wac \in [Variants -> Nat]
  BY DEF IInv, Stored
<1>8. CASE op = "confirm"
  <2>1. PICK cost \in [Variants -> Nat] :
          cost = [v \in Variants |-> IF v \in DocLines(c) THEN wac[v] ELSE 0]
    BY <1>7
  <2>2. /\ transfer' = [transfer EXCEPT ![t].status = "CONFIRMED", ![t].cost = cost,
                                       ![t].version = @ + 1, ![t].confirmKey = k]
        /\ posted' = [posted EXCEPT ![t] = Plus(@, Pair(d))] /\ UNCHANGED returned
    BY <1>2, <1>4, <1>8, <2>1 DEF Post, Ready
  <2> DEFINE new == [transfer[t] EXCEPT !.status = "CONFIRMED", !.cost = cost,
                                        !.version = @ + 1, !.confirmKey = k]
  <2>3. new \in Document /\ new.status = "CONFIRMED" /\ new.body = transfer[t].body
    <3>1. PICK x \in Document, n \in Nat : x = transfer[t] /\ n = transfer[t].version + 1
      BY <1>7 DEF Document
    <3> DEFINE y == [x EXCEPT !.status = "CONFIRMED", !.cost = cost, !.version = n, !.confirmKey = k]
    <3>2. y \in Document /\ y.status = "CONFIRMED" /\ y.body = x.body
      BY DEF Document
    <3>3. y = new
      BY <3>1
    <3> HIDE DEF y, new
    <3> QED  BY <3>1, <3>2, <3>3
  <2>4. transfer' = [transfer EXCEPT ![t] = new]
    BY <2>2
  <2>5. d = transfer[t].body
    BY <1>3, <1>8 DEF Direction
  <2> HIDE DEF new
  <2>6. PostWrites(c, t, d, new)
    BY <1>3, <1>4, <1>5, <1>6, <1>8, <2>2, <2>3, <2>4, <2>5 DEF PostWrites, Ready
  <2> QED  BY <2>3, <2>6
<1>9. CASE op = "cancel"
  <2>1. /\ transfer' = [transfer EXCEPT ![t].status = "CANCELLED", ![t].version = @ + 1,
                                       ![t].cancelKey = k]
        /\ returned' = [returned EXCEPT ![t] = Plus(@, Pair(d))] /\ UNCHANGED posted
    BY <1>2, <1>4, <1>9 DEF Post, Ready
  <2> DEFINE new == [transfer[t] EXCEPT !.status = "CANCELLED", !.version = @ + 1,
                                        !.cancelKey = k]
  <2>2. new \in Document /\ new.status = "CANCELLED"
    <3>1. PICK x \in Document, n \in Nat : x = transfer[t] /\ n = transfer[t].version + 1
      BY <1>7 DEF Document
    <3> DEFINE y == [x EXCEPT !.status = "CANCELLED", !.version = n, !.cancelKey = k]
    <3>2. y \in Document /\ y.status = "CANCELLED"
      BY DEF Document
    <3>3. y = new
      BY <3>1
    <3> HIDE DEF y, new
    <3> QED  BY <3>2, <3>3
  <2>3. transfer' = [transfer EXCEPT ![t] = new]
    BY <2>1
  <2>4. transfer[t].cost # Free
    <3>1. PICK v \in Variants : v \in Lines(d)
      BY <1>3
    <3>2. transfer[t].cost[v] # 0
      BY <1>4, <1>9, <3>1 DEF CostOf, Ready
    <3> QED  BY <3>2 DEF Free
  <2> HIDE DEF new
  <2>5. PostWrites(c, t, d, new)
    BY <1>3, <1>4, <1>5, <1>6, <1>9, <2>1, <2>2, <2>3, <2>4 DEF PostWrites, Ready
  <2> QED  BY <2>2, <2>5
<1> QED  BY <1>2, <1>8, <1>9 DEF Ops

LEMMA PostKeepsInv ==
    ASSUME IInv, NEW c \in Handlers, Post(c)
    PROVE  IInv'
<1>1. CASE Rollback(c)
  BY <1>1, RollbackKeepsInv
<1>2. ASSUME NEW t \in Transfers, NEW d \in Body, NEW new \in Document, PostWrites(c, t, d, new)
      PROVE  IInv'
  <2>1. Plus(posted[t], Pair(d)) \in [Rows -> Int] /\ Plus(returned[t], Pair(d)) \in [Rows -> Int]
    BY PairOf DEF Plus, IInv, Stored
  <2>2. /\ transfer'[t] = new /\ \A u \in Transfers \ {t} : transfer'[u] = transfer[u]
        /\ transfer' \in [Transfers -> Document]
    BY <1>2 DEF PostWrites, IInv, Stored
  <2>3. /\ \A u \in Transfers \ {t} : posted'[u] = posted[u] /\ returned'[u] = returned[u]
        /\ posted' \in [Transfers -> [Rows -> Int]] /\ returned' \in [Transfers -> [Rows -> Int]]
    BY <1>2, <2>1 DEF PostWrites, IInv, Stored
  <2>4. Stored'
    BY <1>2, <2>2, <2>3 DEF PostWrites, End, IInv, Stored
  <2>5. ASSUME NEW u \in Transfers \ {t} PROVE Moved(u)'
    BY <2>2, <2>3, <2>5 DEF IInv, Moved
  <2>6. Moved(t)'
    <3>1. CASE new.status = "CANCELLED"
      BY <2>2, <3>1 DEF Moved
    <3>2. CASE new.status = "CONFIRMED"
      <4>1. /\ transfer[t].status = "DRAFT" /\ new.body = d
            /\ posted' = [posted EXCEPT ![t] = Plus(posted[t], Pair(d))] /\ returned' = returned
        BY <1>2, <3>2 DEF PostWrites
      <4>2. posted[t] = Nothing /\ returned[t] = Nothing
        BY <4>1 DEF IInv, Moved
      <4>3. Plus(Nothing, Pair(d)) = Pair(d)
        BY PairOf DEF Plus, Nothing
      <4>4. posted'[t] = Pair(d)
        BY <4>1, <4>2, <4>3 DEF IInv, Stored
      <4> QED  BY <2>2, <3>2, <4>1, <4>2, <4>4 DEF Moved
    <3> QED  BY <1>2, <3>1, <3>2 DEF PostWrites
  <2>7. ASSUME NEW e \in Handlers \ {c}
        PROVE  /\ \A u \in Transfers : docLock[u] = e /\ Standing(u) => transfer'[u] = transfer[u]
               /\ \A v \in Variants : variantLock[v] = e => wac'[v] = wac[v]
               /\ \A r \in Rows : rowLock[r] = e => stock'[r] = stock[r]
    BY <1>2, <2>2 DEF PostWrites
  <2>8. End(c)
    BY <1>2 DEF PostWrites
  <2> QED  BY <2>4, <2>5, <2>6, <2>7, <2>8, EndKeepsInv
<1> QED  BY <1>1, <1>2, PostEither

-----------------------------------------------------------------------------
(* Trades.                                                                 *)

LEMMA StartTradeKeepsInv ==
    ASSUME IInv, NEW c \in Handlers, StartTrade(c)
    PROVE  IInv'
<1>1. PICK m \in Trades : Start(c, IF m.op = "engine" THEN "row" ELSE "variant", m)
  BY DEF StartTrade
<1>2. PICK where \in {"row", "variant"} :
        where = (IF m.op = "engine" THEN "row" ELSE "variant") /\ Start(c, where, m)
  BY <1>1
<1>3. where \notin AtEdit /\ where # "begin" /\ (where = "row" => m.op = "engine")
      /\ where \in {"edit", "delete", "begin", "variant", "row"}
  BY <1>2 DEF AtEdit
<1> QED  BY <1>2, <1>3, StartKeepsInv

(* A trade takes one more lock.                                            *)
LEMMA TradeLockKeepsInv ==
    ASSUME IInv, NEW c \in Handlers, TradeVariant(c) \/ TradeRow(c) \/ TradeShare(c)
    PROVE  IInv'
<1>1. Handled(c) /\ NoOne \notin Handlers
  BY TransferAssumption DEF IInv
<1>2. PICK m \in Trades, r \in Rows, v \in Variants : m = job[c] /\ r = m.row /\ v = r[2]
  BY <1>1, OfTrade DEF Handled, AtPlace, AtTrade, TradeVariant, TradeRow, TradeShare
<1>3. PICK place \in {"row", "share", "done"} : pc' = [pc EXCEPT ![c] = place]
      /\ \/ /\ pc[c] = "variant" /\ place = "row" /\ variantLock[v] \in {c, NoOne}
            /\ variantLock' = [variantLock EXCEPT ![v] = c]
            /\ UNCHANGED <<docLock, lineLock, variantShare, rowLock>>
         \/ /\ pc[c] = "row" /\ place = "share" /\ rowLock[r] = NoOne
            /\ rowLock' = [rowLock EXCEPT ![r] = c]
            /\ UNCHANGED <<docLock, lineLock, variantLock, variantShare>>
         \/ /\ pc[c] = "share" /\ place = "done"
            /\ variantShare' = [variantShare EXCEPT ![v] = @ \cup {c}]
            /\ UNCHANGED <<docLock, lineLock, variantLock, rowLock>>
  <2>1. CASE TradeVariant(c)
    BY <1>2, <2>1 DEF TradeVariant, VariantFree, Goto
  <2>2. CASE TradeRow(c)
    BY <1>2, <2>2 DEF TradeRow, Goto
  <2>3. CASE TradeShare(c)
    BY <1>2, <2>3 DEF TradeShare, Goto
  <2> QED  BY <2>1, <2>2, <2>3
<1>4. UNCHANGED <<committed, approvals, previews, job, started>>
  BY DEF TradeVariant, TradeRow, TradeShare
<1>5. Control'
  <2>1. pc' \in [Handlers -> {"idle"} \cup AtEdit \cup AtTrade \cup AtPosting]
    BY <1>3 DEF IInv, Control, AtTrade
  <2>2. variantShare' \in [Variants -> SUBSET Handlers]
    BY <1>3 DEF IInv, Control
  <2> QED  BY <1>3, <1>4, <2>1, <2>2 DEF IInv, Control
<1>6. pc'[c] = place /\ job'[c] = m
  BY <1>2, <1>3, <1>4 DEF IInv, Control
<1>7. AtPlace(c)' /\ Posts(c)'
  BY <1>6 DEF AtPlace, Posts, AtEdit, AtTrade, AtPosting, Holding
<1>8. Tradings(c)'
  BY <1>1, <1>2, <1>3, <1>6 DEF IInv, Control, Handled, Tradings
<1>9. ASSUME NEW d \in Handlers \ {c}
      PROVE  /\ pc'[d] = pc[d] /\ job'[d] = job[d]
             /\ \A t \in Transfers : docLock[t] = d => docLock'[t] = d
             /\ \A w \in Variants : variantLock[w] = d => variantLock'[w] = d
             /\ \A s \in Rows : rowLock[s] = d => rowLock'[s] = d
  BY <1>1, <1>3, <1>4 DEF IInv, Control
<1> QED  BY <1>4, <1>5, <1>7, <1>8, <1>9, GoOnKeepsInv DEF Handled

(* A trade changes the row it holds, and the cost of a variant it holds.   *)
TradeWrites(c, r, n, w) ==
    /\ rowLock[r] = c /\ End(c)
    /\ stock' = [stock EXCEPT ![r] = n]
    /\ \/ wac' = wac
       \/ variantLock[r[2]] = c /\ wac' = [wac EXCEPT ![r[2]] = w]
    /\ UNCHANGED <<transfer, posted, returned>>

LEMMA TradeCommits ==
    ASSUME IInv, NEW c \in Handlers, TradeCommit(c)
    PROVE  \E r \in Rows, n \in Nat, w \in Nat : TradeWrites(c, r, n, w)
<1>1. Handled(c) /\ pc[c] = "done"
  BY DEF IInv, TradeCommit
<1>2. PICK m \in Trades, r \in Rows, v \in Variants : m = job[c] /\ r = m.row /\ v = r[2]
  BY <1>1, OfTrade DEF Handled, AtPlace, AtTrade
<1>3. rowLock[r] = c /\ (m.op = "costing" => variantLock[v] = c)
  BY <1>1, <1>2 DEF Handled, Tradings
<1>4. stock[r] + m.boards \in Int
  BY <1>2, OfTrade DEF IInv, Stored
<1>5. PICK n \in Nat : n = stock[r] + m.boards
  BY <1>2, <1>4 DEF TradeCommit, Affordable
<1>6. stock' = [stock EXCEPT ![r] = n] /\ End(c) /\ UNCHANGED <<transfer, posted, returned>>
  BY <1>2, <1>5 DEF TradeCommit
<1>7. CASE m.op = "costing"
  <2>1. PICK w \in Nat : wac' = [wac EXCEPT ![v] = w]
    BY <1>2, <1>7, TransferAssumption DEF TradeCommit
  <2> QED  BY <1>2, <1>3, <1>6, <1>7, <2>1 DEF TradeWrites
<1>8. CASE m.op # "costing"
  <2>1. wac' = wac
    BY <1>2, <1>8 DEF TradeCommit
  <2>2. TradeWrites(c, r, n, 0)
    BY <1>3, <1>6, <2>1 DEF TradeWrites
  <2> QED  BY <2>2
<1> QED  BY <1>7, <1>8

LEMMA TradeCommitKeepsInv ==
    ASSUME IInv, NEW c \in Handlers, TradeCommit(c)
    PROVE  IInv'
<1>1. PICK r \in Rows, n \in Nat, w \in Nat : TradeWrites(c, r, n, w)
  BY TradeCommits
<1>2. Stored'
  BY <1>1 DEF TradeWrites, End, IInv, Stored
<1>3. \A t \in Transfers : Moved(t)'
  BY <1>1, StillMoved DEF TradeWrites
<1>4. ASSUME NEW d \in Handlers \ {c}
      PROVE  /\ \A t \in Transfers : docLock[t] = d /\ Standing(t) => transfer'[t] = transfer[t]
             /\ \A v \in Variants : variantLock[v] = d => wac'[v] = wac[v]
             /\ \A s \in Rows : rowLock[s] = d => stock'[s] = stock[s]
  BY <1>1 DEF TradeWrites, IInv, Stored
<1>5. End(c)
  BY <1>1 DEF TradeWrites
<1> QED  BY <1>2, <1>3, <1>4, <1>5, EndKeepsInv

-----------------------------------------------------------------------------
(* Deadlocks, and the invariant.                                           *)

LEMMA DeadlockKeepsInv ==
    ASSUME IInv, NEW c \in Handlers, DeadlockVictim(c)
    PROVE  IInv'
<1>1. CASE Rollback(c)
  BY <1>1, RollbackKeepsInv
<1>2. CASE ~Rollback(c)
  <2> DEFINE new == Again(job[c])
  <2>1. /\ Posting(c) /\ InCycle(c) /\ Release(c) /\ pc' = [pc EXCEPT ![c] = "begin"]
        /\ job' = [job EXCEPT ![c] = new]
        /\ UNCHANGED <<committed, approvals, previews, started>>
    BY <1>2 DEF DeadlockVictim, Goto
  <2>4. Handled(c)
    BY DEF IInv
  <2>5. pc[c] \in AtPosting
    <3>1. pc[c] # "idle"
      BY <2>1, <2>4 DEF Posting, Handled, AtPlace, Idle
    <3>2. pc[c] \notin AtEdit
      BY <2>1, <2>4 DEF Posting, Handled, AtPlace
    <3>3. pc[c] \notin AtTrade
      BY <2>1, <2>4, OfTrade DEF Posting, Handled, AtPlace
    <3> QED  BY <3>1, <3>2, <3>3 DEF IInv, Control
  <2>6. job[c].op \in Ops /\ job[c].transfer \in Transfers /\ job[c].key \in Keys
    BY <2>4, <2>5 DEF Handled, AtPlace
  <2>7. PICK op \in Ops, t \in Transfers, k \in Keys :
          op = job[c].op /\ t = job[c].transfer /\ k = job[c].key
    BY <2>6
  <2>8. PICK a, n : new = [op |-> op, transfer |-> t, approval |-> a, key |-> k, try |-> n]
    BY <2>7 DEF Again
  <2> HIDE DEF new
  <2>9. pc'[c] = "begin" /\ job'[c] = new
    BY <2>1 DEF IInv, Control
  <2>10. Handled(c)'
    BY <2>8, <2>9 DEF Handled, AtPlace, Posts, Tradings, AtEdit, AtTrade, AtPosting, Holding
  <2>11. Control'
    <3>1. pc' \in [Handlers -> {"idle"} \cup AtEdit \cup AtTrade \cup AtPosting]
      BY <2>1 DEF IInv, Control, AtPosting
    <3>2. (job = [d \in Handlers |-> job[d]])'
      BY <2>1 DEF IInv, Control
    <3> QED  BY <2>1, <3>1, <3>2, ReleaseKeeps DEF IInv, Control
  <2>12. ASSUME NEW d \in Handlers \ {c} PROVE pc'[d] = pc[d] /\ job'[d] = job[d]
    BY <2>1 DEF IInv, Control
  <2> QED  BY <2>1, <2>10, <2>11, <2>12, ReleaseKeeps, GoOnKeepsInv
<1> QED  BY <1>1, <1>2

LEMMA InvNext == IInv /\ [Next]_vars => IInv'
<1> SUFFICES ASSUME IInv, [Next]_vars PROVE IInv'
  OBVIOUS
<1>1. CASE \E t \in Transfers : Create(t)
  BY <1>1, CreateKeepsInv
<1>2. CASE \E t \in Transfers, op \in {"confirm", "cancel"} : TakePreview(op, t)
  BY <1>2, TakePreviewKeepsInv DEF Ops
<1>3. ASSUME NEW c \in Handlers,
             \E t \in Transfers : ReadForUpdate(c, t) \/ ReadForDelete(c, t)
      PROVE  IInv'
  BY <1>3, ReadKeepsInv
<1>4. ASSUME NEW c \in Handlers, \E a \in approvals, k \in Keys : ReadForPosting(c, a, k)
      PROVE  IInv'
  BY <1>4, ReadForPostingKeepsInv
<1>5. ASSUME NEW c \in Handlers, StartTrade(c) PROVE IInv'
  BY <1>5, StartTradeKeepsInv
<1>6. ASSUME NEW c \in Handlers, Step(c) PROVE IInv'
  <2>1. CASE NothingToWrite(c) \/ TradeRefused(c)
    BY <2>1, RollbackKeepsInv DEF NothingToWrite, TradeRefused
  <2> QED  BY <1>6, <2>1, UpdateKeepsInv, DeleteKeepsInv, CheckKeepsInv, PostKeepsInv,
              TradeCommitKeepsInv DEF Step
<1>7. ASSUME NEW c \in Handlers, Lock(c) PROVE IInv'
  BY <1>7, DraftLockKeepsInv, LockDocumentKeepsInv, LockVariantKeepsInv, LockRowKeepsInv,
     TradeLockKeepsInv DEF Lock
<1>8. ASSUME NEW c \in Handlers, DeadlockVictim(c) \/ Abort(c) PROVE IInv'
  BY <1>8, DeadlockKeepsInv, RollbackKeepsInv DEF Abort
<1>9. CASE UNCHANGED vars
  <2>1. UNCHANGED <<committed, approvals, previews, locks, pc, job, started>>
    BY <1>9 DEF vars
  <2> QED  BY <2>1, StillStored, StillMoved, AtOnceKeepsInv DEF committed
<1> QED  BY <1>1, <1>2, <1>3, <1>4, <1>5, <1>6, <1>7, <1>8, <1>9 DEF Next

(* In every behaviour a posting that is about to write holds its document, *)
(* its variants and its rows, and these are what its preview said; what a  *)
(* document has moved is what its lines say, or it cannot be cancelled     *)
(* (inventory-transfers.service.ts).                                       *)
THEOREM TransfersInvariant == Spec => []IInv
BY InvInit, InvNext, PTL DEF Spec

(* Every variable keeps its type; boards on hand are never negative,       *)
(* whatever transfers and trades run together.                             *)
THEOREM TransfersTypeCorrect == Spec => []TypeOK
<1>1. IInv => TypeOK
  <2> SUFFICES ASSUME IInv PROVE TypeOK
    OBVIOUS
  <2>1. ASSUME NEW c \in Handlers
        PROVE  \/ pc[c] = "idle" /\ job[c] = Idle
               \/ pc[c] \in {"edit", "document", "delete", "cascade", "variant", "row", "share", "done"}
                  /\ job[c] \in Request
               \/ pc[c] \in {"begin", "variants", "rows", "check", "post"}
                  /\ job[c].op \in {"confirm", "cancel"} /\ job[c].transfer \in Transfers
    BY DEF IInv, Control, Handled, AtPlace, AtEdit, AtTrade, AtPosting, Ops, Request
  <2> QED  BY <2>1 DEF IInv, Stored, Control, TypeOK
<1> QED  BY TransfersInvariant, <1>1, PTL

(* "A stale approval cannot post": at its commit a posting still is what   *)
(* its user approved, for any number of handlers, branches and trades.     *)
THEOREM ApprovalAlwaysStands == Spec => []ApprovalStands
<1>1. IInv => ApprovalStands
  BY DEF IInv, Handled, Posts, ApprovalStands
<1> QED  BY TransfersInvariant, <1>1, PTL

-----------------------------------------------------------------------------
(* What the company has.  A posting counts the boards of all branches, of  *)
(* most of which it holds no row; what keeps the count is the lock of the  *)
(* variant, which every trade shares or holds when it commits.             *)

(* Who holds a variant FOR UPDATE shares it with nobody.                   *)
Exclusive(v) == \A c \in Handlers : variantLock[v] = c => variantShare[v] \subseteq {c}

Counted(c) ==
    /\ pc[c] = "done" => c \in variantShare[job[c].row[2]]
    /\ pc[c] = "post" => \A v \in DocLines(c) : job[c].company[v] = CompanyBoards(stock, v)

CompanyInv ==
    /\ \A v \in Variants : Exclusive(v)
    /\ \A c \in Handlers : Counted(c)

(* What goes to one branch comes from another.                             *)
LEMMA PairConserves ==
    ASSUME NEW s \in [Rows -> Nat], NEW d \in Body, d.from # d.to, NEW v \in Variants
    PROVE  CompanyBoards(Plus(s, Pair(d)), v) = CompanyBoards(s, v)
<1> DEFINE f == [b \in Branches |-> s[<<b, v>>]]
           g == [b \in Branches |-> IF b = d.to THEN f[b] + d.boards[v] ELSE f[b]]
           h == [b \in Branches |-> Plus(s, Pair(d))[<<b, v>>]]
<1>1. d.from \in Branches /\ d.to \in Branches /\ d.boards[v] \in Nat /\ IsFiniteSet(Branches)
  BY TransferAssumption DEF Body
<1>2. \A b \in Branches : <<b, v>> \in Rows /\ <<b, v>>[1] = b /\ <<b, v>>[2] = v
  BY DEF Rows
<1>3. \A b \in Branches : f[b] \in Nat /\ f[b] = s[<<b, v>>]
  BY <1>2
<1>4. \A b \in Branches : h[b] = s[<<b, v>>] + (IF b = d.to THEN d.boards[v]
                                               ELSE IF b = d.from THEN -d.boards[v] ELSE 0)
  BY <1>2 DEF Plus, Pair
<1>5. \A b \in Branches : g[b] = IF b = d.to THEN f[b] + d.boards[v] ELSE f[b]
  OBVIOUS
<1>6. CompanyBoards(s, v) = SumFunctionOnSet(f, Branches)
      /\ CompanyBoards(Plus(s, Pair(d)), v) = SumFunctionOnSet(h, Branches)
  BY DEF CompanyBoards, SumFunction
<1> HIDE DEF f, g, h
<1>7. ASSUME NEW b \in Branches PROVE f[b] \in Int /\ g[b] \in Int /\ h[b] \in Int
  <2>1. f[b] \in Nat /\ h[b] = f[b] + (IF b = d.to THEN d.boards[v]
                                      ELSE IF b = d.from THEN -d.boards[v] ELSE 0)
    BY <1>3, <1>4
  <2> QED  BY <1>1, <1>5, <2>1
<1>8. SumFunctionOnSet(g, Branches) = SumFunctionOnSet(f, Branches) - f[d.to] + g[d.to]
  BY <1>1, <1>5, <1>7, SumChange
<1>9. ASSUME NEW b \in Branches \ {d.from} PROVE h[b] = g[b]
  <2>1. f[b] \in Nat /\ h[b] = f[b] + (IF b = d.to THEN d.boards[v] ELSE 0)
    BY <1>3, <1>4
  <2> QED  BY <1>1, <1>5, <2>1
<1>10. SumFunctionOnSet(h, Branches) = SumFunctionOnSet(g, Branches) - g[d.from] + h[d.from]
  BY <1>1, <1>7, <1>9, SumChange
<1>11. g[d.to] = f[d.to] + d.boards[v] /\ g[d.from] = f[d.from] /\ h[d.from] = f[d.from] - d.boards[v]
  BY <1>1, <1>3, <1>4, <1>5
<1>12. SumFunctionOnSet(f, Branches) \in Int
  BY <1>1, <1>7, SumType
<1> QED  BY <1>1, <1>6, <1>7, <1>8, <1>10, <1>11, <1>12

(* Of a variant none of whose rows changes the company has what it had.    *)
LEMMA SameVariant ==
    ASSUME NEW s, NEW z, NEW v, \A b \in Branches : z[<<b, v>>] = s[<<b, v>>]
    PROVE  CompanyBoards(z, v) = CompanyBoards(s, v)
<1>1. [b \in Branches |-> z[<<b, v>>]] = [b \in Branches |-> s[<<b, v>>]]
  OBVIOUS
<1> QED  BY <1>1 DEF CompanyBoards

(* A step of another handler leaves d what it counts on.                   *)
Undisturbed(d) ==
    /\ pc'[d] = pc[d] /\ job'[d] = job[d]
    /\ \A t \in Transfers : docLock[t] = d /\ Standing(t) => transfer'[t] = transfer[t]
    /\ \A v \in Variants : d \in variantShare[v] => d \in variantShare'[v]
    /\ \A v \in Variants : variantLock[v] = d => CompanyBoards(stock', v) = CompanyBoards(stock, v)

LEMMA OthersStillCount ==
    ASSUME IInv, NEW d \in Handlers, Counted(d), Undisturbed(d)
    PROVE  Counted(d)'
<1>1. Handled(d) /\ pc'[d] = pc[d] /\ job'[d] = job[d]
  BY DEF IInv, Undisturbed
<1>2. CASE pc[d] = "done"
  <2>1. job[d] \in Trades
    BY <1>1, <1>2 DEF Handled, AtPlace, AtTrade
  <2>2. PICK v \in Variants : v = job[d].row[2]
    BY <2>1, OfTrade
  <2>3. d \in variantShare'[v]
    BY <1>2, <2>2 DEF Counted, Undisturbed
  <2> QED  BY <1>1, <1>2, <2>2, <2>3 DEF Counted
<1>3. CASE pc[d] = "post"
  <2>1. PICK t \in Transfers : t = job[d].transfer
    BY <1>3, PostingOf DEF AtPosting
  <2>2. docLock[t] = d /\ Standing(t)
    BY <1>1, <1>3, <2>1 DEF Handled, Posts, Holding, Standing
  <2>3. transfer'[t] = transfer[t]
    BY <2>2 DEF Undisturbed
  <2>4. DocLines(d)' = DocLines(d) /\ DocLines(d) \subseteq Variants
    BY <1>1, <1>3, <2>1, <2>3, PostingOf DEF DocLines, AtPosting
  <2>5. ASSUME NEW v \in DocLines(d) PROVE job'[d].company[v] = CompanyBoards(stock', v)
    <3>1. variantLock[v] = d /\ v \in Variants
      BY <1>1, <1>3, <2>4 DEF Handled, Posts
    <3> QED  BY <1>1, <1>3, <3>1 DEF Counted, Undisturbed
  <2> QED  BY <1>1, <1>3, <2>4, <2>5 DEF Counted
<1> QED  BY <1>1, <1>2, <1>3 DEF Counted

LEMMA EndKeepsCount ==
    ASSUME IInv, CompanyInv, NEW c \in Handlers, End(c),
           \A d \in Handlers \ {c} :
             /\ \A t \in Transfers : docLock[t] = d /\ Standing(t) => transfer'[t] = transfer[t]
             /\ \A v \in Variants : variantLock[v] = d =>
                  CompanyBoards(stock', v) = CompanyBoards(stock, v)
    PROVE  CompanyInv'
<1>1. /\ pc' = [pc EXCEPT ![c] = "idle"] /\ job' = [job EXCEPT ![c] = Idle] /\ Release(c)
      /\ NoOne \notin Handlers
  BY TransferAssumption DEF End
<1>2. \A v \in Variants : Exclusive(v)'
  BY <1>1 DEF Release, CompanyInv, Exclusive, IInv, Control
<1>3. Counted(c)'
  BY <1>1 DEF Counted, IInv, Control
<1>4. ASSUME NEW d \in Handlers \ {c} PROVE Counted(d)'
  <2>1. Undisturbed(d)
    BY <1>1 DEF Undisturbed, Release, IInv, Control
  <2> QED  BY <2>1, OthersStillCount DEF CompanyInv
<1> QED  BY <1>2, <1>3, <1>4 DEF CompanyInv

LEMMA RollbackKeepsCount ==
    ASSUME IInv, CompanyInv, NEW c \in Handlers, Rollback(c)
    PROVE  CompanyInv'
BY EndKeepsCount DEF Rollback, committed

(* A handler begins, goes on, or begins again.                             *)
LEMMA GoOnKeepsCount ==
    ASSUME IInv, CompanyInv, NEW c \in Handlers, UNCHANGED committed,
           \A v \in Variants : Exclusive(v)', Counted(c)',
           \A d \in Handlers \ {c} :
             /\ pc'[d] = pc[d] /\ job'[d] = job[d]
             /\ \A v \in Variants : d \in variantShare[v] => d \in variantShare'[v]
    PROVE  CompanyInv'
<1>1. ASSUME NEW d \in Handlers \ {c} PROVE Counted(d)'
  <2>1. Undisturbed(d)
    BY DEF Undisturbed, committed
  <2> QED  BY <2>1, OthersStillCount DEF CompanyInv
<1> QED  BY <1>1 DEF CompanyInv

(* Nobody's lock is touched, and c is not about to commit.                 *)
LEMMA ElsewhereKeepsCount ==
    ASSUME IInv, CompanyInv, NEW c \in Handlers, UNCHANGED <<committed, variantLock, variantShare>>,
           pc'[c] \notin {"done", "post"},
           \A d \in Handlers \ {c} : pc'[d] = pc[d] /\ job'[d] = job[d]
    PROVE  CompanyInv'
<1>1. Counted(c)'
  BY DEF Counted
<1>2. \A v \in Variants : Exclusive(v)'
  BY DEF CompanyInv, Exclusive
<1> QED  BY <1>1, <1>2, GoOnKeepsCount

LEMMA LockKeepsCount ==
    ASSUME IInv, CompanyInv, NEW c \in Handlers, Lock(c)
    PROVE  CompanyInv'
<1>1. NoOne \notin Handlers /\ Handled(c)
  BY TransferAssumption DEF IInv
<1>2. CASE Rollback(c)
  BY <1>2, RollbackKeepsCount
<1>3. CASE DeleteLines(c) \/ LockForDelete(c) \/ (LockDocument(c) /\ ~Rollback(c)) \/ LockRow(c)
           \/ TradeRow(c)
  <2>1. PICK place \in {"document", "cascade", "variants", "rows", "check", "share"} :
          pc' = [pc EXCEPT ![c] = place]
    BY <1>3 DEF DeleteLines, LockForDelete, LockDocument, LockRow, TradeRow, Goto
  <2>2. UNCHANGED <<committed, variantLock, variantShare, job>>
    BY <1>3 DEF DeleteLines, LockForDelete, LockDocument, LockRow, TradeRow
  <2>3. pc'[c] = place /\ \A d \in Handlers \ {c} : pc'[d] = pc[d]
    BY <2>1 DEF IInv, Control
  <2> QED  BY <2>1, <2>2, <2>3, ElsewhereKeepsCount
<1>4. CASE LockVariant(c) \/ TradeVariant(c)
  <2>1. PICK place \in {"variants", "rows", "row"} : pc' = [pc EXCEPT ![c] = place]
    BY <1>4 DEF LockVariant, TradeVariant, Goto
  <2>2. PICK v : VariantFree(c, v) /\ variantLock' = [variantLock EXCEPT ![v] = c]
    BY <1>4 DEF LockVariant, TradeVariant
  <2>3. UNCHANGED <<committed, variantShare, job>>
    BY <1>4 DEF LockVariant, TradeVariant
  <2>4. ASSUME NEW w \in Variants PROVE Exclusive(w)'
    BY <2>2, <2>3 DEF VariantFree, Exclusive, CompanyInv, IInv, Control
  <2>5. pc'[c] = place /\ \A d \in Handlers \ {c} : pc'[d] = pc[d]
    BY <2>1 DEF IInv, Control
  <2>6. Counted(c)'
    BY <2>5 DEF Counted
  <2> QED  BY <2>3, <2>4, <2>5, <2>6, GoOnKeepsCount
<1>5. CASE TradeShare(c)
  <2>1. job[c] \in Trades
    BY <1>1, <1>5 DEF TradeShare, Handled, AtPlace, AtTrade
  <2>2. PICK v \in Variants : v = job[c].row[2]
    BY <2>1, OfTrade
  <2>3. /\ variantLock[v] \in {c, NoOne} /\ pc' = [pc EXCEPT ![c] = "done"]
        /\ variantShare' = [variantShare EXCEPT ![v] = @ \cup {c}]
        /\ UNCHANGED <<committed, variantLock, job>>
    BY <1>5, <2>2 DEF TradeShare, Shareable, Goto
  <2>4. pc'[c] = "done" /\ \A d \in Handlers \ {c} : pc'[d] = pc[d]
    BY <2>3 DEF IInv, Control
  <2>5. ASSUME NEW w \in Variants
        PROVE  Exclusive(w)' /\ variantShare[w] \subseteq variantShare'[w]
    BY <1>1, <2>3 DEF Exclusive, CompanyInv, IInv, Control
  <2>6. Counted(c)'
    BY <2>2, <2>3, <2>4 DEF Counted, IInv, Control
  <2> QED  BY <2>3, <2>4, <2>5, <2>6, GoOnKeepsCount
<1> QED  BY <1>2, <1>3, <1>4, <1>5 DEF Lock

LEMMA StartKeepsCount ==
    ASSUME IInv, CompanyInv, NEW c \in Handlers,
           NEW where \in {"edit", "delete", "begin", "variant", "row"}, NEW request,
           Start(c, where, request)
    PROVE  CompanyInv'
<1>1. /\ pc' = [pc EXCEPT ![c] = where] /\ job' = [job EXCEPT ![c] = request]
      /\ UNCHANGED <<committed, variantLock, variantShare>>
  BY DEF Start, locks
<1>2. /\ pc'[c] = where
      /\ \A d \in Handlers \ {c} : pc'[d] = pc[d] /\ job'[d] = job[d]
  BY <1>1 DEF IInv, Control
<1> QED  BY <1>1, <1>2, ElsewhereKeepsCount

(* The count a posting takes is that of the lines it has locked.           *)
LEMMA CheckCounts ==
    ASSUME IInv, CompanyInv, NEW c \in Handlers, Check(c)
    PROVE  CompanyInv'
<1>1. CASE Rollback(c)
  BY <1>1, RollbackKeepsCount
<1>2. CASE ~Rollback(c)
  <2>1. PICK op \in Ops, t \in Transfers : op = job[c].op /\ t = job[c].transfer
    BY PostingOf DEF Check, AtPosting
  <2> DEFINE held == [v \in DOMAIN Preview(op, t).cost |-> CompanyBoards(stock, v)]
             new  == [op |-> op, transfer |-> t, approval |-> job[c].approval,
                      key |-> job[c].key, try |-> job[c].try, company |-> held]
  <2>2. /\ pc' = [pc EXCEPT ![c] = "post"] /\ job' = [job EXCEPT ![c] = new]
        /\ UNCHANGED <<committed, locks>>
    BY <1>2, <2>1 DEF Check, Goto
  <2>3. new.company = held /\ new.transfer = t
    OBVIOUS
  <2>4. \A v \in DOMAIN Preview(op, t).cost : held[v] = CompanyBoards(stock, v)
    OBVIOUS
  <2>5. DOMAIN Preview(op, t).cost = DocLines(c)
    BY <2>1, PreviewOf, Directed DEF DocLines
  <2> HIDE DEF held, new
  <2>6. /\ pc'[c] = "post" /\ job'[c] = new
        /\ \A d \in Handlers \ {c} : pc'[d] = pc[d] /\ job'[d] = job[d]
    BY <2>2 DEF IInv, Control
  <2>7. DocLines(c)' = DocLines(c)
    BY <2>1, <2>2, <2>3, <2>6 DEF DocLines, committed
  <2>8. Counted(c)'
    BY <2>2, <2>3, <2>4, <2>5, <2>6, <2>7 DEF Counted, committed
  <2>9. \A v \in Variants : Exclusive(v)'
    BY <2>2 DEF CompanyInv, Exclusive, locks
  <2> QED  BY <2>2, <2>6, <2>8, <2>9, GoOnKeepsCount DEF locks
<1> QED  BY <1>1, <1>2

(* A commit changes the count of variants only that nobody else holds.     *)
LEMMA CommitKeepsCount ==
    ASSUME IInv, CompanyInv, NEW c \in Handlers, Post(c) \/ TradeCommit(c)
    PROVE  CompanyInv'
<1>1. CASE Rollback(c)
  BY <1>1, RollbackKeepsCount
<1>2. ASSUME NEW t \in Transfers, NEW d \in Body, NEW new \in Document, PostWrites(c, t, d, new)
      PROVE  CompanyInv'
  <2>1. /\ docLock[t] = c /\ End(c) /\ transfer' = [transfer EXCEPT ![t] = new]
        /\ stock' = Plus(stock, Pair(d)) /\ d.from # d.to
    BY <1>2 DEF PostWrites
  <2>2. \A v \in Variants : CompanyBoards(stock', v) = CompanyBoards(stock, v)
    BY <2>1, PairConserves DEF IInv, Stored
  <2>3. \A u \in Transfers \ {t} : transfer'[u] = transfer[u]
    BY <2>1 DEF IInv, Stored
  <2> QED  BY <2>1, <2>2, <2>3, EndKeepsCount
<1>3. CASE TradeCommit(c)
  <2>1. job[c] \in Trades /\ pc[c] = "done"
    BY <1>3 DEF TradeCommit, IInv, Handled, AtPlace, AtTrade
  <2>2. PICK r \in Rows, v \in Variants : r = job[c].row /\ v = r[2]
    BY <2>1, OfTrade
  <2>3. PICK n : stock' = [stock EXCEPT ![r] = n]
    BY <1>3, <2>2 DEF TradeCommit
  <2>4. End(c) /\ transfer' = transfer
    BY <1>3 DEF TradeCommit
  <2>5. c \in variantShare[v]
    BY <2>1, <2>2 DEF CompanyInv, Counted
  <2>6. ASSUME NEW d \in Handlers \ {c}, NEW w \in Variants, variantLock[w] = d
        PROVE  CompanyBoards(stock', w) = CompanyBoards(stock, w)
    <3>1. w # v
      BY <2>5, <2>6 DEF CompanyInv, Exclusive
    <3>2. ASSUME NEW b \in Branches PROVE stock'[<<b, w>>] = stock[<<b, w>>]
      <4>1. <<b, w>> \in Rows /\ <<b, w>>[2] = w
        BY DEF Rows
      <4>2. <<b, w>> # r
        BY <2>2, <3>1, <4>1
      <4> QED  BY <2>3, <4>1, <4>2 DEF IInv, Stored
    <3> QED  BY <3>2, SameVariant
  <2>7. \A d \in Handlers \ {c} :
          /\ \A t \in Transfers : docLock[t] = d /\ Standing(t) => transfer'[t] = transfer[t]
          /\ \A w \in Variants : variantLock[w] = d =>
               CompanyBoards(stock', w) = CompanyBoards(stock, w)
    BY <2>4, <2>6
  <2> QED  BY <2>4, <2>7, EndKeepsCount
<1> QED  BY <1>1, <1>2, <1>3, PostEither

LEMMA DeadlockKeepsCount ==
    ASSUME IInv, CompanyInv, NEW c \in Handlers, DeadlockVictim(c)
    PROVE  CompanyInv'
<1>1. CASE Rollback(c)
  BY <1>1, RollbackKeepsCount
<1>2. CASE ~Rollback(c)
  <2>1. /\ Release(c) /\ pc' = [pc EXCEPT ![c] = "begin"] /\ UNCHANGED committed
        /\ job' = [job EXCEPT ![c] = Again(job[c])] /\ NoOne \notin Handlers
    BY <1>2, TransferAssumption DEF DeadlockVictim, Goto
  <2>2. /\ pc'[c] = "begin"
        /\ \A d \in Handlers \ {c} : pc'[d] = pc[d] /\ job'[d] = job[d]
    BY <2>1 DEF IInv, Control
  <2>3. Counted(c)'
    BY <2>2 DEF Counted
  <2>4. \A v \in Variants : /\ Exclusive(v)'
                            /\ \A d \in Handlers \ {c} : d \in variantShare[v] => d \in variantShare'[v]
    BY <2>1 DEF Release, CompanyInv, Exclusive, IInv, Control
  <2> QED  BY <2>1, <2>2, <2>3, <2>4, GoOnKeepsCount
<1> QED  BY <1>1, <1>2

(* Nobody's handler moves.                                                 *)
LEMMA AtOnceKeepsCount ==
    ASSUME IInv, CompanyInv, UNCHANGED <<stock, locks, pc, job>>,
           \A t \in Transfers : Standing(t) => transfer'[t] = transfer[t]
    PROVE  CompanyInv'
<1>1. ASSUME NEW d \in Handlers PROVE Counted(d)'
  <2>1. Undisturbed(d)
    BY DEF Undisturbed, locks
  <2> QED  BY <2>1, OthersStillCount DEF CompanyInv
<1>2. \A v \in Variants : Exclusive(v)'
  BY DEF CompanyInv, Exclusive, locks
<1> QED  BY <1>1, <1>2 DEF CompanyInv

LEMMA CreateKeepsCount ==
    ASSUME IInv, CompanyInv, NEW t \in Transfers, Create(t)
    PROVE  CompanyInv'
<1>1. /\ UNCHANGED <<stock, locks, pc, job>> /\ transfer[t].status = "NONE"
      /\ \A u \in Transfers \ {t} : transfer'[u] = transfer[u]
  BY DEF Create, IInv, Stored
<1>2. ~Standing(t)
  BY <1>1 DEF Standing
<1> QED  BY <1>1, <1>2, AtOnceKeepsCount

(* Edits wait for the document's holder.                                   *)
LEMMA EditKeepsCount ==
    ASSUME IInv, CompanyInv, NEW c \in Handlers, Update(c) \/ Delete(c)
    PROVE  CompanyInv'
<1>1. PICK t \in Transfers : t = job[c].transfer
  BY DEF IInv, Handled, AtPlace, Update, Delete, AtEdit
<1>2. docLock[t] \in {c, NoOne} /\ End(c) /\ stock' = stock /\ NoOne \notin Handlers
  BY <1>1, TransferAssumption DEF Update, Delete, IInv, Handled, Posts
<1>3. \A u \in Transfers \ {t} : transfer'[u] = transfer[u]
  BY <1>1 DEF Update, Delete, IInv, Stored
<1> QED  BY <1>2, <1>3, EndKeepsCount

LEMMA CompanyNext == IInv /\ CompanyInv /\ [Next]_vars => CompanyInv'
<1> SUFFICES ASSUME IInv, CompanyInv, [Next]_vars PROVE CompanyInv'
  OBVIOUS
<1>1. ASSUME NEW t \in Transfers, Create(t) PROVE CompanyInv'
  BY <1>1, CreateKeepsCount
<1>2. CASE UNCHANGED vars \/ \E t \in Transfers, op \in {"confirm", "cancel"} : TakePreview(op, t)
  <2>1. UNCHANGED <<committed, locks, pc, job>>
    BY <1>2 DEF vars, TakePreview
  <2> QED  BY <2>1, AtOnceKeepsCount DEF committed
<1>3. ASSUME NEW c \in Handlers,
             \/ StartTrade(c) \/ \E t \in Transfers : ReadForUpdate(c, t) \/ ReadForDelete(c, t)
             \/ \E a \in approvals, k \in Keys : ReadForPosting(c, a, k)
      PROVE  CompanyInv'
  <2>1. PICK where \in {"edit", "delete", "begin", "variant", "row"} :
          \E request : Start(c, where, request)
    BY <1>3 DEF StartTrade, ReadForUpdate, ReadForDelete, ReadForPosting
  <2> QED  BY <2>1, StartKeepsCount
<1>4. ASSUME NEW c \in Handlers, Step(c) PROVE CompanyInv'
  <2>1. CASE NothingToWrite(c) \/ TradeRefused(c)
    BY <2>1, RollbackKeepsCount DEF NothingToWrite, TradeRefused
  <2> QED  BY <1>4, <2>1, EditKeepsCount, CheckCounts, CommitKeepsCount DEF Step
<1>5. ASSUME NEW c \in Handlers, Lock(c) \/ DeadlockVictim(c) \/ Abort(c) PROVE CompanyInv'
  BY <1>5, LockKeepsCount, DeadlockKeepsCount, RollbackKeepsCount DEF Abort
<1> QED  BY <1>1, <1>2, <1>3, <1>4, <1>5 DEF Next

LEMMA CompanyInit == Init => CompanyInv
BY TransferAssumption DEF Init, CompanyInv, Exclusive, Counted

(* Of no variant the company's boards change while a posting is about to   *)
(* write: assertConservation never fails, whatever trades of branches the  *)
(* posting has not locked run beside it.                                   *)
THEOREM ConservationAlwaysHolds == Spec => []ConservationHolds
<1>1. IInv /\ CompanyInv => ConservationHolds
  <2> SUFFICES ASSUME IInv, CompanyInv, NEW c \in Handlers, pc[c] = "post", NEW v \in DocLines(c)
               PROVE  /\ CompanyBoards(Plus(stock, Pair(job[c].approval.body)), v) = job[c].company[v]
                      /\ job[c].op = "confirm" => wac[v] = job[c].approval.cost[v]
    BY DEF ConservationHolds, Conserved
  <2>1. PICK op \in Ops, t \in Transfers : op = job[c].op /\ t = job[c].transfer
    BY PostingOf DEF AtPosting
  <2>2. Preview(op, t) = job[c].approval
    BY <2>1 DEF IInv, Handled, Posts
  <2>3. PICK d \in Body : d = Direction(op, transfer[t].body) /\ d.from # d.to
                          /\ Lines(d) = DocLines(c) /\ DocLines(c) \subseteq Variants
    BY <2>1, Directed DEF DocLines
  <2>4. job[c].approval.body = d /\ job[c].approval.cost[v] = CostOf(op, t, v)
    BY <2>2, <2>3, PreviewOf
  <2>5. CompanyBoards(Plus(stock, Pair(d)), v) = CompanyBoards(stock, v)
    BY <2>3, PairConserves DEF IInv, Stored
  <2>6. job[c].company[v] = CompanyBoards(stock, v)
    BY DEF CompanyInv, Counted
  <2> QED  BY <2>1, <2>4, <2>5, <2>6 DEF CostOf
<1>2. Spec => []CompanyInv
  BY CompanyInit, CompanyNext, TransfersInvariant, PTL DEF Spec
<1> QED  BY <1>1, <1>2, TransfersInvariant, PTL

-----------------------------------------------------------------------------
(* Deadlocks.  Documents, variants, rows and lines are locked in one order *)
(* by everybody but the engine and edits: a handler that waits holds only  *)
(* what comes before what it waits for.  Only an edit keeps lines.         *)

NoLines(c) == \A t \in Transfers : lineLock[t] # c

NoLocks(c) ==
    /\ NoLines(c)
    /\ \A t \in Transfers : docLock[t] # c
    /\ \A v \in Variants : variantLock[v] # c /\ c \notin variantShare[v]
    /\ \A r \in Rows : rowLock[r] # c

NoRows(c)   == \A r \in Rows : rowLock[r] # c
NoShares(c) == \A v \in Variants : c \notin variantShare[v]

InOrder(c) ==
    /\ pc[c] \in {"idle", "edit", "delete", "begin", "variant"} => NoLocks(c)
    /\ pc[c] # "document" => NoLines(c)
    /\ pc[c] \in {"variants", "row"} => NoRows(c)
    /\ pc[c] \in {"variants", "rows", "row"} => NoShares(c)
    /\ pc[c] = "variants" =>
         /\ \E w \in DocLines(c) : variantLock[w] # c
         /\ \A v \in Variants, w \in DocLines(c) : variantLock[v] = c /\ variantLock[w] # c => v < w
    /\ pc[c] = "rows" =>
         /\ \E s \in DocRows(c) : rowLock[s] # c
         /\ \A r \in Rows, s \in DocRows(c) : rowLock[r] = c /\ rowLock[s] # c => Before(r, s)

OrderInv == \A c \in Handlers : InOrder(c)

(* O orders all of S.                                                      *)
TotalOrder(O, S) ==
    /\ \A x \in S, y \in S : x = y \/ <<x, y>> \in O \/ <<y, x>> \in O
    /\ \A x \in S, y \in S, z \in S : <<x, y>> \in O /\ <<y, z>> \in O => <<x, z>> \in O

(* A finite set has a greatest element in a total order.                   *)
LEMMA Greatest ==
    ASSUME NEW S, IsFiniteSet(S), S # {}, NEW O, TotalOrder(O, S)
    PROVE  \E m \in S : \A x \in S : x = m \/ <<x, m>> \in O
<1> DEFINE Has(T) == \E m \in T : \A x \in T : x = m \/ <<x, m>> \in O
           bad    == {T \in SUBSET S : T # {} /\ ~Has(T)}
<1> SUFFICES ASSUME ~Has(S) PROVE FALSE
  OBVIOUS
<1>1. PICK T \in bad : \A R \in SUBSET T : R # T => R \notin bad
  <2>1. S \in bad /\ bad \in SUBSET SUBSET S
    OBVIOUS
  <2> HIDE DEF bad
  <2>2. HasSmallest(bad)
    BY <2>1, SmallestSubset
  <2> QED  BY <2>2 DEF HasSmallest
<1>2. PICK x \in T : TRUE
  OBVIOUS
<1>3. Has(T \ {x})
  <2>1. T \ {x} \in SUBSET T /\ T \ {x} # T /\ T \ {x} \in SUBSET S
    OBVIOUS
  <2>2. T \ {x} # {}
    <3>1. CASE T = {x}
      BY <1>2, <3>1
    <3>2. CASE T # {x}
      BY <1>2, <3>2
    <3> QED  BY <3>1, <3>2
  <2> QED  BY <1>1, <2>1, <2>2
<1>4. PICK y \in T \ {x} : \A z \in T \ {x} : z = y \/ <<z, y>> \in O
  BY <1>3
<1>5. x \in S /\ y \in S /\ T \subseteq S /\ ~Has(T)
  OBVIOUS
<1> USE DEF TotalOrder
<1>6. CASE <<x, y>> \in O
  <2>1. \A z \in T : z = y \/ <<z, y>> \in O
    BY <1>4, <1>6
  <2> QED  BY <1>4, <1>5, <2>1
<1>7. CASE <<y, x>> \in O
  <2>1. \A z \in T : z = x \/ <<z, x>> \in O
    BY <1>4, <1>5, <1>7
  <2> QED  BY <1>2, <1>5, <2>1
<1> QED  BY <1>4, <1>5, <1>6, <1>7

(* Rows are in a total order.                                              *)
LEMMA RowsOrdered ==
    /\ \A r \in Rows, s \in Rows : r = s \/ Before(r, s) \/ Before(s, r)
    /\ \A r \in Rows, s \in Rows, q \in Rows : Before(r, s) /\ Before(s, q) => Before(r, q)
    /\ \A r \in Rows : ~Before(r, r)
    /\ IsFiniteSet(Rows)
<1>1. ASSUME NEW r \in Rows
      PROVE  r = <<r[1], r[2]>> /\ r[1] \in Nat /\ r[2] \in Nat
  <2>1. PICK b \in Branches, v \in Variants : r = <<b, v>>
    BY DEF Rows
  <2> QED  BY <2>1, TransferAssumption
<1>2. \A r \in Rows, s \in Rows : r = s \/ Before(r, s) \/ Before(s, r)
  BY <1>1 DEF Before
<1>3. \A r \in Rows, s \in Rows, q \in Rows : Before(r, s) /\ Before(s, q) => Before(r, q)
  BY <1>1 DEF Before
<1>4. \A r \in Rows : ~Before(r, r)
  BY <1>1 DEF Before
<1>5. IsFiniteSet(Rows)
  BY TransferAssumption, FS_Product DEF Rows
<1> QED  BY <1>2, <1>3, <1>4, <1>5

(* The next variant and the next row are the first that are not held.      *)
LEMMA NextVariantIsFirst ==
    ASSUME IInv, NEW c \in Handlers, DocLines(c) \subseteq Variants,
           \E w \in DocLines(c) : variantLock[w] # c
    PROVE  /\ NextVariant(c, DocLines(c)) \in DocLines(c)
           /\ variantLock[NextVariant(c, DocLines(c))] # c
           /\ \A w \in DocLines(c) : variantLock[w] # c => NextVariant(c, DocLines(c)) <= w
<1> DEFINE free == {v \in DocLines(c) : variantLock[v] # c}
           O    == {p \in Variants \X Variants : p[2] < p[1]}
<1>1. free # {} /\ free \subseteq Variants /\ IsFiniteSet(free) /\ free \subseteq Nat
  <2>1. free \subseteq Variants /\ Variants \subseteq Nat /\ IsFiniteSet(Variants)
    BY TransferAssumption
  <2> QED  BY <2>1, FS_Subset
<1>2. \A x \in free, y \in free : <<x, y>> \in O <=> y < x
  BY <1>1
<1>5. NextVariant(c, DocLines(c)) = CHOOSE m \in free : \A x \in free : m <= x
  BY DEF NextVariant, Min
<1> HIDE DEF O, free
<1>3. \E m \in free : \A x \in free : x = m \/ <<x, m>> \in O
  <2>1. ASSUME NEW x \in free, NEW y \in free
        PROVE  x = y \/ <<x, y>> \in O \/ <<y, x>> \in O
    <3>1. x \in Nat /\ y \in Nat
      BY <1>1
    <3>2. x = y \/ y < x \/ x < y
      BY <3>1
    <3> QED  BY <1>2, <3>2
  <2>2. ASSUME NEW x \in free, NEW y \in free, NEW z \in free, <<x, y>> \in O, <<y, z>> \in O
        PROVE  <<x, z>> \in O
    <3>1. x \in Nat /\ y \in Nat /\ z \in Nat
      BY <1>1
    <3>2. y < x /\ z < y
      BY <1>2, <2>2
    <3>3. z < x
      BY <3>1, <3>2
    <3> QED  BY <1>2, <3>3
  <2>3. free # {} /\ IsFiniteSet(free)
    BY <1>1
  <2>4. \A x \in free, y \in free : x = y \/ <<x, y>> \in O \/ <<y, x>> \in O
    BY <2>1
  <2>5. \A x \in free, y \in free, z \in free :
          <<x, y>> \in O /\ <<y, z>> \in O => <<x, z>> \in O
    BY <2>2
  <2>6. TotalOrder(O, free)
    BY <2>4, <2>5 DEF TotalOrder
  <2> QED  BY <2>3, <2>6, Greatest
<1>4. \E m \in free : \A x \in free : m <= x
  <2>1. PICK m \in free : \A x \in free : x = m \/ <<x, m>> \in O
    BY <1>3
  <2>2. ASSUME NEW x \in free PROVE m <= x
    <3>1. x \in Nat /\ m \in Nat
      BY <1>1
    <3>2. x = m \/ m < x
      BY <1>2, <2>1
    <3> QED  BY <3>1, <3>2
  <2> QED  BY <2>2
<1>6. /\ NextVariant(c, DocLines(c)) \in free
      /\ \A x \in free : NextVariant(c, DocLines(c)) <= x
  BY <1>4, <1>5
<1> QED  BY <1>6 DEF free

LEMMA NextRowIsFirst ==
    ASSUME IInv, NEW c \in Handlers, DocRows(c) \subseteq Rows,
           \E s \in DocRows(c) : rowLock[s] # c
    PROVE  /\ NextRow(c, DocRows(c)) \in DocRows(c)
           /\ rowLock[NextRow(c, DocRows(c))] # c
           /\ \A s \in DocRows(c) : rowLock[s] # c =>
                NextRow(c, DocRows(c)) = s \/ Before(NextRow(c, DocRows(c)), s)
<1> DEFINE free == {r \in DocRows(c) : rowLock[r] # c}
           O    == {p \in Rows \X Rows : Before(p[2], p[1])}
<1>1. free # {} /\ free \subseteq Rows /\ IsFiniteSet(free)
  <2>1. free \subseteq Rows
    OBVIOUS
  <2> QED  BY <2>1, RowsOrdered, FS_Subset
<1>2. \A x \in free, y \in free : <<x, y>> \in O <=> Before(y, x)
  BY <1>1
<1> HIDE DEF O
<1>3. \E m \in free : \A x \in free : x = m \/ <<x, m>> \in O
  <2>1. \A x \in free, y \in free : x = y \/ <<x, y>> \in O \/ <<y, x>> \in O
    BY <1>1, <1>2, RowsOrdered
  <2>2. \A x \in free, y \in free, z \in free : <<x, y>> \in O /\ <<y, z>> \in O => <<x, z>> \in O
    BY <1>1, <1>2, RowsOrdered
  <2> HIDE DEF free
  <2>3. TotalOrder(O, free)
    BY <2>1, <2>2 DEF TotalOrder
  <2> QED  BY <1>1, <2>3, Greatest
<1>4. \E m \in DocRows(c) : /\ rowLock[m] # c
                            /\ \A s \in DocRows(c) : rowLock[s] # c => (m = s \/ Before(m, s))
  BY <1>2, <1>3
<1> QED  BY <1>4 DEF NextRow

-----------------------------------------------------------------------------

(* What another handler does leaves a handler its locks, and only these.   *)
KeepsLocks(d) ==
    /\ pc'[d] = pc[d] /\ job'[d] = job[d]
    /\ \A t \in Transfers : /\ docLock'[t] = d <=> docLock[t] = d
                            /\ lineLock'[t] = d <=> lineLock[t] = d
                            /\ docLock[t] = d /\ Standing(t) => transfer'[t] = transfer[t]
    /\ \A v \in Variants : /\ variantLock'[v] = d <=> variantLock[v] = d
                           /\ d \in variantShare'[v] <=> d \in variantShare[v]
    /\ \A r \in Rows : rowLock'[r] = d <=> rowLock[r] = d

LEMMA OthersInOrder ==
    ASSUME IInv, NEW d \in Handlers, InOrder(d), KeepsLocks(d)
    PROVE  InOrder(d)'
<1>1. Handled(d) /\ pc'[d] = pc[d] /\ job'[d] = job[d]
  BY DEF IInv, KeepsLocks
<1>2. /\ NoLocks(d)' <=> NoLocks(d)
      /\ NoLines(d)' <=> NoLines(d)
      /\ NoRows(d)' <=> NoRows(d)
      /\ NoShares(d)' <=> NoShares(d)
  BY DEF KeepsLocks, NoLocks, NoLines, NoRows, NoShares
<1>3. CASE pc[d] \in {"variants", "rows"}
  <2>1. PICK t \in Transfers : t = job[d].transfer
    BY <1>3, PostingOf DEF AtPosting
  <2>2. docLock[t] = d /\ Standing(t)
    BY <1>1, <1>3, <2>1 DEF Handled, Posts, Holding, Standing
  <2>3. transfer'[t] = transfer[t]
    BY <2>2 DEF KeepsLocks
  <2>4. /\ DocLines(d)' = DocLines(d) /\ DocRows(d)' = DocRows(d)
        /\ DocLines(d) \subseteq Variants /\ DocRows(d) \subseteq Rows
    BY <1>1, <1>3, <2>1, <2>3, PostingOf DEF DocLines, DocRows, AtPosting
  <2>5. pc[d] = "variants" =>
          (/\ \E w \in DocLines(d) : variantLock[w] # d
           /\ \A v \in Variants, w \in DocLines(d) :
                variantLock[v] = d /\ variantLock[w] # d => v < w)'
    BY <2>4 DEF InOrder, KeepsLocks
  <2>6. pc[d] = "rows" =>
          (/\ \E s \in DocRows(d) : rowLock[s] # d
           /\ \A r \in Rows, s \in DocRows(d) :
                rowLock[r] = d /\ rowLock[s] # d => Before(r, s))'
    BY <2>4 DEF InOrder, KeepsLocks
  <2> QED  BY <1>1, <1>2, <1>3, <2>5, <2>6 DEF InOrder
<1>4. CASE pc[d] \notin {"variants", "rows"}
  BY <1>1, <1>2, <1>4 DEF InOrder
<1> QED  BY <1>3, <1>4

LEMMA OthersOrder ==
    ASSUME IInv, OrderInv, NEW c \in Handlers, InOrder(c)',
           \A d \in Handlers \ {c} : KeepsLocks(d)
    PROVE  OrderInv'
BY OthersInOrder DEF OrderInv

(* Who gives everything up has nothing, and nobody else loses anything.    *)
LEMMA Released ==
    ASSUME IInv, NEW c \in Handlers, Release(c)
    PROVE  /\ NoLocks(c)'
           /\ \A d \in Handlers \ {c} :
                /\ \A t \in Transfers : /\ docLock'[t] = d <=> docLock[t] = d
                                        /\ lineLock'[t] = d <=> lineLock[t] = d
                /\ \A v \in Variants : /\ variantLock'[v] = d <=> variantLock[v] = d
                                       /\ d \in variantShare'[v] <=> d \in variantShare[v]
                /\ \A r \in Rows : rowLock'[r] = d <=> rowLock[r] = d
<1>1. NoOne \notin Handlers
  BY TransferAssumption
<1>2. /\ \A t \in Transfers : /\ docLock'[t] = IF docLock[t] = c THEN NoOne ELSE docLock[t]
                              /\ lineLock'[t] = IF lineLock[t] = c THEN NoOne ELSE lineLock[t]
      /\ \A v \in Variants : /\ variantLock'[v] = IF variantLock[v] = c THEN NoOne ELSE variantLock[v]
                             /\ variantShare'[v] = variantShare[v] \ {c}
      /\ \A r \in Rows : rowLock'[r] = IF rowLock[r] = c THEN NoOne ELSE rowLock[r]
  BY DEF Release
<1>3. NoLocks(c)'
  BY <1>1, <1>2 DEF NoLocks, NoLines
<1> QED  BY <1>1, <1>2, <1>3

LEMMA EndKeepsOrder ==
    ASSUME IInv, OrderInv, NEW c \in Handlers, End(c),
           \A d \in Handlers \ {c}, t \in Transfers :
             docLock[t] = d /\ Standing(t) => transfer'[t] = transfer[t]
    PROVE  OrderInv'
<1>1. pc'[c] = "idle" /\ Release(c)
      /\ \A d \in Handlers \ {c} : pc'[d] = pc[d] /\ job'[d] = job[d]
  BY DEF End, IInv, Control
<1>2. InOrder(c)'
  BY <1>1, Released DEF InOrder, NoLocks
<1>3. \A d \in Handlers \ {c} : KeepsLocks(d)
  BY <1>1, Released DEF KeepsLocks
<1> QED  BY <1>2, <1>3, OthersOrder

LEMMA RollbackKeepsOrder ==
    ASSUME IInv, OrderInv, NEW c \in Handlers, Rollback(c)
    PROVE  OrderInv'
BY EndKeepsOrder DEF Rollback, committed

(* A handler goes on with the locks it has.                                *)
LEMMA GoOnKeepsOrder ==
    ASSUME IInv, OrderInv, NEW c \in Handlers, UNCHANGED <<transfer, locks>>, InOrder(c)',
           \A d \in Handlers \ {c} : pc'[d] = pc[d] /\ job'[d] = job[d]
    PROVE  OrderInv'
<1>1. \A d \in Handlers \ {c} : KeepsLocks(d)
  BY DEF KeepsLocks, locks
<1> QED  BY <1>1, OthersOrder

LEMMA StartKeepsOrder ==
    ASSUME IInv, OrderInv, NEW c \in Handlers,
           NEW where \in {"edit", "delete", "begin", "variant", "row"}, NEW request,
           Start(c, where, request)
    PROVE  OrderInv'
<1>1. /\ pc[c] = "idle" /\ UNCHANGED <<transfer, locks>>
      /\ pc' = [pc EXCEPT ![c] = where] /\ job' = [job EXCEPT ![c] = request]
  BY DEF Start, committed
<1>2. /\ pc'[c] = where
      /\ \A d \in Handlers \ {c} : pc'[d] = pc[d] /\ job'[d] = job[d]
  BY <1>1 DEF IInv, Control
<1>3. NoLocks(c)
  BY <1>1 DEF OrderInv, InOrder
<1>4. NoLocks(c)' /\ NoLines(c)' /\ NoRows(c)' /\ NoShares(c)'
  BY <1>1, <1>3 DEF NoLocks, NoLines, NoRows, NoShares, locks
<1>5. InOrder(c)'
  BY <1>2, <1>4 DEF InOrder
<1> QED  BY <1>1, <1>2, <1>5, GoOnKeepsOrder

LEMMA DraftLockInOrder ==
    ASSUME IInv, OrderInv, NEW c \in Handlers, DeleteLines(c) \/ LockForDelete(c)
    PROVE  OrderInv'
<1>1. PICK t \in Transfers : t = job[c].transfer
  BY DEF IInv, Handled, AtPlace, DeleteLines, LockForDelete, AtEdit
<1>2. NoOne \notin Handlers /\ InOrder(c)
  BY TransferAssumption DEF OrderInv
<1>3. PICK place \in {"document", "cascade"} : pc' = [pc EXCEPT ![c] = place]
      /\ \/ /\ place = "document" /\ lineLock[t] = NoOne
            /\ lineLock' = [lineLock EXCEPT ![t] = c] /\ UNCHANGED docLock
         \/ /\ pc[c] = "delete" /\ place = "cascade" /\ docLock[t] = NoOne
            /\ docLock' = [docLock EXCEPT ![t] = c] /\ UNCHANGED lineLock
  <2>1. CASE DeleteLines(c)
    BY <1>1, <2>1 DEF DeleteLines, Goto
  <2>2. CASE LockForDelete(c)
    BY <1>1, <2>2 DEF LockForDelete, Goto
  <2> QED  BY <2>1, <2>2
<1>4. UNCHANGED <<transfer, variantLock, variantShare, rowLock, job>>
  BY DEF DeleteLines, LockForDelete, committed
<1>5. pc'[c] = place /\ \A d \in Handlers \ {c} : pc'[d] = pc[d]
  BY <1>3 DEF IInv, Control
<1>6. place # "document" => NoLines(c)'
  BY <1>2, <1>3 DEF InOrder, NoLines
<1>7. InOrder(c)'
  BY <1>5, <1>6 DEF InOrder
<1>8. \A d \in Handlers \ {c} : KeepsLocks(d)
  BY <1>2, <1>3, <1>4, <1>5 DEF KeepsLocks, IInv, Control
<1> QED  BY <1>7, <1>8, OthersOrder

LEMMA LockDocumentInOrder ==
    ASSUME IInv, OrderInv, NEW c \in Handlers, LockDocument(c)
    PROVE  OrderInv'
<1>1. CASE Rollback(c)
  BY <1>1, RollbackKeepsOrder
<1>2. CASE ~Rollback(c)
  <2>1. PICK t \in Transfers : t = job[c].transfer
    BY PostingOf DEF LockDocument, AtPosting
  <2>2. /\ pc[c] = "begin" /\ docLock[t] = NoOne /\ NoOne \notin Handlers
        /\ docLock' = [docLock EXCEPT ![t] = c] /\ pc' = [pc EXCEPT ![c] = "variants"]
        /\ UNCHANGED <<transfer, lineLock, variantLock, variantShare, rowLock, job>>
    BY <1>2, <2>1, TransferAssumption DEF LockDocument, Goto, committed
  <2>3. pc'[c] = "variants" /\ \A d \in Handlers \ {c} : pc'[d] = pc[d]
    BY <2>2 DEF IInv, Control
  <2>4. NoLocks(c)
    BY <2>2 DEF OrderInv, InOrder
  <2>5. DocLines(c)' = DocLines(c) /\ DocLines(c) # {} /\ DocLines(c) \subseteq Variants
    <3>1. PICK op \in Ops : op = job[c].op
      BY <2>2, PostingOf DEF AtPosting
    <3> QED  BY <2>1, <2>2, <3>1, Directed DEF DocLines
  <2>6. InOrder(c)'
    BY <2>2, <2>3, <2>4, <2>5 DEF InOrder, NoLocks, NoLines, NoRows, NoShares
  <2>7. \A d \in Handlers \ {c} : KeepsLocks(d)
    BY <2>2, <2>3 DEF KeepsLocks, IInv, Control
  <2> QED  BY <2>6, <2>7, OthersOrder
<1> QED  BY <1>1, <1>2

LEMMA LockVariantInOrder ==
    ASSUME IInv, OrderInv, NEW c \in Handlers, LockVariant(c)
    PROVE  OrderInv'
<1>1. pc[c] = "variants" /\ InOrder(c) /\ DocLines(c) \subseteq Variants /\ DocRows(c) \subseteq Rows
  BY PostingOf DEF LockVariant, OrderInv, AtPosting
<1>2. PICK v \in DocLines(c) :
        /\ v = NextVariant(c, DocLines(c)) /\ variantLock[v] # c
        /\ \A w \in DocLines(c) : variantLock[w] # c => v <= w
  BY <1>1, NextVariantIsFirst DEF InOrder
<1> DEFINE place == IF \A w \in DocLines(c) \ {v} : variantLock[w] = c THEN "rows" ELSE "variants"
<1>3. /\ variantLock[v] \in {c, NoOne} /\ variantLock' = [variantLock EXCEPT ![v] = c]
      /\ pc' = [pc EXCEPT ![c] = place] /\ NoOne \notin Handlers
      /\ UNCHANGED <<transfer, docLock, lineLock, variantShare, rowLock, job>>
  BY <1>2, TransferAssumption DEF LockVariant, VariantFree, Goto, committed
<1>4. place \in {"rows", "variants"}
      /\ (place = "variants" => \E w \in DocLines(c) \ {v} : variantLock[w] # c)
  OBVIOUS
<1> HIDE DEF place
<1>5. /\ variantLock'[v] = c /\ \A w \in Variants \ {v} : variantLock'[w] = variantLock[w]
      /\ v \in Variants /\ v \in Nat /\ \A w \in Variants : w \in Nat
  BY <1>1, <1>2, <1>3, TransferAssumption DEF IInv, Control
<1>6. pc'[c] = place /\ \A d \in Handlers \ {c} : pc'[d] = pc[d]
  BY <1>3 DEF IInv, Control
<1>7. DocLines(c)' = DocLines(c) /\ DocRows(c)' = DocRows(c)
  BY <1>3 DEF DocLines, DocRows
<1>8. NoLines(c)' /\ NoRows(c)' /\ NoShares(c)'
  BY <1>1, <1>3 DEF InOrder, NoLines, NoRows, NoShares
<1>9. place = "variants" =>
        (/\ \E w \in DocLines(c) : variantLock[w] # c
         /\ \A u \in Variants, w \in DocLines(c) : variantLock[u] = c /\ variantLock[w] # c => u < w)'
  <2>1. ASSUME NEW u \in Variants, NEW w \in DocLines(c), variantLock'[u] = c, variantLock'[w] # c
        PROVE  u < w
    <3>1. w # v /\ variantLock[w] # c
      BY <1>1, <1>5, <2>1
    <3>2. v <= w /\ w \in Nat
      <4>1. w \in DocLines(c) /\ w \in Variants
        BY <1>1, <1>4, <1>7, <2>1
      <4> QED  BY <1>2, <1>5, <3>1, <4>1
    <3>5. v < w
      BY <1>5, <3>1, <3>2
    <3>3. CASE u = v
      BY <3>3, <3>5
    <3>4. CASE u # v
      BY <1>1, <1>5, <2>1, <3>1, <3>4 DEF InOrder
    <3> QED  BY <3>3, <3>4
  <2> QED  BY <1>1, <1>4, <1>5, <1>7, <2>1
<1>10. place = "rows" =>
         (/\ \E s \in DocRows(c) : rowLock[s] # c
          /\ \A r \in Rows, s \in DocRows(c) : rowLock[r] = c /\ rowLock[s] # c => Before(r, s))'
  <2>1. <<transfer[job[c].transfer].body.from, v>> \in DocRows(c)
    BY DEF DocRows, DocLines
  <2> QED  BY <1>1, <1>7, <1>8, <2>1 DEF NoRows
<1>11. InOrder(c)'
  BY <1>4, <1>6, <1>8, <1>9, <1>10 DEF InOrder
<1>12. \A d \in Handlers \ {c} : KeepsLocks(d)
  BY <1>3, <1>5, <1>6 DEF KeepsLocks
<1> QED  BY <1>11, <1>12, OthersOrder

LEMMA LockRowInOrder ==
    ASSUME IInv, OrderInv, NEW c \in Handlers, LockRow(c)
    PROVE  OrderInv'
<1>1. pc[c] = "rows" /\ InOrder(c) /\ DocRows(c) \subseteq Rows
  BY PostingOf DEF LockRow, OrderInv, AtPosting
<1>2. PICK r \in DocRows(c) :
        /\ r = NextRow(c, DocRows(c)) /\ rowLock[r] # c
        /\ \A s \in DocRows(c) : rowLock[s] # c => r = s \/ Before(r, s)
  BY <1>1, NextRowIsFirst DEF InOrder
<1> DEFINE place == IF \A s \in DocRows(c) \ {r} : rowLock[s] = c THEN "check" ELSE "rows"
<1>3. /\ rowLock[r] = NoOne /\ rowLock' = [rowLock EXCEPT ![r] = c]
      /\ pc' = [pc EXCEPT ![c] = place] /\ NoOne \notin Handlers
      /\ UNCHANGED <<transfer, docLock, lineLock, variantLock, variantShare, job>>
  BY <1>2, TransferAssumption DEF LockRow, Goto, committed
<1>4. place \in {"rows", "check"}
      /\ (place = "rows" => \E s \in DocRows(c) \ {r} : rowLock[s] # c)
  OBVIOUS
<1> HIDE DEF place
<1>5. rowLock'[r] = c /\ r \in Rows /\ \A s \in Rows \ {r} : rowLock'[s] = rowLock[s]
  BY <1>1, <1>3 DEF IInv, Control
<1>6. pc'[c] = place /\ \A d \in Handlers \ {c} : pc'[d] = pc[d]
  BY <1>3 DEF IInv, Control
<1>7. DocRows(c)' = DocRows(c)
  BY <1>3 DEF DocRows
<1>8. NoLines(c)' /\ NoShares(c)'
  BY <1>1, <1>3 DEF InOrder, NoLines, NoShares
<1>9. place = "rows" =>
        (/\ \E s \in DocRows(c) : rowLock[s] # c
         /\ \A q \in Rows, s \in DocRows(c) : rowLock[q] = c /\ rowLock[s] # c => Before(q, s))'
  <2>1. ASSUME NEW q \in Rows, NEW s \in DocRows(c), rowLock'[q] = c, rowLock'[s] # c
        PROVE  Before(q, s)
    <3>1. s # r /\ rowLock[s] # c
      BY <1>1, <1>5, <2>1
    <3>2. Before(r, s)
      BY <1>2, <3>1
    <3>3. CASE q = r
      BY <3>2, <3>3
    <3>4. CASE q # r
      BY <1>1, <1>5, <2>1, <3>1, <3>4 DEF InOrder
    <3> QED  BY <3>3, <3>4
  <2> QED  BY <1>1, <1>4, <1>5, <1>7, <2>1
<1>10. InOrder(c)'
  BY <1>4, <1>6, <1>8, <1>9 DEF InOrder
<1>11. \A d \in Handlers \ {c} : KeepsLocks(d)
  BY <1>3, <1>5, <1>6 DEF KeepsLocks
<1> QED  BY <1>10, <1>11, OthersOrder

LEMMA TradeLockInOrder ==
    ASSUME IInv, OrderInv, NEW c \in Handlers, TradeVariant(c) \/ TradeRow(c) \/ TradeShare(c)
    PROVE  OrderInv'
<1>1. Handled(c) /\ InOrder(c) /\ NoOne \notin Handlers
  BY TransferAssumption DEF IInv, OrderInv
<1>2. PICK r \in Rows, v \in Variants : r = job[c].row /\ v = r[2]
  <2>1. job[c] \in Trades
    BY <1>1 DEF Handled, AtPlace, AtTrade, TradeVariant, TradeRow, TradeShare
  <2> QED  BY <2>1, OfTrade
<1>3. UNCHANGED <<transfer, docLock, lineLock, job>>
  BY DEF TradeVariant, TradeRow, TradeShare, committed
<1>7. NoLines(c)'
  BY <1>1, <1>3 DEF TradeVariant, TradeRow, TradeShare, InOrder, NoLines
<1>4. CASE TradeVariant(c)
  <2>1. /\ pc[c] = "variant" /\ variantLock[v] \in {c, NoOne} /\ pc' = [pc EXCEPT ![c] = "row"]
        /\ variantLock' = [variantLock EXCEPT ![v] = c] /\ UNCHANGED <<variantShare, rowLock>>
    BY <1>2, <1>4 DEF TradeVariant, VariantFree, Goto
  <2>2. pc'[c] = "row" /\ \A d \in Handlers \ {c} : pc'[d] = pc[d]
    BY <2>1 DEF IInv, Control
  <2>3. InOrder(c)'
    BY <1>1, <1>7, <2>1, <2>2 DEF InOrder, NoLocks, NoRows, NoShares
  <2>4. \A d \in Handlers \ {c} : KeepsLocks(d)
    BY <1>1, <1>3, <2>1, <2>2 DEF KeepsLocks, IInv, Control
  <2> QED  BY <2>3, <2>4, OthersOrder
<1>5. CASE TradeRow(c)
  <2>1. /\ rowLock[r] = NoOne /\ pc' = [pc EXCEPT ![c] = "share"]
        /\ rowLock' = [rowLock EXCEPT ![r] = c] /\ UNCHANGED <<variantLock, variantShare>>
    BY <1>2, <1>5 DEF TradeRow, Goto
  <2>2. pc'[c] = "share" /\ \A d \in Handlers \ {c} : pc'[d] = pc[d]
    BY <2>1 DEF IInv, Control
  <2>3. InOrder(c)'
    BY <1>7, <2>2 DEF InOrder
  <2>4. \A d \in Handlers \ {c} : KeepsLocks(d)
    BY <1>1, <1>3, <2>1, <2>2 DEF KeepsLocks, IInv, Control
  <2> QED  BY <2>3, <2>4, OthersOrder
<1>6. CASE TradeShare(c)
  <2>1. /\ pc' = [pc EXCEPT ![c] = "done"]
        /\ variantShare' = [variantShare EXCEPT ![v] = @ \cup {c}] /\ UNCHANGED <<variantLock, rowLock>>
    BY <1>2, <1>6 DEF TradeShare, Goto
  <2>2. pc'[c] = "done" /\ \A d \in Handlers \ {c} : pc'[d] = pc[d]
    BY <2>1 DEF IInv, Control
  <2>3. InOrder(c)'
    BY <1>7, <2>2 DEF InOrder
  <2>4. \A d \in Handlers \ {c} : KeepsLocks(d)
    BY <1>3, <2>1, <2>2 DEF KeepsLocks, IInv, Control
  <2> QED  BY <2>3, <2>4, OthersOrder
<1> QED  BY <1>4, <1>5, <1>6

(* The other steps: a commit, a check, a retry, an edit, a new draft.      *)
LEMMA CheckInOrder ==
    ASSUME IInv, OrderInv, NEW c \in Handlers, Check(c)
    PROVE  OrderInv'
<1>1. CASE Rollback(c)
  BY <1>1, RollbackKeepsOrder
<1>2. CASE ~Rollback(c)
  <2>1. pc' = [pc EXCEPT ![c] = "post"] /\ UNCHANGED <<transfer, locks>>
    BY <1>2 DEF Check, Goto, committed
  <2>2. \A d \in Handlers \ {c} : job'[d] = job[d]
    BY <1>2 DEF Check, IInv, Control
  <2>3. pc'[c] = "post" /\ \A d \in Handlers \ {c} : pc'[d] = pc[d]
    BY <2>1 DEF IInv, Control
  <2>4. InOrder(c)'
    <3>1. pc[c] = "check" /\ InOrder(c)
      BY <1>2 DEF Check, OrderInv
    <3>2. NoLines(c)'
      BY <2>1, <3>1 DEF InOrder, NoLines, locks
    <3> QED  BY <2>3, <3>2 DEF InOrder
  <2> QED  BY <2>1, <2>2, <2>3, <2>4, GoOnKeepsOrder
<1> QED  BY <1>1, <1>2

LEMMA CommitInOrder ==
    ASSUME IInv, OrderInv, NEW c \in Handlers, Post(c) \/ TradeCommit(c) \/ Update(c) \/ Delete(c)
    PROVE  OrderInv'
<1>1. CASE Rollback(c)
  BY <1>1, RollbackKeepsOrder
<1>2. ASSUME NEW t \in Transfers, NEW d \in Body, NEW new \in Document, PostWrites(c, t, d, new)
      PROVE  OrderInv'
  <2>1. /\ docLock[t] = c /\ End(c) /\ \A u \in Transfers \ {t} : transfer'[u] = transfer[u]
    BY <1>2 DEF PostWrites, IInv, Stored
  <2> QED  BY <2>1, EndKeepsOrder
<1>3. CASE TradeCommit(c)
  BY <1>3, EndKeepsOrder DEF TradeCommit
<1>4. CASE Update(c) \/ Delete(c)
  <2>1. PICK t \in Transfers : t = job[c].transfer
    BY <1>4 DEF IInv, Handled, AtPlace, Update, Delete, AtEdit
  <2>2. docLock[t] \in {c, NoOne} /\ End(c) /\ NoOne \notin Handlers
    BY <1>4, <2>1, TransferAssumption DEF Update, Delete, IInv, Handled, Posts
  <2>3. \A u \in Transfers \ {t} : transfer'[u] = transfer[u]
    BY <1>4, <2>1 DEF Update, Delete, IInv, Stored
  <2> QED  BY <2>2, <2>3, EndKeepsOrder
<1> QED  BY <1>1, <1>2, <1>3, <1>4, PostEither

LEMMA DeadlockInOrder ==
    ASSUME IInv, OrderInv, NEW c \in Handlers, DeadlockVictim(c)
    PROVE  OrderInv'
<1>1. CASE Rollback(c)
  BY <1>1, RollbackKeepsOrder
<1>2. CASE ~Rollback(c)
  <2>1. /\ Release(c) /\ pc' = [pc EXCEPT ![c] = "begin"] /\ transfer' = transfer
        /\ job' = [job EXCEPT ![c] = Again(job[c])]
    BY <1>2 DEF DeadlockVictim, Goto, committed
  <2>2. /\ pc'[c] = "begin"
        /\ \A d \in Handlers \ {c} : pc'[d] = pc[d] /\ job'[d] = job[d]
    BY <2>1 DEF IInv, Control
  <2>3. InOrder(c)'
    BY <2>1, <2>2, Released DEF InOrder, NoLocks
  <2>4. \A d \in Handlers \ {c} : KeepsLocks(d)
    BY <2>1, <2>2, Released DEF KeepsLocks
  <2> QED  BY <2>3, <2>4, OthersOrder
<1> QED  BY <1>1, <1>2

LEMMA AtOnceInOrder ==
    ASSUME IInv, OrderInv, UNCHANGED <<locks, pc, job>>,
           \A t \in Transfers : Standing(t) => transfer'[t] = transfer[t]
    PROVE  OrderInv'
<1>1. ASSUME NEW d \in Handlers PROVE InOrder(d)'
  <2>1. KeepsLocks(d)
    BY DEF KeepsLocks, locks
  <2> QED  BY <2>1, OthersInOrder DEF OrderInv
<1> QED  BY <1>1 DEF OrderInv

LEMMA OrderNext == IInv /\ OrderInv /\ [Next]_vars => OrderInv'
<1> SUFFICES ASSUME IInv, OrderInv, [Next]_vars PROVE OrderInv'
  OBVIOUS
<1>1. ASSUME NEW t \in Transfers, Create(t) PROVE OrderInv'
  <2>1. /\ UNCHANGED <<locks, pc, job>> /\ transfer[t].status = "NONE"
        /\ \A u \in Transfers \ {t} : transfer'[u] = transfer[u]
    BY <1>1 DEF Create, IInv, Stored
  <2>2. ~Standing(t)
    BY <2>1 DEF Standing
  <2> QED  BY <2>1, <2>2, AtOnceInOrder
<1>2. CASE UNCHANGED vars \/ \E t \in Transfers, op \in {"confirm", "cancel"} : TakePreview(op, t)
  <2>1. UNCHANGED <<transfer, locks, pc, job>>
    BY <1>2 DEF vars, TakePreview, committed
  <2> QED  BY <2>1, AtOnceInOrder
<1>3. ASSUME NEW c \in Handlers,
             \/ StartTrade(c) \/ \E t \in Transfers : ReadForUpdate(c, t) \/ ReadForDelete(c, t)
             \/ \E a \in approvals, k \in Keys : ReadForPosting(c, a, k)
      PROVE  OrderInv'
  <2>1. PICK where \in {"edit", "delete", "begin", "variant", "row"} :
          \E request : Start(c, where, request)
    BY <1>3 DEF StartTrade, ReadForUpdate, ReadForDelete, ReadForPosting
  <2> QED  BY <2>1, StartKeepsOrder
<1>4. ASSUME NEW c \in Handlers, Step(c) PROVE OrderInv'
  <2>1. CASE NothingToWrite(c) \/ TradeRefused(c)
    BY <2>1, RollbackKeepsOrder DEF NothingToWrite, TradeRefused
  <2> QED  BY <1>4, <2>1, CheckInOrder, CommitInOrder DEF Step
<1>5. ASSUME NEW c \in Handlers, Lock(c) \/ DeadlockVictim(c) \/ Abort(c) PROVE OrderInv'
  BY <1>5, DraftLockInOrder, LockDocumentInOrder, LockVariantInOrder, LockRowInOrder, TradeLockInOrder,
     DeadlockInOrder, RollbackKeepsOrder DEF Lock, Abort
<1> QED  BY <1>1, <1>2, <1>3, <1>4, <1>5 DEF Next

LEMMA OrderInit == Init => OrderInv
BY TransferAssumption DEF Init, OrderInv, InOrder, NoLocks, NoLines, NoRows, NoShares

-----------------------------------------------------------------------------

Disciplined(c) == job[c].op \notin {"engine", "update"}

(* In a cycle without the engine and without edits everybody waits for a   *)
(* variant or a row.                                                       *)
LEMMA Waiting ==
    ASSUME IInv, OrderInv, NEW S \in SUBSET Handlers, Cycle(S), \A c \in S : Disciplined(c),
           NEW c \in S
    PROVE  pc[c] \in {"variants", "rows", "row"}
<1> DEFINE places == {"begin", "delete", "variants", "variant", "rows", "row", "share"}
<1>1. c \in Handlers /\ Handled(c) /\ InOrder(c)
  BY DEF IInv, OrderInv
<1>2. (\E d \in S : d \in WaitsFor(c)) /\ (\E d \in S : c \in WaitsFor(d))
  BY DEF Cycle
<1>3. \A d \in S : pc[d] \in places
  <2> SUFFICES ASSUME NEW d \in S PROVE pc[d] \in places
    OBVIOUS
  <2>1. d \in Handlers /\ Handled(d) /\ Disciplined(d)
    BY DEF IInv
  <2>2. PICK e \in S : e \in WaitsFor(d)
    BY DEF Cycle
  <2>3. pc[d] \in places \cup {"document", "edit", "cascade", "post"}
    BY <2>2 DEF WaitsFor
  <2>4. pc[d] # "document"
    BY <2>1 DEF Handled, AtPlace, Disciplined
  <2>5. pc[d] \notin {"edit", "cascade", "post"}
    <3> SUFFICES ASSUME pc[d] \in {"edit", "cascade", "post"} PROVE FALSE
      OBVIOUS
    <3>1. PICK t \in Transfers : t = job[d].transfer
      BY <2>1 DEF Handled, AtPlace, AtEdit, AtPosting
    <3>2. lineLock[t] = e
      BY <2>2, <3>1 DEF WaitsFor
    <3>3. e \in Handlers /\ Handled(e) /\ Disciplined(e) /\ InOrder(e)
      BY DEF IInv, OrderInv
    <3>4. pc[e] = "document"
      BY <3>2, <3>3 DEF InOrder, NoLines
    <3> QED  BY <3>3, <3>4 DEF Handled, AtPlace, Disciplined
  <2> QED  BY <2>3, <2>4, <2>5
<1>4. ~NoLocks(c)
  <2>1. PICK d \in S : c \in WaitsFor(d)
    BY <1>2
  <2>2. d \in Handlers /\ Handled(d) /\ InOrder(d)
    BY DEF IInv, OrderInv
  <2>3. CASE pc[d] \in {"begin", "delete"}
    <3>1. PICK t \in Transfers : t = job[d].transfer
      BY <2>2, <2>3 DEF Handled, AtPlace, AtEdit, AtPosting
    <3> QED  BY <2>1, <2>3, <3>1 DEF WaitsFor, NoLocks
  <2>4. CASE pc[d] = "variants"
    <3>1. PICK v \in Variants : v = NextVariant(d, DocLines(d))
      BY <2>2, <2>4, PostingOf, NextVariantIsFirst DEF InOrder, AtPosting
    <3> QED  BY <2>1, <2>4, <3>1 DEF WaitsFor, NoLocks
  <2>5. CASE pc[d] = "rows"
    <3>1. PICK r \in Rows : r = NextRow(d, DocRows(d))
      BY <2>2, <2>5, PostingOf, NextRowIsFirst DEF InOrder, AtPosting
    <3> QED  BY <2>1, <2>5, <3>1 DEF WaitsFor, NoLocks
  <2>6. CASE pc[d] \in {"variant", "row", "share"}
    <3>1. job[d] \in Trades
      BY <2>2, <2>6 DEF Handled, AtPlace, AtTrade
    <3>2. PICK r \in Rows, v \in Variants : r = job[d].row /\ v = r[2]
      BY <3>1, OfTrade
    <3>3. CASE pc[d] = "row"
      BY <2>1, <3>2, <3>3 DEF WaitsFor, NoLocks
    <3>4. CASE pc[d] = "variant"
      BY <2>1, <3>2, <3>4 DEF WaitsFor, NoLocks
    <3>5. CASE pc[d] = "share"
      BY <2>1, <3>2, <3>5 DEF WaitsFor, NoLocks
    <3> QED  BY <2>6, <3>3, <3>4, <3>5
  <2>7. pc[d] \in places
    BY <1>3
  <2> QED  BY <2>3, <2>4, <2>5, <2>6, <2>7
<1>5. pc[c] # "share"
  <2> SUFFICES ASSUME pc[c] = "share" PROVE FALSE
    OBVIOUS
  <2>1. job[c] \in Trades
    BY <1>1 DEF Handled, AtPlace, AtTrade
  <2>2. job[c].op = "costing"
    BY <2>1, OfTrade DEF Disciplined
  <2>3. variantLock[job[c].row[2]] = c
    BY <1>1, <2>2 DEF Handled, Tradings
  <2> QED  BY <1>2, <2>3 DEF WaitsFor
<1> QED  BY <1>1, <1>3, <1>4, <1>5 DEF InOrder

(* The row somebody in such a cycle waits for is held by another, who      *)
(* waits for a later one.                                                  *)
RowOf(c) == IF pc[c] = "row" THEN job[c].row ELSE NextRow(c, DocRows(c))

LEMMA NoRowCycle ==
    ASSUME IInv, OrderInv, NEW S \in SUBSET Handlers, Cycle(S), \A c \in S : Disciplined(c),
           NEW e \in S, pc[e] \in {"rows", "row"}
    PROVE  FALSE
<1> DEFINE waiting == {c \in S : pc[c] \in {"rows", "row"}}
           wanted  == {RowOf(c) : c \in waiting}
<1>1. ASSUME NEW c \in waiting PROVE RowOf(c) \in Rows
  <2>1. c \in Handlers /\ Handled(c) /\ InOrder(c)
    BY DEF IInv, OrderInv
  <2>2. CASE pc[c] = "row"
    <3>1. job[c] \in Trades
      BY <2>1, <2>2 DEF Handled, AtPlace, AtTrade
    <3> QED  BY <2>2, <3>1, OfTrade DEF RowOf
  <2>3. CASE pc[c] = "rows"
    BY <2>1, <2>3, PostingOf, NextRowIsFirst DEF RowOf, InOrder, AtPosting
  <2> QED  BY <2>2, <2>3
<1>2. wanted # {} /\ wanted \subseteq Rows /\ IsFiniteSet(wanted)
  <2>1. wanted # {} /\ wanted \subseteq Rows
    BY <1>1
  <2> QED  BY <2>1, RowsOrdered, FS_Subset
<1>3. PICK m \in wanted : \A r \in wanted : r = m \/ Before(r, m)
  <2> DEFINE O == {p \in Rows \X Rows : Before(p[1], p[2])}
  <2>1. \A x \in wanted, y \in wanted : <<x, y>> \in O <=> Before(x, y)
    BY <1>2
  <2> HIDE DEF O, wanted
  <2>2. \A x \in wanted, y \in wanted : x = y \/ <<x, y>> \in O \/ <<y, x>> \in O
    BY <1>2, <2>1, RowsOrdered
  <2>3. \A x \in wanted, y \in wanted, z \in wanted :
          <<x, y>> \in O /\ <<y, z>> \in O => <<x, z>> \in O
    BY <1>2, <2>1, RowsOrdered
  <2>4. wanted # {} /\ IsFiniteSet(wanted)
    BY <1>2
  <2>5. PICK m \in wanted : \A r \in wanted : r = m \/ <<r, m>> \in O
    <3>1. TotalOrder(O, wanted)
      BY <2>2, <2>3 DEF TotalOrder
    <3> QED  BY <2>4, <3>1, Greatest
  <2>6. \A r \in wanted : r = m \/ Before(r, m)
    BY <2>1, <2>5
  <2> QED  BY <2>6
<1>4. PICK c \in waiting : m = RowOf(c)
  OBVIOUS
<1>5. PICK d \in S : rowLock[m] = d
  <2>1. PICK d \in S : d \in WaitsFor(c)
    BY DEF Cycle
  <2> QED  BY <1>4, <2>1 DEF WaitsFor, RowOf
<1>6. d \in Handlers /\ InOrder(d) /\ m \in Rows
  BY <1>2 DEF OrderInv
<1>7. pc[d] = "rows"
  BY <1>5, <1>6, Waiting DEF InOrder, NoRows
<1>8. /\ RowOf(d) \in DocRows(d) /\ rowLock[RowOf(d)] # d /\ DocRows(d) \subseteq Rows
  BY <1>6, <1>7, PostingOf, NextRowIsFirst DEF RowOf, InOrder, AtPosting
<1>9. Before(m, RowOf(d))
  BY <1>5, <1>6, <1>7, <1>8 DEF InOrder
<1>10. RowOf(d) \in wanted
  BY <1>7
<1> HIDE DEF wanted
<1> QED  BY <1>2, <1>3, <1>6, <1>9, <1>10, RowsOrdered

LEMMA NoVariantCycle ==
    ASSUME IInv, OrderInv, NEW S \in SUBSET Handlers, S # {}, Cycle(S),
           \A c \in S : pc[c] = "variants"
    PROVE  FALSE
<1> DEFINE Wanted(c) == NextVariant(c, DocLines(c))
           wanted    == {Wanted(c) : c \in S}
<1>1. ASSUME NEW c \in S
      PROVE  /\ c \in Handlers /\ InOrder(c) /\ DocLines(c) \subseteq Variants
             /\ Wanted(c) \in DocLines(c) /\ variantLock[Wanted(c)] # c
             /\ Wanted(c) \in Variants
  <2>1. c \in Handlers /\ InOrder(c)
    BY DEF OrderInv
  <2>2. DocLines(c) \subseteq Variants
    BY <2>1, PostingOf DEF AtPosting
  <2> QED  BY <2>1, <2>2, NextVariantIsFirst DEF InOrder
<1>2. wanted # {} /\ wanted \subseteq Variants /\ wanted \subseteq Nat /\ IsFiniteSet(wanted)
  <2>1. wanted # {} /\ wanted \subseteq Variants
    BY <1>1
  <2>2. Variants \subseteq Nat /\ IsFiniteSet(Variants)
    BY TransferAssumption
  <2> HIDE DEF wanted
  <2> QED  BY <2>1, <2>2, FS_Subset
<1>3. PICK m \in wanted : \A v \in wanted : v <= m
  <2> DEFINE O == {p \in Nat \X Nat : p[1] < p[2]}
  <2> HIDE DEF wanted
  <2>0. \A x \in wanted : x \in Nat
    BY <1>2
  <2>1. \A x \in wanted, y \in wanted : <<x, y>> \in O <=> x < y
    BY <2>0
  <2> HIDE DEF O
  <2>2. ASSUME NEW x \in wanted, NEW y \in wanted
        PROVE  x = y \/ <<x, y>> \in O \/ <<y, x>> \in O
    <3>1. x = y \/ x < y \/ y < x
      <4>1. x \in Nat /\ y \in Nat
        BY <2>0
      <4> QED  BY <4>1
    <3> QED  BY <2>1, <3>1
  <2>3. ASSUME NEW x \in wanted, NEW y \in wanted, NEW z \in wanted,
               <<x, y>> \in O, <<y, z>> \in O
        PROVE  <<x, z>> \in O
    <3>1. x \in Nat /\ y \in Nat /\ z \in Nat /\ x < y /\ y < z
      BY <2>0, <2>1, <2>3
    <3>2. x < z
      BY <3>1
    <3> QED  BY <2>1, <3>2
  <2>4. \E m \in wanted : \A x \in wanted : x = m \/ <<x, m>> \in O
    <3>1. wanted # {} /\ IsFiniteSet(wanted)
      BY <1>2
    <3>2. \A x \in wanted, y \in wanted : x = y \/ <<x, y>> \in O \/ <<y, x>> \in O
      BY <2>2
    <3>3. \A x \in wanted, y \in wanted, z \in wanted :
            <<x, y>> \in O /\ <<y, z>> \in O => <<x, z>> \in O
      BY <2>3
    <3>4. TotalOrder(O, wanted)
      BY <3>2, <3>3 DEF TotalOrder
    <3> QED  BY <3>1, <3>4, Greatest
  <2>5. PICK m \in wanted : \A x \in wanted : x = m \/ <<x, m>> \in O
    BY <2>4
  <2>6. ASSUME NEW v \in wanted PROVE v <= m
    <3>1. v \in Nat /\ m \in Nat /\ (v = m \/ v < m)
      BY <2>0, <2>1, <2>5
    <3> QED  BY <3>1
  <2> QED  BY <2>6
<1>4. PICK c \in S : m = Wanted(c)
  OBVIOUS
<1>5. PICK d \in S : variantLock[m] = d
  <2>1. PICK d \in S : d \in WaitsFor(c)
    BY DEF Cycle
  <2>2. pc[c] = "variants"
    OBVIOUS
  <2>3. WaitsFor(c) = ({variantLock[m]} \cup variantShare[m]) \ {c, NoOne}
    BY <1>4, <2>2 DEF WaitsFor
  <2>4. d \notin variantShare[m]
    BY <1>1, <1>2 DEF InOrder, NoShares
  <2> QED  BY <2>1, <2>3, <2>4
<1>6. Wanted(d) \in DocLines(d) /\ variantLock[Wanted(d)] # d /\ m \in Variants /\ InOrder(d)
  BY <1>1, <1>2
<1>7. m < Wanted(d)
  BY <1>5, <1>6 DEF InOrder
<1>8. Wanted(d) \in wanted
  OBVIOUS
<1>9. Wanted(d) \in Nat /\ m \in Nat
  BY <1>2, <1>8
<1> HIDE DEF wanted, Wanted
<1> QED  BY <1>3, <1>7, <1>8, <1>9

(* Any number of confirmations, cancellations, deletions of drafts and     *)
(* purchases never wait for each other in a circle, whatever documents     *)
(* they are about: every deadlock has a transaction of the engine, which   *)
(* locks its row before its variant, or an edit, which locks lines before  *)
(* their document (lockForPosting, update).                                *)
THEOREM DisciplineAvoidsDeadlock == Spec => []DisciplineNeverDeadlocks
<1>1. IInv /\ OrderInv => DisciplineNeverDeadlocks
  <2> SUFFICES ASSUME IInv, OrderInv, NEW S \in SUBSET Handlers, S # {}, Cycle(S),
                      \A c \in S : Disciplined(c)
               PROVE  FALSE
    BY DEF DisciplineNeverDeadlocks, Disciplined
  <2>1. \A c \in S : pc[c] \in {"variants", "rows", "row"}
    BY Waiting
  <2>2. \A c \in S : pc[c] \notin {"rows", "row"}
    BY NoRowCycle
  <2> QED  BY <2>1, <2>2, NoVariantCycle
<1>2. Spec => []OrderInv
  BY OrderInit, OrderNext, TransfersInvariant, PTL DEF Spec
<1> QED  BY <1>1, <1>2, TransfersInvariant, PTL

-----------------------------------------------------------------------------
(* The refinement: what the handlers commit is a step of StockRelocation,  *)
(* what they do before is none.                                            *)

Status == [t \in Transfers |-> transfer[t].status]

LEMMA RelocationInit == Init => Relocation!Init
BY TransferAssumption
   DEF Init, NoTransfer, Rows, Nothing, Relocation!Init, Relocation!Rows, Relocation!Nothing

LEMMA QuietStep ==
    ASSUME UNCHANGED <<stock, wac, posted, returned>>, Status' = Status
    PROVE  UNCHANGED Relocation!relocationVars
BY DEF Status, Relocation!relocationVars

LEMMA StatusStep ==
    ASSUME IInv, NEW t \in Transfers, NEW new \in Document,
           transfer' = [transfer EXCEPT ![t] = new]
    PROVE  Status' = [Status EXCEPT ![t] = new.status] /\ Status[t] = transfer[t].status
BY DEF Status, IInv, Stored

LEMMA CreateIsDraft ==
    ASSUME IInv, NEW t \in Transfers, Create(t)
    PROVE  Relocation!Draft(t)
<1>1. PICK d \in Bodies :
        transfer' = [transfer EXCEPT ![t] = [NoTransfer EXCEPT !.status = "DRAFT", !.body = d]]
  BY DEF Create
<1> DEFINE new == [NoTransfer EXCEPT !.status = "DRAFT", !.body = d]
<1>2. new \in Document /\ new.status = "DRAFT" /\ transfer' = [transfer EXCEPT ![t] = new]
  BY <1>1, NoTransferType DEF Document
<1> HIDE DEF new
<1>3. PICK x \in Document : x.status = "DRAFT" /\ transfer' = [transfer EXCEPT ![t] = x]
  BY <1>2
<1>4. Status' = [Status EXCEPT ![t] = "DRAFT"] /\ Status[t] = "NONE"
  <2>1. Status' = [Status EXCEPT ![t] = x.status] /\ Status[t] = transfer[t].status
    BY <1>3, StatusStep
  <2>2. transfer[t].status = "NONE"
    BY DEF Create
  <2> QED  BY <1>3, <2>1, <2>2
<1> QED  BY <1>4 DEF Create, Status, Relocation!Draft

LEMMA DeleteIsDraft ==
    ASSUME IInv, NEW c \in Handlers, Delete(c)
    PROVE  \E t \in Transfers : Relocation!Draft(t)
<1>1. PICK t \in Transfers : t = job[c].transfer
  BY DEF IInv, Handled, AtPlace, Delete, AtEdit
<1>2. /\ transfer[t].status = "DRAFT" /\ transfer' = [transfer EXCEPT ![t].status = "DELETED"]
      /\ UNCHANGED <<stock, wac, posted, returned>>
  BY <1>1 DEF Delete, IInv, Handled, Posts
<1> DEFINE new == [transfer[t] EXCEPT !.status = "DELETED"]
<1>3. new \in Document /\ new.status = "DELETED" /\ transfer' = [transfer EXCEPT ![t] = new]
  BY <1>2 DEF IInv, Stored, Document
<1> HIDE DEF new
<1>4. PICK x \in Document : x.status = "DELETED" /\ transfer' = [transfer EXCEPT ![t] = x]
  BY <1>3
<1>5. Status' = [Status EXCEPT ![t] = "DELETED"] /\ Status[t] = "DRAFT"
  <2>1. Status' = [Status EXCEPT ![t] = x.status] /\ Status[t] = transfer[t].status
    BY <1>4, StatusStep
  <2> QED  BY <1>2, <1>4, <2>1
<1> QED  BY <1>2, <1>5 DEF Status, Relocation!Draft

LEMMA UpdateIsQuiet ==
    ASSUME IInv, NEW c \in Handlers, Update(c)
    PROVE  UNCHANGED <<stock, wac, posted, returned>> /\ Status' = Status
<1>1. PICK t \in Transfers, d \in Bodies :
        transfer' = [transfer EXCEPT ![t].body = d, ![t].cost = Free, ![t].version = @ + 1]
  BY DEF IInv, Handled, AtPlace, Update, AtEdit
<1>2. transfer[t] \in Document
  BY DEF IInv, Stored
<1>3. ASSUME NEW u \in Transfers PROVE transfer'[u].status = transfer[u].status
  BY <1>1, <1>2 DEF IInv, Stored, Document
<1> QED  BY <1>3 DEF Update, Status

LEMMA BalancedPair ==
    ASSUME NEW d \in Body, d.from # d.to
    PROVE  Relocation!Balanced(Pair(d))
<1>1. d.from \in Branches /\ d.to \in Branches /\ d.boards \in [Variants -> Nat]
  BY DEF Body
<1>2. \A b \in Branches, v \in Variants :
        Pair(d)[<<b, v>>] = IF b = d.to THEN d.boards[v] ELSE IF b = d.from THEN -d.boards[v] ELSE 0
  BY DEF Pair, Rows
<1>3. /\ \A v \in Variants : Pair(d)[<<d.to, v>>] >= 0
                            /\ Pair(d)[<<d.from, v>>] = -Pair(d)[<<d.to, v>>]
      /\ \A b \in Branches \ {d.from, d.to}, v \in Variants : Pair(d)[<<b, v>>] = 0
  BY <1>1, <1>2
<1> QED  BY <1>1, <1>3 DEF Relocation!Balanced

(* The confirmation moves the document's goods, the cancellation exactly   *)
(* those: lines that are not what was moved cannot be cancelled.           *)
LEMMA PostRelocates ==
    ASSUME IInv, NEW c \in Handlers, NEW t \in Transfers, NEW d \in Body, NEW new \in Document,
           PostWrites(c, t, d, new)
    PROVE  Relocation!Ship(t) \/ Relocation!Return(t)
<1>1. Status' = [Status EXCEPT ![t] = new.status] /\ Status[t] = transfer[t].status
  BY StatusStep DEF PostWrites
<1>2. \A r \in Rows : stock'[r] >= 0
  BY DEF PostWrites
<1>3. Relocation!Rows = Rows
  BY DEF Relocation!Rows, Rows
<1>4. CASE transfer[t].status = "DRAFT"
  <2>1. /\ new.status = "CONFIRMED" /\ stock' = Plus(stock, Pair(d)) /\ wac' = wac
        /\ posted' = [posted EXCEPT ![t] = Plus(posted[t], Pair(d))] /\ returned' = returned
    BY <1>4 DEF PostWrites
  <2>2. Plus(posted[t], Pair(d)) = Pair(d)
    <3>1. posted[t] = Nothing
      BY <1>4 DEF IInv, Moved
    <3> QED  BY <3>1, PairOf DEF Plus, Nothing
  <2>3. posted' = [posted EXCEPT ![t] = Pair(d)] /\ posted'[t] = Pair(d)
    BY <2>1, <2>2 DEF IInv, Stored
  <2>4. Relocation!Balanced(Pair(d))
    BY BalancedPair DEF PostWrites
  <2>5. stock' = Relocation!Plus(stock, Pair(d))
    BY <1>3, <2>1 DEF Plus, Relocation!Plus
  <2>6. Status' = [Status EXCEPT ![t] = "CONFIRMED"] /\ Status[t] = "DRAFT"
    BY <1>1, <1>4, <2>1
  <2>7. Relocation!Ship(t)
    BY <1>2, <1>3, <2>1, <2>3, <2>4, <2>5, <2>6 DEF Status, Relocation!Ship
  <2> QED  BY <2>7
<1>5. CASE transfer[t].status = "CONFIRMED"
  <2>1. /\ new.status = "CANCELLED" /\ stock' = Plus(stock, Pair(d)) /\ wac' = wac
        /\ returned' = [returned EXCEPT ![t] = Plus(returned[t], Pair(d))] /\ posted' = posted
        /\ d = Direction("cancel", transfer[t].body) /\ transfer[t].cost # Free
    BY <1>5 DEF PostWrites
  <2>2. posted[t] = Pair(transfer[t].body) /\ returned[t] = Nothing
    BY <1>5, <2>1 DEF IInv, Moved
  <2>3. ASSUME NEW r \in Rows PROVE Pair(d)[r] = -posted[t][r]
    <3>1. PICK b \in Body : b = transfer[t].body /\ b.from # b.to
      BY TransferAssumption DEF IInv, Stored, Document
    <3>2. d = [b EXCEPT !.from = b.to, !.to = b.from]
      BY <2>1, <3>1 DEF Direction
    <3>3. d.from = b.to /\ d.to = b.from /\ d.boards = b.boards
      BY <3>2 DEF Body
    <3>4. b.boards[r[2]] \in Nat
      BY DEF Body, Rows
    <3>5. posted[t][r] = IF r[1] = b.to THEN b.boards[r[2]]
                         ELSE IF r[1] = b.from THEN -b.boards[r[2]] ELSE 0
      BY <2>2, <3>1 DEF Pair
    <3>6. Pair(d)[r] = IF r[1] = b.from THEN b.boards[r[2]]
                       ELSE IF r[1] = b.to THEN -b.boards[r[2]] ELSE 0
      BY <3>3 DEF Pair
    <3> QED  BY <3>1, <3>4, <3>5, <3>6
  <2>4. posted[t] \in [Rows -> Int] /\ stock \in [Rows -> Nat] /\ Pair(d) \in [Rows -> Int]
    BY PairOf DEF IInv, Stored
  <2>5. Plus(stock, Pair(d)) = Relocation!Minus(stock, posted[t])
    BY <1>3, <2>3, <2>4 DEF Plus, Relocation!Minus
  <2>6. Plus(returned[t], Pair(d)) = Relocation!Minus(Relocation!Nothing, posted[t])
    BY <1>3, <2>2, <2>3, <2>4 DEF Plus, Nothing, Relocation!Minus, Relocation!Nothing
  <2>7. Status' = [Status EXCEPT ![t] = "CANCELLED"] /\ Status[t] = "CONFIRMED"
    BY <1>1, <1>5, <2>1
  <2>8. Relocation!Return(t)
    BY <1>2, <1>3, <2>1, <2>5, <2>6, <2>7 DEF Status, Relocation!Return
  <2> QED  BY <2>8
<1> QED  BY <1>4, <1>5 DEF PostWrites

LEMMA TradeIsTrade ==
    ASSUME IInv, NEW c \in Handlers, NEW r \in Rows, NEW n \in Nat, NEW w \in Nat,
           TradeWrites(c, r, n, w)
    PROVE  Relocation!Trade(r)
<1>1. stock' = [stock EXCEPT ![r] = stock'[r]] /\ stock'[r] >= 0
  BY DEF TradeWrites, IInv, Stored
<1>2. wac' = [wac EXCEPT ![r[2]] = wac'[r[2]]]
  BY DEF TradeWrites, IInv, Stored
<1>3. Status' = Status
  BY DEF TradeWrites, Status
<1> QED  BY <1>1, <1>2, <1>3 DEF TradeWrites, Status, Relocation!Trade

LEMMA RelocationNext == IInv /\ [Next]_vars => [Relocation!Next]_(Relocation!relocationVars)
<1> SUFFICES ASSUME IInv, [Next]_vars PROVE [Relocation!Next]_(Relocation!relocationVars)
  OBVIOUS
<1>1. CASE UNCHANGED committed
  <2>1. Status' = Status
    BY <1>1 DEF Status, committed
  <2> QED  BY <1>1, <2>1, QuietStep DEF committed
<1>2. ASSUME NEW t \in Transfers, Create(t)
      PROVE  [Relocation!Next]_(Relocation!relocationVars)
  BY <1>2, CreateIsDraft DEF Relocation!Next
<1>3. ASSUME NEW c \in Handlers, Update(c) PROVE [Relocation!Next]_(Relocation!relocationVars)
  BY <1>3, UpdateIsQuiet, QuietStep
<1>4. ASSUME NEW c \in Handlers, Delete(c) PROVE [Relocation!Next]_(Relocation!relocationVars)
  BY <1>4, DeleteIsDraft DEF Relocation!Next
<1>5. ASSUME NEW c \in Handlers, Post(c) PROVE [Relocation!Next]_(Relocation!relocationVars)
  <2>1. CASE Rollback(c)
    BY <1>1, <2>1 DEF Rollback
  <2> QED  BY <1>5, <2>1, PostEither, PostRelocates DEF Relocation!Next
<1>6. ASSUME NEW c \in Handlers, TradeCommit(c) PROVE [Relocation!Next]_(Relocation!relocationVars)
  <2>1. PICK r \in Rows, n \in Nat, w \in Nat : TradeWrites(c, r, n, w)
    BY <1>6, TradeCommits
  <2>2. Relocation!Trade(r) /\ r \in Relocation!Rows
    BY <2>1, TradeIsTrade DEF Rows, Relocation!Rows
  <2> QED  BY <2>2 DEF Relocation!Next
<1>7. ASSUME NEW c \in Handlers,
             \/ NothingToWrite(c) \/ TradeRefused(c) \/ Check(c) \/ Lock(c)
             \/ DeadlockVictim(c) \/ Abort(c) \/ StartTrade(c)
             \/ \E t \in Transfers : ReadForUpdate(c, t) \/ ReadForDelete(c, t)
             \/ \E a \in approvals, k \in Keys : ReadForPosting(c, a, k)
      PROVE  UNCHANGED committed
  <2>1. CASE NothingToWrite(c) \/ TradeRefused(c) \/ Check(c) \/ DeadlockVictim(c) \/ Abort(c)
    BY <2>1 DEF NothingToWrite, TradeRefused, Check, DeadlockVictim, Abort, Rollback
  <2>2. CASE Lock(c)
    BY <2>2 DEF Lock, DeleteLines, LockForDelete, LockDocument, LockVariant, LockRow, TradeVariant, TradeRow, TradeShare, Rollback
  <2>3. CASE StartTrade(c) \/ (\E t \in Transfers : ReadForUpdate(c, t) \/ ReadForDelete(c, t))
             \/ (\E a \in approvals, k \in Keys : ReadForPosting(c, a, k))
    BY <2>3 DEF StartTrade, ReadForUpdate, ReadForDelete, ReadForPosting, Start
  <2> QED  BY <1>7, <2>1, <2>2, <2>3
<1>8. CASE \E t \in Transfers, op \in {"confirm", "cancel"} : TakePreview(op, t)
  <2>1. UNCHANGED committed
    BY <1>8 DEF TakePreview
  <2> QED  BY <1>1, <2>1
<1>9. CASE UNCHANGED vars
  <2>1. UNCHANGED committed
    BY <1>9 DEF vars
  <2> QED  BY <1>1, <2>1
<1> QED  BY <1>1, <1>2, <1>3, <1>4, <1>5, <1>6, <1>7, <1>8, <1>9 DEF Next, Step

(* The feature with its handlers, locks, approvals and retries implements  *)
(* the relocation of goods: out of one branch and into another once, back  *)
(* once, and nothing but trade changes the company's goods or their cost.  *)
THEOREM TransfersRelocate == Spec => Relocates
<1>1. Relocates <=> Relocation!Init /\ [][Relocation!Next]_(Relocation!relocationVars)
  BY DEF Relocates, Relocation!Spec
<1> QED  BY <1>1, RelocationInit, RelocationNext, TransfersInvariant, PTL DEF Spec

=============================================================================
