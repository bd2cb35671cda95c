----------------------------- MODULE PostingProofs -----------------------------
(***************************************************************************)
(* Proofs about the posting engine, the guard, the reversals and their     *)
(* legacy neighbours: types, the refinement of the general ledger, the     *)
(* pairing of reversals with their originals and the guarded outflows, for *)
(* any accounts, documents, clients and requests.                          *)
(*                                                                         *)
(* The invariant says how the journal hangs together (Linked), what a      *)
(* request carries (Requested), that a key is being inserted by one client *)
(* (Keyed), and that what the guard has read of a treasury still holds     *)
(* while its row is locked (Watched, Cleared).                             *)
(***************************************************************************)
EXTENDS Posting, SumLemmas

Linked ==
    /\ \A i, j \in DOMAIN journal :
         journal[i].key = journal[j].key /\ journal[i].key # GL!NoKey => i = j
    /\ \A j \in DOMAIN journal : journal[j].reversalOf # 0 =>
         LET i == journal[j].reversalOf
         IN  /\ journal[j].key = GL!ReversalKey(i)
             /\ journal[j].lines = GL!Mirror(journal[i].lines)
             /\ journal[i].status = "REVERSED"
    /\ \A i \in DOMAIN journal : journal[i].status = "REVERSED" =>
         \E j \in DOMAIN journal : journal[j].reversalOf = i

(* What a running request was made from.                                   *)
Requested(c) ==
    /\ tx[c].pc # "key" => GL!Balanced(tx[c].lines)
    /\ tx[c].pc # "lines" => tx[c].at = 1
    /\ IF tx[c].reversalOf = 0 THEN \A i \in Nat : tx[c].key # GL!ReversalKey(i)
       ELSE /\ tx[c].key = GL!ReversalKey(tx[c].reversalOf)
            /\ tx[c].lines = GL!Mirror(journal[tx[c].reversalOf].lines)

Inserting(c) == tx[c].pc = "lines" /\ tx[c].key # GL!NoKey

Keyed ==
    \A c \in Clients : Inserting(c) =>
        /\ ~GL!Posted(journal, tx[c].key)
        /\ \A d \in Clients : Inserting(d) /\ tx[d].key = tx[c].key => d = c

Exclusive == \A a \in GL!Accounts : held[a] # Nobody => shared[a] \subseteq {held[a]}

(* Of the treasuries it holds, the guard knows which would be overdrawn.   *)
Watched(c) ==
    \A a \in Treasuries :
        IF held[a] = c THEN a \in tx[c].offending <=> Projected(c, a) < 0
                       ELSE a \notin tx[c].offending

Cleared(c) ==
    tx[c].pc = "lines" =>
        /\ \A a \in Outflows(c) : held[a] = c
        /\ GuardAllows(c)
        /\ \A k \in DOMAIN tx[c].lines : k < tx[c].at => c \in shared[tx[c].lines[k].account]

IInv ==
    /\ TypeOK
    /\ Linked
    /\ \A c \in Clients : tx[c] # Idle => Requested(c) /\ Watched(c) /\ Cleared(c)
    /\ Keyed
    /\ Exclusive

-----------------------------------------------------------------------------
(* Sums of lines.                                                          *)

(* The ledger's sum is the one of SumLemmas.                               *)
LEMMA LedgerSum == ASSUME NEW f PROVE GL!SumFunction(f) = SumFunctionOnSet(f, DOMAIN f)
BY DEF GL!SumFunction, GL!SumFunctionOnSet, GL!FoldFunctionOnSet, GL!MapThenFoldSet,
       SumFunctionOnSet, FoldFunctionOnSet, MapThenFoldSet

(* A sequence has finitely many places, and its elements have their type.  *)
LEMMA FiniteSeq == ASSUME NEW S, NEW s \in Seq(S) PROVE IsFiniteSet(DOMAIN s)
BY FS_Interval

LEMMA ElementOf == ASSUME NEW S, NEW s \in Seq(S), NEW k \in DOMAIN s PROVE s[k] \in S
OBVIOUS

(* Effects are integers.                                                   *)
LEMMA EffectType ==
  ASSUME NEW lines \in Seq(GL!Line), NEW a
  PROVE  GL!Effect(lines, a) \in Int
<1> DEFINE f == [k \in DOMAIN lines |-> GL!On(lines[k], a)]
<1>1. IsFiniteSet(DOMAIN lines)
  BY FiniteSeq
<1>2. ASSUME NEW k \in DOMAIN f PROVE f[k] \in Int
  <2>1. lines[k] \in GL!Line
    BY ElementOf
  <2> QED  BY <2>1 DEF GL!On, GL!Line
<1>3. DOMAIN f = DOMAIN lines
  OBVIOUS
<1>4. GL!Effect(lines, a) = SumFunctionOnSet(f, DOMAIN f)
  BY LedgerSum DEF GL!Effect
<1> HIDE DEF f
<1> QED  BY <1>1, <1>2, <1>3, <1>4, SumType

(* An entry without a line on an account has no effect on it.              *)
LEMMA NoEffect ==
  ASSUME NEW lines \in Seq(GL!Line), NEW a, \A k \in DOMAIN lines : lines[k].account # a
  PROVE  GL!Effect(lines, a) = 0
<1> DEFINE f == [k \in DOMAIN lines |-> GL!On(lines[k], a)]
<1>1. IsFiniteSet(DOMAIN lines)
  BY FiniteSeq
<1>2. \A k \in DOMAIN f : f[k] = 0
  BY DEF GL!On
<1>3. DOMAIN f = DOMAIN lines
  OBVIOUS
<1>4. GL!Effect(lines, a) = SumFunctionOnSet(f, DOMAIN f)
  BY LedgerSum DEF GL!Effect
<1> HIDE DEF f
<1> QED  BY <1>1, <1>2, <1>3, <1>4, SumZero

(* A mirrored entry has lines of its own, with the opposite effect.        *)
LEMMA MirrorType ==
  ASSUME NEW lines \in Seq(GL!Line)
  PROVE  GL!Mirror(lines) \in Seq(GL!Line) /\ DOMAIN GL!Mirror(lines) = DOMAIN lines
<1>1. ASSUME NEW k \in DOMAIN lines PROVE [lines[k] EXCEPT !.net = -@] \in GL!Line
  <2>1. lines[k] \in GL!Line
    BY ElementOf
  <2> QED  BY <2>1 DEF GL!Line
<1>2. DOMAIN lines = 1..Len(lines) /\ Len(lines) \in Nat
  OBVIOUS
<1>3. GL!Mirror(lines) \in [1..Len(lines) -> GL!Line]
  BY <1>1, <1>2 DEF GL!Mirror
<1> QED  BY <1>2, <1>3

LEMMA MirrorEffect ==
  ASSUME NEW lines \in Seq(GL!Line), NEW a
  PROVE  GL!Effect(GL!Mirror(lines), a) = -GL!Effect(lines, a)
<1> DEFINE f == [k \in DOMAIN lines |-> GL!On(lines[k], a)]
           m == GL!Mirror(lines)
           g == [k \in DOMAIN m |-> GL!On(m[k], a)]
<1>1. IsFiniteSet(DOMAIN lines) /\ DOMAIN m = DOMAIN lines
  BY FiniteSeq, MirrorType
<1>2. ASSUME NEW k \in DOMAIN lines
      PROVE  f[k] \in Int /\ g[k] = -f[k]
  <2>1. lines[k] \in GL!Line /\ m[k] = [lines[k] EXCEPT !.net = -@]
    BY DEF GL!Mirror
  <2>2. m[k].account = lines[k].account /\ m[k].net = -lines[k].net /\ lines[k].net \in Int
    BY <2>1 DEF GL!Line
  <2>3. k \in DOMAIN m
    BY <1>1
  <2> QED  BY <2>2, <2>3 DEF GL!On
<1>3. DOMAIN f = DOMAIN lines /\ DOMAIN g = DOMAIN lines
  BY <1>1
<1>4. GL!Effect(lines, a) = SumFunctionOnSet(f, DOMAIN f)
  BY LedgerSum DEF GL!Effect
<1>5. GL!Effect(m, a) = SumFunctionOnSet(g, DOMAIN g)
  BY LedgerSum DEF GL!Effect
<1> HIDE DEF f, g, m
<1>6. SumFunctionOnSet(g, DOMAIN lines) = -SumFunctionOnSet(f, DOMAIN lines)
  BY <1>1, <1>2, SumOpposite
<1> QED  BY <1>3, <1>4, <1>5, <1>6 DEF m

(* The balance of a journal with one more entry; a mark changes nothing.   *)
LEMMA BalanceAppend ==
  ASSUME NEW entries \in Seq(GL!Entry), NEW more \in Seq(GL!Entry), NEW a,
         Len(more) = Len(entries) + 1,
         \A i \in DOMAIN entries : more[i].lines = entries[i].lines
  PROVE  /\ GL!Balance(entries, a) \in Int
         /\ GL!Balance(more, a) = GL!Balance(entries, a) + GL!Effect(more[Len(more)].lines, a)
<1> DEFINE f == [i \in DOMAIN more |-> GL!Effect(more[i].lines, a)]
           g == [i \in DOMAIN entries |-> GL!Effect(entries[i].lines, a)]
           n == Len(more)
<1>1. /\ IsFiniteSet(DOMAIN entries)
      /\ n \notin DOMAIN entries
      /\ DOMAIN more = DOMAIN entries \cup {n}
  BY FiniteSeq
<1>2. f[n] \in Int
  <2>1. n \in DOMAIN more
    OBVIOUS
  <2>2. more[n] \in GL!Entry
    BY <2>1, ElementOf
  <2>3. more[n].lines \in Seq(GL!Line)
    BY <2>2 DEF GL!Entry
  <2> QED  BY <2>1, <2>3, EffectType
<1>3. ASSUME NEW i \in DOMAIN entries PROVE f[i] \in Int /\ g[i] = f[i] /\ g[i] \in Int
  <2>1. i \in DOMAIN more
    BY <1>1
  <2>2. entries[i] \in GL!Entry
    BY ElementOf
  <2>3. entries[i].lines \in Seq(GL!Line)
    BY <2>2 DEF GL!Entry
  <2> QED  BY <2>1, <2>3, EffectType
<1>4. GL!Balance(more, a) = SumFunctionOnSet(f, DOMAIN more)
  BY LedgerSum DEF GL!Balance
<1>5. GL!Balance(entries, a) = SumFunctionOnSet(g, DOMAIN entries)
  BY LedgerSum DEF GL!Balance
<1>6. n \in DOMAIN more /\ f[n] = GL!Effect(more[n].lines, a)
  BY <1>1
<1> HIDE DEF f, g, n
<1>7. SumFunctionOnSet(f, DOMAIN entries \cup {n}) = SumFunctionOnSet(g, DOMAIN entries) + f[n]
  BY <1>1, <1>2, <1>3, SumAdd
<1>8. SumFunctionOnSet(g, DOMAIN entries) \in Int
  BY <1>1, <1>3, SumType
<1> QED  BY <1>1, <1>4, <1>5, <1>6, <1>7, <1>8 DEF n

-----------------------------------------------------------------------------
(* The invariant is inductive.                                             *)

(* The types a proof reads of a running request.                           *)
LEMMA RunningType ==
  ASSUME TypeOK, NEW c \in Clients, tx[c] # Idle
  PROVE  /\ tx[c] \in Request
         /\ tx[c].lines \in Seq(GL!Line)
         /\ \A k \in DOMAIN tx[c].lines : tx[c].lines[k].account \in GL!Accounts
         /\ tx[c].reversalOf \in 0..Len(journal)
<1>1. tx[c] \in Request /\ tx[c].reversalOf \in 0..Len(journal)
  BY DEF TypeOK
<1>2. tx[c].lines \in Seq(GL!Line)
  BY <1>1 DEF Request
<1>3. ASSUME NEW k \in DOMAIN tx[c].lines PROVE tx[c].lines[k].account \in GL!Accounts
  <2>1. tx[c].lines[k] \in GL!Line
    BY <1>2, ElementOf
  <2> QED  BY <2>1 DEF GL!Line
<1> QED  BY <1>1, <1>2, <1>3

LEMMA NotIdle == \A r \in Request : r # Idle
BY DEF Request, Idle

(* A client keeps its part while the journal stands and nobody takes what  *)
(* it holds.                                                               *)
LEMMA OthersKeep ==
  ASSUME TypeOK, NEW d \in Clients, tx[d] # Idle,
         Requested(d), Watched(d), Cleared(d),
         tx'[d] = tx[d], journal' = journal,
         \A a \in GL!Accounts : held'[a] = d <=> held[a] = d,
         \A a \in GL!Accounts : d \in shared[a] => d \in shared'[a]
  PROVE  Requested(d)' /\ Watched(d)' /\ Cleared(d)'
<1>1. Requested(d)'
  BY DEF Requested
<1>2. Watched(d)'
  BY DEF Watched, Projected, GL!Accounts
<1>3. Cleared(d)'
  BY RunningType DEF Cleared, Outflows, GuardAllows, GL!Accounts
<1> QED  BY <1>1, <1>2, <1>3

LEMMA InvInit == Init => IInv
<1> SUFFICES ASSUME Init PROVE IInv
  OBVIOUS
<1>1. TypeOK
  BY PostingAssumption DEF Init, TypeOK, Idle
<1>2. \A c \in Clients : tx[c] = Idle
  BY DEF Init
<1>3. Linked
  BY DEF Init, Linked
<1>4. Keyed
  BY <1>2 DEF Keyed, Inserting, Idle
<1>5. Exclusive
  BY DEF Exclusive, Init
<1> QED  BY <1>1, <1>2, <1>3, <1>4, <1>5 DEF IInv

(* A transaction that ends without an entry leaves nothing but free locks. *)
LEMMA RollbackKeeps ==
  ASSUME IInv, NEW c \in Clients, tx[c] # Idle, Rollback(c)
  PROVE  IInv'
<1> USE DEF Rollback, End
<1>1. TypeOK
  BY DEF IInv
<1>2. TypeOK'
  <2>1. held' \in [GL!Accounts -> Clients \cup {Nobody}] /\ shared' \in [GL!Accounts -> SUBSET Clients]
    BY <1>1 DEF TypeOK
  <2>2. tx' \in [Clients -> {Idle} \cup Request]
    BY <1>1 DEF TypeOK
  <2>3. \A a \in GL!Accounts : held'[a] # c /\ c \notin shared'[a]
    BY PostingAssumption
  <2>4. ASSUME NEW d \in Clients
        PROVE  IF tx'[d] = Idle THEN \A a \in GL!Accounts : held'[a] # d /\ d \notin shared'[a]
                                ELSE tx'[d].reversalOf \in 0..Len(journal')
    <3>1. CASE d = c
      BY <1>1, <2>3, <3>1 DEF TypeOK
    <3>2. CASE d # c
      BY <1>1, <3>2, PostingAssumption DEF TypeOK
    <3> QED  BY <3>1, <3>2
  <2> QED  BY <1>1, <2>1, <2>2, <2>4 DEF TypeOK
<1>3. tx' \in [Clients -> {Idle} \cup Request] /\ tx'[c] = Idle
  BY <1>1 DEF TypeOK
<1>4. Linked'
  BY DEF IInv, Linked
<1>5. ASSUME NEW d \in Clients, tx'[d] # Idle
      PROVE  Requested(d)' /\ Watched(d)' /\ Cleared(d)'
  <2>1. d # c /\ tx'[d] = tx[d] /\ tx[d] # Idle
    BY <1>1, <1>3, <1>5 DEF TypeOK
  <2>2. \A a \in GL!Accounts : held'[a] = d <=> held[a] = d
    BY <2>1, PostingAssumption
  <2>3. \A a \in GL!Accounts : d \in shared[a] => d \in shared'[a]
    BY <2>1
  <2> QED  BY <1>1, <2>1, <2>2, <2>3, OthersKeep DEF IInv
<1>6. Keyed'
  <2>1. \A d \in Clients : Inserting(d)' => Inserting(d) /\ tx'[d] = tx[d]
    BY <1>1, <1>3 DEF Inserting, Idle, TypeOK
  <2> QED  BY <2>1 DEF IInv, Keyed, GL!Posted
<1>7. Exclusive'
  BY <1>1 DEF IInv, Exclusive, TypeOK
<1> QED  BY <1>2, <1>4, <1>5, <1>6, <1>7 DEF IInv

(* A request that begins holds nothing and has inserted nothing.           *)
LEMMA BeginKeeps ==
  ASSUME IInv, NEW c \in Clients, NEW r \in Request, Begin(c, r),
         r.pc \in {"key", "guard"}, r.offending = {}, r.at = 1,
         r.reversalOf \in 0..Len(journal),
         r.pc # "key" => GL!Balanced(r.lines),
         IF r.reversalOf = 0 THEN \A i \in Nat : r.key # GL!ReversalKey(i)
         ELSE /\ r.key = GL!ReversalKey(r.reversalOf)
              /\ r.lines = GL!Mirror(journal[r.reversalOf].lines)
  PROVE  IInv'
<1> USE DEF Begin
<1>1. TypeOK
  BY DEF IInv
<1>2. r # Idle
  BY NotIdle
<1>3. tx' \in [Clients -> {Idle} \cup Request] /\ tx'[c] = r /\ \A d \in Clients \ {c} : tx'[d] = tx[d]
  BY <1>1 DEF TypeOK
<1>4. \A a \in GL!Accounts : held[a] # c /\ c \notin shared[a]
  BY <1>1 DEF TypeOK
<1>5. TypeOK'
  <2>1. started' \in 0..MaxRequests
    BY <1>1, PostingAssumption DEF TypeOK
  <2>2. ASSUME NEW d \in Clients
        PROVE  IF tx'[d] = Idle THEN \A a \in GL!Accounts : held'[a] # d /\ d \notin shared'[a]
                                ELSE tx'[d].reversalOf \in 0..Len(journal')
    BY <1>1, <1>2, <1>3 DEF TypeOK
  <2> QED  BY <1>1, <1>3, <2>1, <2>2 DEF TypeOK
<1>6. Linked'
  BY DEF IInv, Linked
<1>7. ASSUME NEW d \in Clients, tx'[d] # Idle
      PROVE  Requested(d)' /\ Watched(d)' /\ Cleared(d)'
  <2>1. CASE d # c
    BY <1>1, <1>3, <1>7, <2>1, OthersKeep DEF IInv
  <2>2. CASE d = c
    <3>1. Requested(c)'
      BY <1>3 DEF Requested
    <3>2. Watched(c)'
      BY <1>3, <1>4 DEF Watched, GL!Accounts
    <3>3. Cleared(c)'
      BY <1>3 DEF Cleared
    <3> QED  BY <2>2, <3>1, <3>2, <3>3
  <2> QED  BY <2>1, <2>2
<1>8. Keyed'
  <2>1. \A d \in Clients : Inserting(d)' => Inserting(d) /\ tx'[d] = tx[d]
    BY <1>3 DEF Inserting
  <2> QED  BY <2>1 DEF IInv, Keyed, GL!Posted
<1>9. Exclusive'
  BY DEF IInv, Exclusive
<1> QED  BY <1>5, <1>6, <1>7, <1>8, <1>9 DEF IInv

LEMMA BeginPostKeeps == ASSUME IInv, NEW c \in Clients, BeginPost(c) PROVE IInv'
<1>1. PICK d \in Documents, ack \in BOOLEAN :
        Begin(c, [pc |-> "key", kind |-> "post", key |-> GL!DocumentKey(d), reversalOf |-> 0,
                  original |-> "POSTED", lines |-> LinesOf[d], month |-> MonthOf[d],
                  acknowledge |-> ack, offending |-> {}, at |-> 1])
  BY DEF BeginPost
<1> DEFINE r == [pc |-> "key", kind |-> "post", key |-> GL!DocumentKey(d), reversalOf |-> 0,
                 original |-> "POSTED", lines |-> LinesOf[d], month |-> MonthOf[d],
                 acknowledge |-> ack, offending |-> {}, at |-> 1]
<1>2. r \in Request
  <2>1. GL!DocumentKey(d) \in GL!Key
    BY DEF GL!DocumentKey, GL!Key
  <2> QED  BY <2>1, PostingAssumption DEF Request
<1>3. /\ r.pc = "key" /\ r.offending = {} /\ r.at = 1 /\ r.reversalOf = 0
      /\ \A i \in Nat : r.key # GL!ReversalKey(i)
  BY DEF GL!DocumentKey, GL!ReversalKey
<1>4. Begin(c, r) /\ 0 \in 0..Len(journal)
  BY <1>1 DEF IInv, TypeOK
<1> HIDE DEF r
<1> QED  BY <1>2, <1>3, <1>4, BeginKeeps

LEMMA BeginReverseKeeps == ASSUME IInv, NEW c \in Clients, BeginReverse(c) PROVE IInv'
<1>1. PICK i \in DOMAIN journal, m \in Months, ack \in BOOLEAN :
        Begin(c, [pc |-> "key", kind |-> "reverse", key |-> GL!ReversalKey(i), reversalOf |-> i,
                  original |-> journal[i].status, lines |-> Mirrored(journal[i].lines), month |-> m,
                  acknowledge |-> ack, offending |-> {}, at |-> 1])
  BY DEF BeginReverse
<1> DEFINE r == [pc |-> "key", kind |-> "reverse", key |-> GL!ReversalKey(i), reversalOf |-> i,
                 original |-> journal[i].status, lines |-> Mirrored(journal[i].lines), month |-> m,
                 acknowledge |-> ack, offending |-> {}, at |-> 1]
<1>2. i \in Nat /\ i # 0 /\ i \in 0..Len(journal) /\ journal[i] \in GL!Entry
  BY ElementOf DEF IInv, TypeOK
<1>3. r \in Request
  <2>1. GL!ReversalKey(i) \in GL!Key
    BY <1>2 DEF GL!ReversalKey, GL!Key
  <2>2. Mirrored(journal[i].lines) \in Seq(GL!Line)
    BY <1>2, MirrorType DEF Mirrored, GL!Entry
  <2> QED  BY <1>2, <2>1, <2>2 DEF Request, GL!Entry
<1>4. /\ r.pc = "key" /\ r.offending = {} /\ r.at = 1 /\ r.reversalOf = i
      /\ r.key = GL!ReversalKey(i) /\ r.lines = GL!Mirror(journal[i].lines)
  BY DEF Mirrored
<1>5. Begin(c, r)
  BY <1>1
<1> HIDE DEF r
<1> QED  BY <1>2, <1>3, <1>4, <1>5, BeginKeeps

LEMMA BeginUnkeyedKeeps == ASSUME IInv, NEW c \in Clients, BeginUnkeyed(c) PROVE IInv'
<1>1. PICK kind \in {"payment", "direct"}, m \in Months, ack \in BOOLEAN :
        \E lines \in IF kind = "payment" THEN Payments ELSE DirectEntries :
           Begin(c, [pc |-> "guard", kind |-> kind, key |-> GL!NoKey, reversalOf |-> 0,
                     original |-> "POSTED", lines |-> lines, month |-> m,
                     acknowledge |-> ack, offending |-> {}, at |-> 1])
  BY DEF BeginUnkeyed
<1>2. PICK lines \in IF kind = "payment" THEN Payments ELSE DirectEntries :
           Begin(c, [pc |-> "guard", kind |-> kind, key |-> GL!NoKey, reversalOf |-> 0,
                     original |-> "POSTED", lines |-> lines, month |-> m,
                     acknowledge |-> ack, offending |-> {}, at |-> 1])
  BY <1>1
<1> DEFINE r == [pc |-> "guard", kind |-> kind, key |-> GL!NoKey, reversalOf |-> 0,
                 original |-> "POSTED", lines |-> lines, month |-> m,
                 acknowledge |-> ack, offending |-> {}, at |-> 1]
<1>3. lines \in Seq(GL!Line) /\ GL!Balanced(lines)
  BY PostingAssumption
<1>4. r \in Request
  <2>1. GL!NoKey \in GL!Key
    BY DEF GL!NoKey, GL!Key
  <2> QED  BY <1>3, <2>1 DEF Request
<1>5. /\ r.pc = "guard" /\ r.offending = {} /\ r.at = 1 /\ r.reversalOf = 0 /\ GL!Balanced(r.lines)
      /\ \A i \in Nat : r.key # GL!ReversalKey(i)
  BY <1>3 DEF GL!NoKey, GL!ReversalKey
<1>6. Begin(c, r) /\ 0 \in 0..Len(journal)
  BY <1>2 DEF IInv, TypeOK
<1> HIDE DEF r
<1> QED  BY <1>4, <1>5, <1>6, BeginKeeps

(* A check that succeeds: nothing but the place of its client changes.     *)
LEMMA GotoKeeps ==
  ASSUME IInv, NEW c \in Clients, tx[c] # Idle, tx[c].pc # "lines", NEW pc \in {"period", "guard"}, Goto(c, pc),
         GL!Balanced(tx[c].lines), UNCHANGED <<journal, period, held, shared, started>>
  PROVE  IInv'
<1> USE DEF Goto
<1>1. TypeOK /\ tx[c] \in Request
  BY RunningType DEF IInv
<1>2. /\ tx' \in [Clients -> {Idle} \cup Request]
      /\ tx'[c] = [tx[c] EXCEPT !.pc = pc] /\ tx'[c] \in Request
      /\ \A d \in Clients \ {c} : tx'[d] = tx[d]
  <2>1. [tx[c] EXCEPT !.pc = pc] \in Request
    BY <1>1 DEF Request
  <2> QED  BY <1>1, <2>1 DEF TypeOK
<1>3. /\ tx'[c].pc = pc /\ tx'[c].lines = tx[c].lines /\ tx'[c].key = tx[c].key
      /\ tx'[c].kind = tx[c].kind /\ tx'[c].offending = tx[c].offending
      /\ tx'[c].reversalOf = tx[c].reversalOf /\ tx'[c].at = tx[c].at
  BY <1>1, <1>2 DEF Request
<1>4. TypeOK'
  <2>1. ASSUME NEW d \in Clients
        PROVE  IF tx'[d] = Idle THEN \A a \in GL!Accounts : held'[a] # d /\ d \notin shared'[a]
                                ELSE tx'[d].reversalOf \in 0..Len(journal')
    BY <1>1, <1>2, <1>3, NotIdle DEF TypeOK
  <2> QED  BY <1>1, <1>2, <2>1 DEF TypeOK
<1>5. Linked'
  BY DEF IInv, Linked
<1>6. ASSUME NEW d \in Clients, tx'[d] # Idle
      PROVE  Requested(d)' /\ Watched(d)' /\ Cleared(d)'
  <2>1. CASE d # c
    BY <1>1, <1>2, <1>6, <2>1, OthersKeep DEF IInv
  <2>2. CASE d = c
    <3>1. Requested(c)'
      BY <1>3 DEF IInv, Requested
    <3>2. Watched(c)'
      BY <1>3 DEF IInv, Watched, Projected
    <3>3. Cleared(c)'
      BY <1>3 DEF Cleared
    <3> QED  BY <2>2, <3>1, <3>2, <3>3
  <2> QED  BY <2>1, <2>2
<1>7. Keyed'
  <2>1. \A d \in Clients : Inserting(d)' => Inserting(d) /\ tx'[d] = tx[d]
    BY <1>2, <1>3 DEF Inserting
  <2> QED  BY <2>1 DEF IInv, Keyed, GL!Posted
<1>8. Exclusive'
  BY DEF IInv, Exclusive
<1> QED  BY <1>4, <1>5, <1>6, <1>7, <1>8 DEF IInv

(* The guard takes a row nobody shares, and notes what it reads.           *)
LEMMA LockOutflowKeeps == ASSUME IInv, NEW c \in Clients, LockOutflow(c) PROVE IInv'
<1>1. PICK a \in Treasuries :
         /\ NextOutflow(c, a)
         /\ Lockable(c, a)
         /\ held' = [held EXCEPT ![a] = c]
         /\ tx' = [tx EXCEPT ![c].offending =
                      IF Projected(c, a) < 0 THEN @ \cup {a} ELSE @]
  BY DEF LockOutflow
<1>2. tx[c].pc = "guard" /\ UNCHANGED <<journal, period, shared, started>>
  BY DEF LockOutflow
<1>3. TypeOK /\ tx[c] # Idle /\ tx[c] \in Request
  BY <1>2, RunningType DEF IInv, Idle
<1> DEFINE off == IF Projected(c, a) < 0 THEN tx[c].offending \cup {a} ELSE tx[c].offending
<1>4. /\ tx' \in [Clients -> {Idle} \cup Request]
      /\ tx'[c] = [tx[c] EXCEPT !.offending = off] /\ tx'[c] \in Request
      /\ \A d \in Clients \ {c} : tx'[d] = tx[d]
  <2>1. off \in SUBSET Treasuries
    BY <1>3 DEF Request
  <2>2. tx' = [tx EXCEPT ![c] = [tx[c] EXCEPT !.offending = off]]
    BY <1>1, <1>3 DEF TypeOK
  <2> HIDE DEF off
  <2>3. [tx[c] EXCEPT !.offending = off] \in Request
    BY <1>3, <2>1 DEF Request
  <2> QED  BY <1>3, <2>2, <2>3 DEF TypeOK
<1>5. /\ tx'[c].pc = "guard" /\ tx'[c].lines = tx[c].lines /\ tx'[c].key = tx[c].key
      /\ tx'[c].kind = tx[c].kind /\ tx'[c].offending = off
      /\ tx'[c].reversalOf = tx[c].reversalOf /\ tx'[c].at = tx[c].at
  <2> HIDE DEF off
  <2> QED  BY <1>2, <1>3, <1>4 DEF Request
<1>6. /\ a \in GL!Accounts /\ held[a] = Nobody /\ shared[a] \subseteq {c} /\ held'[a] = c
      /\ \A b \in GL!Accounts \ {a} : held'[b] = held[b]
  BY <1>1, <1>3 DEF NextOutflow, Lockable, GL!Accounts, TypeOK
<1>7. TypeOK'
  <2>1. ASSUME NEW d \in Clients
        PROVE  IF tx'[d] = Idle THEN \A b \in GL!Accounts : held'[b] # d /\ d \notin shared'[b]
                                ELSE tx'[d].reversalOf \in 0..Len(journal')
    <3>1. CASE d = c
      BY <1>2, <1>3, <1>4, <1>5, <3>1, NotIdle DEF TypeOK
    <3>2. CASE d # c
      <4>1. tx'[d] = tx[d]
        BY <1>4, <3>2
      <4>2. IF tx[d] = Idle THEN \A b \in GL!Accounts : held[b] # d /\ d \notin shared[b]
                            ELSE tx[d].reversalOf \in 0..Len(journal)
        BY <1>3 DEF TypeOK
      <4> HIDE DEF off
      <4> QED  BY <1>2, <1>6, <3>2, <4>1, <4>2
    <3> QED  BY <3>1, <3>2
  <2>2. held' \in [GL!Accounts -> Clients \cup {Nobody}]
    BY <1>1, <1>3 DEF TypeOK
  <2> QED  BY <1>2, <1>3, <1>4, <2>1, <2>2 DEF TypeOK
<1>8. Linked'
  BY <1>2 DEF IInv, Linked
<1>9. ASSUME NEW d \in Clients, tx'[d] # Idle
      PROVE  Requested(d)' /\ Watched(d)' /\ Cleared(d)'
  <2>1. CASE d # c
    <3>1. \A b \in GL!Accounts : held'[b] = d <=> held[b] = d
      BY <1>6, <2>1, PostingAssumption
    <3> QED  BY <1>2, <1>3, <1>4, <1>9, <2>1, <3>1, OthersKeep DEF IInv
  <2>2. CASE d = c
    <3>1. Requested(c)'
      BY <1>2, <1>3, <1>5 DEF IInv, Requested
    <3>2. \A b \in Treasuries : Projected(c, b)' = Projected(c, b)
      BY <1>2, <1>5 DEF Projected
    <3>3. Watched(c)'
      <4> SUFFICES ASSUME NEW b \in Treasuries
                   PROVE  IF held'[b] = c THEN b \in tx'[c].offending <=> Projected(c, b) < 0
                                          ELSE b \notin tx'[c].offending
        BY <3>2 DEF Watched
      <4>1. IF held[b] = c THEN b \in tx[c].offending <=> Projected(c, b) < 0
                           ELSE b \notin tx[c].offending
        BY <1>3 DEF IInv, Watched
      <4>2. CASE b = a
        BY <1>5, <1>6, <4>1, <4>2, PostingAssumption
      <4>3. CASE b # a
        BY <1>5, <1>6, <4>1, <4>3 DEF GL!Accounts
      <4> QED  BY <4>2, <4>3
    <3>4. Cleared(c)'
      BY <1>5 DEF Cleared
    <3> QED  BY <2>2, <3>1, <3>3, <3>4
  <2> QED  BY <2>1, <2>2
<1>10. Keyed'
  <2>1. \A d \in Clients : Inserting(d)' => Inserting(d) /\ tx'[d] = tx[d]
    BY <1>4, <1>5 DEF Inserting
  <2> QED  BY <1>2, <2>1 DEF IInv, Keyed, GL!Posted
<1>11. Exclusive'
  BY <1>2, <1>6, PostingAssumption DEF IInv, Exclusive
<1> QED  BY <1>7, <1>8, <1>9, <1>10, <1>11 DEF IInv

(* The entry goes in under a key that nobody has and nobody else inserts.  *)
LEMMA InsertEntryKeeps == ASSUME IInv, NEW c \in Clients, InsertEntry(c) PROVE IInv'
<1>1. /\ tx[c].pc = "guard" /\ \A a \in Outflows(c) : held[a] = c
      /\ GuardAllows(c) /\ KeyFree(c)
      /\ tx' = [tx EXCEPT ![c].pc = "lines"]
      /\ UNCHANGED <<journal, period, held, shared, started>>
  BY DEF InsertEntry, Guarded, Goto
<1>2. TypeOK /\ tx[c] # Idle /\ tx[c] \in Request
  BY <1>1, RunningType DEF IInv, Idle
<1>3. /\ tx' \in [Clients -> {Idle} \cup Request]
      /\ tx'[c] = [tx[c] EXCEPT !.pc = "lines"] /\ tx'[c] \in Request
      /\ \A d \in Clients \ {c} : tx'[d] = tx[d]
  <2>1. [tx[c] EXCEPT !.pc = "lines"] \in Request
    BY <1>2 DEF Request
  <2> QED  BY <1>1, <1>2, <2>1 DEF TypeOK
<1>4. /\ tx'[c].pc = "lines" /\ tx'[c].lines = tx[c].lines /\ tx'[c].key = tx[c].key
      /\ tx'[c].kind = tx[c].kind /\ tx'[c].offending = tx[c].offending
      /\ tx'[c].reversalOf = tx[c].reversalOf /\ tx'[c].acknowledge = tx[c].acknowledge
      /\ tx'[c].at = 1
  BY <1>1, <1>2, <1>3 DEF Request, IInv, Requested
<1>5. TypeOK'
  <2>1. ASSUME NEW d \in Clients
        PROVE  IF tx'[d] = Idle THEN \A a \in GL!Accounts : held'[a] # d /\ d \notin shared'[a]
                                ELSE tx'[d].reversalOf \in 0..Len(journal')
    BY <1>1, <1>2, <1>3, <1>4, NotIdle DEF TypeOK
  <2> QED  BY <1>1, <1>2, <1>3, <2>1 DEF TypeOK
<1>6. Linked'
  BY <1>1 DEF IInv, Linked
<1>7. ASSUME NEW d \in Clients, tx'[d] # Idle
      PROVE  Requested(d)' /\ Watched(d)' /\ Cleared(d)'
  <2>1. CASE d # c
    BY <1>1, <1>2, <1>3, <1>7, <2>1, OthersKeep DEF IInv
  <2>2. CASE d = c
    <3>1. Requested(c)'
      BY <1>1, <1>2, <1>4 DEF IInv, Requested
    <3>2. Watched(c)'
      BY <1>1, <1>2, <1>4 DEF IInv, Watched, Projected
    <3>3. Cleared(c)'
      <4>1. \A k \in DOMAIN tx[c].lines : k >= 1
        BY <1>2 DEF Request
      <4>2. \A a \in Outflows(c)' : held'[a] = c
        BY <1>1, <1>4 DEF Outflows
      <4>3. GuardAllows(c)'
        BY <1>1, <1>4 DEF GuardAllows
      <4>4. \A k \in DOMAIN tx'[c].lines : ~(k < tx'[c].at)
        BY <1>2, <1>4, <4>1 DEF Request
      <4> QED  BY <4>2, <4>3, <4>4 DEF Cleared
    <3> QED  BY <2>2, <3>1, <3>2, <3>3
  <2> QED  BY <2>1, <2>2
<1>8. Keyed'
  <2>1. \A d \in Clients \ {c} : Inserting(d)' => Inserting(d) /\ tx'[d] = tx[d]
    BY <1>3 DEF Inserting
  <2>2. tx[c].key # GL!NoKey => /\ ~GL!Posted(journal, tx[c].key)
                               /\ \A d \in Clients \ {c} : ~(tx[d].pc = "lines" /\ tx[d].key = tx[c].key)
    BY <1>1 DEF KeyFree, KeyHolders
  <2> QED  BY <1>1, <1>3, <1>4, <2>1, <2>2 DEF IInv, Keyed, GL!Posted, Inserting
<1>9. Exclusive'
  BY <1>1 DEF IInv, Exclusive
<1> QED  BY <1>5, <1>6, <1>7, <1>8, <1>9 DEF IInv

(* A line shares the row of its account, which nobody else has locked.     *)
LEMMA ShareAccountKeeps == ASSUME IInv, NEW c \in Clients, ShareAccount(c) PROVE IInv'
<1> DEFINE n == tx[c].at
           a == tx[c].lines[n].account
<1>1. /\ tx[c].pc = "lines" /\ n <= Len(tx[c].lines) /\ Shareable(c, a)
      /\ shared' = [shared EXCEPT ![a] = @ \cup {c}]
      /\ tx' = [tx EXCEPT ![c].at = @ + 1]
      /\ UNCHANGED <<journal, period, held, started>>
  BY DEF ShareAccount
<1>2. TypeOK /\ tx[c] # Idle /\ tx[c] \in Request /\ tx[c].lines \in Seq(GL!Line)
  BY <1>1, RunningType DEF IInv, Idle
<1>3. n \in DOMAIN tx[c].lines /\ a \in GL!Accounts
  <2>1. n \in Nat \ {0}
    BY <1>2 DEF Request
  <2>2. n \in DOMAIN tx[c].lines
    BY <1>1, <1>2, <2>1
  <2> QED  BY <1>2, <2>2, RunningType
<1>4. /\ tx' \in [Clients -> {Idle} \cup Request]
      /\ tx'[c] = [tx[c] EXCEPT !.at = n + 1] /\ tx'[c] \in Request
      /\ \A d \in Clients \ {c} : tx'[d] = tx[d]
  <2>1. [tx[c] EXCEPT !.at = n + 1] \in Request
    BY <1>2 DEF Request
  <2>2. tx' = [tx EXCEPT ![c] = [tx[c] EXCEPT !.at = n + 1]]
    BY <1>1, <1>2 DEF TypeOK
  <2> QED  BY <1>2, <2>1, <2>2 DEF TypeOK
<1>5. /\ tx'[c].pc = "lines" /\ tx'[c].lines = tx[c].lines /\ tx'[c].key = tx[c].key
      /\ tx'[c].kind = tx[c].kind /\ tx'[c].offending = tx[c].offending
      /\ tx'[c].reversalOf = tx[c].reversalOf /\ tx'[c].acknowledge = tx[c].acknowledge
      /\ tx'[c].at = n + 1
  BY <1>1, <1>2, <1>4 DEF Request
<1> HIDE DEF a
<1>6. /\ held[a] \in {c, Nobody} /\ shared'[a] = shared[a] \cup {c}
      /\ \A b \in GL!Accounts \ {a} : shared'[b] = shared[b]
      /\ shared' \in [GL!Accounts -> SUBSET Clients]
  BY <1>1, <1>2, <1>3 DEF TypeOK, Shareable
<1>7. TypeOK'
  <2>1. ASSUME NEW d \in Clients
        PROVE  IF tx'[d] = Idle THEN \A b \in GL!Accounts : held'[b] # d /\ d \notin shared'[b]
                                ELSE tx'[d].reversalOf \in 0..Len(journal')
    <3>1. CASE d = c
      BY <1>1, <1>2, <1>4, <1>5, <3>1, NotIdle DEF TypeOK
    <3>2. CASE d # c
      <4>1. tx'[d] = tx[d]
        BY <1>4, <3>2
      <4>2. IF tx[d] = Idle THEN \A b \in GL!Accounts : held[b] # d /\ d \notin shared[b]
                            ELSE tx[d].reversalOf \in 0..Len(journal)
        BY <1>2 DEF TypeOK
      <4> QED  BY <1>1, <1>6, <3>2, <4>1, <4>2
    <3> QED  BY <3>1, <3>2
  <2> QED  BY <1>1, <1>2, <1>4, <1>6, <2>1 DEF TypeOK
<1>8. Linked'
  BY <1>1 DEF IInv, Linked
<1>9. ASSUME NEW d \in Clients, tx'[d] # Idle
      PROVE  Requested(d)' /\ Watched(d)' /\ Cleared(d)'
  <2>1. CASE d # c
    <3>1. \A b \in GL!Accounts : d \in shared[b] => d \in shared'[b]
      BY <1>6
    <3> QED  BY <1>1, <1>2, <1>4, <1>9, <2>1, <3>1, OthersKeep DEF IInv
  <2>2. CASE d = c
    <3>1. Requested(c)'
      BY <1>1, <1>2, <1>5 DEF IInv, Requested
    <3>2. Watched(c)'
      BY <1>1, <1>2, <1>5 DEF IInv, Watched, Projected
    <3>3. Cleared(c)'
      <4>1. \A b \in Outflows(c)' : held'[b] = c
        BY <1>1, <1>2, <1>5 DEF Outflows, IInv, Cleared
      <4>2. GuardAllows(c)'
        BY <1>1, <1>2, <1>5 DEF GuardAllows, IInv, Cleared
      <4>3. ASSUME NEW k \in DOMAIN tx'[c].lines, k < tx'[c].at
            PROVE  c \in shared'[tx'[c].lines[k].account]
        <5>1. k \in DOMAIN tx[c].lines /\ k \in Nat /\ n \in Nat /\ tx[c].lines[k].account \in GL!Accounts
          BY <1>2, <1>5, RunningType DEF Request
        <5>2. CASE k = n
          BY <1>5, <1>6, <5>2 DEF a
        <5>3. CASE k # n
          <6>1. k < n
            BY <1>5, <4>3, <5>1, <5>3
          <6>2. c \in shared[tx[c].lines[k].account]
            BY <1>1, <1>2, <5>1, <6>1 DEF IInv, Cleared
          <6> QED  BY <1>5, <1>6, <5>1, <6>2
        <5> QED  BY <5>2, <5>3
      <4> QED  BY <4>1, <4>2, <4>3 DEF Cleared
    <3> QED  BY <2>2, <3>1, <3>2, <3>3
  <2> QED  BY <2>1, <2>2
<1>10. Keyed'
  <2>1. \A d \in Clients : (Inserting(d)' <=> Inserting(d)) /\ tx'[d].key = tx[d].key
    BY <1>1, <1>4, <1>5 DEF Inserting
  <2> QED  BY <1>1, <2>1 DEF IInv, Keyed, GL!Posted
<1>11. Exclusive'
  <2> SUFFICES ASSUME NEW b \in GL!Accounts, held'[b] # Nobody PROVE shared'[b] \subseteq {held'[b]}
    BY DEF Exclusive
  <2>1. shared[b] \subseteq {held[b]} /\ held'[b] = held[b]
    BY <1>1 DEF IInv, Exclusive
  <2>2. b = a => held[b] = c
    BY <1>6, <2>1
  <2> QED  BY <1>6, <2>1, <2>2
<1> QED  BY <1>7, <1>8, <1>9, <1>10, <1>11 DEF IInv

-----------------------------------------------------------------------------
(* The commit.                                                             *)

Marked(i) == IF i # 0 THEN [journal EXCEPT ![i].status = "REVERSED"] ELSE journal

EntryOf(c) == [key |-> tx[c].key, lines |-> tx[c].lines, status |-> "POSTED",
               reversalOf |-> tx[c].reversalOf]

(* What a commit appends, and that its original was not reversed before.   *)
LEMMA CommitEffects ==
  ASSUME IInv, NEW c \in Clients, Commit(c)
  PROVE  /\ tx[c] # Idle /\ tx[c] \in Request /\ tx[c].pc = "lines"
         /\ tx[c].reversalOf \in 0..Len(journal)
         /\ tx[c].reversalOf # 0 => journal[tx[c].reversalOf].status = "POSTED"
         /\ ~GL!Posted(journal, tx[c].key)
         /\ EntryOf(c) \in GL!Entry
         /\ Marked(tx[c].reversalOf) \in Seq(GL!Entry)
         /\ Len(Marked(tx[c].reversalOf)) = Len(journal)
         /\ journal' = Append(Marked(tx[c].reversalOf), EntryOf(c))
         /\ End(c)
<1> DEFINE i == tx[c].reversalOf
<1>1. tx[c].pc = "lines" /\ End(c) /\ journal' = Append(Marked(i), EntryOf(c))
  BY DEF Commit, Marked, EntryOf, Link
<1>2. TypeOK /\ tx[c] # Idle /\ tx[c] \in Request /\ i \in 0..Len(journal)
  BY <1>1, RunningType DEF IInv, Idle
<1>3. ~GL!Posted(journal, tx[c].key)
  BY <1>1 DEF IInv, Keyed, Inserting, GL!Posted
<1>4. EntryOf(c) \in GL!Entry
  BY <1>2 DEF EntryOf, GL!Entry, Request
<1>5. Marked(i) \in Seq(GL!Entry) /\ Len(Marked(i)) = Len(journal)
  <2>1. CASE i = 0
    BY <1>2, <2>1 DEF Marked, TypeOK
  <2>2. CASE i # 0
    <3>1. journal \in Seq(GL!Entry) /\ i \in DOMAIN journal
      BY <1>2, <2>2 DEF TypeOK
    <3>2. [journal[i] EXCEPT !.status = "REVERSED"] \in GL!Entry
      <4>1. journal[i] \in GL!Entry
        BY <3>1, ElementOf
      <4> QED  BY <4>1 DEF GL!Entry
    <3>3. Marked(i) = [journal EXCEPT ![i] = [journal[i] EXCEPT !.status = "REVERSED"]]
      BY <2>2, <3>1 DEF Marked
    <3> QED  BY <3>1, <3>2, <3>3
  <2> QED  BY <2>1, <2>2
<1>6. ASSUME i # 0 PROVE journal[i].status = "POSTED"
  <2>1. i \in DOMAIN journal /\ journal[i] \in GL!Entry
    BY <1>2, <1>6, ElementOf DEF TypeOK
  <2>2. tx[c].key = GL!ReversalKey(i)
    BY <1>2, <1>6 DEF IInv, Requested
  <2>3. ASSUME NEW j \in DOMAIN journal, journal[j].reversalOf = i PROVE FALSE
    <3>1. journal[j].key = GL!ReversalKey(i)
      BY <1>6, <2>3 DEF IInv, Linked
    <3> QED  BY <1>3, <2>2, <3>1 DEF GL!Posted, GL!ReversalKey, GL!NoKey
  <2>4. journal[i].status # "REVERSED"
    BY <2>1, <2>3 DEF IInv, Linked
  <2> QED  BY <2>1, <2>4 DEF GL!Entry
<1> QED  BY <1>1, <1>2, <1>3, <1>4, <1>5, <1>6

(* The journal after it, entry by entry.                                   *)
LEMMA JournalAfter ==
  ASSUME IInv, NEW c \in Clients, Commit(c)
  PROVE  /\ journal' \in Seq(GL!Entry) /\ Len(journal') = Len(journal) + 1
         /\ DOMAIN journal' = DOMAIN journal \cup {Len(journal) + 1}
         /\ Len(journal) + 1 \notin DOMAIN journal
         /\ Len(journal) \in Nat
         /\ journal'[Len(journal) + 1] = EntryOf(c)
         /\ EntryOf(c).key = tx[c].key /\ EntryOf(c).lines = tx[c].lines
         /\ EntryOf(c).status = "POSTED" /\ EntryOf(c).reversalOf = tx[c].reversalOf
         /\ \A k \in DOMAIN journal :
              /\ journal'[k].key = journal[k].key
              /\ journal'[k].lines = journal[k].lines
              /\ journal'[k].reversalOf = journal[k].reversalOf
              /\ journal'[k].status =
                   IF k = tx[c].reversalOf THEN "REVERSED" ELSE journal[k].status
<1> DEFINE i == tx[c].reversalOf
           m == Marked(i)
<1>1. /\ m \in Seq(GL!Entry) /\ Len(m) = Len(journal)
      /\ EntryOf(c) \in GL!Entry /\ journal' = Append(m, EntryOf(c))
  BY CommitEffects
<1>2. journal \in Seq(GL!Entry)
  BY DEF IInv, TypeOK
<1>3. ASSUME NEW k \in DOMAIN journal
      PROVE  /\ m[k].key = journal[k].key
             /\ m[k].lines = journal[k].lines
             /\ m[k].reversalOf = journal[k].reversalOf
             /\ m[k].status = IF k = i THEN "REVERSED" ELSE journal[k].status
  <2>1. journal[k] \in GL!Entry
    BY <1>2, ElementOf
  <2>2. m[k] = IF i # 0 /\ k = i THEN [journal[k] EXCEPT !.status = "REVERSED"] ELSE journal[k]
    BY DEF Marked
  <2>3. i = 0 => k # i
    BY <1>2
  <2> HIDE DEF m, i
  <2> QED  BY <2>1, <2>2, <2>3 DEF GL!Entry
<1>4. \A k \in DOMAIN journal : journal'[k] = m[k]
  <2> HIDE DEF m
  <2> QED  BY <1>1, <1>2
<1>5. /\ journal' \in Seq(GL!Entry) /\ Len(journal') = Len(journal) + 1
      /\ DOMAIN journal' = DOMAIN journal \cup {Len(journal) + 1}
      /\ Len(journal) + 1 \notin DOMAIN journal
      /\ journal'[Len(journal) + 1] = EntryOf(c)
  <2> HIDE DEF m
  <2> QED  BY <1>1, <1>2
<1>6. /\ EntryOf(c).key = tx[c].key /\ EntryOf(c).lines = tx[c].lines
      /\ EntryOf(c).status = "POSTED" /\ EntryOf(c).reversalOf = tx[c].reversalOf
  BY DEF EntryOf
<1> HIDE DEF m
<1> QED  BY <1>2, <1>3, <1>4, <1>5, <1>6

(* An account somebody holds has no line in what another commits.          *)
LEMMA HeldUntouched ==
  ASSUME IInv, NEW c \in Clients, Commit(c), NEW a \in GL!Accounts,
         held[a] # Nobody, held[a] # c
  PROVE  GL!Balance(journal', a) = GL!Balance(journal, a)
<1>1. tx[c] # Idle /\ tx[c].pc = "lines" /\ tx[c] \in Request /\ tx[c].lines \in Seq(GL!Line)
  BY CommitEffects, RunningType DEF IInv
<1>2. tx[c].at > Len(tx[c].lines)
  BY DEF Commit
<1>3. ASSUME NEW k \in DOMAIN tx[c].lines PROVE tx[c].lines[k].account # a
  <2>1. k < tx[c].at
    BY <1>1, <1>2 DEF Request
  <2>2. c \in shared[tx[c].lines[k].account]
    BY <1>1, <2>1 DEF IInv, Cleared
  <2>3. c \notin shared[a]
    BY DEF IInv, Exclusive
  <2> QED  BY <2>2, <2>3
<1>4. GL!Effect(tx[c].lines, a) = 0
  BY <1>1, <1>3, NoEffect
<1>5. journal \in Seq(GL!Entry) /\ journal'[Len(journal')].lines = tx[c].lines
  <2>1. journal \in Seq(GL!Entry)
    BY DEF IInv, TypeOK
  <2> QED  BY <2>1, JournalAfter
<1>6. /\ GL!Balance(journal, a) \in Int
      /\ GL!Balance(journal', a) = GL!Balance(journal, a) + GL!Effect(tx[c].lines, a)
  BY <1>5, JournalAfter, BalanceAppend
<1> QED  BY <1>4, <1>6

LEMMA CommitLinked == ASSUME IInv, NEW c \in Clients, Commit(c) PROVE Linked'
<1> DEFINE i == tx[c].reversalOf
           n == Len(journal) + 1
<1>1. /\ DOMAIN journal' = DOMAIN journal \cup {n} /\ n \notin DOMAIN journal
      /\ n \in Nat /\ n # 0
      /\ journal'[n].key = tx[c].key /\ journal'[n].lines = tx[c].lines
      /\ journal'[n].status = "POSTED" /\ journal'[n].reversalOf = i
  <2>1. DOMAIN journal' = DOMAIN journal \cup {n} /\ n \notin DOMAIN journal /\ Len(journal) \in Nat
    BY JournalAfter
  <2>2. journal'[n] = EntryOf(c)
    BY JournalAfter
  <2>3. /\ EntryOf(c).key = tx[c].key /\ EntryOf(c).lines = tx[c].lines
        /\ EntryOf(c).status = "POSTED" /\ EntryOf(c).reversalOf = i
    BY DEF EntryOf
  <2> QED  BY <2>1, <2>2, <2>3
<1>2. \A k \in DOMAIN journal :
        /\ journal'[k].key = journal[k].key /\ journal'[k].lines = journal[k].lines
        /\ journal'[k].reversalOf = journal[k].reversalOf
        /\ journal'[k].status = IF k = i THEN "REVERSED" ELSE journal[k].status
  BY JournalAfter
<1>3. ~GL!Posted(journal, tx[c].key) /\ i \in 0..Len(journal) /\ tx[c] # Idle
  BY CommitEffects
<1>4. i # 0 => i \in DOMAIN journal
  BY <1>3 DEF IInv, TypeOK
<1>5. Linked /\ Requested(c)
  BY <1>3 DEF IInv
<1>6. ASSUME NEW j \in DOMAIN journal PROVE journal[j].reversalOf # 0 => journal[j].reversalOf \in DOMAIN journal
  <2>1. journal \in Seq(GL!Entry) /\ journal[j].reversalOf < j /\ j \in 1..Len(journal)
    BY DEF IInv, TypeOK
  <2>2. journal[j].reversalOf \in Nat
    <3>1. journal[j] \in GL!Entry
      BY <2>1, ElementOf
    <3> QED  BY <3>1 DEF GL!Entry
  <2> QED  BY <2>1, <2>2
<1> HIDE DEF i, n
<1>7. ASSUME NEW k \in DOMAIN journal', NEW j \in DOMAIN journal',
             journal'[k].key = journal'[j].key, journal'[k].key # GL!NoKey
      PROVE  k = j
  <2>1. CASE k = n /\ j = n
    BY <2>1
  <2>2. CASE k # n /\ j # n
    BY <1>1, <1>2, <1>5, <1>7, <2>2 DEF Linked
  <2>3. CASE k = n /\ j # n
    BY <1>1, <1>2, <1>3, <1>7, <2>3 DEF GL!Posted
  <2>4. CASE k # n /\ j = n
    BY <1>1, <1>2, <1>3, <1>7, <2>4 DEF GL!Posted
  <2> QED  BY <2>1, <2>2, <2>3, <2>4
<1>8. ASSUME NEW j \in DOMAIN journal', journal'[j].reversalOf # 0
      PROVE  LET k == journal'[j].reversalOf
             IN  /\ journal'[j].key = GL!ReversalKey(k)
                 /\ journal'[j].lines = GL!Mirror(journal'[k].lines)
                 /\ journal'[k].status = "REVERSED"
  <2>1. CASE j = n
    BY <1>1, <1>2, <1>4, <1>5, <1>8, <2>1 DEF Requested, i
  <2>2. CASE j # n
    <3>1. j \in DOMAIN journal /\ journal[j].reversalOf # 0
      BY <1>1, <1>2, <1>8, <2>2
    <3>2. journal[j].reversalOf \in DOMAIN journal
      BY <1>6, <3>1
    <3> QED  BY <1>2, <1>5, <3>1, <3>2 DEF Linked
  <2> QED  BY <2>1, <2>2
<1>9. ASSUME NEW k \in DOMAIN journal', journal'[k].status = "REVERSED"
      PROVE  \E j \in DOMAIN journal' : journal'[j].reversalOf = k
  <2>1. k # n
    BY <1>1, <1>9
  <2>2. CASE k = i
    BY <1>1, <2>2
  <2>3. CASE k # i
    <3>1. k \in DOMAIN journal /\ journal[k].status = "REVERSED"
      BY <1>1, <1>2, <1>9, <2>1, <2>3
    <3>2. PICK j \in DOMAIN journal : journal[j].reversalOf = k
      BY <1>5, <3>1 DEF Linked
    <3> QED  BY <1>1, <1>2, <3>2
  <2> QED  BY <2>2, <2>3
<1> QED  BY <1>7, <1>8, <1>9 DEF Linked

LEMMA CommitKeeps == ASSUME IInv, NEW c \in Clients, Commit(c) PROVE IInv'
<1>1. /\ TypeOK /\ tx[c] # Idle /\ tx[c].reversalOf \in 0..Len(journal) /\ End(c)
      /\ ~GL!Posted(journal, tx[c].key)
  BY CommitEffects DEF IInv
<1>2. /\ tx' \in [Clients -> {Idle} \cup Request] /\ tx'[c] = Idle
      /\ \A d \in Clients \ {c} : tx'[d] = tx[d]
      /\ held' \in [GL!Accounts -> Clients \cup {Nobody}] /\ shared' \in [GL!Accounts -> SUBSET Clients]
      /\ \A a \in GL!Accounts : held'[a] = IF held[a] = c THEN Nobody ELSE held[a]
      /\ \A a \in GL!Accounts : shared'[a] = shared[a] \ {c}
      /\ UNCHANGED <<period, started>>
  BY <1>1 DEF End, TypeOK
<1>3. TypeOK'
  <2>1. ASSUME NEW j \in DOMAIN journal' PROVE journal'[j].reversalOf < j
    <3>1. CASE j \in DOMAIN journal
      BY <1>1, <3>1, JournalAfter DEF TypeOK
    <3>2. CASE j = Len(journal) + 1
      <4>1. journal'[j].reversalOf = tx[c].reversalOf
        BY <3>2, JournalAfter
      <4> QED  BY <1>1, <3>2, <4>1, JournalAfter
    <3> QED  BY <3>1, <3>2, JournalAfter
  <2>2. ASSUME NEW d \in Clients
        PROVE  IF tx'[d] = Idle THEN \A a \in GL!Accounts : held'[a] # d /\ d \notin shared'[a]
                                ELSE tx'[d].reversalOf \in 0..Len(journal')
    <3>1. CASE d = c
      BY <1>2, <3>1, PostingAssumption
    <3>2. CASE d # c
      <4>1. IF tx[d] = Idle THEN \A a \in GL!Accounts : held[a] # d /\ d \notin shared[a]
                            ELSE tx[d].reversalOf \in 0..Len(journal)
        BY <1>1 DEF TypeOK
      <4>2. 0..Len(journal) \subseteq 0..Len(journal')
        BY <1>1, JournalAfter DEF TypeOK
      <4> QED  BY <1>2, <3>2, <4>1, <4>2, PostingAssumption
    <3> QED  BY <3>1, <3>2
  <2> QED  BY <1>1, <1>2, <2>1, <2>2, JournalAfter DEF TypeOK
<1>4. ASSUME NEW d \in Clients, tx'[d] # Idle
      PROVE  d # c /\ tx'[d] = tx[d] /\ tx[d] # Idle /\ Requested(d) /\ Watched(d) /\ Cleared(d)
  BY <1>2, <1>4 DEF IInv
<1>5. ASSUME NEW d \in Clients, tx'[d] # Idle
      PROVE  Requested(d)' /\ Watched(d)' /\ Cleared(d)'
  <2>1. d # c /\ tx'[d] = tx[d] /\ tx[d] # Idle
    BY <1>4, <1>5
  <2>2. Requested(d)'
    <3>1. tx[d].reversalOf \in 0..Len(journal) /\ journal \in Seq(GL!Entry)
      BY <1>1, <2>1, RunningType DEF TypeOK
    <3>2. tx[d].reversalOf # 0 => journal'[tx[d].reversalOf].lines = journal[tx[d].reversalOf].lines
      BY <3>1, JournalAfter
    <3> QED  BY <1>4, <1>5, <2>1, <3>2 DEF Requested
  <2>3. Watched(d)'
    <3> SUFFICES ASSUME NEW a \in Treasuries
                 PROVE  IF held'[a] = d THEN a \in tx[d].offending <=> Projected(d, a)' < 0
                                        ELSE a \notin tx[d].offending
      BY <2>1 DEF Watched
    <3>1. a \in GL!Accounts
      BY DEF GL!Accounts
    <3>2. held'[a] = d <=> held[a] = d
      BY <1>2, <2>1, <3>1, PostingAssumption
    <3>3. held[a] = d => Projected(d, a)' = Projected(d, a)
      BY <2>1, <3>1, HeldUntouched, PostingAssumption DEF Projected
    <3> QED  BY <1>4, <1>5, <3>2, <3>3 DEF Watched
  <2>4. Cleared(d)'
    <3>1. ASSUME tx[d].pc = "lines" PROVE \A a \in Outflows(d)' : held'[a] = d
      BY <1>2, <1>4, <1>5, <2>1, <3>1 DEF Cleared, Outflows, GL!Accounts
    <3>2. ASSUME tx[d].pc = "lines" PROVE GuardAllows(d)'
      BY <1>4, <1>5, <2>1, <3>2 DEF Cleared, GuardAllows
    <3>3. ASSUME tx[d].pc = "lines", NEW k \in DOMAIN tx[d].lines, k < tx[d].at
          PROVE  d \in shared'[tx[d].lines[k].account]
      BY <1>1, <1>2, <1>4, <1>5, <2>1, <3>3, RunningType DEF Cleared
    <3> QED  BY <2>1, <3>1, <3>2, <3>3 DEF Cleared
  <2> QED  BY <2>2, <2>3, <2>4
<1>6. Keyed'
  <2> SUFFICES ASSUME NEW d \in Clients, Inserting(d)'
               PROVE  /\ ~GL!Posted(journal', tx'[d].key)
                      /\ \A e \in Clients : Inserting(e)' /\ tx'[e].key = tx'[d].key => e = d
    BY DEF Keyed
  <2>1. \A e \in Clients : Inserting(e)' => e # c /\ Inserting(e) /\ tx'[e] = tx[e]
    BY <1>2 DEF Inserting, Idle
  <2>2. ~GL!Posted(journal, tx[d].key) /\ \A e \in Clients : Inserting(e) /\ tx[e].key = tx[d].key => e = d
    BY <2>1 DEF IInv, Keyed
  <2>3. tx[c].pc = "lines"
    BY CommitEffects
  <2>4. tx[c].key # tx[d].key
    BY <2>1, <2>2, <2>3 DEF Inserting
  <2>5. ~GL!Posted(journal', tx[d].key)
    <3> SUFFICES ASSUME NEW j \in DOMAIN journal', journal'[j].key = tx[d].key PROVE FALSE
      BY <2>1 DEF GL!Posted, Inserting
    <3>1. CASE j \in DOMAIN journal
      BY <2>1, <2>2, <3>1, JournalAfter DEF GL!Posted, Inserting
    <3>2. CASE j = Len(journal) + 1
      BY <2>4, <3>2, JournalAfter
    <3> QED  BY <3>1, <3>2, JournalAfter
  <2> QED  BY <2>1, <2>2, <2>5
<1>7. Exclusive'
  BY <1>2 DEF IInv, Exclusive
<1> QED  BY <1>3, <1>5, <1>6, <1>7, CommitLinked DEF IInv

(* Every step keeps the invariant.                                         *)
LEMMA InvNext == IInv /\ [Next]_vars => IInv'
<1> SUFFICES ASSUME IInv, [Next]_vars PROVE IInv'
  OBVIOUS
<1>1. ASSUME NEW c \in Clients, BeginPost(c) \/ BeginReverse(c) \/ BeginUnkeyed(c) PROVE IInv'
  BY <1>1, BeginPostKeeps, BeginReverseKeeps, BeginUnkeyedKeeps
<1>2. ASSUME NEW c \in Clients, Rollback(c), tx[c] # Idle PROVE IInv'
  BY <1>2, RollbackKeeps
<1>3. ASSUME NEW c \in Clients, Step(c) PROVE IInv'
  <2>1. CASE AlreadyPosted(c) \/ RefuseLines(c) \/ RefusePeriod(c) \/ RefuseOverdraft(c) \/ UniqueViolation(c)
    BY <1>2, <2>1 DEF AlreadyPosted, RefuseLines, RefusePeriod, RefuseOverdraft, UniqueViolation,
                      Guarded, Idle
  <2>2. CASE NotPosted(c)
    BY <2>2, GotoKeeps DEF NotPosted, Idle
  <2>3. CASE PeriodIsOpen(c)
    <3>1. tx[c].pc = "period" /\ tx[c] # Idle
      BY <2>3 DEF PeriodIsOpen, Idle
    <3>2. GL!Balanced(tx[c].lines)
      BY <3>1 DEF IInv, Requested
    <3> QED  BY <2>3, <3>1, <3>2, GotoKeeps DEF PeriodIsOpen
  <2>4. CASE Commit(c)
    BY <2>4, CommitKeeps
  <2> QED  BY <1>3, <2>1, <2>2, <2>3, <2>4 DEF Step
<1>4. ASSUME NEW c \in Clients, Waiting(c) PROVE IInv'
  BY <1>4, LockOutflowKeeps, InsertEntryKeeps, ShareAccountKeeps DEF Waiting
<1>5. ASSUME NEW c \in Clients, DeadlockVictim(c) \/ Abort(c) PROVE IInv'
  BY <1>2, <1>5 DEF DeadlockVictim, Abort, InCycle
<1>6. ASSUME UNCHANGED <<journal, held, shared, tx, started>>,
             period' \in [Months -> {"NONE", "OPEN", "CLOSED"}]
      PROVE  IInv'
  <2>1. TypeOK'
    BY <1>6 DEF IInv, TypeOK
  <2>2. Linked'
    BY <1>6 DEF IInv, Linked
  <2>3. ASSUME NEW c \in Clients, tx'[c] # Idle PROVE Requested(c)' /\ Watched(c)' /\ Cleared(c)'
    BY <1>6, <2>3, OthersKeep DEF IInv
  <2>4. Keyed'
    BY <1>6 DEF IInv, Keyed, Inserting, GL!Posted
  <2>5. Exclusive'
    BY <1>6 DEF IInv, Exclusive
  <2> QED  BY <2>1, <2>2, <2>3, <2>4, <2>5 DEF IInv
<1>7. ASSUME NEW m \in Months, CreatePeriod(m) \/ ClosePeriod(m) \/ ReopenPeriod(m) PROVE IInv'
  BY <1>6, <1>7 DEF CreatePeriod, ClosePeriod, ReopenPeriod, IInv, TypeOK
<1>8. ASSUME UNCHANGED vars PROVE IInv'
  BY <1>6, <1>8 DEF vars, IInv, TypeOK
<1> QED  BY <1>1, <1>3, <1>4, <1>5, <1>7, <1>8 DEF Next

-----------------------------------------------------------------------------
(* The theorems.                                                           *)

(* In every behaviour a key is in the journal once or being inserted by    *)
(* one client, a reversal mirrors its original, and what the guard has     *)
(* read of a treasury still holds while its row is locked (posting.engine, *)
(* reversal.service, treasury-guard.service).                              *)
THEOREM PostingInvariant == Spec => []IInv
BY InvInit, InvNext, PTL DEF Spec

(* Types, with reversals of earlier entries only and no lock left behind,  *)
(* for any accounts, clients and documents (posting.engine.ts).            *)
THEOREM PostingTypeCorrect == Spec => []TypeOK
<1>1. IInv => TypeOK
  BY DEF IInv
<1> QED  BY PostingInvariant, <1>1, PTL

(* An entry is REVERSED exactly when one reversal of it exists, and the    *)
(* two cancel out on every account, however many clients reverse at once   *)
(* (reversal.service.ts).                                                  *)
THEOREM ReversalsPair == Spec => []ReversalPairs
<1>1. ASSUME IInv PROVE ReversalPairs
  <2> SUFFICES ASSUME NEW i \in DOMAIN journal
               PROVE  LET reversals == {j \in DOMAIN journal : journal[j].reversalOf = i}
                      IN  /\ Cardinality(reversals) = IF journal[i].status = "REVERSED" THEN 1 ELSE 0
                          /\ \A j \in reversals, a \in Treasuries \cup Others :
                               GL!Effect(journal[i].lines, a) + GL!Effect(journal[j].lines, a) = 0
    BY DEF ReversalPairs
  <2> DEFINE reversals == {j \in DOMAIN journal : journal[j].reversalOf = i}
  <2>1. journal \in Seq(GL!Entry) /\ i # 0 /\ Linked
    BY <1>1 DEF IInv, TypeOK
  <2>2. journal[i].lines \in Seq(GL!Line)
    <3>1. journal[i] \in GL!Entry
      BY <2>1, ElementOf
    <3> QED  BY <3>1 DEF GL!Entry
  <2>3. ASSUME NEW j \in reversals
        PROVE  /\ journal[j].key = GL!ReversalKey(i) /\ journal[i].status = "REVERSED"
               /\ journal[j].lines = GL!Mirror(journal[i].lines)
    BY <2>1 DEF Linked
  <2>4. ASSUME NEW j \in reversals, NEW k \in reversals PROVE j = k
    <3>1. journal[j].key = journal[k].key /\ journal[j].key # GL!NoKey
      BY <2>3 DEF GL!ReversalKey, GL!NoKey
    <3> QED  BY <2>1, <3>1 DEF Linked
  <2>5. Cardinality(reversals) = IF journal[i].status = "REVERSED" THEN 1 ELSE 0
    <3>1. CASE journal[i].status = "REVERSED"
      <4>1. PICK j \in DOMAIN journal : journal[j].reversalOf = i
        BY <2>1, <3>1 DEF Linked
      <4>2. reversals = {j}
        BY <2>4, <4>1
      <4> HIDE DEF reversals
      <4> QED  BY <3>1, <4>2, FS_Singleton
    <3>2. CASE journal[i].status # "REVERSED"
      <4>1. reversals = {}
        BY <2>3, <3>2
      <4> HIDE DEF reversals
      <4> QED  BY <3>2, <4>1, FS_EmptySet
    <3> QED  BY <3>1, <3>2
  <2>6. ASSUME NEW j \in reversals, NEW a \in Treasuries \cup Others
        PROVE  GL!Effect(journal[i].lines, a) + GL!Effect(journal[j].lines, a) = 0
    <3>1. GL!Effect(journal[j].lines, a) = -GL!Effect(journal[i].lines, a)
      BY <2>2, <2>3, MirrorEffect
    <3>2. GL!Effect(journal[i].lines, a) \in Int
      BY <2>2, EffectType
    <3> QED  BY <3>1, <3>2
  <2> QED  BY <2>5, <2>6
<1> QED  BY PostingInvariant, <1>1, PTL

(* Engine, reversals and legacy writers together implement the general     *)
(* ledger: balanced entries, once per key, never edited (posting.engine,   *)
(* reversal.service).                                                      *)
THEOREM PostingImplementsLedger == Spec => LedgerSpec
<1>1. Init => GL!Init
  BY DEF Init, GL!Init
<1>2. ASSUME IInv, NEW c \in Clients, Commit(c) PROVE GL!Next
  <2> DEFINE i == tx[c].reversalOf
  <2>1. /\ tx[c] # Idle /\ tx[c].pc = "lines" /\ i \in 0..Len(journal)
        /\ i # 0 => journal[i].status = "POSTED"
        /\ ~GL!Posted(journal, tx[c].key)
        /\ journal' = Append(Marked(i), EntryOf(c))
        /\ Marked(i) \in Seq(GL!Entry) /\ EntryOf(c) \in GL!Entry
    BY <1>2, CommitEffects
  <2>2. Requested(c)
    BY <1>2, <2>1 DEF IInv
  <2>3. CASE i = 0
    <3>1. journal' = Append(journal, EntryOf(c)) /\ journal \in Seq(GL!Entry)
      BY <1>2, <2>1, <2>3 DEF Marked, IInv, TypeOK
    <3>2. journal' # <<>> /\ journal'[Len(journal')] = EntryOf(c)
      BY <2>1, <3>1
    <3>3. GL!Last(journal') = EntryOf(c)
      BY <3>2 DEF GL!Last
    <3>4. /\ EntryOf(c).status = "POSTED" /\ EntryOf(c).reversalOf = 0
          /\ EntryOf(c).lines = tx[c].lines /\ EntryOf(c).key = tx[c].key
      BY <2>3 DEF EntryOf
    <3>5. GL!Balanced(EntryOf(c).lines)
      BY <2>1, <2>2, <3>4 DEF Requested
    <3> QED  BY <2>1, <3>1, <3>2, <3>3, <3>4, <3>5 DEF GL!Next, GL!PostEntry
  <2>4. CASE i # 0
    <3>1. i \in DOMAIN journal
      BY <1>2, <2>1, <2>4 DEF IInv, TypeOK
    <3>2. EntryOf(c) = [key |-> GL!ReversalKey(i), lines |-> GL!Mirror(journal[i].lines),
                        status |-> "POSTED", reversalOf |-> i]
      BY <2>2, <2>4 DEF Requested, EntryOf
    <3>3. Marked(i) = [journal EXCEPT ![i].status = "REVERSED"]
      BY <2>4 DEF Marked
    <3> HIDE DEF i
    <3> QED  BY <2>1, <2>4, <3>1, <3>2, <3>3 DEF GL!Next, GL!ReverseEntry
  <2> QED  BY <2>3, <2>4
<1>3. ASSUME IInv, [Next]_vars PROVE [GL!Next]_journal
  <2>1. CASE \E d \in Clients : Commit(d)
    BY <1>2, <1>3, <2>1
  <2>2. CASE ~\E d \in Clients : Commit(d)
    BY <1>3, <2>2 DEF Next, vars, BeginPost, BeginReverse, BeginUnkeyed, Begin, Step, Waiting,
       DeadlockVictim, Abort, AlreadyPosted, NotPosted, RefuseLines, PeriodIsOpen, RefusePeriod,
       RefuseOverdraft, UniqueViolation, LockOutflow, InsertEntry, ShareAccount, Rollback,
       CreatePeriod, ClosePeriod, ReopenPeriod
  <2> QED  BY <2>1, <2>2
<1> QED  BY PostingInvariant, <1>1, <1>3, PTL DEF Spec, LedgerSpec, GL!Spec

(* A guarded outflow never overdraws a treasury unseen, whatever commits   *)
(* between the guard's reading and the entry (treasury-guard.service.ts).  *)
THEOREM OutflowsAlwaysGuarded == Spec => GuardedOutflow
<1>1. ASSUME IInv, [Next]_vars, NEW c \in Clients, Commits(c), tx[c].kind # "direct",
             NEW a \in Treasuries, GL!Effect(tx[c].lines, a) < 0
      PROVE  \/ GL!Balance(journal', a) >= 0
             \/ a \in Floor /\ tx[c].reversalOf # 0
             \/ a \notin Floor /\ tx[c].acknowledge
  <2>1. Commit(c)
    <3>1. PICK d \in Clients : Commit(d)
      BY <1>1 DEF Commits, Next, vars, BeginPost, BeginReverse, BeginUnkeyed, Begin, Step, Waiting,
         DeadlockVictim, Abort, AlreadyPosted, NotPosted, RefuseLines, PeriodIsOpen, RefusePeriod,
         RefuseOverdraft, UniqueViolation, LockOutflow, InsertEntry, ShareAccount, Rollback,
         CreatePeriod, ClosePeriod, ReopenPeriod
    <3>2. tx' = [tx EXCEPT ![d] = Idle]
      BY <3>1 DEF Commit, End
    <3>3. d = c
      BY <1>1, <3>2 DEF Commits
    <3> QED  BY <3>1, <3>3
  <2>2. /\ tx[c] # Idle /\ tx[c].pc = "lines" /\ tx[c].lines \in Seq(GL!Line)
        /\ Watched(c) /\ Cleared(c)
    BY <1>1, <2>1, CommitEffects, RunningType DEF IInv
  <2>3. held[a] = c /\ GuardAllows(c)
    BY <1>1, <2>2 DEF Cleared, Outflows
  <2>4. a \in tx[c].offending <=> Projected(c, a) < 0
    BY <2>2, <2>3 DEF Watched
  <2>5. GL!Balance(journal', a) = Projected(c, a) /\ Projected(c, a) \in Int
    <3>1. journal \in Seq(GL!Entry)
      BY <1>1 DEF IInv, TypeOK
    <3>2. journal'[Len(journal')].lines = tx[c].lines
      BY <1>1, <2>1, JournalAfter
    <3>3. /\ GL!Balance(journal, a) \in Int
          /\ GL!Balance(journal', a) = GL!Balance(journal, a) + GL!Effect(tx[c].lines, a)
      BY <1>1, <2>1, <3>1, <3>2, JournalAfter, BalanceAppend
    <3>4. GL!Effect(tx[c].lines, a) \in Int
      BY <2>2, EffectType
    <3> QED  BY <3>3, <3>4 DEF Projected
  <2>6. CASE Projected(c, a) >= 0
    BY <2>5, <2>6
  <2>7. CASE Projected(c, a) < 0
    BY <2>3, <2>4, <2>7 DEF GuardAllows
  <2> QED  BY <2>5, <2>6, <2>7
<1>2. IInv /\ [Next]_vars =>
        [\A c \in Clients : Commits(c) /\ tx[c].kind # "direct" =>
           \A a \in Treasuries :
              GL!Effect(tx[c].lines, a) < 0 =>
                 \/ GL!Balance(journal', a) >= 0
                 \/ a \in Floor /\ tx[c].reversalOf # 0
                 \/ a \notin Floor /\ tx[c].acknowledge]_vars
  BY <1>1
<1> QED  BY PostingInvariant, <1>2, PTL DEF Spec, GuardedOutflow
=============================================================================
