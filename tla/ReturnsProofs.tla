----------------------------- MODULE ReturnsProofs -----------------------------
(***************************************************************************)
(* Proofs about Returns, for any invoices, returns, handlers, amounts and  *)
(* any precision of the average: types, what a document has moved, what    *)
(* returns may take of an invoice and are worth together, and what the     *)
(* average cost is after a commit.                                         *)
(*                                                                         *)
(* A handler commits what it has read or calculated before.  The invariant *)
(* says how far that still holds: for a document nobody raced for what was *)
(* read stands (Settled); under the lock of an invoice what was calculated *)
(* still fits it (Returned); under the costing lock stock and average are  *)
(* as they were read (Holds).                                              *)
(***************************************************************************)
EXTENDS Returns, SumLemmas, TLAPS

Statuses == {"NONE", "DRAFT", "CONFIRMED", "CANCELLED", "DELETED"}
Existing == Statuses \ {"NONE"}
Entries  == [status : {"NONE", "POSTED", "REVERSED"}, amount : Int]

(* Lines of a document that is there: some, of some boards each.           *)
GoodLine  == [boards : Nat \ {0}, worth : Int, valued : BOOLEAN]
GoodLines == {lines \in Seq(GoodLine) : Len(lines) > 0}

Jobs == [op : {"confirm", "cancel", "update", "remove"}, doc : Documents, seen : Existing,
         lines : GoodLines, there : GoodLines, ticks : Nat, boards : Nat]

Stored ==
    /\ onHand \in Nat /\ avg \in Nat
    /\ doc \in [Documents -> Document]
    /\ original \in [Invoices -> Int] /\ moved \in [Documents -> Int]
    /\ entry \in [Documents -> Entries]
    /\ overlapped \subseteq Documents /\ edited \subseteq overlapped /\ started \in Nat

Control ==
    /\ lock \in [Documents -> Handlers \cup {NoOne}]
    /\ variantLock \in Handlers \cup {NoOne}
    /\ pc \in [Handlers -> {"idle", "lock", "cost", "commit", "write"}]
    /\ job \in [Handlers -> Jobs \cup {Idle}]

(* An invoice has one line, whose boards never change, and stays as long   *)
(* as a return refers to it.                                               *)
Filed(d) ==
    /\ doc[d].status = "NONE" => doc[d] = NoDocument
    /\ doc[d].status # "NONE" => doc[d].lines \in GoodLines
    /\ d \in Invoices =>
         /\ doc[d].invoice = NoOne
         /\ doc[d].status # "NONE" => /\ Len(doc[d].lines) = 1 /\ doc[d].lines[1].valued
                                      /\ d \in Purchases => doc[d].lines[1].worth \in Nat
    /\ doc[d].invoice # NoOne => doc[doc[d].invoice].status \in {"CONFIRMED", "CANCELLED"}

(* What computes an average, and holds the variant by then.                *)
Averages(c) == IsReturn(job[c].doc) \/ (job[c].doc \in Purchases /\ job[c].op = "confirm")

Places(c) ==
    LET d == job[c].doc
        k == job[c].op
    IN  /\ pc[c] = "lock"   => IsReturn(d) /\ (k = "confirm" \/ (k = "cancel" /\ IsLegacy(d)))
        /\ pc[c] = "cost"   => Averages(c) /\ k \in {"confirm", "cancel"}
        /\ pc[c] = "commit" => k \in {"confirm", "cancel"}
        /\ pc[c] = "write"  => (k = "update" /\ IsReturn(d)) \/ (k = "remove" /\ d \in Invoices)

(* The locks a handler holds, and what it knows by them.                   *)
Holds(c) ==
    LET d == job[c].doc
    IN  /\ pc[c] \in {"cost", "commit"} /\ IsReturn(d) =>
             IF IsLegacy(d) THEN lock[d] = c
             ELSE job[c].op = "confirm" => lock[doc[d].invoice] = c
        /\ pc[c] = "commit" /\ Averages(c) =>
             variantLock = c /\ job[c].ticks = avg /\ job[c].boards = onHand

Working(c) ==
    LET d == job[c].doc
    IN  /\ job[c] # Idle
        /\ doc[d].status # "NONE"
        /\ Places(c) /\ Holds(c)
        /\ job[c].op # "cancel" => job[c].seen = "DRAFT"
        /\ job[c].op = "cancel" =>
             job[c].seen \in IF IsReturn(d) THEN {"CONFIRMED"} ELSE {"DRAFT", "CONFIRMED"}
        /\ d \in Invoices => /\ Len(job[c].lines) = 1 /\ job[c].lines[1].valued
                             /\ job[c].lines[1].boards = doc[d].lines[1].boards
                             /\ d \in Purchases => job[c].lines = doc[d].lines
        /\ IsReturn(d) /\ ~IsLegacy(d) /\ job[c].op = "confirm" => Len(job[c].lines) = 1
        /\ job[c].op = "update" => Len(job[c].lines) = 1
        /\ IsLegacy(d) /\ job[c].op = "confirm" /\ pc[c] = "cost" => job[c].lines = job[c].there
        /\ IsLegacy(d) /\ job[c].op = "confirm" /\ pc[c] = "commit" =>
             job[c].lines = AtCurrentCost(job[c].there, job[c].ticks)

Handled(c) == IF pc[c] = "idle" THEN job[c] = Idle ELSE Working(c)

(* Two handlers at one document have met.                                  *)
Met(b, c) ==
    pc[b] # "idle" /\ pc[c] # "idle" /\ job[b].doc = job[c].doc =>
        /\ job[c].doc \in overlapped
        /\ "update" \in {job[b].op, job[c].op} => job[c].doc \in edited

(* What was read of a document nobody raced for still stands; of a return  *)
(* without an invoice, from its lock on.                                   *)
Settled(c) ==
    LET d == job[c].doc
    IN  pc[c] # "idle" /\ Quiet(d) /\ ~(IsLegacy(d) /\ pc[c] = "lock") =>
          /\ doc[d].status = job[c].seen
          /\ doc[d].lines = job[c].there
          /\ job[c].op = "cancel" => job[c].lines = job[c].there

(* What such a document has moved and posted, and that it has one line.    *)
Kept(d) ==
    /\ EffectsOf(d)
    /\ doc[d].status \in {"NONE", "DRAFT"} => entry[d] = NotPosted
    /\ doc[d].status = "CONFIRMED" /\ entry[d].status = "NONE" => Worth(doc[d].lines) = 0
    /\ d \in Invoices => /\ doc[d].status \in {"NONE", "DRAFT"} => original[d] = 0
                         /\ doc[d].status = "CONFIRMED" => original[d] = moved[d]
    /\ doc[d].status # "NONE" => Len(doc[d].lines) = 1

(* Boards and worth that are, or are to be, returned of an invoice fit it; *)
(* and if nobody raced for the invoice, all its boards have all its worth. *)
Fit(i, boards, worth) ==
    /\ boards <= doc[i].lines[1].boards
    /\ i \notin overlapped /\ boards = doc[i].lines[1].boards => worth = doc[i].lines[1].worth

Returning(c, i) ==
    /\ pc[c] \in {"cost", "commit"} /\ job[c].op = "confirm"
    /\ IsReturn(job[c].doc) /\ doc[job[c].doc].invoice = i

Returned(i) ==
    ReturnsOf(i) # {} /\ Unraced(ReturnsOf(i)) =>
        /\ Fit(i, Already(i).boards, Already(i).worth)
        /\ \A c \in Handlers : Returning(c, i) =>
             Fit(i, Already(i).boards + Boards(job[c].lines), Already(i).worth + Worth(job[c].lines))

IInv ==
    /\ Stored /\ Control
    /\ \A d \in Documents : Filed(d)
    /\ \A c \in Handlers : Handled(c)
    /\ \A b \in Handlers, c \in Handlers : b # c => Met(b, c)
    /\ \A c \in Handlers : Settled(c)
    /\ \A d \in Documents : Quiet(d) => Kept(d)
    /\ \A i \in Invoices : Returned(i)

-----------------------------------------------------------------------------
(* Arithmetic.                                                             *)

LEMMA DivBounds ==
    ASSUME NEW a \in Int, NEW b \in Nat \ {0}
    PROVE  a \div b \in Int /\ b * (a \div b) <= a /\ a < b * (a \div b) + b
BY SMT

(* Rounding half up is off by at most a half.                              *)
LEMMA HalfUpBounds ==
    ASSUME NEW n \in Int, NEW d \in Nat \ {0}
    PROVE  /\ HalfUp(n, d) \in Int
           /\ 2 * (d * HalfUp(n, d)) <= 2 * n + d
           /\ 2 * n < 2 * (d * HalfUp(n, d)) + d
<1>1. 2 * n + d \in Int /\ 2 * d \in Nat \ {0}
  OBVIOUS
<1>2. PICK q : q = (2 * n + d) \div (2 * d)
  OBVIOUS
<1>3. q \in Int /\ (2 * d) * q <= 2 * n + d /\ 2 * n + d < (2 * d) * q + 2 * d
  BY <1>1, <1>2, DivBounds
<1>4. (2 * d) * q = 2 * (d * q) /\ d * q \in Int
  BY <1>3
<1>5. 2 * (d * q) <= 2 * n + d /\ 2 * n < 2 * (d * q) + d
  BY <1>3, <1>4
<1> QED  BY <1>2, <1>3, <1>5 DEF HalfUp

LEMMA HalfUpNat ==
    ASSUME NEW n \in Nat, NEW d \in Nat \ {0}
    PROVE  HalfUp(n, d) \in Nat
<1>1. 2 * n + d \in Nat /\ 2 * d \in Nat \ {0}
  OBVIOUS
<1>2. ASSUME NEW a \in Nat, NEW b \in Nat \ {0} PROVE a \div b \in Nat
  BY SMT
<1> QED  BY <1>1, <1>2 DEF HalfUp

LEMMA CentsNat ==
    ASSUME NEW b \in Nat, NEW t \in Nat
    PROVE  Cents(b, t) \in Nat
<1>1. b * t \in Nat
  OBVIOUS
<1> QED  BY <1>1, HalfUpNat, ScaleAssumption DEF Cents

(* The average is one, if the value of stock is not negative.              *)
LEMMA AverageNat ==
    ASSUME NEW n \in Nat, NEW t \in Nat, NEW b \in Int, NEW w \in Int,
           n + b >= 0, ValueAfter(n, t, w) >= 0
    PROVE  AverageAfter(n, t, b, w) \in Nat
<1>1. n * t \in Int /\ w * Scale \in Int
  BY ScaleAssumption
<1>2. ValueAfter(n, t, w) \in Nat
  BY <1>1 DEF ValueAfter
<1> QED  BY <1>2, HalfUpNat DEF AverageAfter

-----------------------------------------------------------------------------
(* Lines.                                                                  *)

LEMMA GoodLinesAreLines == ASSUME NEW lines \in GoodLines
    PROVE  /\ lines \in Seq(ALine) /\ lines \in Seq(GoodLine)
           /\ Len(lines) \in Nat \ {0} /\ DOMAIN lines = 1 .. Len(lines)
           /\ \A k \in DOMAIN lines : lines[k] \in GoodLine
           /\ 1 \in DOMAIN lines /\ lines[1] \in GoodLine
<1>1. GoodLine \subseteq ALine
  BY DEF GoodLine, ALine
<1> QED  BY <1>1 DEF GoodLines

LEMMA LinesJoin == ASSUME NEW a \in GoodLines, NEW b \in GoodLines PROVE a \o b \in GoodLines
<1>1. a \o b \in Seq(GoodLine) /\ Len(a \o b) = Len(a) + Len(b)
  BY DEF GoodLines
<1> QED  BY <1>1 DEF GoodLines

LEMMA OneLine == ASSUME NEW l \in GoodLine PROVE <<l>> \in GoodLines /\ Len(<<l>>) = 1
BY DEF GoodLines

LEMMA TheOneLine == ASSUME NEW lines \in GoodLines, Len(lines) = 1
    PROVE  lines = <<lines[1]>> /\ lines[1] \in GoodLine
BY DEF GoodLines

LEMMA LinesFinite == ASSUME NEW lines \in GoodLines PROVE IsFiniteSet(DOMAIN lines)
BY GoodLinesAreLines, FS_Interval

LEMMA BoardsType == ASSUME NEW lines \in GoodLines PROVE Boards(lines) \in Nat \ {0}
<1> DEFINE f == [k \in DOMAIN lines |-> lines[k].boards]
<1>1. \A k \in DOMAIN lines : f[k] \in Nat \ {0}
  BY GoodLinesAreLines DEF GoodLine
<1>2. Boards(lines) = SumFunctionOnSet(f, DOMAIN lines)
  BY DEF Boards, SumFunction
<1>3. IsFiniteSet(DOMAIN lines) /\ 1 \in DOMAIN lines
  BY LinesFinite, GoodLinesAreLines
<1> HIDE DEF f
<1>4. IsFiniteSet(DOMAIN lines \ {1})
  BY <1>3, FS_Subset
<1>5. SumFunctionOnSet(f, DOMAIN lines) = f[1] + SumFunctionOnSet(f, DOMAIN lines \ {1})
  BY <1>1, <1>3, SumRemove
<1>6. SumFunctionOnSet(f, DOMAIN lines \ {1}) \in Nat
  BY <1>1, <1>4, SumNat
<1>7. f[1] \in Nat \ {0}
  BY <1>1, <1>3
<1> QED  BY <1>2, <1>5, <1>6, <1>7

LEMMA WorthType == ASSUME NEW lines \in GoodLines PROVE Worth(lines) \in Int
<1> DEFINE f == [k \in DOMAIN lines |-> lines[k].worth]
<1>1. \A k \in DOMAIN lines : f[k] \in Int
  BY GoodLinesAreLines DEF GoodLine
<1>2. Worth(lines) = SumFunctionOnSet(f, DOMAIN lines)
  BY DEF Worth, SumFunction
<1> HIDE DEF f
<1> QED  BY <1>1, <1>2, LinesFinite, SumType

LEMMA OneLineSums == ASSUME NEW l \in GoodLine
    PROVE  Boards(<<l>>) = l.boards /\ Worth(<<l>>) = l.worth
<1>1. DOMAIN <<l>> = {1} /\ <<l>>[1] = l
  OBVIOUS
<1>2. ASSUME NEW f, f[1] \in Int PROVE SumFunctionOnSet(f, {1}) = f[1]
  <2>1. IsFiniteSet({1}) /\ {1} \ {1} = {}
    BY FS_Singleton
  <2>2. SumFunctionOnSet(f, {1}) = f[1] + SumFunctionOnSet(f, {1} \ {1})
    BY <1>2, <2>1, SumRemove
  <2> QED  BY <1>2, <2>1, <2>2, SumEmpty
<1>3. Boards(<<l>>) = l.boards
  <2> DEFINE f == [k \in {1} |-> <<l>>[k].boards]
  <2>1. f[1] = l.boards /\ f[1] \in Int
    BY <1>1 DEF GoodLine
  <2>2. Boards(<<l>>) = SumFunctionOnSet(f, {1})
    BY <1>1 DEF Boards, SumFunction
  <2> HIDE DEF f
  <2> QED  BY <1>2, <2>1, <2>2
<1>4. Worth(<<l>>) = l.worth
  <2> DEFINE f == [k \in {1} |-> <<l>>[k].worth]
  <2>1. f[1] = l.worth /\ f[1] \in Int
    BY <1>1 DEF GoodLine
  <2>2. Worth(<<l>>) = SumFunctionOnSet(f, {1})
    BY <1>1 DEF Worth, SumFunction
  <2> HIDE DEF f
  <2> QED  BY <1>2, <2>1, <2>2
<1> QED  BY <1>3, <1>4

(* Pricing lines at the average changes what they are worth, no boards.    *)
LEMMA Priced ==
    ASSUME NEW lines \in GoodLines, NEW t \in Nat
    PROVE  /\ AtCurrentCost(lines, t) \in GoodLines
           /\ Len(AtCurrentCost(lines, t)) = Len(lines)
           /\ \A k \in DOMAIN lines :
                AtCurrentCost(lines, t)[k] = Line(lines[k].boards, Cents(lines[k].boards, t), t > 0)
<1> DEFINE priced == [k \in DOMAIN lines |-> Line(lines[k].boards, Cents(lines[k].boards, t), t > 0)]
<1>1. DOMAIN lines = 1 .. Len(lines) /\ Len(lines) \in Nat \ {0}
  BY GoodLinesAreLines
<1>2. ASSUME NEW k \in DOMAIN lines PROVE priced[k] \in GoodLine
  <2>1. lines[k].boards \in Nat \ {0}
    BY GoodLinesAreLines DEF GoodLine
  <2>2. Cents(lines[k].boards, t) \in Nat
    BY <2>1, CentsNat
  <2> QED  BY <2>1, <2>2 DEF GoodLine, Line
<1>3. priced \in [1 .. Len(lines) -> GoodLine]
  BY <1>1, <1>2
<1>4. priced \in Seq(GoodLine) /\ Len(priced) = Len(lines)
  <2> HIDE DEF priced
  <2> QED  BY <1>1, <1>3
<1> QED  BY <1>1, <1>4 DEF GoodLines, AtCurrentCost

-----------------------------------------------------------------------------
(* What has been returned of an invoice, as sums over its returns.         *)

ReturnedBoards == [r \in Returns |-> Boards(doc[r].lines)]
ReturnedWorth  == [r \in Returns |-> Worth(doc[r].lines)]

LEMMA AlreadyIs ==
    ASSUME NEW i
    PROVE  /\ Already(i).boards = SumFunctionOnSet(ReturnedBoards, Confirmed(i))
           /\ Already(i).worth = SumFunctionOnSet(ReturnedWorth, Confirmed(i))
BY DEF Already, ReturnedBoards, ReturnedWorth

LEMMA ReturnedTypes ==
    ASSUME IInv, NEW i \in Invoices
    PROVE  /\ IsFiniteSet(Confirmed(i)) /\ Confirmed(i) \subseteq Returns
           /\ \A r \in Confirmed(i) : /\ ReturnedBoards[r] = Boards(doc[r].lines)
                                      /\ ReturnedWorth[r] = Worth(doc[r].lines)
                                      /\ ReturnedBoards[r] \in Nat \ {0}
                                      /\ ReturnedWorth[r] \in Int
<1>1. Confirmed(i) \subseteq Returns
  BY DEF Confirmed, ReturnsOf
<1>2. IsFiniteSet(Confirmed(i))
  <2>1. Confirmed(i) \subseteq Documents
    BY <1>1 DEF Documents
  <2> QED  BY <2>1, DocumentAssumption, FS_Subset
<1>3. ASSUME NEW r \in Confirmed(i)
      PROVE  /\ ReturnedBoards[r] = Boards(doc[r].lines)
             /\ ReturnedWorth[r] = Worth(doc[r].lines)
             /\ ReturnedBoards[r] \in Nat \ {0}
             /\ ReturnedWorth[r] \in Int
  <2>1. r \in Documents /\ doc[r].status = "CONFIRMED"
    BY <1>1 DEF Confirmed, Documents
  <2>2. doc[r].lines \in GoodLines
    BY <2>1 DEF IInv, Filed
  <2> QED  BY <1>1, <2>2, BoardsType, WorthType DEF ReturnedBoards, ReturnedWorth
<1> QED  BY <1>1, <1>2, <1>3

LEMMA AlreadyType ==
    ASSUME IInv, NEW i \in Invoices
    PROVE  Already(i).boards \in Nat /\ Already(i).worth \in Int
<1>1. SumFunctionOnSet(ReturnedBoards, Confirmed(i)) \in Nat
  BY ReturnedTypes, SumNat
<1>2. SumFunctionOnSet(ReturnedWorth, Confirmed(i)) \in Int
  BY ReturnedTypes, SumType
<1> QED  BY <1>1, <1>2, AlreadyIs

LEMMA AlreadyNothing ==
    ASSUME NEW i, Confirmed(i) = {}
    PROVE  Already(i).boards = 0 /\ Already(i).worth = 0
BY AlreadyIs, SumEmpty

(* The same lines are confirmed as before.                                 *)
LEMMA AlreadySame ==
    ASSUME IInv, NEW i \in Invoices, Confirmed(i)' = Confirmed(i),
           \A r \in Confirmed(i) : doc'[r].lines = doc[r].lines
    PROVE  Already(i)'.boards = Already(i).boards /\ Already(i)'.worth = Already(i).worth
<1>1. \A r \in Confirmed(i) : /\ ReturnedBoards'[r] = ReturnedBoards[r]
                              /\ ReturnedWorth'[r] = ReturnedWorth[r]
  BY ReturnedTypes DEF ReturnedBoards, ReturnedWorth
<1>2. SumFunctionOnSet(ReturnedBoards', Confirmed(i)) = SumFunctionOnSet(ReturnedBoards, Confirmed(i))
  BY <1>1, ReturnedTypes, SumSame
<1>3. SumFunctionOnSet(ReturnedWorth', Confirmed(i)) = SumFunctionOnSet(ReturnedWorth, Confirmed(i))
  BY <1>1, ReturnedTypes, SumSame
<1>4. /\ Already(i)'.boards = SumFunctionOnSet(ReturnedBoards', Confirmed(i)')
      /\ Already(i)'.worth = SumFunctionOnSet(ReturnedWorth', Confirmed(i)')
  BY DEF Already, ReturnedBoards, ReturnedWorth
<1> QED  BY <1>2, <1>3, <1>4, AlreadyIs

(* One more is confirmed.                                                  *)
LEMMA AlreadyMore ==
    ASSUME IInv, NEW i \in Invoices, NEW r \in Returns \ Confirmed(i),
           Confirmed(i)' = Confirmed(i) \cup {r}, doc'[r].lines \in GoodLines,
           \A s \in Confirmed(i) : doc'[s].lines = doc[s].lines
    PROVE  /\ Already(i)'.boards = Already(i).boards + Boards(doc'[r].lines)
           /\ Already(i)'.worth = Already(i).worth + Worth(doc'[r].lines)
<1>1. \A s \in Confirmed(i) : /\ ReturnedBoards'[s] = ReturnedBoards[s]
                              /\ ReturnedWorth'[s] = ReturnedWorth[s]
  BY ReturnedTypes DEF ReturnedBoards, ReturnedWorth
<1>2. /\ ReturnedBoards'[r] = Boards(doc'[r].lines) /\ ReturnedBoards'[r] \in Int
      /\ ReturnedWorth'[r] = Worth(doc'[r].lines) /\ ReturnedWorth'[r] \in Int
  BY BoardsType, WorthType DEF ReturnedBoards, ReturnedWorth
<1>3. IsFiniteSet(Confirmed(i)) /\ r \notin Confirmed(i)
      /\ \A s \in Confirmed(i) : ReturnedBoards[s] \in Int /\ ReturnedWorth[s] \in Int
  BY ReturnedTypes
<1>4. SumFunctionOnSet(ReturnedBoards', Confirmed(i) \cup {r})
        = SumFunctionOnSet(ReturnedBoards, Confirmed(i)) + ReturnedBoards'[r]
  BY <1>1, <1>2, <1>3, SumAdd
<1>5. SumFunctionOnSet(ReturnedWorth', Confirmed(i) \cup {r})
        = SumFunctionOnSet(ReturnedWorth, Confirmed(i)) + ReturnedWorth'[r]
  BY <1>1, <1>2, <1>3, SumAdd
<1>6. /\ Already(i)'.boards = SumFunctionOnSet(ReturnedBoards', Confirmed(i)')
      /\ Already(i)'.worth = SumFunctionOnSet(ReturnedWorth', Confirmed(i)')
  BY DEF Already, ReturnedBoards, ReturnedWorth
<1> QED  BY <1>2, <1>4, <1>5, <1>6, AlreadyIs

(* One of them is no longer.                                               *)
LEMMA AlreadyLess ==
    ASSUME IInv, NEW i \in Invoices, NEW r \in Confirmed(i),
           Confirmed(i)' = Confirmed(i) \ {r},
           \A s \in Confirmed(i) : doc'[s].lines = doc[s].lines
    PROVE  Already(i)'.boards < Already(i).boards
<1>1. \A s \in Confirmed(i) : ReturnedBoards'[s] = ReturnedBoards[s]
  BY ReturnedTypes DEF ReturnedBoards
<1>2. IsFiniteSet(Confirmed(i)) /\ IsFiniteSet(Confirmed(i) \ {r})
      /\ \A s \in Confirmed(i) : ReturnedBoards[s] \in Nat \ {0}
  BY ReturnedTypes, FS_Subset
<1>3. SumFunctionOnSet(ReturnedBoards, Confirmed(i))
        = ReturnedBoards[r] + SumFunctionOnSet(ReturnedBoards, Confirmed(i) \ {r})
  BY <1>2, SumRemove
<1>4. SumFunctionOnSet(ReturnedBoards', Confirmed(i) \ {r})
        = SumFunctionOnSet(ReturnedBoards, Confirmed(i) \ {r})
  BY <1>1, <1>2, SumSame
<1>5. SumFunctionOnSet(ReturnedBoards, Confirmed(i) \ {r}) \in Nat /\ ReturnedBoards[r] \in Nat \ {0}
  BY <1>2, SumNat
<1>6. Already(i)'.boards = SumFunctionOnSet(ReturnedBoards', Confirmed(i)')
  BY DEF Already, ReturnedBoards
<1> QED  BY <1>3, <1>4, <1>5, <1>6, AlreadyIs

(* A line of a return, and what it makes of the invoice: it fits.          *)
LEMMA ReturnLineGood ==
    ASSUME IInv, NEW i \in Invoices, NEW b \in Nat \ {0}, Returnable(i, b)
    PROVE  /\ ReturnLine(i, b) \in GoodLine /\ ReturnLine(i, b).boards = b
           /\ Fit(i, Already(i).boards + b, Already(i).worth + ReturnLine(i, b).worth)
<1>1. i \in Documents /\ doc[i].status = "CONFIRMED" /\ Already(i).boards + b <= doc[i].lines[1].boards
  BY DEF Returnable, Documents
<1>2. PICK l \in GoodLine : l = doc[i].lines[1]
  BY <1>1, GoodLinesAreLines DEF IInv, Filed
<1>3. PICK m \in Nat, w \in Int : m = Already(i).boards /\ w = Already(i).worth
  BY AlreadyType
<1>4. Allocated(l, Already(i), b) = IF m + b >= l.boards THEN l.worth - w
                                    ELSE HalfUp(l.worth * b, l.boards)
  BY <1>3 DEF Allocated
<1>5. HalfUp(l.worth * b, l.boards) \in Int
  <2>1. l.worth * b \in Int /\ l.boards \in Nat \ {0}
    BY DEF GoodLine
  <2> QED  BY <2>1, HalfUpBounds
<1>6. Allocated(l, Already(i), b) \in Int /\ l.boards \in Nat /\ l.worth \in Int
  BY <1>3, <1>4, <1>5 DEF GoodLine
<1>7. ReturnLine(i, b) = [boards |-> b, worth |-> Allocated(l, Already(i), b), valued |-> TRUE]
  BY <1>2 DEF ReturnLine, Line
<1>8. ReturnLine(i, b) \in GoodLine
  BY <1>6, <1>7 DEF GoodLine
<1>9. m + b = l.boards => w + ReturnLine(i, b).worth = l.worth
  BY <1>3, <1>4, <1>6, <1>7
<1> QED  BY <1>1, <1>2, <1>3, <1>7, <1>8, <1>9 DEF Fit

LEMMA DraftLinesGood ==
    ASSUME IInv, NEW i \in Invoices \cup {NoOne}, NEW lines \in DraftLines(i)
    PROVE  lines \in GoodLines /\ Len(lines) = 1
<1>1. CASE i = NoOne
  <2>1. PICK b \in LegacyBoards : lines = <<Line(b, 0, FALSE)>>
    BY <1>1 DEF DraftLines
  <2>2. Line(b, 0, FALSE) \in GoodLine
    BY DocumentAssumption DEF Line, GoodLine
  <2> QED  BY <2>1, <2>2, OneLine
<1>2. CASE i # NoOne
  <2>1. PICK b \in {n \in 1 .. doc[i].lines[1].boards : Returnable(i, n)} : lines = <<ReturnLine(i, b)>>
    BY <1>2 DEF DraftLines
  <2>2. i \in Invoices /\ Returnable(i, b) /\ b \in Nat \ {0}
    <3>1. i \in Invoices /\ i \in Documents /\ doc[i].status = "CONFIRMED"
      BY <1>2, <2>1 DEF Returnable, Documents
    <3>2. doc[i].lines[1].boards \in Nat
      BY <3>1, GoodLinesAreLines DEF IInv, Filed, GoodLine
    <3> QED  BY <2>1, <3>1, <3>2
  <2> QED  BY <2>1, <2>2, ReturnLineGood, OneLine
<1> QED  BY <1>1, <1>2

-----------------------------------------------------------------------------
(* The initial state.                                                      *)

LEMMA InitInv == Init => IInv
<1> SUFFICES ASSUME Init PROVE IInv
  OBVIOUS
<1> USE DEF Init
<1>1. Stored
  <2>1. NoDocument \in Document /\ NotPosted \in Entries
    BY DEF NoDocument, Document, NotPosted, Entries
  <2> QED  BY <2>1, DocumentAssumption DEF Stored
<1>2. Control
  BY DEF Control
<1>3. \A d \in Documents : Filed(d)
  BY DocumentAssumption DEF Filed, NoDocument, Documents, Invoices
<1>4. \A c \in Handlers : Handled(c)
  BY DEF Handled
<1>5. \A b \in Handlers, c \in Handlers : b # c => Met(b, c)
  BY DEF Met
<1>6. \A c \in Handlers : Settled(c)
  BY DEF Settled
<1>7. \A d \in Documents : Kept(d)
  BY DEF Kept, EffectsOf, NotPosted, NoDocument, Documents
<1>8. \A i \in Invoices : Returned(i)
  BY DocumentAssumption DEF Returned, ReturnsOf, NoDocument, Documents
<1> QED  BY <1>1, <1>2, <1>3, <1>4, <1>5, <1>6, <1>7, <1>8 DEF IInv

-----------------------------------------------------------------------------
(* What every step leaves true.                                            *)

(* A document nobody raced for now is one nobody had raced for.            *)
LEMMA QuietBefore ==
    ASSUME NEW d, overlapped \subseteq overlapped', edited \subseteq edited',
           doc'[d].invoice = doc[d].invoice, Quiet(d)'
    PROVE  Quiet(d)
BY DEF Quiet, IsLegacy, IsReturn

(* Returns of an invoice fit it as long as neither they nor what is about  *)
(* to be returned have changed.                                            *)
SameReturns(i) ==
    /\ ReturnsOf(i)' = ReturnsOf(i) /\ Confirmed(i)' = Confirmed(i)
    /\ \A r \in Confirmed(i) : doc'[r].lines = doc[r].lines

SameInvoice(i) ==
    /\ doc'[i].lines[1].boards = doc[i].lines[1].boards
    /\ i \notin overlapped' => doc'[i].lines[1].worth = doc[i].lines[1].worth

LEMMA ReturnedKept ==
    ASSUME IInv, NEW i \in Invoices, overlapped \subseteq overlapped',
           Unraced(ReturnsOf(i))' /\ ReturnsOf(i)' # {} =>
             SameReturns(i) /\ SameInvoice(i),
           \A c \in Handlers : Returning(c, i)' =>
             \/ Returning(c, i) /\ job'[c].lines = job[c].lines
             \/ Fit(i, Already(i).boards + Boards(job'[c].lines),
                    Already(i).worth + Worth(job'[c].lines))
    PROVE  Returned(i)'
<1> SUFFICES ASSUME Unraced(ReturnsOf(i))', ReturnsOf(i)' # {}
             PROVE  /\ Fit(i, Already(i).boards, Already(i).worth)'
                    /\ \A c \in Handlers : Returning(c, i)' =>
                         Fit(i, Already(i).boards + Boards(job[c].lines),
                             Already(i).worth + Worth(job[c].lines))'
  BY DEF Returned
<1>1. /\ Already(i)'.boards = Already(i).boards /\ Already(i)'.worth = Already(i).worth
      /\ SameInvoice(i)
  BY AlreadySame DEF SameReturns
<1>2. Unraced(ReturnsOf(i)) /\ ReturnsOf(i) # {}
  BY DEF Unraced, SameReturns
<1>3. Fit(i, Already(i).boards, Already(i).worth)'
  BY <1>1, <1>2 DEF IInv, Returned, Fit, SameInvoice
<1>4. ASSUME NEW c \in Handlers, Returning(c, i)'
      PROVE  Fit(i, Already(i).boards + Boards(job[c].lines), Already(i).worth + Worth(job[c].lines))'
  <2>1. Fit(i, Already(i).boards + Boards(job'[c].lines), Already(i).worth + Worth(job'[c].lines))
    BY <1>2, <1>4 DEF IInv, Returned
  <2> QED  BY <1>1, <2>1 DEF Fit, SameInvoice
<1> QED  BY <1>3, <1>4

LEMMA DocumentOf ==
    ASSUME IInv, NEW c \in Handlers, pc[c] # "idle"
    PROVE  /\ job[c] \in Jobs /\ Working(c)
           /\ job[c].doc \in Documents /\ doc[job[c].doc] \in Document
           /\ doc[job[c].doc].lines \in GoodLines
<1>1. job[c] \in Jobs /\ Working(c)
  BY DEF IInv, Handled, Working, Control
<1>2. job[c].doc \in Documents /\ doc[job[c].doc] \in Document
  BY <1>1 DEF Jobs, IInv, Stored
<1> QED  BY <1>1, <1>2 DEF Working, IInv, Filed

-----------------------------------------------------------------------------
(* A handler writes its document and is through.                           *)

Writes(c, d, row, m, e) ==
    /\ doc'   = [doc EXCEPT ![d] = row]
    /\ moved' = [moved EXCEPT ![d] = m]
    /\ entry' = [entry EXCEPT ![d] = e]
    /\ original' \in [Invoices -> Int] /\ \A i \in Invoices \ {d} : original'[i] = original[i]
    /\ onHand' \in Nat /\ avg' \in Nat
    /\ UNCHANGED <<onHand, avg>> \/ VariantFree(c)

(* What an invoice stays whatever is written.                              *)
StaysFiled(d, row) ==
    /\ row.invoice = doc[d].invoice /\ row.status # "NONE" /\ row.lines \in GoodLines
    /\ ReturnsOf(d) # {} => row.status \in {"CONFIRMED", "CANCELLED"}
    /\ d \in Invoices => /\ Len(row.lines) = 1 /\ row.lines[1].valued
                         /\ row.lines[1].boards = doc[d].lines[1].boards
                         /\ d \in Purchases => row.lines = doc[d].lines

LEMMA WriteStores ==
    ASSUME IInv, NEW c \in Handlers, End(c), NEW d \in Documents, NEW row \in Document,
           NEW m \in Int, NEW e \in Entries, Writes(c, d, row, m, e), StaysFiled(d, row)
    PROVE  /\ Stored' /\ Control' /\ \A x \in Documents : Filed(x)'
<1>1. Stored'
  BY DEF IInv, Stored, Writes, End
<1>2. Control'
  <2>1. lock' \in [Documents -> Handlers \cup {NoOne}] /\ variantLock' \in Handlers \cup {NoOne}
    BY DEF IInv, Control, End
  <2>2. pc' \in [Handlers -> {"idle", "lock", "cost", "commit", "write"}]
    BY DEF IInv, Control, End
  <2>3. job' \in [Handlers -> Jobs \cup {Idle}]
    BY DEF IInv, Control, End
  <2> QED  BY <2>1, <2>2, <2>3 DEF Control
<1>3. ASSUME NEW x \in Documents PROVE Filed(x)'
  <2>1. /\ doc'[d] = row /\ \A y \in Documents \ {d} : doc'[y] = doc[y]
        /\ \A y \in Documents : doc[y] \in Document /\ Filed(y)
    BY DEF Writes, IInv, Stored
  <2>2. ASSUME doc'[x].invoice # NoOne
        PROVE  doc'[doc'[x].invoice].status \in {"CONFIRMED", "CANCELLED"}
    <3>1. doc'[x].invoice = doc[x].invoice
      BY <2>1 DEF StaysFiled
    <3>2. PICK j : j = doc[x].invoice
      OBVIOUS
    <3>3. j \in Invoices /\ j \in Documents /\ x \in Returns
      BY <2>1, <2>2, <3>1, <3>2 DEF Document, Filed, Documents
    <3>4. doc[j].status \in {"CONFIRMED", "CANCELLED"}
      BY <2>1, <2>2, <3>1, <3>2 DEF Filed
    <3>5. CASE j = d
      <4>1. ReturnsOf(d) # {}
        BY <3>2, <3>3, <3>5 DEF ReturnsOf
      <4> QED  BY <2>1, <3>1, <3>2, <3>5, <4>1 DEF StaysFiled
    <3>6. CASE j # d
      BY <2>1, <3>1, <3>2, <3>3, <3>4, <3>6
    <3> QED  BY <3>5, <3>6
  <2>3. CASE x = d
    <3>1. d \in Purchases => doc[d].lines[1].worth \in Nat
      <4>1. d \in Purchases => doc[d].status # "NONE"
        <5>1. NoDocument.lines = <<>> /\ <<>> \notin GoodLines
          BY DEF NoDocument, GoodLines
        <5> QED  BY <2>1, <5>1 DEF Filed, StaysFiled, Invoices
      <4> QED  BY <2>1, <4>1 DEF Filed, Invoices
    <3> QED  BY <2>1, <2>2, <2>3, <3>1 DEF Filed, StaysFiled, Invoices
  <2>4. CASE x # d
    BY <2>1, <2>2, <2>4 DEF Filed
  <2> QED  BY <2>3, <2>4
<1> QED  BY <1>1, <1>2, <1>3

LEMMA WriteKeepsInv ==
    ASSUME IInv, NEW c \in Handlers, pc[c] # "idle", End(c), NEW d \in Documents, job[c].doc = d,
           NEW row \in Document, NEW m \in Int, NEW e \in Entries,
           Writes(c, d, row, m, e), StaysFiled(d, row),
           row = doc[d] \/ (IsLegacy(d) => Free(c, d)),
           Quiet(d) => Kept(d)',
           \A i \in Invoices : Returned(i)'
    PROVE  IInv'
<1>1. Stored' /\ Control' /\ \A x \in Documents : Filed(x)'
  BY WriteStores
<1>2. /\ pc'[c] = "idle" /\ job'[c] = Idle
      /\ \A b \in Handlers \ {c} : pc'[b] = pc[b] /\ job'[b] = job[b]
      /\ NoOne \notin Handlers /\ NoOne \notin Documents
      /\ overlapped' = overlapped /\ edited' = edited
  BY DocumentAssumption DEF End, IInv, Control
<1>3. /\ \A b \in Handlers \ {c}, x \in Documents : lock[x] = b => lock'[x] = b
      /\ \A b \in Handlers \ {c} : variantLock = b =>
           variantLock' = b /\ UNCHANGED <<onHand, avg>>
  BY <1>2 DEF End, IInv, Control, Writes, VariantFree
<1>4. /\ doc'[d] = row /\ \A y \in Documents \ {d} : doc'[y] = doc[y]
      /\ \A y \in Documents : doc'[y].invoice = doc[y].invoice
      /\ \A y \in Documents : IsLegacy(y)' = IsLegacy(y)
      /\ \A y \in Documents : Quiet(y)' = Quiet(y)
      /\ \A y \in Documents : Direction(y)' = Direction(y)
  <2>1. doc'[d] = row /\ \A y \in Documents \ {d} : doc'[y] = doc[y]
    BY DEF Writes, IInv, Stored
  <2>2. \A y \in Documents : doc'[y].invoice = doc[y].invoice
    BY <2>1 DEF StaysFiled
  <2> QED  BY <1>2, <2>1, <2>2 DEF IsLegacy, IsReturn, Quiet, Direction
<1>5. ASSUME NEW b \in Handlers PROVE Handled(b)'
  <2>1. CASE b = c
    BY <1>2, <2>1 DEF Handled
  <2>2. CASE b # c /\ pc[b] = "idle"
    BY <1>2, <2>2 DEF Handled, IInv
  <2>3. CASE b # c /\ pc[b] # "idle"
    <3>1. /\ job[b] \in Jobs /\ Working(b) /\ job[b].doc \in Documents
          /\ pc'[b] = pc[b] /\ job'[b] = job[b]
      BY <1>2, <2>3, DocumentOf
    <3>2. PICK x \in Documents : x = job[b].doc
      BY <3>1
    <3>3. Places(b)'
      BY <1>4, <3>1, <3>2 DEF Working, Places, Averages, IsReturn
    <3>4. Holds(b)'
      <4>1. ~IsLegacy(x) /\ IsReturn(x) => doc[x].invoice \in Documents
        BY DEF IsLegacy, IInv, Stored, Document, Documents
      <4>2. /\ pc[b] \in {"cost", "commit"} /\ IsReturn(x) =>
                 IF IsLegacy(x) THEN lock[x] = b
                 ELSE job[b].op = "confirm" => lock[doc[x].invoice] = b
            /\ pc[b] = "commit" /\ Averages(b) =>
                 variantLock = b /\ job[b].ticks = avg /\ job[b].boards = onHand
        BY <3>1, <3>2 DEF Working, Holds
      <4>3. Averages(b)' = Averages(b)
        BY <3>1 DEF Averages, IsReturn
      <4> QED  BY <1>3, <1>4, <2>3, <3>1, <3>2, <4>1, <4>2, <4>3 DEF Holds, IsReturn
    <3>5. /\ doc'[x].status # "NONE" /\ job'[b] # Idle
          /\ x \in Invoices => /\ doc'[x].lines[1].boards = doc[x].lines[1].boards
                               /\ x \in Purchases => doc'[x].lines = doc[x].lines
      BY <1>4, <3>1, <3>2 DEF Working, StaysFiled
    <3>6. Working(b)'
      BY <1>4, <3>1, <3>2, <3>3, <3>4, <3>5 DEF Working, IsReturn
    <3> QED  BY <2>3, <3>1, <3>6 DEF Handled
  <2> QED  BY <2>1, <2>2, <2>3
<1>6. \A a \in Handlers, b \in Handlers : a # b => Met(a, b)'
  BY <1>2 DEF IInv, Met
<1>7. ASSUME NEW b \in Handlers PROVE Settled(b)'
  <2>1. CASE b = c
    BY <1>2, <2>1 DEF Settled
  <2>2. CASE b # c
    <3> SUFFICES ASSUME pc[b] # "idle", Quiet(job[b].doc), ~(IsLegacy(job[b].doc) /\ pc[b] = "lock")
                 PROVE  /\ doc'[job[b].doc].status = job[b].seen
                        /\ doc'[job[b].doc].lines = job[b].there
                        /\ job[b].op = "cancel" => job[b].lines = job[b].there
      <4>1. pc[b] # "idle" => job[b].doc \in Documents
        BY DocumentOf
      <4> QED  BY <1>2, <1>4, <2>2, <4>1 DEF Settled
    <3>1. job[b].doc \in Documents /\ Working(b) /\ Settled(b)
      BY DocumentOf DEF IInv
    <3>2. ASSUME job[b].doc = d, row # doc[d] PROVE FALSE
      <4>1. d \in overlapped /\ ("update" \in {job[b].op, job[c].op} => d \in edited)
        BY <2>2, <3>2 DEF IInv, Met
      <4>2. IsLegacy(d) /\ d \notin edited
        BY <3>2, <4>1 DEF Quiet
      <4>3. pc[b] \in {"cost", "commit"}
        <5>1. pc[b] \in {"idle", "lock", "cost", "commit", "write"}
          BY DEF IInv, Control
        <5>2. pc[b] # "write"
          <6>1. d \notin Invoices
            BY <4>2, DocumentAssumption DEF IsLegacy, IsReturn
          <6> QED  BY <3>1, <3>2, <4>1, <4>2, <6>1 DEF Working, Places
        <5> QED  BY <3>2, <4>2, <5>1, <5>2
      <4>4. lock[d] = b
        BY <3>1, <3>2, <4>2, <4>3 DEF Working, Holds, IsLegacy
      <4> QED  BY <1>2, <2>2, <3>2, <4>2, <4>4 DEF Free
    <3> QED  BY <1>4, <3>1, <3>2 DEF Settled
  <2> QED  BY <2>1, <2>2
<1>8. ASSUME NEW x \in Documents, Quiet(x)' PROVE Kept(x)'
  <2>1. CASE x = d
    BY <1>4, <1>8, <2>1
  <2>2. CASE x # d
    <3>1. /\ doc'[x] = doc[x] /\ moved'[x] = moved[x] /\ entry'[x] = entry[x]
          /\ x \in Invoices => original'[x] = original[x]
      BY <1>4, <2>2 DEF Writes, IInv, Stored
    <3>2. Kept(x) /\ Direction(x)' = Direction(x)
      BY <1>4, <1>8 DEF IInv
    <3> QED  BY <3>1, <3>2 DEF Kept, EffectsOf
  <2> QED  BY <2>1, <2>2
<1> QED  BY <1>1, <1>5, <1>6, <1>7, <1>8 DEF IInv

(* A handler that gives up leaves everything but itself as it was.         *)
LEMMA RollbackKeepsInv ==
    ASSUME IInv, NEW c \in Handlers, pc[c] # "idle", Rollback(c)
    PROVE  IInv'
<1>1. End(c) /\ UNCHANGED stored
  BY DEF Rollback
<1>2. PICK d \in Documents : d = job[c].doc /\ doc[d].status # "NONE"
  BY DocumentOf DEF Working
<1>3. /\ doc[d] \in Document /\ moved[d] \in Int /\ entry[d] \in Entries /\ Filed(d)
      /\ doc \in [Documents -> Document] /\ moved \in [Documents -> Int]
      /\ entry \in [Documents -> Entries] /\ original \in [Invoices -> Int]
      /\ onHand \in Nat /\ avg \in Nat
  BY DEF IInv, Stored
<1>4. Writes(c, d, doc[d], moved[d], entry[d])
  <2>1. /\ doc' = [doc EXCEPT ![d] = doc[d]] /\ moved' = [moved EXCEPT ![d] = moved[d]]
        /\ entry' = [entry EXCEPT ![d] = entry[d]]
    BY <1>1, <1>3 DEF stored
  <2> QED  BY <1>1, <1>3, <2>1 DEF Writes, stored
<1>5. StaysFiled(d, doc[d])
  <2>1. ReturnsOf(d) # {} => doc[d].status \in {"CONFIRMED", "CANCELLED"}
    BY DocumentAssumption DEF ReturnsOf, IInv, Filed, Documents
  <2> QED  BY <1>2, <1>3, <2>1 DEF StaysFiled, Filed
<1>6. Quiet(d) => Kept(d)'
  BY <1>1 DEF IInv, stored, Kept, EffectsOf, Direction, IsReturn
<1>7. ASSUME NEW i \in Invoices PROVE Returned(i)'
  <2>1. /\ overlapped' = overlapped /\ doc' = doc
        /\ \A b \in Handlers : pc'[b] # "idle" => pc'[b] = pc[b] /\ job'[b] = job[b]
    BY <1>1 DEF End, IInv, Control, stored
  <2>2. SameReturns(i) /\ SameInvoice(i)
    BY <2>1 DEF SameReturns, SameInvoice, ReturnsOf, Confirmed
  <2>3. \A b \in Handlers : Returning(b, i)' => Returning(b, i) /\ job'[b].lines = job[b].lines
    BY <2>1 DEF Returning, IsReturn
  <2> QED  BY <2>1, <2>2, <2>3, ReturnedKept
<1> QED  BY <1>1, <1>2, <1>3, <1>4, <1>5, <1>6, <1>7, WriteKeepsInv

-----------------------------------------------------------------------------
(* A handler starts.                                                       *)

Begins(d, op, where) ==
    /\ where = "lock"   => IsReturn(d) /\ (op = "confirm" \/ (op = "cancel" /\ IsLegacy(d)))
    /\ where = "cost"   => \/ IsReturn(d) /\ ~IsLegacy(d) /\ op = "cancel"
                           \/ d \in Purchases /\ op = "confirm"
    /\ where = "commit" => /\ d \in Invoices /\ op \in {"confirm", "cancel"}
                           /\ ~(d \in Purchases /\ op = "confirm")
    /\ where = "write"  => (op = "update" /\ IsReturn(d)) \/ (op = "remove" /\ d \in Invoices)
    /\ doc[d].status \in IF op # "cancel" THEN {"DRAFT"}
                         ELSE IF IsReturn(d) THEN {"CONFIRMED"} ELSE {"DRAFT", "CONFIRMED"}

LEMMA StartKeepsInv ==
    ASSUME IInv, NEW c \in Handlers, NEW d \in Documents,
           NEW op \in {"confirm", "cancel", "update", "remove"},
           NEW where \in {"lock", "cost", "commit", "write"}, NEW lines \in GoodLines,
           Start(c, d, where, Job(op, d, lines)), Begins(d, op, where),
           op = "cancel" \/ d \in Invoices => lines = doc[d].lines,
           op = "update" \/ (IsReturn(d) /\ ~IsLegacy(d) /\ op = "confirm") => Len(lines) = 1
    PROVE  IInv'
<1> DEFINE j == Job(op, d, lines)
<1>1. /\ UNCHANGED <<stored, lock, variantLock>> /\ pc[c] = "idle"
      /\ pc'[c] = where /\ job'[c] = j
      /\ \A b \in Handlers \ {c} : pc'[b] = pc[b] /\ job'[b] = job[b]
  BY DEF Start, IInv, Control
<1>2. /\ onHand' = onHand /\ avg' = avg /\ doc' = doc /\ original' = original
      /\ moved' = moved /\ entry' = entry /\ lock' = lock /\ variantLock' = variantLock
  BY <1>1 DEF stored
<1>3. /\ j.op = op /\ j.doc = d /\ j.seen = doc[d].status /\ j.lines = lines
      /\ j.there = doc[d].lines /\ j.ticks = avg /\ j.boards = onHand /\ j # Idle
  BY DEF Job, Idle
<1>4. doc[d] \in Document /\ doc[d].status # "NONE" /\ doc[d].lines \in GoodLines /\ Filed(d)
  BY DEF IInv, Stored, Filed, Begins
<1>5. j \in Jobs
  BY <1>4 DEF Job, Jobs, Document, Existing, Statuses, IInv, Stored
<1>6. /\ overlapped \subseteq overlapped' /\ edited \subseteq edited'
      /\ \A b \in Handlers \ {c} : pc[b] # "idle" /\ job[b].doc = d =>
           d \in overlapped' /\ ("update" \in {job[b].op, op} => d \in edited')
      /\ overlapped' \subseteq overlapped \cup {d} /\ edited' \subseteq overlapped'
      /\ started' \in Nat
  BY <1>3 DEF Start, IInv, Stored
<1> HIDE DEF j
<1>7. Stored'
  <2>1. overlapped' \subseteq Documents
    BY <1>6 DEF IInv, Stored
  <2> QED  BY <1>2, <1>6, <2>1 DEF IInv, Stored
<1>8. Control'
  <2>1. pc' \in [Handlers -> {"idle", "lock", "cost", "commit", "write"}]
    BY DEF IInv, Control, Start
  <2>2. job' \in [Handlers -> Jobs \cup {Idle}]
    BY <1>5 DEF IInv, Control, Start, j
  <2> QED  BY <1>2, <2>1, <2>2 DEF IInv, Control
<1>9. \A x \in Documents : Filed(x)'
  BY <1>2 DEF IInv, Filed
<1>10. ASSUME NEW b \in Handlers PROVE Handled(b)'
  <2>1. CASE b = c
    <3>1. Places(c)'
      BY <1>1, <1>2, <1>3, DocumentAssumption DEF Begins, Places, Averages, IsReturn, IsLegacy, Invoices
    <3>2. Holds(c)'
      BY <1>1, <1>2, <1>3, DocumentAssumption DEF Begins, Holds, Averages, IsReturn, IsLegacy, Invoices
    <3>3. /\ d \in Invoices => /\ Len(lines) = 1 /\ lines[1].valued
                               /\ lines[1].boards = doc[d].lines[1].boards
                               /\ d \in Purchases => lines = doc[d].lines
      BY <1>4 DEF Filed
    <3>4. IsLegacy(d) /\ op = "confirm" => where \notin {"cost", "commit"}
      BY DocumentAssumption DEF Begins, IsLegacy, IsReturn, Invoices
    <3>5. Working(c)'
      BY <1>1, <1>2, <1>3, <1>4, <3>1, <3>2, <3>3, <3>4 DEF Working, Begins, IsReturn, IsLegacy
    <3> QED  BY <1>1, <2>1, <3>5 DEF Handled
  <2>2. CASE b # c
    <3>1. pc'[b] = pc[b] /\ job'[b] = job[b]
      BY <1>1, <2>2
    <3> QED  BY <1>2, <3>1 DEF IInv, Handled, Working, Places, Holds, Averages, IsReturn, IsLegacy
  <2> QED  BY <2>1, <2>2
<1>11. ASSUME NEW a \in Handlers, NEW b \in Handlers, a # b PROVE Met(a, b)'
  <2>1. CASE a = c
    BY <1>1, <1>3, <1>6, <1>11, <2>1 DEF Met
  <2>2. CASE b = c
    BY <1>1, <1>3, <1>6, <1>11, <2>2 DEF Met
  <2>3. CASE a # c /\ b # c
    BY <1>1, <1>6, <1>11, <2>3 DEF IInv, Met
  <2> QED  BY <2>1, <2>2, <2>3
<1>12. \A x : Quiet(x)' => Quiet(x)
  BY <1>2, <1>6, QuietBefore
<1>13. ASSUME NEW b \in Handlers PROVE Settled(b)'
  <2>1. CASE b = c
    BY <1>1, <1>2, <1>3, <2>1 DEF Settled
  <2>2. CASE b # c
    BY <1>1, <1>2, <1>12, <2>2 DEF IInv, Settled, IsLegacy, IsReturn
  <2> QED  BY <2>1, <2>2
<1>14. \A x \in Documents : Quiet(x)' => Kept(x)'
  BY <1>2, <1>12 DEF IInv, Kept, EffectsOf, Direction, IsReturn
<1>15. ASSUME NEW i \in Invoices PROVE Returned(i)'
  <2>1. SameReturns(i) /\ SameInvoice(i)
    BY <1>2 DEF SameReturns, SameInvoice, ReturnsOf, Confirmed
  <2>2. ASSUME NEW b \in Handlers, Returning(b, i)'
        PROVE  Returning(b, i) /\ job'[b].lines = job[b].lines
    <3>1. b # c
      BY <1>1, <1>2, <1>3, <2>2, DocumentAssumption DEF Returning, Begins, IsReturn, Invoices
    <3> QED  BY <1>1, <1>2, <2>2, <3>1 DEF Returning, IsReturn
  <2> QED  BY <1>6, <2>1, <2>2, ReturnedKept
<1> QED  BY <1>7, <1>8, <1>9, <1>10, <1>11, <1>13, <1>14, <1>15 DEF IInv

-----------------------------------------------------------------------------
(* A document is created.                                                  *)

LEMMA CreatedKeepsInv ==
    ASSUME IInv, NEW d \in Documents, NEW i \in Invoices \cup {NoOne}, NEW l \in GoodLine,
           Created(d, i, <<l>>),
           d \in Invoices => i = NoOne /\ l.valued /\ (d \in Purchases => l.worth \in Nat),
           i # NoOne => doc[i].status = "CONFIRMED"
    PROVE  IInv'
<1> DEFINE row == [status |-> "DRAFT", invoice |-> i, lines |-> <<l>>]
<1>1. /\ doc[d].status = "NONE" /\ doc[d] = NoDocument /\ doc[d].invoice = NoOne
      /\ UNCHANGED <<onHand, avg, original, moved, entry, lock, variantLock, pc, job, overlapped,
                     edited, started>>
  BY DEF Created, IInv, Filed, NoDocument
<1>2. row \in Document /\ row.lines \in GoodLines /\ Len(row.lines) = 1 /\ row.lines[1] = l
  <2>1. <<l>> \in GoodLines /\ Len(<<l>>) = 1 /\ <<l>>[1] = l
    BY OneLine
  <2> QED  BY <2>1, GoodLinesAreLines DEF Document
<1>3. row.status = "DRAFT" /\ row.invoice = i
  OBVIOUS
<1>4. doc' = [doc EXCEPT ![d] = row]
  BY DEF Created
<1> HIDE DEF row
<1>5. doc'[d] = row /\ \A x \in Documents \ {d} : doc'[x] = doc[x]
  BY <1>4 DEF IInv, Stored
<1>6. \A x \in Documents : doc[x].invoice # d
  BY <1>1, DocumentAssumption DEF IInv, Filed
<1>7. Stored'
  BY <1>1, <1>2, <1>4 DEF IInv, Stored
<1>8. Control'
  BY <1>1 DEF IInv, Control
<1>9. ASSUME NEW x \in Documents PROVE Filed(x)'
  <2>1. CASE x = d
    <3>1. i # NoOne => i \in Documents \ {d}
      BY <1>1 DEF Documents
    <3> QED  BY <1>2, <1>3, <1>5, <2>1, <3>1 DEF Filed, Invoices
  <2>2. CASE x # d
    <3>1. doc'[x] = doc[x] /\ Filed(x) /\ doc[x] \in Document /\ doc[x].invoice # d
      BY <1>5, <1>6, <2>2 DEF IInv, Stored
    <3>2. doc[x].invoice # NoOne => doc[x].invoice \in Documents \ {d}
      BY <3>1 DEF Document, Documents
    <3> QED  BY <1>5, <3>1, <3>2 DEF Filed
  <2> QED  BY <2>1, <2>2
<1>10. ASSUME NEW c \in Handlers, pc[c] # "idle"
       PROVE  /\ job[c].doc \in Documents \ {d} /\ doc'[job[c].doc] = doc[job[c].doc]
              /\ IsLegacy(job[c].doc)' = IsLegacy(job[c].doc)
              /\ Quiet(job[c].doc)' = Quiet(job[c].doc)
  <2>1. job[c].doc \in Documents \ {d}
    BY <1>1, <1>10, DocumentOf DEF Working
  <2> QED  BY <1>1, <1>5, <2>1 DEF IsLegacy, IsReturn, Quiet
<1>11. ASSUME NEW c \in Handlers PROVE Handled(c)' /\ Settled(c)'
  <2>1. CASE pc[c] = "idle"
    BY <1>1, <2>1 DEF IInv, Handled, Settled
  <2>2. CASE pc[c] # "idle"
    <3>1. PICK x : x = job[c].doc
      OBVIOUS
    <3>2. Working(c) /\ Settled(c)
      BY <2>2, DocumentOf DEF IInv
    <3>3. Working(c)'
      BY <1>1, <1>10, <2>2, <3>1, <3>2 DEF Working, Places, Holds, Averages, IsReturn
    <3>4. Settled(c)'
      BY <1>1, <1>10, <2>2, <3>1, <3>2 DEF Settled
    <3> QED  BY <1>1, <2>2, <3>3, <3>4 DEF Handled
  <2> QED  BY <2>1, <2>2
<1>12. \A b \in Handlers, c \in Handlers : b # c => Met(b, c)'
  BY <1>1 DEF IInv, Met
<1>13. ASSUME NEW x \in Documents, Quiet(x)' PROVE Kept(x)'
  <2>1. Quiet(x)
    BY <1>1, <1>5, <1>13 DEF Quiet, IsLegacy, IsReturn, IInv, Stored
  <2>2. Kept(x)
    BY <2>1 DEF IInv
  <2>3. CASE x = d
    BY <1>1, <1>2, <1>3, <1>5, <2>2, <2>3 DEF Kept, EffectsOf, NotPosted
  <2>4. CASE x # d
    BY <1>1, <1>5, <2>2, <2>4 DEF Kept, EffectsOf, Direction, IsReturn
  <2> QED  BY <2>3, <2>4
<1>14. ASSUME NEW k \in Invoices PROVE Returned(k)'
  <2> SUFFICES ASSUME Unraced(ReturnsOf(k))', ReturnsOf(k)' # {}
               PROVE  /\ Fit(k, Already(k).boards, Already(k).worth)'
                      /\ \A c \in Handlers : Returning(c, k)' =>
                           Fit(k, Already(k).boards + Boards(job[c].lines),
                               Already(k).worth + Worth(job[c].lines))'
    BY DEF Returned
  <2>1. /\ ReturnsOf(k) \subseteq ReturnsOf(k)' /\ Confirmed(k)' = Confirmed(k)
        /\ \A r \in Confirmed(k) : doc'[r].lines = doc[r].lines
        /\ k # i => ReturnsOf(k)' = ReturnsOf(k)
    BY <1>1, <1>3, <1>5, DocumentAssumption DEF ReturnsOf, Confirmed, Documents
  <2>2. k \in Documents \ {d}
    BY <1>3, <1>5, <1>6, DocumentAssumption DEF ReturnsOf, Documents
  <2>3. /\ Already(k)'.boards = Already(k).boards /\ Already(k)'.worth = Already(k).worth
        /\ doc'[k] = doc[k] /\ Unraced(ReturnsOf(k))
    BY <1>1, <1>5, <2>1, <2>2, AlreadySame DEF Unraced
  <2>4. ASSUME NEW c \in Handlers, Returning(c, k)'
        PROVE  Returning(c, k) /\ job'[c] = job[c] /\ ReturnsOf(k) # {}
    BY <1>1, <1>10, <2>4 DEF Returning, IsReturn, ReturnsOf
  <2>5. CASE ReturnsOf(k) # {}
    BY <1>1, <2>3, <2>4, <2>5 DEF IInv, Returned, Fit
  <2>6. CASE ReturnsOf(k) = {}
    <3>1. Already(k).boards = 0 /\ Already(k).worth = 0
      BY <2>6, AlreadyNothing DEF Confirmed
    <3>2. k = i /\ doc[k].status = "CONFIRMED"
      BY <2>1, <2>6, DocumentAssumption DEF Documents
    <3>3. doc[k].lines[1].boards \in Nat \ {0}
      BY <3>2, <2>2, GoodLinesAreLines DEF IInv, Filed, GoodLine
    <3> QED  BY <2>3, <2>4, <2>6, <3>1, <3>3 DEF Fit
  <2> QED  BY <2>5, <2>6
<1> QED  BY <1>7, <1>8, <1>9, <1>11, <1>12, <1>13, <1>14 DEF IInv

-----------------------------------------------------------------------------
(* A handler takes a lock.                                                 *)

Locks(c, j, where) ==
    /\ UNCHANGED <<stored, overlapped, edited, started>>
    /\ job' = [job EXCEPT ![c] = j] /\ Goto(c, where)
    /\ j.op = job[c].op /\ j.doc = job[c].doc /\ j.seen = job[c].seen
    /\ lock' \in [Documents -> Handlers \cup {NoOne}] /\ variantLock' \in Handlers \cup {NoOne}
    /\ \A b \in Handlers \ {c} : variantLock = b => variantLock' = b
    /\ \A b \in Handlers \ {c}, x \in Documents : lock[x] = b => lock'[x] = b

LEMMA LockKeepsInv ==
    ASSUME IInv, NEW c \in Handlers, pc[c] # "idle", NEW j \in Jobs, NEW where \in {"cost", "commit"},
           Locks(c, j, where), Working(c)', Settled(c)',
           \A i \in Invoices : Returned(i)'
    PROVE  IInv'
<1>1. /\ onHand' = onHand /\ avg' = avg /\ doc' = doc /\ original' = original
      /\ moved' = moved /\ entry' = entry
      /\ overlapped' = overlapped /\ edited' = edited /\ started' = started
  BY DEF Locks, stored
<1>2. /\ pc'[c] = where /\ job'[c] = j
      /\ \A b \in Handlers \ {c} : pc'[b] = pc[b] /\ job'[b] = job[b]
  BY DEF Locks, Goto, IInv, Control
<1>3. Stored'
  BY <1>1 DEF IInv, Stored
<1>4. Control'
  BY DEF Locks, Goto, IInv, Control
<1>5. \A x \in Documents : Filed(x)'
  BY <1>1 DEF IInv, Filed
<1>6. ASSUME NEW b \in Handlers PROVE Handled(b)'
  <2>1. CASE b = c
    BY <1>2, <2>1 DEF Handled
  <2>2. CASE b # c /\ pc[b] = "idle"
    BY <1>2, <2>2 DEF Handled, IInv
  <2>3. CASE b # c /\ pc[b] # "idle"
    <3>1. Working(b) /\ job[b].doc \in Documents /\ pc'[b] = pc[b] /\ job'[b] = job[b]
      BY <1>2, <2>3, DocumentOf
    <3>2. PICK x \in Documents : x = job[b].doc
      BY <3>1
    <3>3. IsReturn(x) /\ ~IsLegacy(x) => doc[x].invoice \in Documents
      BY DEF IsLegacy, IInv, Stored, Document, Documents
    <3>4. Holds(b)'
      BY <1>1, <2>3, <3>1, <3>2, <3>3 DEF Working, Holds, Locks, Averages, IsLegacy, IsReturn
    <3>5. Working(b)'
      BY <1>1, <3>1, <3>2, <3>4 DEF Working, Places, Averages, IsReturn, IsLegacy
    <3> QED  BY <2>3, <3>1, <3>5 DEF Handled
  <2> QED  BY <2>1, <2>2, <2>3
<1>7. \A a \in Handlers, b \in Handlers : a # b => Met(a, b)'
  BY <1>1, <1>2 DEF IInv, Met, Locks
<1>8. ASSUME NEW b \in Handlers PROVE Settled(b)'
  <2>1. CASE b = c
    BY <2>1
  <2>2. CASE b # c
    BY <1>1, <1>2, <2>2 DEF IInv, Settled, Quiet, IsLegacy, IsReturn
  <2> QED  BY <2>1, <2>2
<1>9. \A x \in Documents : Quiet(x)' => Kept(x)'
  BY <1>1 DEF IInv, Quiet, IsLegacy, Kept, EffectsOf, Direction, IsReturn
<1> QED  BY <1>3, <1>4, <1>5, <1>6, <1>7, <1>8, <1>9 DEF IInv

-----------------------------------------------------------------------------
(* Drafts, starts and locks.                                               *)

LEMMA PurchaseCreated ==
    ASSUME IInv, NEW d \in Purchases, CreatePurchase(d)
    PROVE  IInv'
<1>1. PICK a \in Amounts : Created(d, NoOne, <<Line(a.boards, a.worth, TRUE)>>)
  BY DEF CreatePurchase
<1>2. PICK l : l = Line(a.boards, a.worth, TRUE)
  OBVIOUS
<1>3. l \in GoodLine /\ l.valued /\ l.worth \in Nat
  BY <1>2, DocumentAssumption DEF Line, GoodLine
<1> QED  BY <1>1, <1>2, <1>3, CreatedKeepsInv DEF Documents, Invoices

LEMMA SaleCreated ==
    ASSUME IInv, NEW d \in Sales, CreateSale(d)
    PROVE  IInv'
<1>1. PICK b \in SaleBoards : Created(d, NoOne, <<Line(b, 0, TRUE)>>)
  BY DEF CreateSale
<1>2. PICK l : l = Line(b, 0, TRUE)
  OBVIOUS
<1>3. l \in GoodLine /\ l.valued /\ l.worth \in Nat
  BY <1>2, DocumentAssumption DEF Line, GoodLine
<1> QED  BY <1>1, <1>2, <1>3, CreatedKeepsInv DEF Documents, Invoices

LEMMA ReturnCreated ==
    ASSUME IInv, NEW d \in Returns, CreateReturn(d)
    PROVE  IInv'
<1>1. PICK i \in {j \in Invoices : doc[j].status = "CONFIRMED"} \cup {NoOne} :
        \E lines \in DraftLines(i) : Created(d, i, lines)
  BY DEF CreateReturn
<1> PICK lines \in DraftLines(i) : Created(d, i, lines)
  BY <1>1
<1>2. i \in Invoices \cup {NoOne} /\ (i # NoOne => doc[i].status = "CONFIRMED")
  BY <1>1
<1>3. lines \in GoodLines /\ Len(lines) = 1
  BY <1>2, DraftLinesGood
<1>4. lines = <<lines[1]>> /\ lines[1] \in GoodLine
  BY <1>3, TheOneLine
<1>5. d \in Documents /\ d \notin Invoices
  BY DocumentAssumption DEF Documents
<1> QED  BY <1>1, <1>2, <1>4, <1>5, CreatedKeepsInv

(* What a document that is there looks like.                               *)
LEMMA There ==
    ASSUME IInv, NEW d \in Documents, doc[d].status # "NONE"
    PROVE  /\ doc[d] \in Document /\ doc[d].lines \in GoodLines /\ Filed(d)
           /\ d \in Returns <=> d \notin Invoices
           /\ IsLegacy(d) => d \in Returns
           /\ d \in Returns /\ ~IsLegacy(d) => doc[d].invoice \in Invoices
BY DocumentAssumption DEF IInv, Stored, Filed, Document, Documents, IsLegacy, IsReturn

LEMMA ConfirmStarts ==
    ASSUME IInv, NEW c \in Handlers, NEW d \in Documents, StartConfirm(c, d)
    PROVE  IInv'
<1>1. PICK where : where = IF IsReturn(d) THEN "lock" ELSE IF d \in Purchases THEN "cost" ELSE "commit"
  OBVIOUS
<1>2. doc[d].status = "DRAFT" /\ Start(c, d, where, Job("confirm", d, doc[d].lines))
      /\ (IsReturn(d) /\ ~IsLegacy(d) => Len(doc[d].lines) = 1)
  BY <1>1 DEF StartConfirm
<1>3. Begins(d, "confirm", where) /\ where \in {"lock", "cost", "commit", "write"}
  BY <1>1, <1>2, There DEF Begins, IsReturn
<1> QED  BY <1>2, <1>3, There, StartKeepsInv

LEMMA CancelStarts ==
    ASSUME IInv, NEW c \in Handlers, NEW d \in Documents, StartCancel(c, d)
    PROVE  IInv'
<1>1. PICK where : where = IF IsLegacy(d) THEN "lock" ELSE IF IsReturn(d) THEN "cost" ELSE "commit"
  OBVIOUS
<1>2. /\ doc[d].status \in IF IsReturn(d) THEN {"CONFIRMED"} ELSE {"DRAFT", "CONFIRMED"}
      /\ doc[d].status # "NONE"
      /\ Start(c, d, where, Job("cancel", d, doc[d].lines))
  BY <1>1 DEF StartCancel
<1>3. Begins(d, "cancel", where) /\ where \in {"lock", "cost", "commit", "write"}
  BY <1>1, <1>2, There DEF Begins, IsReturn
<1> QED  BY <1>2, <1>3, There, StartKeepsInv

LEMMA UpdateStarts ==
    ASSUME IInv, NEW c \in Handlers, NEW r \in Returns, StartUpdate(c, r)
    PROVE  IInv'
<1>1. PICK lines \in DraftLines(doc[r].invoice) : Start(c, r, "write", Job("update", r, lines))
  BY DEF StartUpdate
<1>2. r \in Documents /\ doc[r].status = "DRAFT" /\ r \notin Invoices
  BY DocumentAssumption DEF Documents, StartUpdate
<1>3. doc[r].invoice \in Invoices \cup {NoOne}
  BY <1>2 DEF IInv, Stored, Document
<1>4. lines \in GoodLines /\ Len(lines) = 1
  BY <1>1, <1>3, DraftLinesGood
<1>5. Begins(r, "update", "write")
  BY <1>2 DEF Begins, IsReturn
<1> QED  BY <1>1, <1>2, <1>4, <1>5, StartKeepsInv

LEMMA RemoveStarts ==
    ASSUME IInv, NEW c \in Handlers, NEW i \in Invoices, StartRemove(c, i)
    PROVE  IInv'
<1>1. /\ i \in Documents /\ i \notin Returns /\ doc[i].status = "DRAFT"
      /\ Start(c, i, "write", Job("remove", i, doc[i].lines))
  BY DocumentAssumption DEF Documents, StartRemove
<1>2. Begins(i, "remove", "write") /\ ~IsReturn(i)
  BY <1>1 DEF Begins, IsReturn
<1> QED  BY <1>1, <1>2, There, StartKeepsInv

LEMMA InvoiceLocked ==
    ASSUME IInv, NEW c \in Handlers, LockInvoice(c)
    PROVE  IInv'
<1>1. PICK d \in Documents : d = job[c].doc
  BY DocumentOf DEF LockInvoice
<1>2. PICK i, b : i = doc[d].invoice /\ b = job[c].lines[1].boards
  OBVIOUS
<1>3. pc[c] = "lock" /\ ~IsLegacy(d) /\ Free(c, i)
  BY <1>1, <1>2 DEF LockInvoice, LockedBy
<1>4. job[c] \in Jobs /\ Working(c) /\ Settled(c)
  BY <1>3, DocumentOf DEF IInv
<1>5. /\ d \in Returns /\ d \notin Invoices /\ i \in Invoices /\ job[c].op = "confirm"
      /\ doc[d].status # "NONE" /\ doc[d].lines \in GoodLines
  BY <1>1, <1>2, <1>3, <1>4, There DEF Working, Places, IsReturn
<1>6. b \in Nat \ {0}
  BY <1>2, <1>4, GoodLinesAreLines DEF Jobs, GoodLine
<1>7. CASE ~Returnable(i, b)
  BY <1>1, <1>2, <1>3, <1>7, RollbackKeepsInv DEF LockInvoice
<1>8. CASE Returnable(i, b)
  <2> DEFINE j == [job[c] EXCEPT !.lines = <<ReturnLine(i, b)>>, !.there = doc[d].lines]
  <2>1. /\ lock' = [lock EXCEPT ![i] = c] /\ Goto(c, "cost")
        /\ job' = [job EXCEPT ![c] = j]
        /\ UNCHANGED <<stored, variantLock, overlapped, edited, started>>
    BY <1>1, <1>2, <1>3, <1>8 DEF LockInvoice, LockedBy
  <2>2. <<ReturnLine(i, b)>> \in GoodLines /\ Len(<<ReturnLine(i, b)>>) = 1
    BY <1>5, <1>6, <1>8, ReturnLineGood, OneLine
  <2>3. /\ j \in Jobs /\ j.op = "confirm" /\ j.doc = d /\ j.seen = job[c].seen
        /\ j.lines = <<ReturnLine(i, b)>> /\ j.there = doc[d].lines /\ j # Idle
    BY <1>1, <1>4, <1>5, <2>2 DEF Jobs, Idle
  <2> HIDE DEF j
  <2>4. /\ i \in Documents /\ lock'[i] = c /\ pc'[c] = "cost" /\ job'[c] = j
        /\ doc' = doc /\ overlapped' = overlapped /\ edited' = edited
        /\ \A x \in Handlers \ {c} : pc'[x] = pc[x] /\ job'[x] = job[x]
    BY <1>5, <2>1 DEF Goto, Documents, IInv, Control, stored
  <2>5. Locks(c, j, "cost")
    <3>1. NoOne \notin Handlers /\ lock \in [Documents -> Handlers \cup {NoOne}]
          /\ variantLock \in Handlers \cup {NoOne} /\ variantLock' = variantLock
      BY <2>1, DocumentAssumption DEF IInv, Control
    <3>2. \A x \in Handlers \ {c}, y \in Documents : lock[y] = x => lock'[y] = x
      BY <1>3, <2>1, <3>1 DEF Free
    <3> QED  BY <1>1, <1>5, <2>1, <2>3, <3>1, <3>2 DEF Locks
  <2>6. Working(c)'
    BY <1>1, <1>2, <1>3, <1>4, <1>5, <2>2, <2>3, <2>4
       DEF Working, Places, Holds, Averages, IsReturn, IsLegacy
  <2>7. Settled(c)'
    BY <1>1, <1>3, <1>4, <2>3, <2>4 DEF Settled, Quiet, IsLegacy, IsReturn
  <2>8. ASSUME NEW k \in Invoices PROVE Returned(k)'
    <3>1. SameReturns(k) /\ SameInvoice(k)
      BY <2>4 DEF SameReturns, SameInvoice, ReturnsOf, Confirmed
    <3>2. Fit(i, Already(i).boards + Boards(j.lines), Already(i).worth + Worth(j.lines))
      <4>1. /\ ReturnLine(i, b) \in GoodLine /\ ReturnLine(i, b).boards = b
            /\ Fit(i, Already(i).boards + b, Already(i).worth + ReturnLine(i, b).worth)
        BY <1>5, <1>6, <1>8, ReturnLineGood
      <4> QED  BY <2>3, <4>1, OneLineSums
    <3>3. ASSUME NEW x \in Handlers, Returning(x, k)'
          PROVE  \/ Returning(x, k) /\ job'[x].lines = job[x].lines
                 \/ Fit(k, Already(k).boards + Boards(job'[x].lines),
                        Already(k).worth + Worth(job'[x].lines))
      <4>1. CASE x = c
        BY <1>2, <2>3, <2>4, <3>2, <3>3, <4>1 DEF Returning
      <4>2. CASE x # c
        BY <2>4, <3>3, <4>2 DEF Returning, IsReturn
      <4> QED  BY <4>1, <4>2
    <3> QED  BY <2>4, <3>1, <3>3, ReturnedKept
  <2> QED  BY <1>3, <2>3, <2>5, <2>6, <2>7, <2>8, LockKeepsInv
<1> QED  BY <1>7, <1>8

LEMMA LegacyLocked ==
    ASSUME IInv, NEW c \in Handlers, LockLegacy(c)
    PROVE  IInv'
<1>1. PICK d \in Documents : d = job[c].doc
  BY DocumentOf DEF LockLegacy
<1>2. pc[c] = "lock" /\ IsLegacy(d) /\ d \in Returns /\ doc[d].invoice = NoOne /\ Free(c, d)
  BY <1>1 DEF LockLegacy, IsLegacy, IsReturn
<1>3. job[c] \in Jobs /\ Working(c) /\ Settled(c) /\ NoOne \notin Invoices
  BY <1>2, DocumentOf, DocumentAssumption DEF IInv, Documents
<1>4. d \notin Invoices /\ job[c].op \in {"confirm", "cancel"}
      /\ doc[d].status # "NONE" /\ doc[d].lines \in GoodLines
  BY <1>1, <1>2, <1>3, There DEF Working, Places
<1>5. CASE ~AsRead(c)
  BY <1>2, <1>5, RollbackKeepsInv DEF LockLegacy
<1>6. CASE AsRead(c)
  <2> DEFINE j == [job[c] EXCEPT !.lines = doc[d].lines, !.there = doc[d].lines]
  <2>1. /\ lock' = [lock EXCEPT ![d] = c] /\ Goto(c, "cost")
        /\ job' = [job EXCEPT ![c] = j]
        /\ UNCHANGED <<stored, variantLock, overlapped, edited, started>>
        /\ doc[d].status = job[c].seen
    BY <1>1, <1>2, <1>6 DEF LockLegacy, LockedBy, AsRead
  <2>2. /\ j \in Jobs /\ j.op = job[c].op /\ j.doc = d /\ j.seen = job[c].seen
        /\ j.lines = doc[d].lines /\ j.there = doc[d].lines /\ j # Idle
    BY <1>1, <1>3, <1>4 DEF Jobs, Idle
  <2> HIDE DEF j
  <2>3. /\ lock'[d] = c /\ pc'[c] = "cost" /\ job'[c] = j
        /\ doc' = doc /\ overlapped' = overlapped /\ edited' = edited
        /\ \A x \in Handlers \ {c} : pc'[x] = pc[x] /\ job'[x] = job[x]
    BY <2>1 DEF Goto, IInv, Control, stored
  <2>4. Locks(c, j, "cost")
    <3>1. NoOne \notin Handlers /\ lock \in [Documents -> Handlers \cup {NoOne}]
          /\ variantLock \in Handlers \cup {NoOne} /\ variantLock' = variantLock
      BY <2>1, DocumentAssumption DEF IInv, Control
    <3>2. \A x \in Handlers \ {c}, y \in Documents : lock[y] = x => lock'[y] = x
      BY <1>2, <2>1, <3>1 DEF Free
    <3> QED  BY <1>1, <2>1, <2>2, <3>1, <3>2 DEF Locks
  <2>5. Working(c)'
    BY <1>1, <1>2, <1>3, <1>4, <2>2, <2>3 DEF Working, Places, Holds, Averages, IsReturn, IsLegacy
  <2>6. Settled(c)'
    BY <2>1, <2>2, <2>3 DEF Settled
  <2>7. ASSUME NEW k \in Invoices PROVE Returned(k)'
    <3>1. SameReturns(k) /\ SameInvoice(k)
      BY <2>3 DEF SameReturns, SameInvoice, ReturnsOf, Confirmed
    <3>2. ASSUME NEW x \in Handlers, Returning(x, k)'
          PROVE  Returning(x, k) /\ job'[x].lines = job[x].lines
      <4>1. x # c
        BY <1>2, <1>3, <2>2, <2>3, <3>2 DEF Returning
      <4> QED  BY <2>3, <3>2, <4>1 DEF Returning, IsReturn
    <3> QED  BY <2>3, <3>1, <3>2, ReturnedKept
  <2> QED  BY <1>2, <2>2, <2>4, <2>5, <2>6, <2>7, LockKeepsInv
<1> QED  BY <1>5, <1>6

LEMMA VariantLocked ==
    ASSUME IInv, NEW c \in Handlers, LockVariant(c)
    PROVE  IInv'
<1>1. PICK d \in Documents : d = job[c].doc
  BY DocumentOf DEF LockVariant
<1>2. pc[c] = "cost" /\ VariantFree(c) /\ variantLock' = c /\ Goto(c, "commit")
      /\ UNCHANGED <<stored, lock, overlapped, edited, started>>
  BY DEF LockVariant
<1>3. /\ job[c] \in Jobs /\ Working(c) /\ Settled(c) /\ NoOne \notin Invoices
      /\ NoOne \notin Handlers /\ avg \in Nat /\ onHand \in Nat
  BY <1>2, DocumentOf, DocumentAssumption DEF IInv, Stored, Documents
<1>4. PICK lines : lines = IF IsLegacy(d) /\ job[c].op = "confirm"
                           THEN AtCurrentCost(job[c].lines, avg) ELSE job[c].lines
  OBVIOUS
<1>5. lines \in GoodLines
  BY <1>3, <1>4, Priced DEF Jobs
<1>6. d \in Returns <=> d \notin Invoices
  BY DocumentAssumption DEF Documents
<1> DEFINE j == [job[c] EXCEPT !.ticks = avg, !.boards = onHand, !.lines = lines]
<1>7. job' = [job EXCEPT ![c] = j]
  BY <1>1, <1>4 DEF LockVariant
<1>8. /\ j \in Jobs /\ j.op = job[c].op /\ j.doc = d /\ j.seen = job[c].seen
      /\ j.lines = lines /\ j.there = job[c].there /\ j.ticks = avg /\ j.boards = onHand /\ j # Idle
  BY <1>1, <1>3, <1>5 DEF Jobs, Idle
<1> HIDE DEF j
<1>9. /\ pc'[c] = "commit" /\ job'[c] = j /\ lock' = lock /\ doc' = doc
      /\ onHand' = onHand /\ avg' = avg /\ overlapped' = overlapped /\ edited' = edited
      /\ \A x \in Handlers \ {c} : pc'[x] = pc[x] /\ job'[x] = job[x]
  BY <1>2, <1>7 DEF Goto, IInv, Control, stored
<1>10. Locks(c, j, "commit")
  <2>1. /\ lock' \in [Documents -> Handlers \cup {NoOne}]
        /\ \A x \in Handlers \ {c} : variantLock = x => variantLock' = x
    BY <1>2, <1>3, <1>9 DEF IInv, Control, VariantFree
  <2> QED  BY <1>1, <1>2, <1>7, <1>8, <1>9, <2>1 DEF Locks
<1>11. Working(c)'
  <2>1. Places(c)' /\ Holds(c)'
    BY <1>1, <1>2, <1>3, <1>8, <1>9 DEF Working, Places, Holds, Averages, IsReturn, IsLegacy
  <2>2. IsLegacy(d)' = IsLegacy(d) /\ (IsLegacy(d) => d \in Returns)
    BY <1>9 DEF IsLegacy, IsReturn
  <2> QED  BY <1>1, <1>2, <1>3, <1>4, <1>6, <1>8, <1>9, <2>1, <2>2 DEF Working, IsReturn
<1>12. Settled(c)'
  BY <1>1, <1>2, <1>3, <1>4, <1>8, <1>9 DEF Settled, Quiet, IsLegacy, IsReturn
<1>13. ASSUME NEW k \in Invoices PROVE Returned(k)'
  <2>1. SameReturns(k) /\ SameInvoice(k)
    BY <1>9 DEF SameReturns, SameInvoice, ReturnsOf, Confirmed
  <2>2. ASSUME NEW x \in Handlers, Returning(x, k)'
        PROVE  Returning(x, k) /\ job'[x].lines = job[x].lines
    <3>1. CASE x = c
      BY <1>1, <1>2, <1>3, <1>4, <1>8, <1>9, <2>2, <3>1 DEF Returning, IsReturn, IsLegacy
    <3>2. CASE x # c
      BY <1>9, <2>2, <3>2 DEF Returning, IsReturn
    <3> QED  BY <3>1, <3>2
  <2> QED  BY <1>9, <2>1, <2>2, ReturnedKept
<1> QED  BY <1>2, <1>8, <1>10, <1>11, <1>12, <1>13, LockKeepsInv

LEMMA Aborted ==
    ASSUME IInv, NEW c \in Handlers, Abort(c)
    PROVE  IInv'
BY RollbackKeepsInv DEF Abort

-----------------------------------------------------------------------------
(* What the last step of a handler writes.                                 *)

Posted(d, amount) ==
    IF entry[d] = NotPosted /\ amount # 0 THEN [status |-> "POSTED", amount |-> amount] ELSE entry[d]

Mirrored(d) == IF entry[d].status = "POSTED" THEN [entry[d] EXCEPT !.status = "REVERSED"] ELSE entry[d]

LEMMA EntryWritten ==
    ASSUME IInv, NEW d \in Documents, NEW amount \in Int
    PROVE  /\ Posted(d, amount) \in Entries /\ Mirrored(d) \in Entries /\ entry[d] \in Entries
           /\ Post(d, amount) => entry' = [entry EXCEPT ![d] = Posted(d, amount)]
           /\ Reverse(d) => entry' = [entry EXCEPT ![d] = Mirrored(d)]
<1>1. entry \in [Documents -> Entries] /\ entry[d] \in Entries
  BY DEF IInv, Stored
<1>2. entry = [entry EXCEPT ![d] = entry[d]]
  BY <1>1
<1>3. Posted(d, amount) \in Entries /\ Mirrored(d) \in Entries
  BY <1>1 DEF Posted, Mirrored, Entries
<1>4. Post(d, amount) => entry' = [entry EXCEPT ![d] = Posted(d, amount)]
  BY <1>2 DEF Post, Posted
<1>5. Reverse(d) => entry' = [entry EXCEPT ![d] = Mirrored(d)]
  BY <1>2 DEF Reverse, Mirrored
<1> QED  BY <1>1, <1>3, <1>4, <1>5

LEMMA EndSays ==
    ASSUME IInv, NEW c \in Handlers, End(c)
    PROVE  /\ overlapped' = overlapped /\ edited' = edited /\ pc'[c] = "idle"
           /\ \A b \in Handlers \ {c} : pc'[b] = pc[b] /\ job'[b] = job[b]
BY DEF End, IInv, Control

(* Writing an invoice changes nothing that has been returned of it.        *)
LEMMA InvoiceLeavesReturns ==
    ASSUME IInv, NEW c \in Handlers, End(c), NEW d \in Invoices, NEW row \in Document,
           doc' = [doc EXCEPT ![d] = row], row.invoice = doc[d].invoice,
           ReturnsOf(d) # {} => /\ row.lines[1].boards = doc[d].lines[1].boards
                                /\ d \notin overlapped => row.lines[1].worth = doc[d].lines[1].worth,
           NEW i \in Invoices
    PROVE  Returned(i)'
<1>1. /\ doc'[d] = row /\ \A x \in Documents \ {d} : doc'[x] = doc[x]
      /\ d \in Documents /\ i \in Documents
      /\ \A r \in Returns : r \in Documents \ {d}
  BY DocumentAssumption DEF IInv, Stored, Documents
<1>2. SameReturns(i)
  BY <1>1 DEF SameReturns, ReturnsOf, Confirmed
<1>3. ReturnsOf(i) # {} => SameInvoice(i)
  BY <1>1, EndSays DEF SameInvoice
<1>4. ASSUME NEW b \in Handlers, Returning(b, i)'
      PROVE  Returning(b, i) /\ job'[b].lines = job[b].lines
  BY <1>1, <1>4, EndSays DEF Returning, IsReturn
<1> QED  BY <1>2, <1>3, <1>4, EndSays, ReturnedKept DEF SameReturns

(* Writing a return changes nothing that counts as returned, unless it is  *)
(* or becomes confirmed.                                                   *)
LEMMA ReturnLeavesOthers ==
    ASSUME IInv, NEW c \in Handlers, End(c), NEW d \in Returns, NEW row \in Document,
           doc' = [doc EXCEPT ![d] = row], row.invoice = doc[d].invoice,
           NEW i \in Invoices,
           i = doc[d].invoice /\ d \notin overlapped =>
             doc[d].status # "CONFIRMED" /\ row.status # "CONFIRMED"
    PROVE  Returned(i)'
<1>1. /\ doc'[d] = row /\ \A x \in Documents \ {d} : doc'[x] = doc[x]
      /\ d \in Documents /\ i \in Documents \ {d} /\ Returns \subseteq Documents
  BY DocumentAssumption DEF IInv, Stored, Documents
<1>2. ReturnsOf(i)' = ReturnsOf(i) /\ SameInvoice(i)
  BY <1>1 DEF ReturnsOf, SameInvoice
<1>3. Unraced(ReturnsOf(i))' => SameReturns(i)
  <2>1. CASE i = doc[d].invoice
    BY <1>1, <1>2, <2>1, EndSays DEF SameReturns, Confirmed, Unraced, ReturnsOf
  <2>2. CASE i # doc[d].invoice
    BY <1>1, <1>2, <2>2 DEF SameReturns, Confirmed, ReturnsOf
  <2> QED  BY <2>1, <2>2
<1>4. ASSUME NEW b \in Handlers, Returning(b, i)'
      PROVE  Returning(b, i) /\ job'[b].lines = job[b].lines
  BY <1>1, <1>4, EndSays, DocumentOf DEF Returning, IsReturn
<1> QED  BY <1>2, <1>3, <1>4, EndSays, ReturnedKept

-----------------------------------------------------------------------------
(* Commits.                                                                *)

(* What is known of a handler that is at work, and of its document.        *)
LEMMA Committing ==
    ASSUME IInv, NEW c \in Handlers, pc[c] # "idle", NEW d, d = job[c].doc
    PROVE  /\ d \in Documents /\ Working(c) /\ Settled(c) /\ job[c] \in Jobs
           /\ doc[d] \in Document /\ doc[d].lines \in GoodLines /\ doc[d].status # "NONE"
           /\ Filed(d) /\ job[c].lines \in GoodLines /\ job[c].lines[1] \in GoodLine
           /\ d \in Returns <=> d \notin Invoices
           /\ doc[d].status \in Existing
           /\ onHand \in Nat /\ avg \in Nat /\ moved \in [Documents -> Int] /\ moved[d] \in Int
           /\ original \in [Invoices -> Int]
<1>1. d \in Documents /\ Working(c) /\ job[c] \in Jobs /\ doc[d] \in Document /\ doc[d].lines \in GoodLines
  BY DocumentOf
<1>2. job[c].lines \in GoodLines /\ job[c].lines[1] \in GoodLine
  BY <1>1, GoodLinesAreLines DEF Jobs
<1>3. doc[d].status # "NONE" /\ doc[d].status \in Existing
  BY <1>1 DEF Working, Document, Existing, Statuses
<1> QED  BY <1>1, <1>2, <1>3, There DEF IInv, Stored

LEMMA PurchaseConfirmed ==
    ASSUME IInv, NEW c \in Handlers, ConfirmPurchase(c)
    PROVE  IInv'
<1>1. PICK d, l : d = job[c].doc /\ l = job[c].lines[1]
  OBVIOUS
<1>2. /\ pc[c] = "commit" /\ d \in Purchases /\ job[c].op = "confirm" /\ Free(c, d)
      /\ Move(d, l.boards) /\ original' = [original EXCEPT ![d] = @ + l.boards]
      /\ Average(c, l.boards, l.worth) /\ Post(d, l.worth)
      /\ doc' = [doc EXCEPT ![d].status = "CONFIRMED"] /\ End(c)
  BY <1>1 DEF ConfirmPurchase
<1>3. /\ d \in Documents /\ d \in Invoices /\ d \notin Returns /\ Working(c) /\ Settled(c)
      /\ doc[d] \in Document /\ doc[d].lines \in GoodLines /\ Filed(d) /\ doc[d].status # "NONE"
      /\ onHand \in Nat /\ avg \in Nat /\ moved \in [Documents -> Int] /\ moved[d] \in Int
      /\ original \in [Invoices -> Int]
  BY <1>1, <1>2, Committing DEF Invoices
<1>4. job[c].lines = doc[d].lines /\ Len(doc[d].lines) = 1 /\ l = doc[d].lines[1]
      /\ l.boards \in Nat \ {0} /\ l.worth \in Nat /\ job[c].seen = "DRAFT"
  BY <1>1, <1>2, <1>3, GoodLinesAreLines DEF Working, Filed, GoodLine
<1>5. Boards(doc[d].lines) = l.boards /\ Worth(doc[d].lines) = l.worth
  BY <1>3, <1>4, TheOneLine, OneLineSums
<1> DEFINE row == [doc[d] EXCEPT !.status = "CONFIRMED"]
<1> DEFINE m == moved[d] + l.boards
<1>6. /\ row \in Document /\ row.status = "CONFIRMED" /\ row.lines = doc[d].lines
      /\ row.invoice = doc[d].invoice /\ doc' = [doc EXCEPT ![d] = row]
  BY <1>2, <1>3 DEF Document
<1>7. m \in Int /\ moved' = [moved EXCEPT ![d] = m] /\ onHand' = onHand + l.boards
  BY <1>2, <1>3, <1>4 DEF Move
<1> HIDE DEF row
<1>8. Posted(d, l.worth) \in Entries /\ entry' = [entry EXCEPT ![d] = Posted(d, l.worth)]
  BY <1>2, <1>3, <1>4, EntryWritten
<1>9. Writes(c, d, row, m, Posted(d, l.worth))
  <2>1. variantLock = c /\ job[c].ticks = avg /\ job[c].boards = onHand
    BY <1>1, <1>2, <1>3 DEF Working, Holds, Averages
  <2>2. avg' \in Nat
    <3>1. ValueAfter(onHand, avg, l.worth) >= 0
      <4>1. onHand * avg \in Nat /\ l.worth * Scale \in Nat
        BY <1>3, <1>4, ScaleAssumption
      <4> QED  BY <4>1 DEF ValueAfter
    <3> QED  BY <1>2, <1>3, <1>4, <2>1, <3>1, AverageNat DEF Average
  <2>3. /\ original' \in [Invoices -> Int]
        /\ \A i \in Invoices \ {d} : original'[i] = original[i]
    BY <1>2, <1>3, <1>4
  <2>4. onHand' \in Nat
    BY <1>3, <1>4, <1>7
  <2> QED  BY <1>6, <1>7, <1>8, <2>1, <2>2, <2>3, <2>4 DEF Writes, VariantFree
<1>10. StaysFiled(d, row)
  BY <1>3, <1>6 DEF StaysFiled, Filed
<1>11. ASSUME Quiet(d) PROVE Kept(d)'
  <2>1. doc[d].status = "DRAFT"
    BY <1>1, <1>2, <1>3, <1>4, <1>11 DEF Settled, IsLegacy, IsReturn
  <2>2. moved[d] = 0 /\ entry[d] = NotPosted /\ original[d] = 0
    BY <1>3, <1>11, <2>1 DEF IInv, Kept, EffectsOf
  <2>3. /\ doc'[d] = row /\ moved'[d] = l.boards /\ original'[d] = l.boards
        /\ entry'[d] = IF l.worth # 0 THEN [status |-> "POSTED", amount |-> l.worth] ELSE NotPosted
    BY <1>2, <1>3, <1>4, <1>6, <1>7, <1>8, <2>2 DEF Posted, IInv, Stored
  <2>4. Direction(d)' = 1
    BY <1>2, <1>3, DocumentAssumption DEF Direction, IsReturn
  <2> QED  BY <1>3, <1>4, <1>5, <1>6, <2>3, <2>4 DEF Kept, EffectsOf, NotPosted
<1>12. \A i \in Invoices : Returned(i)'
  BY <1>2, <1>3, <1>6, InvoiceLeavesReturns
<1> QED  BY <1>1, <1>2, <1>3, <1>6, <1>7, <1>8, <1>9, <1>10, <1>11, <1>12, WriteKeepsInv

LEMMA SaleConfirmed ==
    ASSUME IInv, NEW c \in Handlers, ConfirmSale(c)
    PROVE  IInv'
<1>1. PICK d, b, cogs : /\ d = job[c].doc /\ b = job[c].lines[1].boards
                        /\ cogs = Cents(b, job[c].ticks)
  OBVIOUS
<1>2. /\ pc[c] = "commit" /\ d \in Sales /\ job[c].op = "confirm" /\ Free(c, d) /\ VariantFree(c)
      /\ Move(d, -b) /\ original' = [original EXCEPT ![d] = @ - b] /\ Post(d, -cogs)
      /\ doc' = [doc EXCEPT ![d].status = "CONFIRMED", ![d].lines = <<Line(b, cogs, TRUE)>>]
      /\ avg' = avg /\ End(c)
  BY <1>1 DEF ConfirmSale
<1>3. /\ d \in Documents /\ d \in Invoices /\ d \notin Returns /\ d \notin Purchases
      /\ Working(c) /\ Settled(c)
      /\ doc[d] \in Document /\ doc[d].lines \in GoodLines /\ Filed(d) /\ doc[d].status # "NONE"
      /\ onHand \in Nat /\ avg \in Nat /\ moved \in [Documents -> Int] /\ moved[d] \in Int
      /\ original \in [Invoices -> Int] /\ job[c].ticks \in Nat
  BY <1>1, <1>2, Committing, DocumentAssumption DEF Invoices, Jobs
<1>4. /\ b \in Nat \ {0} /\ b = doc[d].lines[1].boards /\ job[c].seen = "DRAFT"
  BY <1>1, <1>2, <1>3, GoodLinesAreLines DEF Working, GoodLine
<1>5. cogs \in Nat
  BY <1>1, <1>3, <1>4, CentsNat
<1> DEFINE l == Line(b, cogs, TRUE)
<1>6. /\ l \in GoodLine /\ l.boards = b /\ l.worth = cogs /\ l.valued
  BY <1>4, <1>5 DEF Line, GoodLine
<1> HIDE DEF l
<1>7. /\ <<l>> \in GoodLines /\ Len(<<l>>) = 1 /\ <<l>> \in Seq(ALine) /\ <<l>>[1] = l
      /\ Boards(<<l>>) = b /\ Worth(<<l>>) = cogs
  BY <1>6, OneLine, OneLineSums, GoodLinesAreLines
<1> DEFINE row == [doc[d] EXCEPT !.status = "CONFIRMED", !.lines = <<l>>]
<1> DEFINE m == moved[d] + (-b)
<1>8. /\ row \in Document /\ row.status = "CONFIRMED" /\ row.lines = <<l>>
      /\ row.invoice = doc[d].invoice /\ doc' = [doc EXCEPT ![d] = row]
  BY <1>2, <1>3, <1>7 DEF Document, l
<1>9. /\ m \in Int /\ moved' = [moved EXCEPT ![d] = m] /\ onHand' = onHand + (-b) /\ onHand' >= 0
  BY <1>2, <1>3, <1>4 DEF Move, Available
<1> HIDE DEF row
<1>10. Posted(d, -cogs) \in Entries /\ entry' = [entry EXCEPT ![d] = Posted(d, -cogs)]
  BY <1>2, <1>3, <1>5, EntryWritten
<1>11. Writes(c, d, row, m, Posted(d, -cogs))
  <2>1. /\ original' \in [Invoices -> Int]
        /\ \A i \in Invoices \ {d} : original'[i] = original[i]
    BY <1>2, <1>3, <1>4
  <2>2. onHand' \in Nat
    BY <1>3, <1>4, <1>9
  <2> QED  BY <1>2, <1>3, <1>8, <1>9, <1>10, <2>1, <2>2 DEF Writes
<1>12. StaysFiled(d, row)
  BY <1>3, <1>4, <1>6, <1>7, <1>8 DEF StaysFiled, Filed
<1>13. d \notin overlapped => Quiet(d)
  BY <1>3 DEF Quiet, IsLegacy, IsReturn
<1>14. Quiet(d) => doc[d].status = "DRAFT"
  BY <1>1, <1>2, <1>3, <1>4 DEF Settled, IsLegacy, IsReturn
<1>15. ASSUME Quiet(d) PROVE Kept(d)'
  <2>1. moved[d] = 0 /\ entry[d] = NotPosted /\ original[d] = 0
    BY <1>3, <1>14, <1>15 DEF IInv, Kept, EffectsOf
  <2>2. /\ doc'[d] = row /\ moved'[d] = -b /\ original'[d] = -b
        /\ entry'[d] = IF cogs # 0 THEN [status |-> "POSTED", amount |-> -cogs] ELSE NotPosted
    <3>1. entry'[d] = Posted(d, -cogs) /\ moved'[d] = m /\ doc'[d] = row
      BY <1>3, <1>8, <1>9, <1>10 DEF IInv, Stored
    <3>2. original'[d] = -b /\ m = -b
      BY <1>2, <1>3, <1>4, <2>1
    <3>3. Posted(d, -cogs) = IF cogs # 0 THEN [status |-> "POSTED", amount |-> -cogs] ELSE NotPosted
      BY <1>5, <2>1 DEF Posted
    <3> QED  BY <3>1, <3>2, <3>3
  <2>3. Direction(d)' = -1
    BY <1>2 DEF Direction
  <2> QED  BY <1>3, <1>4, <1>5, <1>7, <1>8, <2>2, <2>3 DEF Kept, EffectsOf, NotPosted
<1>16. ReturnsOf(d) # {} => d \in overlapped
  <2>1. ReturnsOf(d) # {} => doc[d].status \in {"CONFIRMED", "CANCELLED"}
    BY <1>3, DocumentAssumption DEF ReturnsOf, IInv, Filed, Documents
  <2> QED  BY <1>13, <1>14, <2>1
<1>17. ReturnsOf(d) # {} => /\ row.lines[1].boards = doc[d].lines[1].boards
                            /\ d \notin overlapped => row.lines[1].worth = doc[d].lines[1].worth
  BY <1>4, <1>6, <1>7, <1>8, <1>16
<1>18. \A i \in Invoices : Returned(i)'
  BY <1>2, <1>3, <1>8, <1>17, InvoiceLeavesReturns
<1> QED  BY <1>1, <1>2, <1>3, <1>8, <1>9, <1>10, <1>11, <1>12, <1>15, <1>18, WriteKeepsInv

LEMMA InvoiceCancelled ==
    ASSUME IInv, NEW c \in Handlers, CancelInvoice(c)
    PROVE  IInv'
<1>1. PICK d : d = job[c].doc
  OBVIOUS
<1>2. /\ pc[c] = "commit" /\ d \in Invoices /\ job[c].op = "cancel" /\ Free(c, d) /\ VariantFree(c)
      /\ IF job[c].seen = "CONFIRMED" THEN Move(d, -original[d]) /\ Reverse(d)
         ELSE UNCHANGED <<onHand, moved, entry>>
      /\ doc' = [doc EXCEPT ![d].status = "CANCELLED"]
      /\ avg' = avg /\ original' = original /\ End(c)
  BY <1>1 DEF CancelInvoice
<1>3. /\ d \in Documents /\ d \notin Returns /\ Working(c) /\ Settled(c)
      /\ doc[d] \in Document /\ doc[d].lines \in GoodLines /\ Filed(d) /\ doc[d].status # "NONE"
      /\ onHand \in Nat /\ avg \in Nat /\ moved \in [Documents -> Int] /\ moved[d] \in Int
      /\ original \in [Invoices -> Int] /\ original[d] \in Int
  BY <1>1, <1>2, Committing
<1>4. job[c].seen \in {"DRAFT", "CONFIRMED"}
  BY <1>1, <1>2, <1>3 DEF Working, IsReturn
<1> DEFINE row == [doc[d] EXCEPT !.status = "CANCELLED"]
<1> DEFINE m == IF job[c].seen = "CONFIRMED" THEN moved[d] - original[d] ELSE moved[d]
<1> DEFINE e == IF job[c].seen = "CONFIRMED" THEN Mirrored(d) ELSE entry[d]
<1>5. /\ row \in Document /\ row.status = "CANCELLED" /\ row.lines = doc[d].lines
      /\ row.invoice = doc[d].invoice /\ doc' = [doc EXCEPT ![d] = row]
  BY <1>2, <1>3 DEF Document
<1> HIDE DEF row
<1>6. m \in Int /\ moved' = [moved EXCEPT ![d] = m] /\ onHand' \in Nat
  BY <1>2, <1>3 DEF Move, Available
<1>7. e \in Entries /\ entry' = [entry EXCEPT ![d] = e]
  <2>1. Mirrored(d) \in Entries /\ entry[d] \in Entries
        /\ (Reverse(d) => entry' = [entry EXCEPT ![d] = Mirrored(d)])
    BY <1>3, EntryWritten
  <2>2. entry = [entry EXCEPT ![d] = entry[d]]
    BY DEF IInv, Stored
  <2> QED  BY <1>2, <2>1, <2>2
<1>8. Writes(c, d, row, m, e)
  BY <1>2, <1>3, <1>5, <1>6, <1>7 DEF Writes
<1>9. StaysFiled(d, row)
  BY <1>3, <1>5 DEF StaysFiled, Filed
<1>10. ASSUME Quiet(d) PROVE Kept(d)'
  <2>1. doc[d].status = job[c].seen /\ Kept(d)
    BY <1>1, <1>2, <1>3, <1>10 DEF Settled, IsLegacy, IsReturn, IInv
  <2>2. m = 0 /\ e.status # "POSTED"
    <3>1. CASE job[c].seen = "CONFIRMED"
      BY <1>2, <1>3, <2>1, <3>1 DEF Kept, Mirrored, IInv, Stored, Entries
    <3>2. CASE job[c].seen = "DRAFT"
      BY <1>3, <2>1, <3>2 DEF Kept, EffectsOf, NotPosted
    <3> QED  BY <1>4, <3>1, <3>2
  <2>3. doc'[d] = row /\ moved'[d] = m /\ entry'[d] = e /\ Len(doc[d].lines) = 1
    BY <1>3, <1>5, <1>6, <1>7, <2>1 DEF IInv, Stored, Kept
  <2> HIDE DEF m, e
  <2> QED  BY <1>5, <2>2, <2>3 DEF Kept, EffectsOf
<1>11. \A i \in Invoices : Returned(i)'
  BY <1>2, <1>3, <1>5, InvoiceLeavesReturns
<1> HIDE DEF m, e
<1> QED  BY <1>1, <1>2, <1>3, <1>5, <1>6, <1>7, <1>8, <1>9, <1>10, <1>11, WriteKeepsInv

(* Stock and average stay natural numbers when a return moves them.        *)
LEMMA StockApplied ==
    ASSUME IInv, NEW c \in Handlers, pc[c] = "commit", NEW d \in Returns, d = job[c].doc,
           NEW sign \in {1, -1}, ApplyToStock(c, sign)
    PROVE  /\ sign * Boards(job[c].lines) \in Int /\ sign * Worth(job[c].lines) \in Int
           /\ moved[d] + sign * Boards(job[c].lines) \in Int
           /\ moved' = [moved EXCEPT ![d] = moved[d] + sign * Boards(job[c].lines)]
           /\ onHand' = onHand + sign * Boards(job[c].lines)
           /\ onHand' \in Nat /\ avg' \in Nat
           /\ variantLock = c /\ job[c].ticks = avg /\ job[c].boards = onHand
<1>1. /\ job[c].lines \in GoodLines /\ Working(c) /\ onHand \in Nat /\ avg \in Nat
      /\ moved \in [Documents -> Int] /\ moved[d] \in Int /\ d \in Documents
  BY Committing
<1>2. variantLock = c /\ job[c].ticks = avg /\ job[c].boards = onHand
  BY <1>1 DEF Working, Holds, Averages, IsReturn
<1>3. Boards(job[c].lines) \in Int /\ Worth(job[c].lines) \in Int
  BY <1>1, BoardsType, WorthType
<1>4. PICK b, w : b = sign * Boards(job[c].lines) /\ w = sign * Worth(job[c].lines)
  OBVIOUS
<1>5. b \in Int /\ w \in Int
  BY <1>3, <1>4
<1>6. /\ Move(d, b)
      /\ \/ Sufficient(job[c].boards, job[c].ticks, b, w) /\ Average(c, b, w)
         \/ avg' = avg
  BY <1>4 DEF ApplyToStock
<1>7. onHand' \in Nat /\ onHand' = onHand + b /\ moved' = [moved EXCEPT ![d] = moved[d] + b]
  BY <1>1, <1>5, <1>6 DEF Move, Available
<1>8. avg' \in Nat
  BY <1>1, <1>2, <1>5, <1>6, AverageNat DEF Sufficient, Average
<1> QED  BY <1>1, <1>2, <1>4, <1>5, <1>7, <1>8

LEMMA ReturnConfirmed ==
    ASSUME IInv, NEW c \in Handlers, ConfirmReturn(c)
    PROVE  IInv'
<1>1. PICK d, sign, b, w : /\ d = job[c].doc /\ sign = Direction(d)
                           /\ b = sign * Boards(job[c].lines) /\ w = sign * Worth(job[c].lines)
  OBVIOUS
<1>2. /\ pc[c] = "commit" /\ d \in Returns /\ job[c].op = "confirm"
      /\ ApplyToStock(c, sign) /\ Post(d, w) /\ original' = original /\ End(c)
  BY <1>1 DEF ConfirmReturn, IsReturn
<1>3. /\ d \in Documents /\ d \notin Invoices /\ Working(c) /\ Settled(c) /\ job[c] \in Jobs
      /\ doc[d] \in Document /\ doc[d].lines \in GoodLines /\ Filed(d) /\ doc[d].status # "NONE"
      /\ job[c].lines \in GoodLines /\ original \in [Invoices -> Int]
  BY <1>1, <1>2, Committing
<1>4. PICK lines \in IF IsLegacy(d) THEN {job[c].lines} ELSE Rewritten(c, d, job[c].lines) :
        doc' = [doc EXCEPT ![d].status = "CONFIRMED", ![d].lines = lines]
  BY <1>1 DEF ConfirmReturn
<1>5. lines = job[c].lines \/ (doc[d].lines # job[c].there /\ lines = doc[d].lines \o job[c].lines)
  BY <1>4 DEF Rewritten
<1>6. lines \in GoodLines /\ lines \in Seq(ALine)
  BY <1>3, <1>5, LinesJoin, GoodLinesAreLines
<1>7. sign \in {1, -1}
  BY <1>1 DEF Direction
<1> DEFINE row == [doc[d] EXCEPT !.status = "CONFIRMED", !.lines = lines]
<1> DEFINE m == moved[d] + b
<1>8. /\ row \in Document /\ row.status = "CONFIRMED" /\ row.lines = lines
      /\ row.invoice = doc[d].invoice /\ doc' = [doc EXCEPT ![d] = row]
  BY <1>3, <1>4, <1>6 DEF Document
<1> HIDE DEF row
<1>9. /\ w \in Int /\ b \in Int /\ m \in Int /\ moved' = [moved EXCEPT ![d] = m]
      /\ onHand' \in Nat /\ avg' \in Nat /\ variantLock = c
  BY <1>1, <1>2, <1>7, StockApplied
<1>10. Posted(d, w) \in Entries /\ entry' = [entry EXCEPT ![d] = Posted(d, w)]
  BY <1>2, <1>3, <1>9, EntryWritten
<1>11. Writes(c, d, row, m, Posted(d, w))
  BY <1>2, <1>3, <1>8, <1>9, <1>10 DEF Writes, VariantFree
<1>12. StaysFiled(d, row)
  BY <1>2, <1>3, <1>6, <1>8 DEF StaysFiled
<1>13. IsLegacy(d) => Free(c, d)
  BY <1>1, <1>2, <1>3 DEF Working, Holds, IsReturn, Free
<1>14. Quiet(d) => /\ doc[d].status = "DRAFT" /\ doc[d].lines = job[c].there
                   /\ lines = job[c].lines
  BY <1>1, <1>2, <1>3, <1>5 DEF Settled, Working
<1>15. ASSUME Quiet(d) PROVE Kept(d)'
  <2>1. moved[d] = 0 /\ entry[d] = NotPosted /\ Len(doc[d].lines) = 1
    BY <1>3, <1>14, <1>15 DEF IInv, Kept, EffectsOf
  <2>2. Len(lines) = 1
    <3>1. CASE IsLegacy(d)
      <4>1. job[c].lines = AtCurrentCost(job[c].there, job[c].ticks)
        BY <1>1, <1>2, <1>3, <3>1 DEF Working
      <4>2. job[c].there \in GoodLines /\ job[c].ticks \in Nat
        BY <1>3 DEF Jobs
      <4> QED  BY <1>14, <1>15, <2>1, <4>1, <4>2, Priced
    <3>2. CASE ~IsLegacy(d)
      BY <1>1, <1>2, <1>3, <1>14, <1>15, <3>2 DEF Working, IsReturn
    <3> QED  BY <3>1, <3>2
  <2>3. Boards(lines) \in Int /\ Worth(lines) \in Int
    BY <1>6, BoardsType, WorthType
  <2>4. doc'[d] = row /\ moved'[d] = m /\ entry'[d] = Posted(d, w)
    BY <1>3, <1>8, <1>9, <1>10 DEF IInv, Stored
  <2>5. Posted(d, w) = IF w # 0 THEN [status |-> "POSTED", amount |-> w] ELSE NotPosted
    BY <2>1 DEF Posted
  <2>6. Direction(d)' = sign
    BY <1>1, <1>8, <2>4 DEF Direction, IsReturn
  <2>7. m = sign * Boards(lines) /\ w = sign * Worth(lines)
    BY <1>1, <1>9, <1>14, <1>15, <2>1
  <2>8. w = 0 => Worth(lines) = 0
    BY <1>7, <2>3, <2>7
  <2> HIDE DEF m
  <2> QED  BY <1>3, <1>8, <2>2, <2>4, <2>5, <2>6, <2>7, <2>8 DEF Kept, EffectsOf, NotPosted
<1>16. ASSUME NEW i \in Invoices PROVE Returned(i)'
  <2>1. CASE i # doc[d].invoice \/ d \in overlapped
    BY <1>2, <1>8, <2>1, ReturnLeavesOthers
  <2>2. CASE i = doc[d].invoice /\ d \notin overlapped
    <3>1. i # NoOne /\ ~IsLegacy(d) /\ Quiet(d)
      BY <2>2, DocumentAssumption DEF IsLegacy, Quiet, Documents, IsReturn, IInv, Stored
    <3>2. /\ doc'[d] = row /\ \A x \in Documents \ {d} : doc'[x] = doc[x]
          /\ i \in Documents \ {d} /\ Returns \subseteq Documents
      BY <1>3, <1>8, <2>2 DEF IInv, Stored, Documents
    <3>3. /\ ReturnsOf(i)' = ReturnsOf(i) /\ d \in Returns \ Confirmed(i) /\ d \in ReturnsOf(i)
          /\ Confirmed(i)' = Confirmed(i) \cup {d}
          /\ \A s \in Confirmed(i) : doc'[s].lines = doc[s].lines
      BY <1>2, <1>8, <1>14, <2>2, <3>1, <3>2 DEF ReturnsOf, Confirmed
    <3>4. /\ Already(i)'.boards = Already(i).boards + Boards(job[c].lines)
          /\ Already(i)'.worth = Already(i).worth + Worth(job[c].lines)
      BY <1>6, <1>8, <1>14, <3>1, <3>2, <3>3, AlreadyMore
    <3>5. lock[i] = c
      BY <1>1, <1>2, <1>3, <2>2, <3>1 DEF Working, Holds, IsReturn
    <3>6. ASSUME NEW x \in Handlers PROVE ~Returning(x, i)'
      <4> SUFFICES ASSUME Returning(x, i)' PROVE FALSE
        OBVIOUS
      <4>1. x # c /\ pc'[x] = pc[x] /\ job'[x] = job[x]
        BY <1>2, EndSays DEF Returning
      <4>2. pc[x] \in {"cost", "commit"} /\ job[x].doc \in Documents /\ Working(x)
        BY <4>1, DocumentOf DEF Returning
      <4>3. doc[job[x].doc].invoice = i /\ job[x].op = "confirm" /\ IsReturn(job[x].doc)
        BY <1>8, <2>2, <3>2, <4>1, <4>2 DEF Returning, IsReturn
      <4>4. lock[i] = x
        BY <3>1, <4>2, <4>3 DEF Working, Holds, IsLegacy
      <4> QED  BY <3>5, <4>1, <4>4
    <3>7. Returning(c, i)
      BY <1>1, <1>2, <2>2 DEF Returning, IsReturn
    <3>8. ASSUME Unraced(ReturnsOf(i))' PROVE Fit(i, Already(i).boards, Already(i).worth)'
      <4>1. Unraced(ReturnsOf(i)) /\ overlapped' = overlapped /\ doc'[i] = doc[i]
        BY <1>2, <3>2, <3>3, <3>8, EndSays DEF Unraced
      <4>2. Fit(i, Already(i).boards + Boards(job[c].lines), Already(i).worth + Worth(job[c].lines))
        BY <3>3, <3>7, <4>1 DEF IInv, Returned
      <4> QED  BY <3>4, <4>1, <4>2 DEF Fit
    <3> QED  BY <3>6, <3>8 DEF Returned
  <2> QED  BY <2>1, <2>2
<1> HIDE DEF m
<1> QED  BY <1>1, <1>2, <1>3, <1>8, <1>9, <1>10, <1>11, <1>12, <1>13, <1>15, <1>16, WriteKeepsInv

LEMMA ReturnCancelled ==
    ASSUME IInv, NEW c \in Handlers, CancelReturn(c)
    PROVE  IInv'
<1>1. PICK d, sign : d = job[c].doc /\ sign = -Direction(d)
  OBVIOUS
<1>2. /\ pc[c] = "commit" /\ d \in Returns /\ job[c].op = "cancel"
      /\ ApplyToStock(c, sign) /\ Reverse(d)
      /\ doc' = [doc EXCEPT ![d].status = "CANCELLED"]
      /\ original' = original /\ End(c)
  BY <1>1 DEF CancelReturn, IsReturn
<1>3. /\ d \in Documents /\ d \notin Invoices /\ Working(c) /\ Settled(c) /\ job[c] \in Jobs
      /\ doc[d] \in Document /\ doc[d].lines \in GoodLines /\ Filed(d) /\ doc[d].status # "NONE"
      /\ job[c].lines \in GoodLines /\ original \in [Invoices -> Int]
  BY <1>1, <1>2, Committing
<1>4. sign \in {1, -1} /\ Direction(d) \in {1, -1} /\ job[c].seen = "CONFIRMED"
  <2>1. Direction(d) \in {1, -1}
    BY DEF Direction
  <2>2. job[c].seen = "CONFIRMED"
    BY <1>1, <1>2, <1>3 DEF Working, IsReturn
  <2> QED  BY <1>1, <2>1, <2>2
<1> DEFINE row == [doc[d] EXCEPT !.status = "CANCELLED"]
<1> DEFINE m == moved[d] + sign * Boards(job[c].lines)
<1>5. /\ row \in Document /\ row.status = "CANCELLED" /\ row.lines = doc[d].lines
      /\ row.invoice = doc[d].invoice /\ doc' = [doc EXCEPT ![d] = row]
  BY <1>2, <1>3 DEF Document
<1> HIDE DEF row
<1>6. /\ m \in Int /\ moved' = [moved EXCEPT ![d] = m]
      /\ onHand' \in Nat /\ avg' \in Nat /\ variantLock = c
  BY <1>1, <1>2, <1>4, StockApplied
<1>7. Mirrored(d) \in Entries /\ entry[d] \in Entries /\ entry' = [entry EXCEPT ![d] = Mirrored(d)]
  BY <1>2, <1>3, EntryWritten
<1>8. Writes(c, d, row, m, Mirrored(d))
  BY <1>2, <1>3, <1>5, <1>6, <1>7 DEF Writes, VariantFree
<1>9. StaysFiled(d, row)
  BY <1>2, <1>3, <1>5 DEF StaysFiled
<1>10. IsLegacy(d) => Free(c, d)
  BY <1>1, <1>2, <1>3 DEF Working, Holds, IsReturn, Free
<1>11. ASSUME Quiet(d) PROVE Kept(d)'
  <2>1. /\ doc[d].status = "CONFIRMED" /\ doc[d].lines = job[c].there
        /\ job[c].lines = doc[d].lines
    BY <1>1, <1>2, <1>3, <1>4, <1>11 DEF Settled
  <2>2. /\ moved[d] = Direction(d) * Boards(doc[d].lines) /\ entry[d].status # "REVERSED"
        /\ Len(doc[d].lines) = 1
    BY <1>3, <1>11, <2>1 DEF IInv, Kept, EffectsOf
  <2>3. Boards(doc[d].lines) \in Int
    BY <1>3, BoardsType
  <2>4. m = 0
    BY <1>1, <1>4, <2>1, <2>2, <2>3
  <2>5. Mirrored(d).status # "POSTED"
    BY <1>7 DEF Mirrored, Entries
  <2>6. doc'[d] = row /\ moved'[d] = m /\ entry'[d] = Mirrored(d)
    BY <1>3, <1>5, <1>6, <1>7 DEF IInv, Stored
  <2> HIDE DEF m
  <2> QED  BY <1>3, <1>5, <2>2, <2>4, <2>5, <2>6 DEF Kept, EffectsOf
<1>12. ASSUME NEW i \in Invoices PROVE Returned(i)'
  <2>1. CASE i # doc[d].invoice \/ d \in overlapped
    BY <1>2, <1>5, <2>1, ReturnLeavesOthers
  <2>2. CASE i = doc[d].invoice /\ d \notin overlapped
    <3>1. Quiet(d) /\ i # NoOne
      BY <2>2, DocumentAssumption DEF Quiet, IsLegacy, IsReturn, IInv, Stored, Documents
    <3>2. doc[d].status = "CONFIRMED"
      BY <1>1, <1>2, <1>3, <1>4, <3>1 DEF Settled
    <3>3. /\ doc'[d] = row /\ \A x \in Documents \ {d} : doc'[x] = doc[x]
          /\ i \in Documents \ {d} /\ Returns \subseteq Documents
      BY <1>3, <1>5, <2>2 DEF IInv, Stored, Documents
    <3>4. /\ ReturnsOf(i)' = ReturnsOf(i) /\ d \in Confirmed(i)
          /\ Confirmed(i)' = Confirmed(i) \ {d}
          /\ \A s \in Confirmed(i) : doc'[s].lines = doc[s].lines
      BY <1>2, <1>5, <2>2, <3>2, <3>3 DEF ReturnsOf, Confirmed
    <3>5. Already(i)'.boards < Already(i).boards
      BY <3>4, AlreadyLess
    <3>6. Already(i)'.boards \in Int /\ Already(i).boards \in Nat
      <4>1. Already(i)'.boards = SumFunctionOnSet(ReturnedBoards', Confirmed(i)')
        BY DEF Already, ReturnedBoards
      <4>2. IsFiniteSet(Confirmed(i)')
        BY <3>4, ReturnedTypes, FS_Subset
      <4>3. \A s \in Confirmed(i)' : ReturnedBoards'[s] \in Int
        <5>1. \A s \in Confirmed(i)' : /\ s \in Returns /\ ReturnedBoards[s] \in Int
                                       /\ ReturnedBoards[s] = Boards(doc[s].lines)
                                       /\ doc'[s].lines = doc[s].lines
          BY <3>4, ReturnedTypes
        <5> QED  BY <5>1 DEF ReturnedBoards
      <4> QED  BY <4>1, <4>2, <4>3, SumType, AlreadyType
    <3>7. SUFFICES ASSUME Unraced(ReturnsOf(i))'
                   PROVE  /\ Fit(i, Already(i).boards, Already(i).worth)'
                          /\ \A x \in Handlers : Returning(x, i)' =>
                               Fit(i, Already(i).boards + Boards(job[x].lines),
                                   Already(i).worth + Worth(job[x].lines))'
      BY DEF Returned
    <3>8. Unraced(ReturnsOf(i)) /\ overlapped' = overlapped /\ doc'[i] = doc[i] /\ ReturnsOf(i) # {}
      BY <1>2, <3>3, <3>4, <3>7, EndSays DEF Unraced, Confirmed
    <3>9. PICK n \in Nat : n = doc[i].lines[1].boards
      <4>1. doc[i].status # "NONE"
        BY <1>3, <2>2, <3>1 DEF Filed
      <4> QED  BY <3>3, <4>1, GoodLinesAreLines DEF IInv, Filed, GoodLine
    <3>10. Fit(i, Already(i).boards, Already(i).worth)'
      <4>1. Already(i).boards <= n
        BY <3>8, <3>9 DEF IInv, Returned, Fit
      <4> QED  BY <3>5, <3>6, <3>8, <3>9, <4>1 DEF Fit
    <3>11. ASSUME NEW x \in Handlers, Returning(x, i)'
           PROVE  Fit(i, Already(i).boards + Boards(job[x].lines),
                      Already(i).worth + Worth(job[x].lines))'
      <4>1. x # c /\ pc'[x] = pc[x] /\ job'[x] = job[x]
        BY <1>2, <3>11, EndSays DEF Returning
      <4>2. job[x].doc \in Documents /\ job[x].lines \in GoodLines
        BY <3>11, <4>1, DocumentOf DEF Returning, Jobs
      <4>3. Returning(x, i)
        BY <1>5, <2>2, <3>3, <3>11, <4>1, <4>2 DEF Returning, IsReturn
      <4>4. Already(i).boards + Boards(job[x].lines) <= n
        BY <3>8, <3>9, <4>3 DEF IInv, Returned, Fit
      <4>5. Boards(job[x].lines) \in Nat
        BY <4>2, BoardsType
      <4>6. /\ Already(i)'.boards + Boards(job[x].lines) <= n
            /\ Already(i)'.boards + Boards(job[x].lines) # n
        BY <3>5, <3>6, <3>9, <4>4, <4>5
      <4> QED  BY <3>8, <3>9, <4>1, <4>6 DEF Fit
    <3> QED  BY <3>10, <3>11
  <2> QED  BY <2>1, <2>2
<1> HIDE DEF m
<1> QED  BY <1>1, <1>2, <1>3, <1>5, <1>6, <1>7, <1>8, <1>9, <1>10, <1>11, <1>12, WriteKeepsInv

LEMMA ReturnUpdated ==
    ASSUME IInv, NEW c \in Handlers, UpdateReturn(c)
    PROVE  IInv'
<1>1. PICK d : d = job[c].doc
  OBVIOUS
<1>2. /\ pc[c] = "write" /\ job[c].op = "update" /\ Free(c, d)
      /\ UNCHANGED <<onHand, avg, original, moved, entry>> /\ End(c)
  BY <1>1 DEF UpdateReturn
<1>3. PICK lines \in Rewritten(c, d, job[c].lines) : doc' = [doc EXCEPT ![d].lines = lines]
  BY <1>1 DEF UpdateReturn
<1>4. /\ d \in Documents /\ Working(c) /\ Settled(c) /\ job[c] \in Jobs
      /\ doc[d] \in Document /\ doc[d].lines \in GoodLines /\ Filed(d) /\ doc[d].status # "NONE"
      /\ job[c].lines \in GoodLines /\ (d \in Returns <=> d \notin Invoices)
  BY <1>1, <1>2, Committing
<1>5. /\ d \in Returns /\ d \notin Invoices /\ job[c].seen = "DRAFT" /\ Len(job[c].lines) = 1
  BY <1>1, <1>2, <1>4 DEF Working, Places, IsReturn
<1>6. lines = job[c].lines \/ (doc[d].lines # job[c].there /\ lines = doc[d].lines \o job[c].lines)
  BY <1>3 DEF Rewritten
<1>7. lines \in GoodLines /\ lines \in Seq(ALine)
  BY <1>4, <1>6, LinesJoin, GoodLinesAreLines
<1> DEFINE row == [doc[d] EXCEPT !.lines = lines]
<1>8. /\ row \in Document /\ row.status = doc[d].status /\ row.lines = lines
      /\ row.invoice = doc[d].invoice /\ doc' = [doc EXCEPT ![d] = row]
  BY <1>3, <1>4, <1>7 DEF Document
<1> HIDE DEF row
<1>9. /\ moved[d] \in Int /\ entry[d] \in Entries
      /\ moved' = [moved EXCEPT ![d] = moved[d]] /\ entry' = [entry EXCEPT ![d] = entry[d]]
  BY <1>2, <1>4 DEF IInv, Stored
<1>10. Writes(c, d, row, moved[d], entry[d])
  BY <1>2, <1>8, <1>9 DEF Writes, IInv, Stored
<1>11. StaysFiled(d, row)
  <2>1. ReturnsOf(d) = {}
    BY <1>5, DocumentAssumption DEF ReturnsOf, IInv, Stored, Document, Documents
  <2> QED  BY <1>4, <1>5, <1>7, <1>8, <2>1 DEF StaysFiled
<1>12. Quiet(d) => doc[d].status = "DRAFT" /\ lines = job[c].lines
  BY <1>1, <1>2, <1>4, <1>5, <1>6 DEF Settled
<1>13. ASSUME Quiet(d) PROVE Kept(d)'
  <2>1. moved[d] = 0 /\ entry[d] = NotPosted
    BY <1>4, <1>12, <1>13 DEF IInv, Kept, EffectsOf
  <2>2. doc'[d] = row /\ moved'[d] = 0 /\ entry'[d] = NotPosted
    BY <1>2, <1>4, <1>8, <2>1 DEF IInv, Stored
  <2> QED  BY <1>5, <1>8, <1>12, <1>13, <2>2 DEF Kept, EffectsOf, NotPosted
<1>14. d \notin overlapped => doc[d].status = "DRAFT"
  BY <1>12 DEF Quiet, IInv, Stored
<1>15. \A i \in Invoices : Returned(i)'
  BY <1>2, <1>5, <1>8, <1>14, ReturnLeavesOthers
<1> QED  BY <1>1, <1>2, <1>4, <1>8, <1>9, <1>10, <1>11, <1>13, <1>15, WriteKeepsInv

LEMMA InvoiceRemoved ==
    ASSUME IInv, NEW c \in Handlers, RemoveInvoice(c)
    PROVE  IInv'
<1>1. PICK d : d = job[c].doc
  OBVIOUS
<1>2. /\ pc[c] = "write" /\ job[c].op = "remove" /\ Free(c, d) /\ ReturnsOf(d) = {}
      /\ doc' = [doc EXCEPT ![d].status = "DELETED"]
      /\ UNCHANGED <<onHand, avg, original, moved, entry>> /\ End(c)
  BY <1>1 DEF RemoveInvoice
<1>3. /\ d \in Documents /\ Working(c) /\ Settled(c)
      /\ doc[d] \in Document /\ doc[d].lines \in GoodLines /\ Filed(d) /\ doc[d].status # "NONE"
      /\ (d \in Returns <=> d \notin Invoices)
  BY <1>1, <1>2, Committing
<1>4. d \in Invoices /\ d \notin Returns /\ job[c].seen = "DRAFT"
  BY <1>1, <1>2, <1>3 DEF Working, Places, IsReturn
<1> DEFINE row == [doc[d] EXCEPT !.status = "DELETED"]
<1>5. /\ row \in Document /\ row.status = "DELETED" /\ row.lines = doc[d].lines
      /\ row.invoice = doc[d].invoice /\ doc' = [doc EXCEPT ![d] = row]
  BY <1>2, <1>3 DEF Document
<1> HIDE DEF row
<1>6. /\ moved[d] \in Int /\ entry[d] \in Entries
      /\ moved' = [moved EXCEPT ![d] = moved[d]] /\ entry' = [entry EXCEPT ![d] = entry[d]]
  BY <1>2, <1>3 DEF IInv, Stored
<1>7. Writes(c, d, row, moved[d], entry[d])
  BY <1>2, <1>5, <1>6 DEF Writes, IInv, Stored
<1>8. StaysFiled(d, row)
  BY <1>2, <1>3, <1>5 DEF StaysFiled, Filed
<1>9. ASSUME Quiet(d) PROVE Kept(d)'
  <2>1. doc[d].status = "DRAFT"
    BY <1>1, <1>2, <1>3, <1>4, <1>9 DEF Settled, IsLegacy, IsReturn
  <2>2. moved[d] = 0 /\ entry[d] = NotPosted /\ Len(doc[d].lines) = 1
    BY <1>3, <1>9, <2>1 DEF IInv, Kept, EffectsOf
  <2>3. doc'[d] = row /\ moved'[d] = 0 /\ entry'[d] = NotPosted
    BY <1>2, <1>3, <1>5, <2>2 DEF IInv, Stored
  <2> QED  BY <1>5, <2>2, <2>3 DEF Kept, EffectsOf, NotPosted
<1>10. \A i \in Invoices : Returned(i)'
  BY <1>2, <1>4, <1>5, InvoiceLeavesReturns
<1> QED  BY <1>1, <1>2, <1>3, <1>5, <1>6, <1>7, <1>8, <1>9, <1>10, WriteKeepsInv

-----------------------------------------------------------------------------
(* The invariant, and what follows from it.                                *)

LEMMA StepKeepsInv == IInv /\ [Next]_vars => IInv'
<1> SUFFICES ASSUME IInv, [Next]_vars PROVE IInv'
  OBVIOUS
<1>1. CASE UNCHANGED vars
  <2>1. UNCHANGED <<onHand, avg, doc, original, moved, entry, lock, variantLock, pc, job,
                    overlapped, edited, started>>
    BY <1>1 DEF vars, stored
  <2>2. Stored' /\ Control'
    BY <2>1 DEF IInv, Stored, Control
  <2>3. /\ \A d \in Documents : Filed(d)'
        /\ \A d \in Documents : Quiet(d)' => Kept(d)'
    BY <2>1 DEF IInv, Filed, Quiet, Kept, EffectsOf, Direction, IsLegacy, IsReturn
  <2>4. /\ \A c \in Handlers : Handled(c)' /\ Settled(c)'
        /\ \A b \in Handlers, c \in Handlers : b # c => Met(b, c)'
    BY <2>1 DEF IInv, Handled, Working, Places, Holds, Averages, Settled, Met, Quiet, IsLegacy, IsReturn
  <2>5. ASSUME NEW i \in Invoices PROVE Returned(i)'
    <3>1. SameReturns(i) /\ SameInvoice(i)
      BY <2>1 DEF SameReturns, SameInvoice, ReturnsOf, Confirmed
    <3>2. \A c \in Handlers : Returning(c, i)' => Returning(c, i) /\ job'[c].lines = job[c].lines
      BY <2>1 DEF Returning, IsReturn
    <3> QED  BY <2>1, <3>1, <3>2, ReturnedKept
  <2> QED  BY <2>2, <2>3, <2>4, <2>5 DEF IInv
<1>2. CASE \E d \in Purchases : CreatePurchase(d)
  BY <1>2, PurchaseCreated
<1>3. CASE \E d \in Sales : CreateSale(d)
  BY <1>3, SaleCreated
<1>4. CASE \E d \in Returns : CreateReturn(d)
  BY <1>4, ReturnCreated
<1>5. ASSUME NEW c \in Handlers, NEW d \in Documents, StartConfirm(c, d) \/ StartCancel(c, d)
      PROVE  IInv'
  BY <1>5, ConfirmStarts, CancelStarts
<1>6. ASSUME NEW c \in Handlers, NEW r \in Returns, StartUpdate(c, r) PROVE IInv'
  BY <1>6, UpdateStarts
<1>7. ASSUME NEW c \in Handlers, NEW i \in Invoices, StartRemove(c, i) PROVE IInv'
  BY <1>7, RemoveStarts
<1>8. ASSUME NEW c \in Handlers, LockInvoice(c) \/ LockLegacy(c) \/ LockVariant(c) PROVE IInv'
  BY <1>8, InvoiceLocked, LegacyLocked, VariantLocked
<1>9. ASSUME NEW c \in Handlers, ConfirmPurchase(c) \/ ConfirmSale(c) \/ CancelInvoice(c)
      PROVE  IInv'
  BY <1>9, PurchaseConfirmed, SaleConfirmed, InvoiceCancelled
<1>10. ASSUME NEW c \in Handlers,
              ConfirmReturn(c) \/ CancelReturn(c) \/ UpdateReturn(c) \/ RemoveInvoice(c) \/ Abort(c)
       PROVE  IInv'
  BY <1>10, ReturnConfirmed, ReturnCancelled, ReturnUpdated, InvoiceRemoved, Aborted
<1> QED  BY <1>1, <1>2, <1>3, <1>4, <1>5, <1>6, <1>7, <1>8, <1>9, <1>10 DEF Next

(* However requests interleave: what is stored is well-formed, a handler   *)
(* commits only what still holds by its locks or because nobody raced for  *)
(* its document, and what is returned of an invoice, or about to be, fits. *)
THEOREM ReturnsInvariant == Spec => []IInv
<1>1. Init => IInv
  BY InitInv
<1>2. IInv /\ [Next]_vars => IInv'
  BY StepKeepsInv
<1> QED  BY <1>1, <1>2, PTL DEF Spec

(* Every variable has its type in every reachable state; stock and average *)
(* cost, which purchases and returns write, are never negative.            *)
THEOREM ReturnsTypeCorrect == Spec => []TypeOK
<1>1. IInv => TypeOK
  <2> SUFFICES ASSUME IInv PROVE TypeOK
    OBVIOUS
  <2>1. ASSUME NEW c \in Handlers
        PROVE  \/ pc[c] = "idle" /\ job[c] = Idle
               \/ /\ pc[c] \in {"lock", "cost", "commit", "write"}
                  /\ job[c].op \in {"confirm", "cancel", "update", "remove"}
                  /\ job[c].doc \in Documents
                  /\ job[c].lines \in Seq(ALine)
    <3>1. pc[c] \in {"idle", "lock", "cost", "commit", "write"}
      BY DEF IInv, Control
    <3>2. CASE pc[c] = "idle"
      BY <3>2 DEF IInv, Handled
    <3>3. CASE pc[c] # "idle"
      BY <3>1, <3>3, DocumentOf, GoodLinesAreLines DEF Jobs
    <3> QED  BY <3>2, <3>3
  <2> QED  BY <2>1 DEF IInv, Stored, Control, TypeOK, Entries
<1> QED  BY <1>1, ReturnsInvariant, PTL

(* Of any invoice, returns confirmed next to each other never take back    *)
(* more than it has.                                                       *)
THEOREM ReturnedAlwaysWithinInvoice == Spec => []ReturnedWithinInvoice
<1>1. IInv => ReturnedWithinInvoice
  BY DEF IInv, Returned, Fit, ReturnedWithinInvoice, Confirmed
<1> QED  BY <1>1, ReturnsInvariant, PTL

(* Of any invoice that is returned in full, the parts are worth exactly    *)
(* what it is.                                                             *)
THEOREM FullReturnsReconcile == Spec => []FullReturnReconciles
<1>1. IInv => FullReturnReconciles
  BY DEF IInv, Returned, Fit, FullReturnReconciles, Confirmed, Unraced
<1> QED  BY <1>1, ReturnsInvariant, PTL

(* Any document has moved the boards, and has the entry, its status says:  *)
(* no second click, retry or cancellation posts or moves twice.            *)
THEOREM ReturnEffectsFollowStatus == Spec => []EffectsFollowStatus
<1>1. IInv => EffectsFollowStatus
  BY DEF IInv, Kept, EffectsFollowStatus
<1> QED  BY <1>1, ReturnsInvariant, PTL

-----------------------------------------------------------------------------
(* What a commit does to the average.                                      *)

(* While a handler is about to commit an average it has computed, nobody   *)
(* else moves stock: whoever would needs the variant.                      *)
LEMMA OnlyItsCommit ==
    ASSUME IInv, Next, NEW c \in Handlers, Costed(c), onHand' # onHand
    PROVE  ConfirmPurchase(c) \/ ConfirmReturn(c) \/ CancelReturn(c)
<1>1. /\ pc[c] = "commit" /\ variantLock = c /\ Working(c) /\ NoOne \notin Handlers
      /\ ~(job[c].doc \in Sales /\ job[c].op = "confirm")
      /\ ~(job[c].doc \in Invoices /\ job[c].op = "cancel")
  <2>1. pc[c] = "commit" /\ Averages(c)
    BY DEF Costed, Averages
  <2>2. Working(c)
    BY <2>1, DocumentOf
  <2> QED  BY <2>1, <2>2, DocumentAssumption DEF Working, Holds, Costed, IsReturn, Invoices
<1>2. ASSUME NEW b \in Handlers, pc[b] = "commit", Averages(b) PROVE b = c
  <2>1. Working(b)
    BY <1>2, DocumentOf
  <2> QED  BY <1>1, <1>2, <2>1 DEF Working, Holds
<1>3. \A d : ~CreatePurchase(d) /\ ~CreateSale(d) /\ ~CreateReturn(d)
  BY DEF CreatePurchase, CreateSale, CreateReturn, Created
<1>4. \A b, d : ~StartConfirm(b, d) /\ ~StartCancel(b, d) /\ ~StartUpdate(b, d) /\ ~StartRemove(b, d)
  BY DEF StartConfirm, StartCancel, StartUpdate, StartRemove, Start, stored
<1>5. ASSUME NEW b \in Handlers
      PROVE  ~LockInvoice(b) /\ ~LockLegacy(b) /\ ~LockVariant(b) /\ ~UpdateReturn(b)
             /\ ~RemoveInvoice(b) /\ ~Abort(b)
  BY DEF LockInvoice, LockLegacy, LockVariant, UpdateReturn, RemoveInvoice, Abort, Rollback, stored
<1>6. ASSUME NEW b \in Handlers, ConfirmSale(b) \/ CancelInvoice(b) PROVE FALSE
  BY <1>1, <1>6 DEF ConfirmSale, CancelInvoice, VariantFree
<1>7. ASSUME NEW b \in Handlers, ConfirmPurchase(b) \/ ConfirmReturn(b) \/ CancelReturn(b)
      PROVE  b = c
  BY <1>2, <1>7 DEF ConfirmPurchase, ConfirmReturn, CancelReturn, Averages
<1> QED  BY <1>3, <1>4, <1>5, <1>6, <1>7 DEF Next

(* The ledger moves by what one entry of it is changed by.                 *)
LEMMA LedgerMoved ==
    ASSUME IInv, NEW d \in Documents, NEW e \in Entries, entry' = [entry EXCEPT ![d] = e]
    PROVE  Ledger \in Int /\ Ledger' = Ledger - Booked(entry[d]) + Booked(e)
<1> DEFINE f == [x \in Documents |-> Booked(entry[x])]
           g == [x \in Documents |-> Booked(entry'[x])]
<1>1. Ledger = SumFunctionOnSet(f, Documents) /\ Ledger' = SumFunctionOnSet(g, Documents)
  BY DEF Ledger, SumFunction
<1>2. \A x \in Documents : entry[x] \in Entries /\ entry'[x] \in Entries
  BY DEF IInv, Stored
<1>3. \A x \in Documents : f[x] \in Int /\ g[x] \in Int
  BY <1>2 DEF Booked, Entries
<1>4. \A x \in Documents \ {d} : g[x] = f[x]
  BY DEF IInv, Stored
<1>5. f[d] = Booked(entry[d]) /\ g[d] = Booked(e)
  BY DEF IInv, Stored
<1> HIDE DEF f, g
<1>6. IsFiniteSet(Documents)
  BY DocumentAssumption
<1>7. SumFunctionOnSet(g, Documents) = SumFunctionOnSet(f, Documents) - f[d] + g[d]
  BY <1>3, <1>4, <1>6, SumChange
<1>8. SumFunctionOnSet(f, Documents) \in Int
  BY <1>3, <1>6, SumType
<1> QED  BY <1>1, <1>5, <1>7, <1>8

(* Posting on a document without an entry books its amount.                *)
LEMMA PostBooks ==
    ASSUME IInv, NEW d \in Documents, NEW amount \in Int, Post(d, amount), entry[d] = NotPosted
    PROVE  Ledger' = Ledger + amount
<1>1. Posted(d, amount) \in Entries /\ entry' = [entry EXCEPT ![d] = Posted(d, amount)]
  BY EntryWritten
<1>2. Booked(entry[d]) = 0 /\ Booked(Posted(d, amount)) = amount
  BY DEF Booked, Posted, NotPosted
<1>3. Ledger \in Int /\ Ledger' = Ledger - Booked(entry[d]) + Booked(Posted(d, amount))
  BY <1>1, LedgerMoved
<1> QED  BY <1>2, <1>3

(* Boards and worth a commit moves: the average is that of what is then on *)
(* hand, and the ledger has moved by the same worth; or boards have no     *)
(* cost, and the average stays.                                            *)
Moves(c, b, w) ==
    /\ b \in Int /\ w \in Int /\ onHand' = onHand + b
    /\ job[c].lines[1].valued =>
         avg' = AverageAfter(onHand, avg, b, w) /\ Ledger' = Ledger + w
    /\ ~job[c].lines[1].valued => avg' = avg

LEMMA PurchaseMoves ==
    ASSUME IInv, NEW c \in Handlers, ConfirmPurchase(c), Quiet(job[c].doc)
    PROVE  /\ Moves(c, job[c].lines[1].boards, job[c].lines[1].worth)
           /\ ~IsReturn(job[c].doc)
<1>1. PICK d, l : d = job[c].doc /\ l = job[c].lines[1]
  OBVIOUS
<1>2. /\ pc[c] = "commit" /\ d \in Purchases /\ job[c].op = "confirm"
      /\ Move(d, l.boards) /\ Average(c, l.boards, l.worth) /\ Post(d, l.worth)
  BY <1>1 DEF ConfirmPurchase
<1>3. d \in Documents /\ d \in Invoices /\ d \notin Returns /\ Working(c) /\ Settled(c) /\ l \in GoodLine
  BY <1>1, <1>2, Committing DEF Invoices
<1>4. variantLock = c /\ job[c].ticks = avg /\ job[c].boards = onHand
  BY <1>1, <1>2, <1>3 DEF Working, Holds, Averages
<1>5. doc[d].status = "DRAFT" /\ l.valued
  BY <1>1, <1>2, <1>3 DEF Working, Settled, IsLegacy, IsReturn
<1>6. entry[d] = NotPosted
  BY <1>1, <1>3, <1>5 DEF IInv, Kept
<1>7. Ledger' = Ledger + l.worth
  BY <1>2, <1>3, <1>6, PostBooks DEF GoodLine
<1> QED  BY <1>1, <1>2, <1>3, <1>4, <1>5, <1>7 DEF Moves, GoodLine, Move, Average, IsReturn

LEMMA ReturnMoves ==
    ASSUME IInv, NEW c \in Handlers, Quiet(job[c].doc), NEW sign \in {1, -1},
           \/ ConfirmReturn(c) /\ sign = Direction(job[c].doc)
           \/ CancelReturn(c) /\ sign = -Direction(job[c].doc)
    PROVE  Moves(c, sign * Boards(job[c].lines), sign * Worth(job[c].lines))
<1>1. PICK d, w : d = job[c].doc /\ w = sign * Worth(job[c].lines)
  OBVIOUS
<1>2. /\ pc[c] = "commit" /\ d \in Returns /\ ApplyToStock(c, sign)
      /\ \/ job[c].op = "confirm" /\ sign = Direction(d) /\ Post(d, w)
         \/ job[c].op = "cancel" /\ sign = -Direction(d) /\ Reverse(d)
  BY <1>1 DEF ConfirmReturn, CancelReturn, IsReturn
<1>3. /\ d \in Documents /\ Working(c) /\ Settled(c) /\ job[c].lines \in GoodLines
      /\ doc[d].lines \in GoodLines
  BY <1>1, <1>2, Committing
<1>4. /\ sign * Boards(job[c].lines) \in Int /\ w \in Int
      /\ onHand' = onHand + sign * Boards(job[c].lines)
      /\ job[c].ticks = avg /\ job[c].boards = onHand
  BY <1>1, <1>2, StockApplied
<1>5. Ledger' = Ledger + w
  <2>1. CASE job[c].op = "confirm"
    <3>1. doc[d].status = "DRAFT"
      BY <1>1, <1>2, <1>3, <2>1 DEF Working, Settled
    <3>2. entry[d] = NotPosted
      BY <1>1, <1>3, <3>1 DEF IInv, Kept
    <3> QED  BY <1>2, <1>3, <1>4, <2>1, <3>2, PostBooks
  <2>2. CASE job[c].op = "cancel"
    <3>1. doc[d].status = "CONFIRMED" /\ job[c].lines = doc[d].lines
      BY <1>1, <1>2, <1>3, <2>2 DEF Working, Settled, IsReturn
    <3>2. /\ entry[d].status # "REVERSED"
          /\ entry[d] # NotPosted => entry[d].amount = Direction(d) * Worth(doc[d].lines)
          /\ entry[d].status = "NONE" => Worth(doc[d].lines) = 0
      BY <1>1, <1>3, <3>1 DEF IInv, Kept, EffectsOf
    <3>3. /\ Mirrored(d) \in Entries /\ entry[d] \in Entries
          /\ entry' = [entry EXCEPT ![d] = Mirrored(d)]
      BY <1>2, <1>3, <2>2, EntryWritten
    <3>4. Booked(Mirrored(d)) = 0
      BY <3>3 DEF Mirrored, Booked, Entries
    <3>5. Worth(doc[d].lines) \in Int
      BY <1>3, WorthType
    <3>6. Booked(entry[d]) = Direction(d) * Worth(doc[d].lines) /\ Direction(d) \in {1, -1}
      <4>1. Direction(d) \in {1, -1}
        BY DEF Direction
      <4>2. CASE entry[d].status = "POSTED"
        BY <3>2, <4>1, <4>2 DEF Booked, NotPosted
      <4>3. CASE entry[d].status = "NONE"
        BY <3>2, <4>1, <4>3 DEF Booked
      <4> QED  BY <3>2, <3>3, <4>1, <4>2, <4>3 DEF Entries
    <3>7. w = -Booked(entry[d])
      BY <1>1, <1>2, <2>2, <3>1, <3>5, <3>6
    <3>8. Ledger \in Int /\ Ledger' = Ledger - Booked(entry[d]) + Booked(Mirrored(d))
      BY <1>3, <3>3, LedgerMoved
    <3>9. Booked(entry[d]) \in Int
      BY <3>5, <3>6
    <3> QED  BY <3>4, <3>7, <3>8, <3>9
  <2> QED  BY <1>2, <2>1, <2>2
<1>6. /\ job[c].lines[1].valued => Average(c, sign * Boards(job[c].lines), w)
      /\ ~job[c].lines[1].valued => avg' = avg
  <2>1. job[c].lines[1].valued \in CostBasis(job[c].lines) /\ job[c].lines[1].valued \in BOOLEAN
    BY <1>3, GoodLinesAreLines DEF CostBasis, GoodLine
  <2> QED  BY <1>1, <1>2, <2>1 DEF ApplyToStock
<1> QED  BY <1>1, <1>4, <1>5, <1>6 DEF Moves, Average

(* After a commit stock is worth what it was and what came, up to half a   *)
(* tick a board.                                                           *)
LEMMA AverageWithin ==
    ASSUME NEW n \in Nat, NEW t \in Nat, NEW b \in Int, NEW w \in Int, n + b > 0
    PROVE  /\ AverageAfter(n, t, b, w) \in Int
           /\ 2 * ((n + b) * AverageAfter(n, t, b, w)) <= 2 * (n * t) + 2 * (Scale * w) + (n + b)
           /\ 2 * (n * t) + 2 * (Scale * w) < 2 * ((n + b) * AverageAfter(n, t, b, w)) + (n + b)
<1>1. PICK v, m : v = ValueAfter(n, t, w) /\ m = n + b
  OBVIOUS
<1>2. n * t \in Int /\ Scale * w \in Int /\ w * Scale = Scale * w
  BY ScaleAssumption
<1>3. v \in Int /\ m \in Nat \ {0} /\ 2 * v = 2 * (n * t) + 2 * (Scale * w)
  BY <1>1, <1>2 DEF ValueAfter
<1>4. AverageAfter(n, t, b, w) = HalfUp(v, m)
  BY <1>1 DEF AverageAfter
<1>5. /\ HalfUp(v, m) \in Int /\ 2 * (m * HalfUp(v, m)) <= 2 * v + m
      /\ 2 * v < 2 * (m * HalfUp(v, m)) + m
  BY <1>3, HalfUpBounds
<1> QED  BY <1>1, <1>3, <1>4, <1>5

LEMMA LedgerFollowed ==
    ASSUME IInv, NEW c \in Handlers, NEW b, NEW w, Moves(c, b, w), avg' \in Nat
    PROVE  FollowsLedger(c)
<1> SUFFICES ASSUME onHand' > 0, job[c].lines[1].valued
             PROVE  Within(2 * (Scale * (Ledger' - Ledger) - (onHand' * avg' - onHand * avg)), onHand')
  BY DEF FollowsLedger
<1>1. /\ b \in Int /\ w \in Int /\ onHand' = onHand + b /\ onHand \in Nat /\ avg \in Nat
      /\ avg' = AverageAfter(onHand, avg, b, w) /\ Ledger' = Ledger + w
  BY DEF Moves, IInv, Stored
<1>2. Ledger \in Int
  <2>1. \A d \in Documents : Booked(entry[d]) \in Int
    BY DEF IInv, Stored, Booked, Entries
  <2> DEFINE f == [x \in Documents |-> Booked(entry[x])]
  <2>2. \A d \in Documents : f[d] \in Int
    BY <2>1
  <2>3. Ledger = SumFunctionOnSet(f, Documents)
    BY DEF Ledger, SumFunction
  <2> HIDE DEF f
  <2> QED  BY <2>2, <2>3, SumType, DocumentAssumption
<1>3. PICK before, after, booked : /\ before = onHand * avg /\ after = onHand' * avg'
                                   /\ booked = Scale * w
  OBVIOUS
<1>4. /\ before \in Int /\ after \in Int /\ booked \in Int
      /\ 2 * after <= 2 * before + 2 * booked + onHand'
      /\ 2 * before + 2 * booked < 2 * after + onHand'
  <2>1. onHand' \in Nat /\ avg' \in Int
    BY <1>1
  <2>2. before \in Int /\ after \in Int /\ booked \in Int
    BY <1>1, <1>3, <2>1, ScaleAssumption
  <2> QED  BY <1>1, <1>3, <2>2, AverageWithin
<1>5. Scale * (Ledger' - Ledger) = booked
  <2>1. Ledger' - Ledger = w
    BY <1>1, <1>2
  <2> QED  BY <1>3, <2>1
<1>6. onHand' \in Int
  BY <1>1
<1>7. /\ -onHand' <= 2 * (booked - (after - before))
      /\ 2 * (booked - (after - before)) <= onHand'
  BY <1>4, <1>6
<1> QED  BY <1>3, <1>5, <1>7 DEF Within

LEMMA LegacyKept ==
    ASSUME IInv, NEW c \in Handlers, ConfirmReturn(c), IsLegacy(job[c].doc), Quiet(job[c].doc),
           job[c].lines[1].valued, onHand' # onHand
    PROVE  Within(2 * onHand' * (avg' - avg), Scale + onHand')
<1>1. PICK d, l : d = job[c].doc /\ l = job[c].lines[1]
  OBVIOUS
<1>2. pc[c] = "commit" /\ d \in Returns /\ job[c].op = "confirm" /\ IsLegacy(d)
  BY <1>1 DEF ConfirmReturn, IsReturn
<1>3. /\ d \in Documents /\ Working(c) /\ Settled(c) /\ job[c] \in Jobs /\ job[c].lines \in GoodLines
      /\ doc[d].lines \in GoodLines /\ doc[d].status # "NONE" /\ onHand \in Nat /\ avg \in Nat
  BY <1>1, <1>2, Committing
<1>4. Direction(d) = 1
  BY <1>2, DocumentAssumption DEF Direction, IsLegacy, Invoices, Documents
<1>5. /\ Len(doc[d].lines) = 1 /\ doc[d].lines = job[c].there
      /\ job[c].lines = AtCurrentCost(job[c].there, avg)
  BY <1>1, <1>2, <1>3 DEF IInv, Kept, Settled, Working, Holds, Averages, IsReturn
<1>6. PICK n \in Nat \ {0} : n = job[c].there[1].boards
  BY <1>3, <1>5, GoodLinesAreLines DEF GoodLine
<1>7. Len(job[c].lines) = 1 /\ l = Line(n, Cents(n, avg), avg > 0)
  BY <1>1, <1>3, <1>5, <1>6, Priced, GoodLinesAreLines
<1>8. PICK w \in Int : w = Cents(n, avg)
  <2>1. n \in Nat /\ avg \in Nat
    BY <1>3
  <2>2. Cents(n, avg) \in Nat
    BY <2>1, CentsNat
  <2> QED  BY <2>2
<1>9. Boards(job[c].lines) = n /\ Worth(job[c].lines) = w
  <2>1. job[c].lines = <<l>> /\ l \in GoodLine
    BY <1>1, <1>3, <1>7, TheOneLine
  <2>2. l.boards = n /\ l.worth = w
    BY <1>7, <1>8 DEF Line
  <2> QED  BY <2>1, <2>2, OneLineSums
<1>10. onHand' = onHand + n /\ avg' = AverageAfter(onHand, avg, n, w)
  <2>1. Moves(c, 1 * Boards(job[c].lines), 1 * Worth(job[c].lines))
    BY <1>1, <1>4, ReturnMoves
  <2> QED  BY <1>9, <2>1 DEF Moves
<1>11. PICK p, q, r, s : /\ p = onHand * avg /\ q = n * avg /\ r = Scale * w /\ s = onHand' * avg'
  OBVIOUS
<1>12. /\ avg' \in Int /\ 2 * s <= 2 * p + 2 * r + onHand' /\ 2 * p + 2 * r < 2 * s + onHand'
  <2>1. onHand \in Nat /\ avg \in Nat /\ n \in Int /\ onHand + n > 0
    BY <1>3
  <2>2. /\ AverageAfter(onHand, avg, n, w) \in Int
        /\ 2 * ((onHand + n) * AverageAfter(onHand, avg, n, w))
             <= 2 * (onHand * avg) + 2 * (Scale * w) + (onHand + n)
        /\ 2 * (onHand * avg) + 2 * (Scale * w)
             < 2 * ((onHand + n) * AverageAfter(onHand, avg, n, w)) + (onHand + n)
    BY <2>1, AverageWithin
  <2> QED  BY <1>10, <1>11, <2>2
<1>13. 2 * r <= 2 * q + Scale /\ 2 * q < 2 * r + Scale
  <2>1. n * avg \in Int
    BY <1>3
  <2> QED  BY <1>8, <1>11, <2>1, HalfUpBounds, ScaleAssumption DEF Cents
<1>14. p \in Int /\ q \in Int /\ r \in Int /\ s \in Int /\ onHand' \in Int /\ Scale \in Int
  BY <1>3, <1>8, <1>10, <1>11, <1>12, ScaleAssumption
<1>15. 2 * onHand' * (avg' - avg) = 2 * s - 2 * (p + q)
  <2>1. ASSUME NEW x \in Int, NEW y \in Int, NEW u \in Int, NEW v \in Int
        PROVE  2 * (x + y) * (u - v) = 2 * ((x + y) * u) - 2 * (x * v + y * v)
    OBVIOUS
  <2> QED  BY <1>3, <1>10, <1>11, <1>12, <2>1
<1>16. /\ -(Scale + onHand') <= 2 * s - 2 * (p + q)
       /\ 2 * s - 2 * (p + q) <= Scale + onHand'
  <2>1. PICK h \in Int : h = onHand'
    BY <1>14
  <2>2. 2 * s <= 2 * p + 2 * r + h /\ 2 * p + 2 * r < 2 * s + h
    BY <1>12, <2>1
  <2>3. 2 * s - 2 * (p + q) <= Scale + h
    BY <1>13, <1>14, <2>2
  <2>4. -(Scale + h) <= 2 * s - 2 * (p + q)
    BY <1>13, <1>14, <2>2
  <2> QED  BY <2>1, <2>3, <2>4
<1> QED  BY <1>15, <1>16 DEF Within

(* Whatever handlers have read and commit between each other's steps: a    *)
(* purchase or return moves the value of stock as it moves the ledger, and *)
(* a return without an invoice does not move the average.                  *)
THEOREM AverageAlwaysFollows == Spec => AverageFollowsGoods
<1>1. ASSUME IInv, [Next]_vars PROVE [\A c \in Handlers : FollowsLedger(c) /\ KeptByLegacy(c)]_vars
  <2> SUFFICES ASSUME Next, NEW c \in Handlers PROVE FollowsLedger(c) /\ KeptByLegacy(c)
    BY <1>1
  <2>1. CASE ~(Costed(c) /\ Quiet(job[c].doc) /\ onHand' # onHand)
    BY <2>1 DEF FollowsLedger, KeptByLegacy
  <2>2. CASE Costed(c) /\ Quiet(job[c].doc) /\ onHand' # onHand
    <3>1. avg' \in Nat
      BY <1>1, StepKeepsInv DEF IInv, Stored
    <3>2. CASE ConfirmPurchase(c)
      <4>1. /\ Moves(c, job[c].lines[1].boards, job[c].lines[1].worth)
            /\ ~IsReturn(job[c].doc)
        BY <1>1, <2>2, <3>2, PurchaseMoves
      <4> QED  BY <1>1, <3>1, <4>1, LedgerFollowed DEF KeptByLegacy, IsLegacy
    <3>3. CASE ConfirmReturn(c) \/ CancelReturn(c)
      <4>1. PICK sign \in {1, -1} : \/ ConfirmReturn(c) /\ sign = Direction(job[c].doc)
                                    \/ CancelReturn(c) /\ sign = -Direction(job[c].doc)
        <5>1. Direction(job[c].doc) \in {1, -1}
          BY DEF Direction
        <5> QED  BY <3>3, <5>1
      <4>2. Moves(c, sign * Boards(job[c].lines), sign * Worth(job[c].lines))
        BY <1>1, <2>2, <4>1, ReturnMoves
      <4>3. FollowsLedger(c)
        BY <1>1, <3>1, <4>2, LedgerFollowed
      <4>4. job[c].op = "confirm" => ConfirmReturn(c)
        BY <3>3 DEF CancelReturn
      <4>5. KeptByLegacy(c)
        BY <1>1, <2>2, <4>2, <4>4, LegacyKept DEF KeptByLegacy, Moves
      <4> QED  BY <4>3, <4>5
    <3> QED  BY <1>1, <2>2, <3>2, <3>3, OnlyItsCommit
  <2> QED  BY <2>1, <2>2
<1> QED  BY <1>1, ReturnsInvariant, PTL DEF Spec, AverageFollowsGoods

=============================================================================
