----------------------------- MODULE ValuationReplay -----------------------------
(***************************************************************************)
(* The valuation replay (invoice-revisions/valuation-replay.ts): what the  *)
(* pool of a variant would be worth, and what would have been issued from  *)
(* it, had a receipt always been another one.  Movements carry no value,   *)
(* so the replay goes back from the present to the receipt and forward     *)
(* again, once with the receipt as it is and once with the other one.      *)
(*                                                                         *)
(* Nothing is rounded in a replay; its tolerances (a cent or less) are     *)
(* smaller than any difference of the values a model takes.                *)
(***************************************************************************)
EXTENDS Fractions, Sequences, SequencesExt

NoRate == "no rate"

(* What a pool is worth per metre.                                         *)
Rate(pool) == IF pool.meters > 0 THEN pool.value // pool.meters ELSE Nothing

(* Slip: what is issued leaves at the rate its document recorded.          *)
InflowAsRecorded(pool, e) ==
    CASE e.kind = "VALUE_OUT"                -> Nothing -- e.value
      [] e.kind \in {"RECEIPT", "VALUE_IN"}  -> e.value
      [] e.kind = "ISSUE" /\ e.rate # NoRate -> e.rate ** e.meters
      [] OTHER                               -> Rate(pool) ** e.meters

(* The value that comes into the pool with an event: known of receipts and *)
(* returns, otherwise its metres at the rate of the pool.                  *)
Inflow(pool, e) ==
    CASE e.kind = "VALUE_OUT"               -> Nothing -- e.value
      [] e.kind \in {"RECEIPT", "VALUE_IN"} -> e.value
      [] OTHER                              -> Rate(pool) ** e.meters

(* The pool before an event, from the pool after it.  An empty pool has no *)
(* rate: then the event's own rate counts, if it recorded one.             *)
Before(pool, e) ==
    LET meters == pool.meters - e.meters
    IN  [meters |-> meters,
         value  |-> IF e.kind \in {"RECEIPT", "VALUE_IN", "VALUE_OUT"} THEN pool.value -- Inflow(pool, e)
                    ELSE IF pool.meters > 0 THEN Rate(pool) ** meters
                    ELSE IF e.rate # NoRate THEN e.rate ** meters
                    ELSE Nothing]

(* The way back must not pass a pool with less than nothing in it, or come *)
(* to an empty one whose value has no rate to go by.                       *)
Possible(pool, e) ==
    /\ Before(pool, e).meters >= 0 /\ ~Negative(Before(pool, e).value)
    /\ pool.meters > 0 \/ e.kind \notin {"ISSUE", "QUANTITY_ONLY"} \/ e.rate # NoRate \/ pool.value = Nothing

Back(e, back) == [pool |-> Before(back.pool, e), safe |-> back.safe /\ Possible(back.pool, e)]

Rewind(present, events) == FoldRight(Back, events, [pool |-> present, safe |-> TRUE])

(* Forward: the pool, and what came in at a known value, what was issued   *)
(* and what counts and compensations moved.                                *)
Forward(r, e) ==
    LET n == Inflow(r.pool, e)
        of(kinds, sum, value) == IF e.kind \in kinds THEN sum ++ value ELSE sum
    IN  [pool   |-> [meters |-> r.pool.meters + e.meters, value |-> r.pool.value ++ n],
         known  |-> of({"RECEIPT", "VALUE_IN", "VALUE_OUT"}, r.known, n),
         issued |-> of({"ISSUE"}, r.issued, Nothing -- n),
         moved  |-> of({"QUANTITY_ONLY"}, r.moved, n),
         safe   |-> r.safe /\ r.pool.meters + e.meters >= 0]

Start(pool) == [pool |-> pool, known |-> Nothing, issued |-> Nothing, moved |-> Nothing, safe |-> TRUE]

Replay(pool, events) == FoldLeft(Forward, Start(pool), events)

(* compareTimelines: the replay of what happened and of what should have.  *)
Compare(present, events, revised) ==
    LET anchor == Rewind(present, events)
        was    == Replay(anchor.pool, events)
        would  == Replay(anchor.pool, revised)
    IN  [ending       |-> would.pool,
         knownDelta   |-> would.known -- was.known,
         cogsDelta    |-> would.issued -- was.issued,
         movedDelta   |-> would.moved -- was.moved,
         endingDelta  |-> would.pool.value -- was.pool.value,
         established  |-> anchor.safe /\ was.safe /\ would.safe /\ was.pool = present]

(* What comes in more ends in stock, in cost of sales or in what counts    *)
(* have moved.                                                             *)
Conserves(c) == c.knownDelta = (c.endingDelta ++ c.cogsDelta) -- c.movedDelta

=============================================================================
