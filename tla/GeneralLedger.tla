---------------------------- MODULE GeneralLedger ----------------------------
(***************************************************************************)
(* What the journal promises (principles VI and VII of the constitution):  *)
(* balanced entries, appended once per idempotency key, never edited and   *)
(* never deleted; a correction is a mirrored entry linked to its original, *)
(* which is marked REVERSED in the same step.                              *)
(***************************************************************************)
EXTENDS Integers, Sequences, SequencesExt, Functions

CONSTANTS
    Treasuries,      \* GL accounts of cash and bank treasuries
    Others,          \* every other postable account
    Documents        \* sources of idempotency keys

VARIABLE journal     \* the committed entries; an entry's id is its position

Accounts == Treasuries \cup Others

(* A line debits (positive) or credits (negative) one account.             *)
Line == [account : Accounts, net : Int \ {0}]

(* The deterministic keys; entries of legacy writers have none.            *)
NoKey          == <<"none", 0>>
DocumentKey(d) == <<"document", d>>
ReversalKey(i) == <<"reversal", i>>
Key == ({"none"} \X {0}) \cup ({"document"} \X Documents) \cup ({"reversal"} \X Nat)

Entry == [key : Key, lines : Seq(Line), status : {"POSTED", "REVERSED"}, reversalOf : Nat]

On(line, a)      == IF line.account = a THEN line.net ELSE 0
Effect(lines, a) == SumFunction([k \in DOMAIN lines |-> On(lines[k], a)])
NetOf(lines)     == SumFunction([k \in DOMAIN lines |-> lines[k].net])

(* Two lines at least, debit XOR credit on each, debits equal credits.     *)
Balanced(lines) == Len(lines) >= 2 /\ NetOf(lines) = 0

Mirror(lines) == [i \in DOMAIN lines |-> [lines[i] EXCEPT !.net = -@]]

Balance(entries, a) == SumFunction([i \in DOMAIN entries |-> Effect(entries[i].lines, a)])

Posted(entries, key) == key # NoKey /\ \E i \in DOMAIN entries : entries[i].key = key

Init == journal = <<>>

(* A balanced entry is appended under a key no entry has.                  *)
PostEntry ==
    /\ journal' # <<>>
    /\ LET e == Last(journal')
       IN  /\ e.status = "POSTED" /\ e.reversalOf = 0
           /\ Balanced(e.lines)
           /\ ~Posted(journal, e.key)
           /\ journal' = Append(journal, e)

ReverseEntry ==
    \E i \in DOMAIN journal :
        /\ journal[i].status = "POSTED"
        /\ journal' = Append([journal EXCEPT ![i].status = "REVERSED"],
                             [key |-> ReversalKey(i), lines |-> Mirror(journal[i].lines),
                              status |-> "POSTED", reversalOf |-> i])

Next == PostEntry \/ ReverseEntry

Spec == Init /\ [][Next]_journal

=============================================================================
