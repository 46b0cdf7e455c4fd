--------------------------- MODULE MCPersonPersist ---------------------------
(* A small person: two extracts of the birth, and two of one museum, the   *)
(* first of which has the headline of the second birth.  A run extracts a  *)
(* pair that can meet, or one item.                                        *)
EXTENDS PersonPersist, TLC

CONSTANTS b1, b2, m1, m2, paris, wikidata, page, w1, w2

MCKind == [i \in Items |-> IF i \in {b1, b2} THEN "birth" ELSE "museum"]
MCOccurrence == [i \in Items |-> i]
MCTitle == [i \in Items |-> IF i = m1 THEN b2 ELSE i]
MCPlace == [i \in Items |-> IF i = b1 THEN None ELSE paris]
MCGiven == [i \in Items |-> IF i = b2 THEN paris ELSE None]
MCDocument == [i \in Items |-> IF i = b1 THEN wikidata ELSE page]
MCFingerprint == [i \in Items |-> IF i = m2 THEN m1 ELSE i]
MCAttributed == [i \in Items |-> "auto"]
MCCoreference == [i \in Items |-> IF i = b2 THEN "coreference" ELSE "auto"]
MCExtracts == {{b1}, {b2}, {m2}, {b1, b2}, {b2, m1}, {m1, m2}}
MCBirths == SUBSET {b1, b2}
MCVerdicts ==
    [i \in Items |-> {"accepted"} \cup (IF i = b1 THEN {"rejected"}
                                      ELSE IF i = b2 THEN {"needs_review"} ELSE {})]
MCSymmetry == Permutations(Executions)
=============================================================================
