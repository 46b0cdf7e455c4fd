--------------------------- MODULE MCCorpusIngest ---------------------------
(* Small instances of CorpusIngest: d1 and d2 come from the first          *)
(* provider, d3 from the second and is the same corpus document as d2.     *)
EXTENDS CorpusIngest

CONSTANTS d1, d2, d3, x, y, v1, v2

MCSource == [d \in Docs |-> IF d = d3 THEN 2 ELSE 1]
MCIdentity == [d \in Docs |-> IF d = d1 THEN x ELSE y]
MCDistinct == [d \in Docs |-> d]

(* Attempts one after the other: a claim finds no execution still alive.   *)
Alone == \A a \in Attempts : work[a].pc \in {"idle", "gone"}
SequentialNext == (\E build \in Builds : Alone /\ Claim(build)) \/ Proceed
SequentialSpec == Init /\ [][SequentialNext]_vars
=============================================================================
