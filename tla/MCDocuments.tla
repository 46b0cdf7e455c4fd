---------------------------- MODULE MCDocuments ----------------------------
(* The two ways documents come in, a small instance of each: the attempts  *)
(* of a corpus job one after the other, and the ingestion of a dump.  They *)
(* share no state: `part`, chosen at first, takes the steps.               *)
EXTENDS MCCorpusIngest, DumpIngest, TLC

CONSTANTS n1, n2, wiki, note

VARIABLE part

(* An article with a section and two sentences, a line that is no record,  *)
(* and a note; one invocation reads to the end, without the note, and      *)
(* ingests again what it has, the other reads a record at a time and skips *)
(* what is done.                                                           *)
MCLines == <<wiki, Invalid, note>>
MCFragments ==
    wiki :> <<[kind |-> "section", ord |-> 0], [kind |-> "sentence", ord |-> 0],
              [kind |-> "sentence", ord |-> 1]>> @@
    note :> <<[kind |-> "sentence", ord |-> 0]>>
MCOptions == n1 :> [limit |-> 0, filtered |-> {note}, skip |-> FALSE] @@
             n2 :> [limit |-> 1, filtered |-> {}, skip |-> TRUE]

documentsVars == <<vars, dumpVars, part>>

DocumentsInit ==
    /\ Init /\ DumpInit
    /\ part \in {"corpus", "dump"}

DocumentsNext ==
    /\ part' = part
    /\ \/ /\ part = "corpus" /\ SequentialNext
          /\ UNCHANGED dumpVars
       \/ /\ part = "dump" /\ DumpNext
          /\ UNCHANGED vars

DocumentsSpec == DocumentsInit /\ [][DocumentsNext]_documentsVars
=============================================================================
