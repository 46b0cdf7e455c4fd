----------------------------- MODULE DumpIngest -----------------------------
(***************************************************************************)
(* The ingestion of a dump file (talaria-api/src/dump_ingest.rs over       *)
(* talaria-store/src/corpus_dump.rs and quality.rs): every record of the   *)
(* file becomes a snapshot and its fragments, and the run keeps a cursor   *)
(* and counters, so that a run that stopped may be resumed.                *)
(*                                                                         *)
(* One action is one SQL statement.  No transaction holds the statements   *)
(* of a document together, and nothing keeps two invocations from resuming *)
(* one run at the same time.  There is one run, of one file that does not  *)
(* change: a run whose file has changed is refused.                        *)
(***************************************************************************)
EXTENDS Naturals, Sequences, FiniteSets

CONSTANTS
    Documents,      \* the external ids of the records
    Invalid,        \* a line that is no record
    Lines,          \* the file
    Wiki,           \* documents of a Wikipedia dump that look like wikitext
    Fragments,      \* of a document, in the order in which they are inserted
    Ingests,        \* invocations of `dump ingest` and `dump resume`
    Options         \* of each: --limit, what the filters exclude, --skip-existing

ASSUME DumpAssumption ==
    /\ IsFiniteSet(Documents) /\ Invalid \notin Documents /\ Wiki \subseteq Documents
    /\ Lines \in Seq(Documents \cup {Invalid})
    /\ Fragments \in [Documents -> Seq([kind : {"section", "sentence"}, ord : Nat])]
    /\ Options \in [Ingests -> [limit : Nat, filtered : SUBSET Documents, skip : BOOLEAN]]
    \* The sentences of a text are numbered, and plain text has nothing else.
    /\ \A d \in Documents : \A k, l \in DOMAIN Fragments[d] :
          /\ Fragments[d][k].kind = "sentence" /\ Fragments[d][l].kind = "sentence"
          /\ Fragments[d][k].ord = Fragments[d][l].ord
          => k = l
    /\ \A d \in Documents \ Wiki : \A k \in DOMAIN Fragments[d] :
          Fragments[d][k].kind = "sentence"

VARIABLES
    dumpRun,        \* the row of corpus_dump_runs
    document,       \* corpus_dump_documents.status, or "none"
    snapshot,       \* the documents with a row of document_snapshots
    fragment,       \* document_fragments by document; text: what it is of Fragments
    ingest,         \* locals of the invocations
    disturbed       \* history: documents whose fragments failed, were cut or raced for

dumpVars == <<dumpRun, document, snapshot, fragment, ingest, disturbed>>

Terminal == {"ingested", "skipped_unchanged", "failed", "filtered"}
FragmentRows == [kind : {"section", "sentence"}, ord : Nat, text : Nat]
Progress == [cursor : 0 .. Len(Lines), read : Nat, failed : Nat]

DumpPlaces == {"idle", "mark", "read", "check", "plan", "insert", "count", "wiki", "sections",
               "still", "plain", "upsert", "failed", "save", "part", "finish"}
InDocument == DumpPlaces \ {"idle", "mark", "read", "part", "finish"}
DumpLocals == [at : DumpPlaces, now : Progress, taken : Nat,
               existed : BOOLEAN, had : BOOLEAN, next : Nat]

DumpTypeOK ==
    /\ dumpRun \in [status : {"none", "running", "completed"}, saved : Progress]
    /\ document \in [Documents -> Terminal \cup {"none"}]
    /\ snapshot \subseteq Documents
    /\ fragment \in [Documents -> SUBSET FragmentRows]
    /\ ingest \in [Ingests -> DumpLocals]
    /\ disturbed \subseteq Documents
    /\ \A i \in Ingests : ingest[i].at \in InDocument =>
            ingest[i].now.cursor > 0 /\ Lines[ingest[i].now.cursor] # Invalid

Beginning == [cursor |-> 0, read |-> 0, failed |-> 0]

Idle == [at |-> "idle", now |-> Beginning, taken |-> 0,
         existed |-> FALSE, had |-> FALSE, next |-> 1]

DumpInit ==
    /\ dumpRun = [status |-> "none", saved |-> Beginning]
    /\ document = [d \in Documents |-> "none"]
    /\ snapshot = {}
    /\ fragment = [d \in Documents |-> {}]
    /\ ingest = [i \in Ingests |-> Idle]
    /\ disturbed = {}

-----------------------------------------------------------------------------
TheDocument(i) == Lines[ingest[i].now.cursor]
DumpGoes(i, place) == ingest' = [ingest EXCEPT ![i].at = place]
DumpEnds(i) == ingest' = [ingest EXCEPT ![i] = Idle]
(* The statements of the document are over.                                *)
ToSave(i) == ingest' = [ingest EXCEPT ![i] =
                [@ EXCEPT !.at = "save", !.existed = FALSE, !.had = FALSE, !.next = 1]]

Records(n) == {l \in 1 .. n : Lines[l] # Invalid}
SentencesOf(d) == {k \in DOMAIN Fragments[d] : Fragments[d][k].kind = "sentence"}
HasSentence(d) == \E f \in fragment[d] : f.kind = "sentence"

(* start_corpus_dump_run.                                                  *)
StartDump(i) ==
    /\ ingest[i].at = "idle" /\ dumpRun.status = "none"
    /\ dumpRun' = [dumpRun EXCEPT !.status = "running"]
    /\ DumpGoes(i, "read")
    /\ UNCHANGED <<document, snapshot, fragment, disturbed>>

\* Mutant of Restored: the cursor is restored, the counters start again.
RestoredCursorOnly(saved) == [Beginning EXCEPT !.cursor = saved.cursor]
(* restore, and the counters of metrics_json.                              *)
Restored(saved) == saved

(* get_corpus_dump_run: any status will do.                                *)
ResumeDump(i) ==
    /\ ingest[i].at = "idle" /\ dumpRun.status # "none"
    /\ ingest' = [ingest EXCEPT ![i].at = "mark", ![i].now = Restored(dumpRun.saved)]
    /\ UNCHANGED <<dumpRun, document, snapshot, fragment, disturbed>>

(* mark_corpus_dump_running.                                               *)
MarkRunning(i) ==
    /\ ingest[i].at = "mark"
    /\ dumpRun' = [dumpRun EXCEPT !.status = "running"]
    /\ DumpGoes(i, "read")
    /\ UNCHANGED <<document, snapshot, fragment, disturbed>>

(* taken: documents_read since the invocation began, as far as it matters. *)
LimitReached(i) == Options[i].limit > 0 /\ ingest[i].taken >= Options[i].limit

Ahead(i) == Records(Len(Lines)) \ (1 .. ingest[i].now.cursor)

OnRecord(i, l) ==
    LET was == ingest[i]
    IN  [was EXCEPT !.now = [cursor |-> l, read |-> was.now.read + 1, failed |-> was.now.failed],
                    !.taken = IF was.taken < Options[i].limit THEN was.taken + 1 ELSE was.taken,
                    !.at = IF Options[i].skip THEN "check" ELSE "plan"]

(* next_record passes over the lines that are no record.                   *)
ReadRecord(i) ==
    /\ ingest[i].at = "read" /\ ~LimitReached(i)
    /\ \E l \in Ahead(i) :
        /\ \A m \in Ahead(i) : l <= m
        /\ ingest' = [ingest EXCEPT ![i] = OnRecord(i, l)]
    /\ UNCHANGED <<dumpRun, document, snapshot, fragment, disturbed>>

ReadNoMore(i) ==
    /\ ingest[i].at = "read"
    /\ \/ LimitReached(i) /\ DumpGoes(i, "part")
       \/ /\ ~LimitReached(i) /\ Ahead(i) = {}
          /\ ingest' = [ingest EXCEPT ![i].at = "finish", ![i].now.cursor = Len(Lines)]
    /\ UNCHANGED <<dumpRun, document, snapshot, fragment, disturbed>>

(* --skip-existing: a document this run has dealt with counts no more.     *)
CheckDone(i) ==
    /\ ingest[i].at = "check"
    /\ DumpGoes(i, IF document[TheDocument(i)] \in Terminal THEN "save" ELSE "plan")
    /\ UNCHANGED <<dumpRun, document, snapshot, fragment, disturbed>>

-----------------------------------------------------------------------------
(* persist_one_document.                                                   *)

FilterDocument(i) ==
    /\ ingest[i].at = "plan" /\ TheDocument(i) \in Options[i].filtered
    /\ document' = [document EXCEPT ![TheDocument(i)] = "filtered"]
    /\ ToSave(i)
    /\ UNCHANGED <<dumpRun, snapshot, fragment, disturbed>>

FindSnapshot(i) ==
    /\ ingest[i].at = "plan" /\ TheDocument(i) \notin Options[i].filtered
    /\ ingest' = [ingest EXCEPT ![i].at = "insert",
                                ![i].existed = TheDocument(i) \in snapshot]
    /\ UNCHANGED <<dumpRun, document, snapshot, fragment, disturbed>>

InsertSnapshot(i) ==
    /\ ingest[i].at = "insert"
    /\ snapshot' = snapshot \cup {TheDocument(i)}
    /\ DumpGoes(i, "count")
    /\ UNCHANGED <<dumpRun, document, fragment, disturbed>>

\* Mutant of Fragmented: a snapshot that was there has its fragments.
FragmentedIfFound(i) == ingest[i].existed \/ HasSentence(TheDocument(i))
(* count_sentence_fragments.                                               *)
Fragmented(i) == HasSentence(TheDocument(i))

CountFragments(i) ==
    /\ ingest[i].at = "count"
    /\ ingest' = [ingest EXCEPT ![i].had = Fragmented(i), ![i].next = 1,
            ![i].at = IF Fragmented(i) THEN "upsert"
                      ELSE IF TheDocument(i) \in Wiki THEN "wiki" ELSE "still"]
    /\ UNCHANGED <<dumpRun, document, snapshot, fragment, disturbed>>

(* persist_wiki_fragments leaves the fragments that are there alone; if no *)
(* sentence is among them, or in the text, that is an error.               *)
Inserting == {"sections", "plain"}

CountAllFragments(i) ==
    /\ ingest[i].at = "wiki"
    /\ DumpGoes(i, IF fragment[TheDocument(i)] = {} /\ Fragments[TheDocument(i)] # <<>>
                   THEN "sections"
                   ELSE IF HasSentence(TheDocument(i)) THEN "upsert" ELSE "still")
    /\ disturbed' = IF \E o \in Ingests : ingest[o].at \in Inserting /\ TheDocument(o) = TheDocument(i)
                    THEN disturbed \cup {TheDocument(i)} ELSE disturbed
    /\ UNCHANGED <<dumpRun, document, snapshot, fragment>>

(* The next fragment of the document, stored as one of this kind: a second *)
(* sentence of an ordinal is not stored.                                   *)
Stored(i, kind) ==
    LET d == TheDocument(i)
        k == ingest[i].next
        ord == Fragments[d][k].ord
    IN  IF kind = "sentence" /\ \E f \in fragment[d] : f.kind = kind /\ f.ord = ord
        THEN fragment
        ELSE [fragment EXCEPT ![d] = @ \cup {[kind |-> kind, ord |-> ord, text |-> k]}]

Inserted(i, last) ==
    ingest' = [ingest EXCEPT ![i].next = @ + 1,
        ![i].at = IF ingest[i].next < Len(Fragments[TheDocument(i)]) THEN @ ELSE last]

InsertWikiFragment(i) ==
    /\ ingest[i].at = "sections"
    /\ ingest[i].next \in DOMAIN Fragments[TheDocument(i)]
    /\ fragment' = Stored(i, Fragments[TheDocument(i)][ingest[i].next].kind)
    /\ Inserted(i, IF SentencesOf(TheDocument(i)) = {} THEN "still" ELSE "upsert")
    /\ UNCHANGED <<dumpRun, document, snapshot, disturbed>>

CutShort(i) ==
    IF ingest[i].at \in Inserting /\ ingest[i].next > 1
    THEN disturbed \cup {TheDocument(i)} ELSE disturbed

(* A failure in persist_wiki_fragments is no failure of the document: it   *)
(* goes on as plain text, or as it is if a sentence is stored.             *)
WikiFails(i) ==
    /\ ingest[i].at \in {"wiki", "sections"}
    /\ DumpGoes(i, "still")
    /\ disturbed' = disturbed \cup {TheDocument(i)}
    /\ UNCHANGED <<dumpRun, document, snapshot, fragment>>

CountAgain(i) ==
    /\ ingest[i].at = "still"
    /\ ingest' = [ingest EXCEPT ![i].next = 1,
            ![i].at = IF HasSentence(TheDocument(i)) \/ Fragments[TheDocument(i)] = <<>>
                      THEN "upsert" ELSE "plain"]
    /\ UNCHANGED <<dumpRun, document, snapshot, fragment, disturbed>>

(* Whatever a fragment is, it is stored here as a sentence.                *)
InsertSentence(i) ==
    /\ ingest[i].at = "plain"
    /\ ingest[i].next \in DOMAIN Fragments[TheDocument(i)]
    /\ fragment' = Stored(i, "sentence")
    /\ Inserted(i, "upsert")
    /\ UNCHANGED <<dumpRun, document, snapshot, disturbed>>

UpsertDocument(i) ==
    /\ ingest[i].at = "upsert"
    /\ document' = [document EXCEPT ![TheDocument(i)] =
            IF ingest[i].existed /\ ingest[i].had THEN "skipped_unchanged" ELSE "ingested"]
    /\ ToSave(i)
    /\ UNCHANGED <<dumpRun, snapshot, fragment, disturbed>>

(* Any other statement of the document fails: the run counts it and goes on*)
DocumentFails(i) ==
    /\ ingest[i].at \in {"plan", "insert", "count", "still", "plain", "upsert"}
    /\ ingest' = [ingest EXCEPT ![i].at = "failed", ![i].now.failed = @ + 1]
    /\ disturbed' = CutShort(i)
    /\ UNCHANGED <<dumpRun, document, snapshot, fragment>>

-----------------------------------------------------------------------------
(* The row of a failed document; an error here is ignored.                 *)
MarkFailed(i) ==
    /\ ingest[i].at = "failed"
    /\ \/ document' = [document EXCEPT ![TheDocument(i)] = "failed"]
       \/ UNCHANGED document
    /\ ToSave(i)
    /\ UNCHANGED <<dumpRun, snapshot, fragment, disturbed>>

(* update_corpus_dump_progress, after each document and at the limit, and  *)
(* finish_corpus_dump_run: cursor and counters are one UPDATE.             *)
SaveProgress(i) ==
    /\ ingest[i].at \in {"save", "part"}
    /\ dumpRun' = [dumpRun EXCEPT !.saved = ingest[i].now]
    /\ IF ingest[i].at = "save" THEN DumpGoes(i, "read") ELSE DumpEnds(i)
    /\ UNCHANGED <<document, snapshot, fragment, disturbed>>

FinishDump(i) ==
    /\ ingest[i].at = "finish"
    /\ dumpRun' = [status |-> "completed", saved |-> ingest[i].now]
    /\ DumpEnds(i)
    /\ UNCHANGED <<document, snapshot, fragment, disturbed>>

(* A statement of the run itself fails, or the process dies.               *)
DumpDies(i) ==
    /\ ingest[i].at # "idle"
    /\ DumpEnds(i)
    /\ disturbed' = CutShort(i)
    /\ UNCHANGED <<dumpRun, document, snapshot, fragment>>

DumpStep(i) ==
    \/ StartDump(i) \/ ResumeDump(i) \/ MarkRunning(i) \/ ReadRecord(i) \/ ReadNoMore(i)
    \/ CheckDone(i) \/ FilterDocument(i) \/ FindSnapshot(i) \/ InsertSnapshot(i)
    \/ CountFragments(i) \/ CountAllFragments(i) \/ InsertWikiFragment(i) \/ WikiFails(i)
    \/ CountAgain(i) \/ InsertSentence(i) \/ UpsertDocument(i) \/ DocumentFails(i)
    \/ MarkFailed(i) \/ SaveProgress(i) \/ FinishDump(i) \/ DumpDies(i)

DumpNext == \E i \in Ingests : DumpStep(i)

DumpSpec == DumpInit /\ [][DumpNext]_dumpVars

-----------------------------------------------------------------------------
(* However invocations die, fail and overlap, what the saved cursor has    *)
(* passed was read and counted, and the records without a row are no more  *)
(* than the failures the run reports.                                      *)
Unrecorded(n) == {l \in Records(n) : document[Lines[l]] = "none"}

CursorIsCovered ==
    /\ dumpRun.saved.read = Cardinality(Records(dumpRun.saved.cursor))
    /\ Cardinality(Unrecorded(dumpRun.saved.cursor)) <= dumpRun.saved.failed

(* A document that counts as ingested, or as unchanged, has its sentences, *)
(* and nothing else for a sentence, unless persist_wiki_fragments failed,  *)
(* two invocations met in it, its inserts were cut short, or they go on: a *)
(* run that died before the first of them, or between documents, is healed *)
(* by the next.  (An article without sentences has its sections for them.) *)
Sentences(d) == {f \in fragment[d] : f.kind = "sentence"}

IngestedIsWhole ==
    \A d \in Documents \ disturbed :
        /\ document[d] \in {"ingested", "skipped_unchanged"}
        /\ d \in Wiki => SentencesOf(d) # {}
        /\ \A i \in Ingests : ~(ingest[i].at \in Inserting /\ TheDocument(i) = d)
        => Sentences(d) = {[kind |-> "sentence", ord |-> Fragments[d][k].ord, text |-> k] :
                              k \in SentencesOf(d)}
=============================================================================
