-------------------------- MODULE DumpIngestProofs --------------------------
(* What is proved of DumpIngest for any file, documents and invocations.   *)
EXTENDS DumpIngest, FiniteSetTheorems, TLAPS

(* What the type invariant says of an invocation.                          *)
LocalOK(x) ==
    /\ x \in DumpLocals
    /\ x.at \in InDocument => x.now.cursor > 0 /\ Lines[x.now.cursor] # Invalid

LEMMA Handled ==
    ASSUME DumpTypeOK, NEW i \in Ingests, ingest[i].at \in InDocument
    PROVE  /\ ingest[i].now.cursor \in Records(Len(Lines))
           /\ TheDocument(i) \in Documents
<1>1. /\ ingest[i].now.cursor \in 1 .. Len(Lines)
      /\ Lines[ingest[i].now.cursor] # Invalid
  BY DumpAssumption DEF DumpTypeOK, DumpLocals, Progress
<1>2. Lines[ingest[i].now.cursor] \in Documents \cup {Invalid}
  BY <1>1, DumpAssumption
<1> QED
  BY <1>1, <1>2 DEF TheDocument, Records

(* An invocation is typed by what is said of its record alone.             *)
LEMMA TypedByLocals ==
    ASSUME DumpTypeOK, NEW i \in Ingests, NEW y, LocalOK(y),
           ingest' = [ingest EXCEPT ![i] = y]
    PROVE  /\ ingest' \in [Ingests -> DumpLocals]
           /\ \A j \in Ingests : ingest'[j].at \in InDocument =>
                 ingest'[j].now.cursor > 0 /\ Lines[ingest'[j].now.cursor] # Invalid
BY DEF DumpTypeOK, LocalOK

LEMMA IdleOK == LocalOK(Idle)
BY DumpAssumption DEF LocalOK, Idle, Beginning, DumpLocals, DumpPlaces, Progress, InDocument

(* An invocation that goes on in its document stays typed.                 *)
LEMMA GoesOK ==
    ASSUME NEW x, LocalOK(x), NEW p \in DumpPlaces,
           p \in InDocument => x.at \in InDocument
    PROVE  LocalOK([x EXCEPT !.at = p])
BY DEF LocalOK, DumpLocals

LEMMA ElementOfSeq ==
    ASSUME NEW S, NEW s \in Seq(S), NEW n \in DOMAIN s
    PROVE  s[n] \in S
OBVIOUS

LEMMA AtOK ==
    ASSUME NEW x, LocalOK(x), x.at \in InDocument, NEW q \in InDocument, NEW n \in Nat
    PROVE  LocalOK([x EXCEPT !.next = n, !.at = q])
BY DEF LocalOK, DumpLocals, InDocument

LEMMA OnRecordOK ==
    ASSUME NEW i \in Ingests, LocalOK(ingest[i]), NEW l \in 1 .. Len(Lines),
           Lines[l] # Invalid
    PROVE  LocalOK(OnRecord(i, l))
<1> DEFINE x == ingest[i]
           n == [cursor |-> l, read |-> x.now.read + 1, failed |-> x.now.failed]
           t == IF x.taken < Options[i].limit THEN x.taken + 1 ELSE x.taken
           p == IF Options[i].skip THEN "check" ELSE "plan"
<1>1. x \in DumpLocals /\ x.now \in Progress
  BY DEF LocalOK, DumpLocals
<1>2. n \in Progress /\ n.cursor = l /\ l > 0
  BY <1>1, DumpAssumption DEF Progress
<1>3. t \in Nat /\ p \in DumpPlaces
  BY <1>1 DEF DumpLocals, DumpPlaces
<1>4. LocalOK([x EXCEPT !.now = n, !.taken = t, !.at = p])
  <2> HIDE DEF n, t, p, x
  <2> QED
    BY <1>1, <1>2, <1>3 DEF LocalOK, DumpLocals
<1> QED
  BY <1>4 DEF OnRecord

(* The next fragment of a document is a fragment.                          *)
LEMMA StoredOK ==
    ASSUME DumpTypeOK, NEW i \in Ingests, ingest[i].at \in InDocument,
           NEW kind \in {"section", "sentence"},
           ingest[i].next \in DOMAIN Fragments[TheDocument(i)]
    PROVE  Stored(i, kind) \in [Documents -> SUBSET FragmentRows]
<1> DEFINE d == TheDocument(i)
           k == ingest[i].next
<1>1. d \in Documents
  BY Handled
<1>2. Fragments[d] \in Seq([kind : {"section", "sentence"}, ord : Nat])
  BY <1>1, DumpAssumption
<1>3. Fragments[d][k].ord \in Nat
  <2>1. k \in DOMAIN Fragments[d]
    OBVIOUS
  <2> HIDE DEF d, k
  <2>2. Fragments[d][k] \in [kind : {"section", "sentence"}, ord : Nat]
    BY <1>2, <2>1, ElementOfSeq
  <2> QED
    BY <2>2
<1>4. k \in Nat
  BY DEF DumpTypeOK, DumpLocals
<1>5. [kind |-> kind, ord |-> Fragments[d][k].ord, text |-> k] \in FragmentRows
  BY <1>3, <1>4 DEF FragmentRows
<1>6. fragment \in [Documents -> SUBSET FragmentRows]
  BY DEF DumpTypeOK
<1> QED
  BY <1>1, <1>5, <1>6 DEF Stored

LEMMA CutShortOK ==
    ASSUME DumpTypeOK, NEW i \in Ingests
    PROVE  CutShort(i) \subseteq Documents
BY Handled DEF CutShort, Inserting, InDocument, DumpPlaces, DumpTypeOK

-----------------------------------------------------------------------------
(* Type correctness.                                                       *)

LEMMA DumpInitTypes == DumpInit => DumpTypeOK
<1>1. 0 \in 0 .. Len(Lines)
  BY DumpAssumption
<1> QED
  BY <1>1 DEF DumpInit, DumpTypeOK, Idle, Beginning, DumpLocals, DumpPlaces, Progress,
              InDocument

LEMMA DumpStepTypes ==
    ASSUME DumpTypeOK, NEW i \in Ingests, DumpStep(i)
    PROVE  DumpTypeOK'
<1> DEFINE x == ingest[i]
<1>0. LocalOK(x) /\ x \in DumpLocals /\ x.now \in Progress
  BY DEF DumpTypeOK, LocalOK, DumpLocals
<1>a. ASSUME NEW y, LocalOK(y), ingest' = [ingest EXCEPT ![i] = y],
             dumpRun' \in [status : {"none", "running", "completed"}, saved : Progress],
             document' \in [Documents -> Terminal \cup {"none"}],
             snapshot' \subseteq Documents,
             fragment' \in [Documents -> SUBSET FragmentRows],
             disturbed' \subseteq Documents
      PROVE  DumpTypeOK'
  BY <1>a, TypedByLocals DEF DumpTypeOK
<1>b. /\ dumpRun \in [status : {"none", "running", "completed"}, saved : Progress]
      /\ document \in [Documents -> Terminal \cup {"none"}]
      /\ snapshot \subseteq Documents
      /\ fragment \in [Documents -> SUBSET FragmentRows]
      /\ disturbed \subseteq Documents
      /\ ingest \in [Ingests -> DumpLocals]
  BY DEF DumpTypeOK
<1>c. ASSUME NEW p \in DumpPlaces, p \in InDocument => x.at \in InDocument,
             DumpGoes(i, p),
             dumpRun' \in [status : {"none", "running", "completed"}, saved : Progress],
             document' \in [Documents -> Terminal \cup {"none"}],
             snapshot' \subseteq Documents,
             fragment' \in [Documents -> SUBSET FragmentRows],
             disturbed' \subseteq Documents
      PROVE  DumpTypeOK'
  <2>1. ingest' = [ingest EXCEPT ![i] = [x EXCEPT !.at = p]]
    BY <1>c, <1>b DEF DumpGoes
  <2>2. LocalOK([x EXCEPT !.at = p])
    BY <1>0, <1>c, GoesOK
  <2> QED
    BY <2>1, <2>2, <1>a, <1>c
<1>1. CASE StartDump(i)
  BY <1>1, <1>b, <1>c DEF StartDump, DumpPlaces, InDocument
<1>2. CASE ResumeDump(i)
  <2>1. ingest' = [ingest EXCEPT ![i] = [x EXCEPT !.at = "mark", !.now = dumpRun.saved]]
    BY <1>2, <1>b DEF ResumeDump, Restored
  <2>2. LocalOK([x EXCEPT !.at = "mark", !.now = dumpRun.saved])
    BY <1>0, <1>b DEF LocalOK, DumpLocals, DumpPlaces, InDocument
  <2> QED
    BY <2>1, <2>2, <1>2, <1>a, <1>b DEF ResumeDump
<1>3. CASE MarkRunning(i)
  BY <1>3, <1>b, <1>c DEF MarkRunning, DumpPlaces, InDocument
<1>4. CASE ReadRecord(i)
  <2>1. PICK l \in Ahead(i) : ingest' = [ingest EXCEPT ![i] = OnRecord(i, l)]
    BY <1>4 DEF ReadRecord
  <2>2. l \in 1 .. Len(Lines) /\ Lines[l] # Invalid
    BY DEF Ahead, Records
  <2>3. LocalOK(OnRecord(i, l))
    BY <1>0, <2>2, OnRecordOK
  <2> QED
    BY <2>1, <2>3, <1>4, <1>a, <1>b DEF ReadRecord
<1>5. CASE ReadNoMore(i)
  <2>1. CASE DumpGoes(i, "part")
    BY <2>1, <1>5, <1>b, <1>c DEF ReadNoMore, DumpPlaces, InDocument
  <2>2. CASE ingest' = [ingest EXCEPT ![i].at = "finish", ![i].now.cursor = Len(Lines)]
    <3>1. Len(Lines) \in 0 .. Len(Lines)
      BY DumpAssumption
    <3>2. LocalOK([x EXCEPT !.at = "finish", !.now.cursor = Len(Lines)])
      BY <3>1, <1>0 DEF LocalOK, DumpLocals, DumpPlaces, InDocument, Progress
    <3>3. ingest' = [ingest EXCEPT ![i] =
                [x EXCEPT !.at = "finish", !.now.cursor = Len(Lines)]]
      BY <2>2, <1>b
    <3> QED
      BY <3>2, <3>3, <1>5, <1>a, <1>b DEF ReadNoMore
  <2> QED
    BY <2>1, <2>2, <1>5 DEF ReadNoMore
<1>6. CASE CheckDone(i)
  BY <1>6, <1>b, <1>c DEF CheckDone, DumpPlaces, InDocument
<1>s. ASSUME x.at \in InDocument, ToSave(i), document' \in [Documents -> Terminal \cup {"none"}],
             UNCHANGED <<dumpRun, snapshot, fragment, disturbed>>
      PROVE  DumpTypeOK'
  <2>1. LocalOK([x EXCEPT !.at = "save", !.existed = FALSE, !.had = FALSE, !.next = 1])
    BY <1>0, <1>s DEF LocalOK, DumpLocals, DumpPlaces
  <2> QED
    BY <2>1, <1>s, <1>a, <1>b DEF ToSave
<1>7. CASE FilterDocument(i)
  <2>1. x.at \in InDocument /\ document' \in [Documents -> Terminal \cup {"none"}]
    BY <1>7, <1>b DEF FilterDocument, InDocument, DumpPlaces, Terminal
  <2> QED
    BY <2>1, <1>7, <1>s DEF FilterDocument
<1>8. CASE FindSnapshot(i)
  <2> DEFINE e == TheDocument(i) \in snapshot
  <2>1. LocalOK([x EXCEPT !.at = "insert", !.existed = e])
    <3>1. e \in BOOLEAN /\ x.at \in InDocument
      BY <1>8 DEF FindSnapshot, InDocument, DumpPlaces
    <3> HIDE DEF e
    <3> QED
      BY <3>1, <1>0 DEF LocalOK, DumpLocals, DumpPlaces
  <2> QED
    BY <2>1, <1>8, <1>a, <1>b DEF FindSnapshot
<1>9. CASE InsertSnapshot(i)
  <2>1. x.at \in InDocument
    BY <1>9 DEF InsertSnapshot, InDocument, DumpPlaces
  <2>2. snapshot' \subseteq Documents
    BY <2>1, <1>9, <1>b, Handled DEF InsertSnapshot
  <2> QED
    BY <2>1, <2>2, <1>9, <1>b, <1>c DEF InsertSnapshot, DumpPlaces
<1>10. CASE CountFragments(i)
  <2> DEFINE p == IF Fragmented(i) THEN "upsert"
                  ELSE IF TheDocument(i) \in Wiki THEN "wiki" ELSE "still"
             y == [x EXCEPT !.had = Fragmented(i), !.next = 1, !.at = p]
  <2>1. p \in DumpPlaces /\ p \in InDocument /\ x.at \in InDocument
    BY <1>10 DEF CountFragments, DumpPlaces, InDocument
  <2>2. Fragmented(i) \in BOOLEAN
    BY DEF Fragmented, HasSentence
  <2>3. LocalOK(y)
    <3> HIDE DEF p
    <3> QED
      BY <2>1, <2>2, <1>0 DEF LocalOK, DumpLocals
  <2>4. ingest' = [ingest EXCEPT ![i] = y]
    BY <1>10, <1>b DEF CountFragments
  <2> QED
    BY <2>3, <2>4, <1>10, <1>a, <1>b DEF CountFragments
<1>11. CASE CountAllFragments(i)
  <2>1. x.at \in InDocument
    BY <1>11 DEF CountAllFragments, InDocument, DumpPlaces
  <2>2. disturbed' \subseteq Documents
    BY <2>1, <1>11, <1>b, Handled DEF CountAllFragments
  <2>3. PICK p \in {"sections", "upsert", "still"} : DumpGoes(i, p)
    BY <1>11 DEF CountAllFragments
  <2> QED
    BY <2>1, <2>2, <2>3, <1>11, <1>b, <1>c DEF CountAllFragments, DumpPlaces
<1>n. ASSUME x.at \in InDocument, NEW p \in InDocument, Inserted(i, p),
             fragment' \in [Documents -> SUBSET FragmentRows],
             UNCHANGED <<dumpRun, document, snapshot, disturbed>>
      PROVE  DumpTypeOK'
  <2> DEFINE q == IF x.next < Len(Fragments[TheDocument(i)]) THEN x.at ELSE p
  <2>1. q \in DumpPlaces /\ q \in InDocument
    BY <1>n, <1>0 DEF InDocument, DumpLocals
  <2>2. ingest' = [ingest EXCEPT ![i] = [x EXCEPT !.next = @ + 1, !.at = q]]
    BY <1>n, <1>b DEF Inserted
  <2>3. LocalOK([x EXCEPT !.next = @ + 1, !.at = q])
    <3>1. x.next + 1 \in Nat
      BY <1>0 DEF DumpLocals
    <3> HIDE DEF q, x
    <3> QED
      BY <3>1, <2>1, <1>0, <1>n, AtOK
  <2> QED
    BY <2>2, <2>3, <1>n, <1>a, <1>b
<1>12. CASE InsertWikiFragment(i)
  <2>1. x.at \in InDocument
    BY <1>12 DEF InsertWikiFragment, InDocument, DumpPlaces
  <2>2. TheDocument(i) \in Documents
    BY <2>1, Handled
  <2>3. Fragments[TheDocument(i)] \in Seq([kind : {"section", "sentence"}, ord : Nat])
    BY <2>2, DumpAssumption
  <2>4. Fragments[TheDocument(i)][x.next] \in [kind : {"section", "sentence"}, ord : Nat]
    BY <2>3, <1>12, ElementOfSeq DEF InsertWikiFragment
  <2>5. fragment' \in [Documents -> SUBSET FragmentRows]
    BY <2>1, <2>4, <1>12, StoredOK DEF InsertWikiFragment
  <2>6. (IF SentencesOf(TheDocument(i)) = {} THEN "still" ELSE "upsert") \in InDocument
    BY DEF InDocument, DumpPlaces
  <2> QED
    BY <2>1, <2>5, <2>6, <1>12, <1>n DEF InsertWikiFragment
<1>13. CASE WikiFails(i)
  <2>1. x.at \in InDocument
    BY <1>13 DEF WikiFails, InDocument, DumpPlaces
  <2>2. disturbed' \subseteq Documents
    BY <2>1, <1>13, <1>b, Handled DEF WikiFails
  <2> QED
    BY <2>1, <2>2, <1>13, <1>b, <1>c DEF WikiFails, DumpPlaces
<1>14. CASE CountAgain(i)
  <2> DEFINE p == IF HasSentence(TheDocument(i)) \/ Fragments[TheDocument(i)] = <<>>
                  THEN "upsert" ELSE "plain"
  <2>1. p \in DumpPlaces /\ x.at \in InDocument
    BY <1>14 DEF CountAgain, DumpPlaces, InDocument
  <2>2. LocalOK([x EXCEPT !.next = 1, !.at = p])
    <3> HIDE DEF p
    <3> QED
      BY <2>1, <1>0 DEF LocalOK, DumpLocals
  <2>3. ingest' = [ingest EXCEPT ![i] = [x EXCEPT !.next = 1, !.at = p]]
    BY <1>14, <1>b DEF CountAgain
  <2> QED
    BY <2>2, <2>3, <1>14, <1>a, <1>b DEF CountAgain
<1>15. CASE InsertSentence(i)
  <2>1. x.at \in InDocument
    BY <1>15 DEF InsertSentence, InDocument, DumpPlaces
  <2>2. fragment' \in [Documents -> SUBSET FragmentRows]
    BY <2>1, <1>15, StoredOK DEF InsertSentence
  <2> QED
    BY <2>1, <2>2, <1>15, <1>n DEF InsertSentence, InDocument, DumpPlaces
<1>16. CASE UpsertDocument(i)
  <2>1. x.at \in InDocument /\ document' \in [Documents -> Terminal \cup {"none"}]
    BY <1>16, <1>b DEF UpsertDocument, InDocument, DumpPlaces, Terminal
  <2> QED
    BY <2>1, <1>16, <1>s DEF UpsertDocument
<1>17. CASE DocumentFails(i)
  <2> DEFINE n == [x.now EXCEPT !.failed = @ + 1]
  <2>1. LocalOK([x EXCEPT !.at = "failed", !.now = n])
    <3>1. n \in Progress /\ n.cursor = x.now.cursor /\ x.at \in InDocument
      BY <1>17, <1>0 DEF DocumentFails, InDocument, DumpPlaces, Progress
    <3> HIDE DEF n
    <3> QED
      BY <3>1, <1>0 DEF LocalOK, DumpLocals, DumpPlaces
  <2>2. ingest' = [ingest EXCEPT ![i] = [x EXCEPT !.at = "failed", !.now = n]]
    BY <1>17, <1>b DEF DocumentFails
  <2> QED
    BY <2>1, <2>2, <1>17, <1>a, <1>b, CutShortOK DEF DocumentFails
<1>18. CASE MarkFailed(i)
  <2>1. x.at \in InDocument /\ document' \in [Documents -> Terminal \cup {"none"}]
    BY <1>18, <1>b DEF MarkFailed, InDocument, DumpPlaces, Terminal
  <2> QED
    BY <2>1, <1>18, <1>s DEF MarkFailed
<1>e. ASSUME DumpEnds(i), disturbed' \subseteq Documents,
             dumpRun' \in [status : {"none", "running", "completed"}, saved : Progress],
             UNCHANGED <<document, snapshot, fragment>>
      PROVE  DumpTypeOK'
  BY <1>e, <1>a, <1>b, IdleOK DEF DumpEnds
<1>19. CASE SaveProgress(i)
  <2>1. dumpRun' \in [status : {"none", "running", "completed"}, saved : Progress]
    BY <1>19, <1>0, <1>b DEF SaveProgress
  <2>2. CASE DumpGoes(i, "read")
    BY <2>1, <2>2, <1>19, <1>b, <1>c DEF SaveProgress, DumpPlaces, InDocument
  <2>3. CASE DumpEnds(i)
    BY <2>1, <2>3, <1>19, <1>b, <1>e DEF SaveProgress
  <2> QED
    BY <2>2, <2>3, <1>19 DEF SaveProgress
<1>20. CASE FinishDump(i)
  <2>1. dumpRun' \in [status : {"none", "running", "completed"}, saved : Progress]
    BY <1>20, <1>0 DEF FinishDump
  <2> QED
    BY <2>1, <1>20, <1>b, <1>e DEF FinishDump
<1>21. CASE DumpDies(i)
  BY <1>21, <1>b, <1>e, CutShortOK DEF DumpDies
<1> QED
  BY <1>1, <1>2, <1>3, <1>4, <1>5, <1>6, <1>7, <1>8, <1>9, <1>10, <1>11, <1>12, <1>13,
     <1>14, <1>15, <1>16, <1>17, <1>18, <1>19, <1>20, <1>21 DEF DumpStep

(* Every state of DumpIngest is typed, and the line an invocation has in   *)
(* hand is a record.                                                       *)
THEOREM DumpTypes == DumpSpec => []DumpTypeOK
<1>1. ASSUME DumpTypeOK, [DumpNext]_dumpVars
      PROVE  DumpTypeOK'
  <2>1. CASE UNCHANGED dumpVars
    BY <2>1, <1>1 DEF dumpVars, DumpTypeOK
  <2>2. CASE DumpNext
    BY <2>2, <1>1, DumpStepTypes DEF DumpNext
  <2> QED
    BY <2>1, <2>2, <1>1
<1> QED
  BY <1>1, DumpInitTypes, PTL DEF DumpSpec

-----------------------------------------------------------------------------
(* What the cursor has passed.  An invocation has counted the records up to*)
(* its own cursor; those without a row are failures it has counted, but for*)
(* the one in hand.                                                        *)
Handling == {"check", "plan", "insert", "count", "wiki", "sections", "still", "plain", "upsert"}
Pending(x) == IF x.at \in Handling THEN {x.now.cursor} ELSE {}
Rowless(doc, n) == {l \in Records(n) : doc[Lines[l]] = "none"}
Counted(doc, p, pending) ==
    /\ p.read = Cardinality(Records(p.cursor))
    /\ Cardinality(Rowless(doc, p.cursor) \ pending) <= p.failed

CoverInv ==
    /\ Counted(document, dumpRun.saved, {})
    /\ \A i \in Ingests : Counted(document, ingest[i].now, Pending(ingest[i]))

LEMMA FiniteRecords ==
    ASSUME NEW n \in 0 .. Len(Lines), NEW doc
    PROVE  /\ IsFiniteSet(Records(n))
           /\ IsFiniteSet(Rowless(doc, n))
           /\ Cardinality(Records(n)) \in Nat
<1>1. IsFiniteSet(1 .. n)
  BY FS_Interval, DumpAssumption
<1>2. IsFiniteSet(Records(n)) /\ IsFiniteSet(Rowless(doc, n))
  BY <1>1, FS_Subset DEF Records, Rowless
<1> QED
  BY <1>2, FS_CardinalityType

(* Rows are never taken away, so what was covered stays covered.           *)
LEMMA StaysCounted ==
    ASSUME NEW p \in Progress, NEW doc, NEW new, NEW pending, NEW left,
           Counted(doc, p, pending),
           Rowless(new, p.cursor) \ left \subseteq Rowless(doc, p.cursor) \ pending
    PROVE  Counted(new, p, left)
<1>1. p.cursor \in 0 .. Len(Lines) /\ p.failed \in Nat
  BY DEF Progress
<1>2. IsFiniteSet(Rowless(doc, p.cursor) \ pending)
  BY <1>1, FiniteRecords, FS_Subset
<1>3. /\ Cardinality(Rowless(new, p.cursor) \ left)
             <= Cardinality(Rowless(doc, p.cursor) \ pending)
      /\ Cardinality(Rowless(new, p.cursor) \ left) \in Nat
      /\ Cardinality(Rowless(doc, p.cursor) \ pending) \in Nat
  BY <1>2, FS_Subset, FS_CardinalityType
<1> QED
  BY <1>1, <1>3 DEF Counted

(* One element counts for one.                                             *)
LEMMA OneMore ==
    ASSUME NEW S, NEW c, IsFiniteSet(S)
    PROVE  Cardinality(S) <= Cardinality(S \ {c}) + 1
<1>1. IsFiniteSet(S \ {c}) /\ Cardinality(S \ {c}) \in Nat
  BY FS_Subset, FS_CardinalityType
<1>2. CASE c \in S
  <2>1. (S \ {c}) \cup {c} = S /\ c \notin S \ {c}
    BY <1>2
  <2>2. Cardinality((S \ {c}) \cup {c}) = Cardinality(S \ {c}) + 1
    BY <1>1, <2>1, FS_AddElement
  <2>3. Cardinality(S) = Cardinality(S \ {c}) + 1
    BY <2>1, <2>2
  <2> QED
    BY <1>1, <2>3
<1>3. CASE c \notin S
  <2>1. S \ {c} = S
    BY <1>3
  <2>2. Cardinality(S \ {c}) = Cardinality(S)
    BY <2>1
  <2> QED
    BY <1>1, <2>2
<1> QED
  BY <1>2, <1>3

(* The failure of the document in hand makes up for its row.               *)
LEMMA FailureCounted ==
    ASSUME NEW p \in Progress, NEW doc, NEW c, Counted(doc, p, {c})
    PROVE  Counted(doc, [p EXCEPT !.failed = @ + 1], {})
<1> DEFINE q == [p EXCEPT !.failed = @ + 1]
           R == Rowless(doc, p.cursor)
<1>1. p.cursor \in 0 .. Len(Lines) /\ p.failed \in Nat /\ p.read \in Nat
  BY DEF Progress
<1>2. q.cursor = p.cursor /\ q.read = p.read /\ q.failed = p.failed + 1
  BY DEF Progress
<1>3. IsFiniteSet(R)
  BY <1>1, FiniteRecords
<1>4. IsFiniteSet(R \ {c}) /\ Cardinality(R \ {c}) \in Nat
  BY <1>3, FS_Subset, FS_CardinalityType
<1>5. Cardinality(R) <= Cardinality(R \ {c}) + 1
  BY <1>3, OneMore
<1>6. R \ {} = R /\ Cardinality(R) \in Nat
  BY <1>3, FS_CardinalityType
<1> QED
  BY <1>1, <1>2, <1>4, <1>5, <1>6 DEF Counted

(* The next record is counted, and is the one in hand.                     *)
LEMMA NextRecord ==
    ASSUME NEW c \in 0 .. Len(Lines), NEW l \in Records(Len(Lines)) \ (1 .. c),
           \A m \in Records(Len(Lines)) \ (1 .. c) : l <= m, NEW doc
    PROVE  /\ Cardinality(Records(l)) = Cardinality(Records(c)) + 1
           /\ Rowless(doc, l) \ {l} = Rowless(doc, c)
<1>0. Len(Lines) \in Nat
  BY DumpAssumption
<1>1. l \in 1 .. Len(Lines) /\ l > c /\ Lines[l] # Invalid
  BY <1>0 DEF Records
<1>2. Records(l) = Records(c) \cup {l}
  BY <1>0, <1>1 DEF Records
<1>3. l \notin Records(c)
  BY <1>1 DEF Records
<1>4. Cardinality(Records(l)) = Cardinality(Records(c)) + 1
  BY <1>2, <1>3, FiniteRecords, FS_AddElement
<1>5. Rowless(doc, l) \ {l} = Rowless(doc, c)
  BY <1>2, <1>3 DEF Rowless
<1> QED
  BY <1>4, <1>5

LEMMA DumpInitCovers == DumpInit => CoverInv
<1> SUFFICES ASSUME DumpInit PROVE CoverInv
  OBVIOUS
<1>1. Records(0) = {} /\ Rowless(document, 0) = {}
  BY DEF Records, Rowless
<1>2. Counted(document, Beginning, {})
  BY <1>1, FS_EmptySet DEF Counted, Beginning
<1>3. Pending(Idle) = {} /\ Idle.now = Beginning
  BY DEF Pending, Idle, Handling
<1> QED
  BY <1>2, <1>3 DEF DumpInit, CoverInv

LEMMA DumpStepCovers ==
    ASSUME DumpTypeOK, CoverInv, NEW i \in Ingests, DumpStep(i)
    PROVE  CoverInv'
<1> DEFINE x == ingest[i]
<1>0. /\ x \in DumpLocals /\ x.now \in Progress /\ dumpRun.saved \in Progress
      /\ \A j \in Ingests : ingest[j].now \in Progress
      /\ ingest \in [Ingests -> DumpLocals]
      /\ Counted(document, x.now, Pending(x)) /\ Counted(document, dumpRun.saved, {})
  BY DEF DumpTypeOK, DumpLocals, CoverInv
(* It is enough to look at the invocation that steps, and at what is saved.*)
<1>a. ASSUME NEW y, ingest' = [ingest EXCEPT ![i] = y],
             \A n \in 0 .. Len(Lines) : Rowless(document', n) \subseteq Rowless(document, n),
             Counted(document', y.now, Pending(y)),
             \/ dumpRun'.saved = dumpRun.saved
             \/ Counted(document', dumpRun'.saved, {})
      PROVE  CoverInv'
  <2>1. Counted(document', dumpRun'.saved, {})
    <3>1. dumpRun.saved.cursor \in 0 .. Len(Lines)
      BY <1>0 DEF Progress
    <3>2. Counted(document', dumpRun.saved, {})
      BY <3>1, <1>a, <1>0, StaysCounted
    <3> QED
      BY <3>2, <1>a
  <2>2. ASSUME NEW j \in Ingests
        PROVE  Counted(document', ingest'[j].now, Pending(ingest'[j]))
    <3>1. CASE j = i
      BY <3>1, <1>a, <1>0
    <3>2. CASE j # i
      <4>1. ingest'[j] = ingest[j]
        BY <3>2, <1>a, <1>0
      <4>2. ingest[j].now.cursor \in 0 .. Len(Lines)
        BY <1>0 DEF Progress
      <4>3. Counted(document, ingest[j].now, Pending(ingest[j]))
        BY DEF CoverInv
      <4>4. Counted(document', ingest[j].now, Pending(ingest[j]))
        BY <4>2, <4>3, <1>a, <1>0, StaysCounted
      <4> QED
        BY <4>1, <4>4
    <3> QED
      BY <3>1, <3>2
  <2> QED
    BY <2>1, <2>2 DEF CoverInv
(* A step that writes no row and does not move the cursor.                 *)
<1>b. ASSUME NEW y, ingest' = [ingest EXCEPT ![i] = y], UNCHANGED document,
             dumpRun'.saved = dumpRun.saved,
             y.now = x.now, Pending(x) \subseteq Pending(y)
      PROVE  CoverInv'
  <2>1. Counted(document, x.now, Pending(y))
    BY <1>b, <1>0, StaysCounted
  <2> QED
    BY <2>1, <1>a, <1>b
<1>c. ASSUME NEW p \in DumpPlaces, DumpGoes(i, p), UNCHANGED document,
             dumpRun'.saved = dumpRun.saved, x.at \in Handling => p \in Handling
      PROVE  CoverInv'
  <2>1. ingest' = [ingest EXCEPT ![i] = [x EXCEPT !.at = p]]
    BY <1>c, <1>0 DEF DumpGoes
  <2>2. [x EXCEPT !.at = p].now = x.now /\ [x EXCEPT !.at = p].at = p
    BY <1>0 DEF DumpLocals
  <2> QED
    BY <2>1, <2>2, <1>b, <1>c DEF Pending
<1>1. CASE StartDump(i)
  BY <1>1, <1>0, <1>c DEF StartDump, DumpPlaces, Handling, DumpTypeOK
<1>2. CASE ResumeDump(i)
  <2> DEFINE y == [x EXCEPT !.at = "mark", !.now = dumpRun.saved]
  <2>1. ingest' = [ingest EXCEPT ![i] = y]
    BY <1>2, <1>0 DEF ResumeDump, Restored
  <2>2. y.now = dumpRun.saved /\ Pending(y) = {}
    BY <1>0 DEF DumpLocals, Pending, Handling
  <2> QED
    BY <2>1, <2>2, <1>0, <1>2, <1>a DEF ResumeDump
<1>3. CASE MarkRunning(i)
  BY <1>3, <1>0, <1>c DEF MarkRunning, DumpPlaces, Handling, DumpTypeOK
<1>4. CASE ReadRecord(i)
  <2>1. PICK l \in Ahead(i) : /\ \A m \in Ahead(i) : l <= m
                              /\ ingest' = [ingest EXCEPT ![i] = OnRecord(i, l)]
    BY <1>4 DEF ReadRecord
  <2> DEFINE y == OnRecord(i, l)
             c == x.now.cursor
  <2>2. /\ y.now = [cursor |-> l, read |-> x.now.read + 1, failed |-> x.now.failed]
        /\ y.at \in Handling
    BY <1>0 DEF OnRecord, DumpLocals, Handling
  <2>3. c \in 0 .. Len(Lines)
    BY <1>0 DEF Progress
  <2>4. /\ Cardinality(Records(l)) = Cardinality(Records(c)) + 1
        /\ Rowless(document, l) \ {l} = Rowless(document, c)
    BY <2>1, <2>3, NextRecord DEF Ahead
  <2>5. Pending(x) = {}
    BY <1>4 DEF ReadRecord, Pending, Handling
  <2>6. Pending(y) = {l}
    BY <2>2 DEF Pending
  <2>7. Counted(document, y.now, {l})
    <3>1. /\ x.now.read = Cardinality(Records(c))
          /\ Cardinality(Rowless(document, c) \ {}) <= x.now.failed
      BY <1>0, <2>5 DEF Counted
    <3>2. Rowless(document, c) \ {} = Rowless(document, c)
      OBVIOUS
    <3> HIDE DEF y, c
    <3> QED
      BY <3>1, <3>2, <2>2, <2>4 DEF Counted
  <2> QED
    BY <2>1, <2>6, <2>7, <1>4, <1>a DEF ReadRecord
<1>5. CASE ReadNoMore(i)
  <2>0. Pending(x) = {}
    BY <1>5 DEF ReadNoMore, Pending, Handling
  <2>1. CASE DumpGoes(i, "part")
    BY <2>1, <1>5, <1>c DEF ReadNoMore, DumpPlaces, Handling
  <2>2. CASE Ahead(i) = {} /\ ingest' =
                [ingest EXCEPT ![i].at = "finish", ![i].now.cursor = Len(Lines)]
    <3> DEFINE y == [x EXCEPT !.at = "finish", !.now.cursor = Len(Lines)]
    <3>1. ingest' = [ingest EXCEPT ![i] = y]
      BY <2>2, <1>0
    <3>2. /\ y.at = "finish" /\ y.now.cursor = Len(Lines)
          /\ y.now.read = x.now.read /\ y.now.failed = x.now.failed
      BY <1>0 DEF DumpLocals, Progress
    <3>3. x.now.cursor \in 0 .. Len(Lines) /\ Len(Lines) \in Nat
      BY <1>0, DumpAssumption DEF Progress
    <3>4. Records(Len(Lines)) = Records(x.now.cursor)
      BY <2>2, <3>3 DEF Ahead, Records
    <3>5. Rowless(document, Len(Lines)) = Rowless(document, x.now.cursor)
      BY <3>4 DEF Rowless
    <3>6. Pending(y) = {}
      BY <3>2 DEF Pending, Handling
    <3>7. Counted(document, y.now, {})
      BY <3>2, <3>4, <3>5, <2>0, <1>0 DEF Counted
    <3> QED
      BY <3>1, <3>6, <3>7, <1>5, <1>a DEF ReadNoMore
  <2> QED
    BY <2>1, <2>2, <1>5 DEF ReadNoMore
(* A row for the document in hand, or one that was there, covers it.       *)
<1>s. ASSUME x.at \in InDocument, ToSave(i), dumpRun' = dumpRun,
             \/ \E s \in Terminal : document' = [document EXCEPT ![TheDocument(i)] = s]
             \/ Pending(x) = {} /\ UNCHANGED document
      PROVE  CoverInv'
  <2> DEFINE y == [x EXCEPT !.at = "save", !.existed = FALSE, !.had = FALSE, !.next = 1]
             c == x.now.cursor
  <2>1. ingest' = [ingest EXCEPT ![i] = y]
    BY <1>s DEF ToSave
  <2>2. y.now = x.now /\ Pending(y) = {}
    BY <1>0 DEF DumpLocals, Pending, Handling
  <2>3. document \in [Documents -> Terminal \cup {"none"}]
    BY DEF DumpTypeOK
  <2>4. TheDocument(i) \in Documents
    BY <1>s, Handled
  <2>5. ASSUME NEW n \in 0 .. Len(Lines)
        PROVE  Rowless(document', n) \subseteq Rowless(document, n)
    <3>1. CASE UNCHANGED document
      BY <3>1
    <3>2. CASE \E s \in Terminal : document' = [document EXCEPT ![TheDocument(i)] = s]
      <4>1. \A d : document'[d] = "none" /\ d \in Documents => document[d] = "none"
        BY <3>2, <2>3 DEF Terminal
      <4>2. \A l \in Records(n) : Lines[l] \in Documents
        BY DumpAssumption DEF Records
      <4> QED
        BY <4>1, <4>2 DEF Rowless
    <3> QED
      BY <3>1, <3>2, <1>s
  <2>6. c \in 0 .. Len(Lines)
    BY <1>0 DEF Progress
  <2>7. Rowless(document', c) \ {} \subseteq Rowless(document, c) \ Pending(x)
    <3>1. CASE Pending(x) = {}
      BY <3>1, <2>5, <2>6
    <3>2. CASE \E s \in Terminal : document' = [document EXCEPT ![TheDocument(i)] = s]
      <4>1. document'[Lines[c]] # "none"
        BY <3>2, <2>3, <2>4 DEF Terminal, TheDocument
      <4>2. c \notin Rowless(document', c)
        BY <4>1 DEF Rowless
      <4>3. Pending(x) \subseteq {c}
        BY DEF Pending
      <4> QED
        BY <4>2, <4>3, <2>5, <2>6
    <3> QED
      BY <3>1, <3>2, <1>s
  <2>8. Counted(document', x.now, {})
    BY <2>7, <1>0, StaysCounted
  <2> QED
    BY <2>1, <2>2, <2>5, <2>8, <1>a, <1>s
<1>6. CASE CheckDone(i)
  <2>1. CASE document[TheDocument(i)] \in Terminal
    <3> DEFINE y == [x EXCEPT !.at = "save"]
               c == x.now.cursor
    <3>1. ingest' = [ingest EXCEPT ![i] = y]
      BY <2>1, <1>6, <1>0 DEF CheckDone, DumpGoes
    <3>2. y.now = x.now /\ Pending(y) = {}
      BY <1>0 DEF DumpLocals, Pending, Handling
    <3>3. c \notin Rowless(document, c)
      BY <2>1 DEF Rowless, TheDocument, Terminal
    <3>4. Pending(x) \subseteq {c}
      BY DEF Pending
    <3>5. Counted(document, x.now, {})
      BY <3>3, <3>4, <1>0, StaysCounted
    <3> QED
      BY <3>1, <3>2, <3>5, <1>6, <1>a DEF CheckDone
  <2>2. CASE document[TheDocument(i)] \notin Terminal
    BY <2>2, <1>6, <1>c DEF CheckDone, DumpPlaces, Handling
  <2> QED
    BY <2>1, <2>2
<1>7. CASE FilterDocument(i)
  <2>1. x.at \in InDocument /\ "filtered" \in Terminal
    BY <1>7 DEF FilterDocument, InDocument, DumpPlaces, Terminal
  <2> QED
    BY <2>1, <1>7, <1>s DEF FilterDocument
<1>8. CASE FindSnapshot(i)
  <2> DEFINE e == TheDocument(i) \in snapshot
             y == [x EXCEPT !.at = "insert", !.existed = e]
  <2>1. ingest' = [ingest EXCEPT ![i] = y]
    BY <1>8, <1>0 DEF FindSnapshot
  <2>2. y.now = x.now /\ y.at = "insert"
    BY <1>0 DEF DumpLocals
  <2>3. Pending(x) \subseteq Pending(y)
    BY <2>2 DEF Pending, Handling
  <2> QED
    BY <2>1, <2>2, <2>3, <1>8, <1>b DEF FindSnapshot
<1>9. CASE InsertSnapshot(i)
  BY <1>9, <1>c DEF InsertSnapshot, DumpPlaces, Handling
<1>10. CASE CountFragments(i)
  <2> DEFINE p == IF Fragmented(i) THEN "upsert"
                  ELSE IF TheDocument(i) \in Wiki THEN "wiki" ELSE "still"
             y == [x EXCEPT !.had = Fragmented(i), !.next = 1, !.at = p]
  <2>1. ingest' = [ingest EXCEPT ![i] = y]
    BY <1>10, <1>0 DEF CountFragments
  <2>2. y.now = x.now /\ y.at \in Handling
    BY <1>0 DEF DumpLocals, Handling
  <2>3. Pending(x) \subseteq Pending(y)
    BY <2>2 DEF Pending
  <2> QED
    BY <2>1, <2>2, <2>3, <1>10, <1>b DEF CountFragments
<1>11. CASE CountAllFragments(i)
  <2>1. PICK p \in {"sections", "upsert", "still"} : DumpGoes(i, p)
    BY <1>11 DEF CountAllFragments
  <2> QED
    BY <2>1, <1>11, <1>c DEF CountAllFragments, DumpPlaces, Handling
<1>n. ASSUME x.at \in Handling, NEW p \in Handling, Inserted(i, p),
             UNCHANGED <<dumpRun, document>>
      PROVE  CoverInv'
  <2> DEFINE q == IF x.next < Len(Fragments[TheDocument(i)]) THEN x.at ELSE p
             y == [x EXCEPT !.next = @ + 1, !.at = q]
  <2>1. ingest' = [ingest EXCEPT ![i] = y]
    BY <1>n, <1>0 DEF Inserted
  <2>2. q \in Handling
    BY <1>n
  <2>3. y.now = x.now /\ y.at = q
    BY <1>0 DEF DumpLocals
  <2>4. Pending(x) \subseteq Pending(y)
    BY <2>2, <2>3 DEF Pending
  <2> QED
    BY <2>1, <2>3, <2>4, <1>n, <1>b
<1>12. CASE InsertWikiFragment(i)
  <2>1. (IF SentencesOf(TheDocument(i)) = {} THEN "still" ELSE "upsert") \in Handling
    BY DEF Handling
  <2> QED
    BY <2>1, <1>12, <1>n DEF InsertWikiFragment, Handling
<1>13. CASE WikiFails(i)
  BY <1>13, <1>c DEF WikiFails, DumpPlaces, Handling
<1>14. CASE CountAgain(i)
  <2> DEFINE p == IF HasSentence(TheDocument(i)) \/ Fragments[TheDocument(i)] = <<>>
                  THEN "upsert" ELSE "plain"
             y == [x EXCEPT !.next = 1, !.at = p]
  <2>1. ingest' = [ingest EXCEPT ![i] = y]
    BY <1>14, <1>0 DEF CountAgain
  <2>2. y.now = x.now /\ y.at \in Handling
    BY <1>0 DEF DumpLocals, Handling
  <2>3. Pending(x) \subseteq Pending(y)
    BY <2>2 DEF Pending
  <2> QED
    BY <2>1, <2>2, <2>3, <1>14, <1>b DEF CountAgain
<1>15. CASE InsertSentence(i)
  BY <1>15, <1>n DEF InsertSentence, Handling
<1>16. CASE UpsertDocument(i)
  <2>1. x.at \in InDocument
    BY <1>16 DEF UpsertDocument, InDocument, DumpPlaces
  <2>2. \E s \in Terminal : document' = [document EXCEPT ![TheDocument(i)] = s]
    BY <1>16 DEF UpsertDocument, Terminal
  <2> QED
    BY <2>1, <2>2, <1>16, <1>s DEF UpsertDocument
<1>17. CASE DocumentFails(i)
  <2> DEFINE n == [x.now EXCEPT !.failed = @ + 1]
             y == [x EXCEPT !.at = "failed", !.now = n]
  <2>1. ingest' = [ingest EXCEPT ![i] = y]
    BY <1>17, <1>0 DEF DocumentFails
  <2>2. y.now = n /\ Pending(y) = {}
    BY <1>0 DEF DumpLocals, Pending, Handling
  <2>3. Pending(x) = {x.now.cursor}
    BY <1>17 DEF DocumentFails, Pending, Handling
  <2>4. Counted(document, n, {})
    BY <2>3, <1>0, FailureCounted
  <2> QED
    BY <2>1, <2>2, <2>4, <1>17, <1>a DEF DocumentFails
<1>18. CASE MarkFailed(i)
  <2>1. x.at \in InDocument /\ Pending(x) = {} /\ "failed" \in Terminal
    BY <1>18 DEF MarkFailed, InDocument, DumpPlaces, Pending, Handling, Terminal
  <2> QED
    BY <2>1, <1>18, <1>s DEF MarkFailed
<1>e. ASSUME DumpEnds(i), UNCHANGED document,
             \/ dumpRun'.saved = dumpRun.saved
             \/ Counted(document, dumpRun'.saved, {})
      PROVE  CoverInv'
  <2>1. Idle.now = Beginning /\ Pending(Idle) = {}
    BY DEF Idle, Pending, Handling
  <2>2. Counted(document, Beginning, {})
    <3>1. Records(0) = {} /\ Rowless(document, 0) = {}
      BY DEF Records, Rowless
    <3> QED
      BY <3>1, FS_EmptySet DEF Counted, Beginning
  <2> QED
    BY <2>1, <2>2, <1>e, <1>a DEF DumpEnds
<1>19. CASE SaveProgress(i)
  <2>1. Pending(x) = {} /\ Counted(document, x.now, {})
    BY <1>19, <1>0 DEF SaveProgress, Pending, Handling
  <2>2. dumpRun'.saved = x.now /\ UNCHANGED document
    BY <1>19 DEF SaveProgress, DumpTypeOK
  <2>3. CASE DumpEnds(i)
    BY <2>1, <2>2, <2>3, <1>e
  <2>4. CASE DumpGoes(i, "read")
    <3> DEFINE y == [x EXCEPT !.at = "read"]
    <3>1. ingest' = [ingest EXCEPT ![i] = y]
      BY <2>4, <1>0 DEF DumpGoes
    <3>2. y.now = x.now /\ Pending(y) = {}
      BY <1>0 DEF DumpLocals, Pending, Handling
    <3> QED
      BY <3>1, <3>2, <2>1, <2>2, <1>a
  <2> QED
    BY <2>3, <2>4, <1>19 DEF SaveProgress
<1>20. CASE FinishDump(i)
  <2>1. Counted(document, x.now, {})
    BY <1>20, <1>0 DEF FinishDump, Pending, Handling
  <2> QED
    BY <2>1, <1>20, <1>e DEF FinishDump
<1>21. CASE DumpDies(i)
  BY <1>21, <1>e DEF DumpDies
<1> QED
  BY <1>1, <1>2, <1>3, <1>4, <1>5, <1>6, <1>7, <1>8, <1>9, <1>10, <1>11, <1>12, <1>13,
     <1>14, <1>15, <1>16, <1>17, <1>18, <1>19, <1>20, <1>21 DEF DumpStep

(* However invocations of a run die, fail and overlap: what the saved      *)
(* cursor has passed was read and counted, and the records without a row   *)
(* are no more than the failures the run reports.                          *)
THEOREM DumpCovers == DumpSpec => []CursorIsCovered
<1>1. ASSUME DumpTypeOK, CoverInv, [DumpNext]_dumpVars
      PROVE  CoverInv'
  <2>1. CASE UNCHANGED dumpVars
    BY <2>1, <1>1 DEF dumpVars, CoverInv
  <2>2. CASE DumpNext
    BY <2>2, <1>1, DumpStepCovers DEF DumpNext
  <2> QED
    BY <2>1, <2>2, <1>1
<1>2. CoverInv => CursorIsCovered
  <2>1. ASSUME NEW n PROVE Rowless(document, n) \ {} = Unrecorded(n)
    BY DEF Rowless, Unrecorded
  <2> QED
    BY <2>1 DEF CoverInv, CursorIsCovered, Counted
<1> QED
  BY <1>1, <1>2, DumpInitCovers, DumpTypes, PTL DEF DumpSpec

-----------------------------------------------------------------------------
(* Fragments.  Of a document that was not disturbed the first fragments    *)
(* are stored, up to where the furthest of the invocations that insert them*)
(* is; an article that has sentences is inserted by one at a time.         *)
Done == {"ingested", "skipped_unchanged"}
Putting(x, d) == x.at \in Inserting /\ Lines[x.now.cursor] = d
Row(d, k) == [kind |-> Fragments[d][k].kind, ord |-> Fragments[d][k].ord, text |-> k]
First(d, n) == {Row(d, k) : k \in 1 .. n - 1}
Whole(d) == d \in Wiki => SentencesOf(d) # {}
Filled(rows, d) == rows # {} \/ Fragments[d] = <<>>

Extent(ing, rows, d, n) ==
    /\ rows = First(d, n)
    /\ \A i \in Ingests : Putting(ing[i], d) => ing[i].next <= n
    /\ \/ n = 1 \/ n = Len(Fragments[d]) + 1
       \/ \E i \in Ingests : Putting(ing[i], d) /\ ing[i].next = n

Clean(ing, row, rows, d) ==
    /\ \E n \in 1 .. Len(Fragments[d]) + 1 : Extent(ing, rows, d, n)
    /\ row \in Done => Filled(rows, d)
    /\ d \in Wiki => \A i, o \in Ingests : Putting(ing[i], d) /\ Putting(ing[o], d) => i = o

(* What the place of an invocation says of the document it has in hand.    *)
Placed(x, frag, dist) ==
    LET d == Lines[x.now.cursor]
    IN  /\ x.at \in Inserting => x.next \in 1 .. Len(Fragments[d])
        /\ x.at = "wiki" => x.next = 1
        /\ x.at \in {"wiki", "sections"} => d \in Wiki
        /\ d \notin dist /\ Whole(d) =>
              /\ x.at = "upsert" => Filled(frag[d], d)
              /\ d \in Wiki => x.at \notin {"still", "plain"}

WholeInv ==
    /\ \A i \in Ingests : ingest[i].at \in InDocument => Placed(ingest[i], fragment, disturbed)
    /\ \A d \in Documents \ disturbed :
          Whole(d) => Clean(ingest, document[d], fragment[d], d)

LEMMA SequenceFacts ==
    ASSUME NEW S, NEW s \in Seq(S)
    PROVE  Len(s) \in Nat /\ DOMAIN s = 1 .. Len(s) /\ \A k \in 1 .. Len(s) : s[k] \in S
OBVIOUS

LEMMA DocumentText ==
    ASSUME NEW d \in Documents
    PROVE  /\ Len(Fragments[d]) \in Nat /\ DOMAIN Fragments[d] = 1 .. Len(Fragments[d])
           /\ \A k \in 1 .. Len(Fragments[d]) :
                 Fragments[d][k] \in [kind : {"section", "sentence"}, ord : Nat]
<1>1. Fragments[d] \in Seq([kind : {"section", "sentence"}, ord : Nat])
  BY DumpAssumption
<1> QED BY <1>1, SequenceFacts

(* The invocation that steps stores nothing.  It may begin to insert, if   *)
(* it is alone or the text is plain, and stop if it has inserted nothing.  *)
LEMMA NothingStored ==
    ASSUME DumpTypeOK, WholeInv, NEW i \in Ingests, NEW y, ingest' = [ingest EXCEPT ![i] = y],
           fragment' = fragment, disturbed \subseteq disturbed',
           y.at \in InDocument => Placed(y, fragment, disturbed'),
           \A d \in Documents \ disturbed' : Whole(d) =>
              /\ document'[d] = document[d] \/ document'[d] \notin Done \/ Filled(fragment[d], d)
              /\ Putting(ingest[i], d) =>
                    ingest[i].next = 1 \/ (Putting(y, d) /\ y.next = ingest[i].next)
              /\ Putting(y, d) =>
                    \/ Putting(ingest[i], d) /\ y.next = ingest[i].next
                    \/ /\ y.next = 1
                       /\ d \in Wiki => \A o \in Ingests \ {i} : ~Putting(ingest[o], d)
    PROVE  WholeInv'
<1>0. /\ ingest'[i] = y /\ \A o \in Ingests \ {i} : ingest'[o] = ingest[o]
      /\ ingest \in [Ingests -> DumpLocals]
  BY DEF DumpTypeOK
<1>1. ASSUME NEW o \in Ingests, ingest'[o].at \in InDocument
      PROVE  Placed(ingest'[o], fragment', disturbed')
  <2>1. CASE o = i
    BY <2>1, <1>0, <1>1
  <2>2. CASE o # i
    <3>1. ingest'[o] = ingest[o] /\ Placed(ingest[o], fragment, disturbed)
      BY <2>2, <1>0, <1>1 DEF WholeInv
    <3> QED BY <3>1 DEF Placed
  <2> QED BY <2>1, <2>2
<1>2. ASSUME NEW d \in Documents \ disturbed', Whole(d)
      PROVE  Clean(ingest', document'[d], fragment'[d], d)
  <2>1. Clean(ingest, document[d], fragment[d], d)
    BY <1>2 DEF WholeInv
  <2>2. PICK n \in 1 .. Len(Fragments[d]) + 1 : Extent(ingest, fragment[d], d, n)
    BY <2>1 DEF Clean
  <2>3. Len(Fragments[d]) \in Nat
    BY DocumentText
  <2>4. Extent(ingest', fragment'[d], d, n)
    <3>1. ASSUME NEW o \in Ingests, Putting(ingest'[o], d) PROVE ingest'[o].next <= n
      BY <3>1, <1>0, <1>2, <2>2, <2>3 DEF Extent
    <3>2. \/ n = 1 \/ n = Len(Fragments[d]) + 1
          \/ \E o \in Ingests : Putting(ingest'[o], d) /\ ingest'[o].next = n
      <4>1. CASE \E o \in Ingests : Putting(ingest[o], d) /\ ingest[o].next = n
        <5>1. PICK o \in Ingests : Putting(ingest[o], d) /\ ingest[o].next = n
          BY <4>1
        <5>2. CASE o = i
          BY <5>1, <5>2, <1>0, <1>2
        <5>3. CASE o # i
          BY <5>1, <5>3, <1>0
        <5> QED BY <5>2, <5>3
      <4> QED BY <4>1, <2>2 DEF Extent
    <3> QED BY <3>1, <3>2, <2>2 DEF Extent
  <2>5. document'[d] \in Done => Filled(fragment'[d], d)
    BY <1>2, <2>1 DEF Clean
  <2>6. d \in Wiki => \A j, o \in Ingests :
                         Putting(ingest'[j], d) /\ Putting(ingest'[o], d) => j = o
    BY <1>0, <1>2, <2>1 DEF Clean
  <2> QED BY <2>4, <2>5, <2>6 DEF Clean
<1> QED BY <1>1, <1>2 DEF WholeInv

(* One fragment more, or one that is there already.                        *)
LEMMA NextStored ==
    ASSUME DumpTypeOK, NEW i \in Ingests, NEW d \in Documents, NEW k, NEW kind, NEW n \in Nat,
           d = TheDocument(i), k = ingest[i].next, k \in 1 .. Len(Fragments[d]),
           kind = Fragments[d][k].kind, k <= n, n <= Len(Fragments[d]) + 1,
           fragment[d] = First(d, n)
    PROVE  Stored(i, kind)[d] = IF k = n THEN First(d, n + 1) ELSE First(d, n)
<1>0. /\ Len(Fragments[d]) \in Nat /\ k \in Nat /\ DOMAIN Fragments[d] = 1 .. Len(Fragments[d])
      /\ fragment \in [Documents -> SUBSET FragmentRows]
      /\ kind \in {"section", "sentence"}
  BY DocumentText DEF DumpTypeOK
<1>1. Row(d, k) = [kind |-> kind, ord |-> Fragments[d][k].ord, text |-> k]
  BY DEF Row
<1>2. First(d, n + 1) = First(d, n) \cup {Row(d, n)} \/ n = 0
  BY <1>0 DEF First
<1>3. \A f \in First(d, n) : \E l \in 1 .. n - 1 :
         f = Row(d, l) /\ f.kind = Fragments[d][l].kind /\ f.ord = Fragments[d][l].ord
  BY DEF First, Row
<1>4. CASE k = n
  <2>1. ~(kind = "sentence" /\ \E f \in fragment[d] : f.kind = kind /\ f.ord = Fragments[d][k].ord)
    <3> SUFFICES ASSUME kind = "sentence", NEW f \in fragment[d], f.kind = kind,
                        f.ord = Fragments[d][k].ord
                 PROVE  FALSE
      OBVIOUS
    <3>1. PICK l \in 1 .. n - 1 : f.kind = Fragments[d][l].kind /\ f.ord = Fragments[d][l].ord
      BY <1>3
    <3>2. l \in DOMAIN Fragments[d] /\ k \in DOMAIN Fragments[d] /\ l # k
      BY <1>0, <1>4
    <3> QED BY <3>1, <3>2, DumpAssumption
  <2>2. Stored(i, kind)[d] = fragment[d] \cup {Row(d, k)}
    BY <2>1, <1>0, <1>1 DEF Stored
  <2> QED BY <2>2, <1>2, <1>4
<1>5. CASE k < n
  <2>1. Row(d, k) \in First(d, n)
    BY <1>0, <1>5 DEF First
  <2>2. Stored(i, kind)[d] = fragment[d] \/ Stored(i, kind)[d] = fragment[d] \cup {Row(d, k)}
    BY <1>0, <1>1 DEF Stored
  <2>3. Stored(i, kind)[d] = First(d, n)
    BY <2>1, <2>2
  <2>4. k # n
    BY <1>0, <1>5
  <2> QED BY <2>3, <2>4
<1> QED BY <1>0, <1>4, <1>5

(* An invocation that inserts stores its next fragment and goes on, or is  *)
(* through with the document.                                              *)
LEMMA NextFragment ==
    ASSUME DumpTypeOK, WholeInv, NEW i \in Ingests, NEW y, NEW d \in Documents, NEW k, NEW kind,
           NEW last \in {"still", "upsert"},
           d = TheDocument(i), k = ingest[i].next, ingest[i].at \in Inserting,
           ingest' = [ingest EXCEPT ![i] = y], fragment' = Stored(i, kind),
           UNCHANGED <<document, disturbed>>,
           d \notin disturbed /\ Whole(d) => kind = Fragments[d][k].kind,
           y.now = ingest[i].now, y.next = k + 1,
           y.at = IF k < Len(Fragments[d]) THEN ingest[i].at ELSE last,
           last = "still" => d \in Wiki /\ ~Whole(d)
    PROVE  WholeInv'
<1>0. /\ ingest'[i] = y /\ \A o \in Ingests \ {i} : ingest'[o] = ingest[o]
      /\ ingest \in [Ingests -> DumpLocals] /\ fragment \in [Documents -> SUBSET FragmentRows]
      /\ k \in Nat /\ Len(Fragments[d]) \in Nat /\ ingest[i].at \in InDocument
  BY DocumentText DEF DumpTypeOK, DumpLocals, InDocument, DumpPlaces, Inserting
<1>1. Placed(ingest[i], fragment, disturbed) /\ k \in 1 .. Len(Fragments[d])
  BY <1>0 DEF WholeInv, Placed, TheDocument
<1>2. Lines[y.now.cursor] = d /\ Lines[ingest[i].now.cursor] = d /\ Putting(ingest[i], d)
  BY DEF TheDocument, Putting
<1>3. \A e \in Documents \ {d} : fragment'[e] = fragment[e]
  BY <1>0 DEF Stored
<1>4. ASSUME NEW e \in Documents \ disturbed, Whole(e), e # d
      PROVE  Clean(ingest', document'[e], fragment'[e], e)
  <2>1. Clean(ingest, document[e], fragment[e], e) /\ fragment'[e] = fragment[e]
    BY <1>3, <1>4 DEF WholeInv
  <2>2. ~Putting(y, e) /\ ~Putting(ingest[i], e)
    BY <1>2, <1>4 DEF Putting
  <2>3. \A o \in Ingests : Putting(ingest'[o], e) <=> Putting(ingest[o], e)
    BY <2>2, <1>0
  <2>4. \A o \in Ingests : Putting(ingest[o], e) => ingest'[o] = ingest[o]
    BY <2>2, <1>0
  <2> QED BY <2>1, <2>3, <2>4 DEF Clean, Extent
<1>5. ASSUME d \notin disturbed, Whole(d)
      PROVE  Clean(ingest', document'[d], fragment'[d], d) /\ Filled(fragment'[d], d)
  <2>1. Clean(ingest, document[d], fragment[d], d) /\ kind = Fragments[d][k].kind
    BY <1>5 DEF WholeInv
  <2>2. PICK n \in 1 .. Len(Fragments[d]) + 1 : Extent(ingest, fragment[d], d, n)
    BY <2>1 DEF Clean
  <2>3. k <= n /\ n \in Nat /\ fragment[d] = First(d, n)
    BY <1>2, <2>2 DEF Extent
  <2>4. fragment'[d] = IF k = n THEN First(d, n + 1) ELSE First(d, n)
    BY <2>1, <2>2, <2>3, <1>1, NextStored
  <2> DEFINE m == IF k = n THEN n + 1 ELSE n
  <2>5. fragment'[d] = First(d, m) /\ m \in 1 .. Len(Fragments[d]) + 1 /\ n <= m /\ k < m
    BY <2>2, <2>3, <2>4, <1>0, <1>1
  <2>6. \A o \in Ingests : Putting(ingest'[o], d) => ingest'[o].next <= m
    <3> SUFFICES ASSUME NEW o \in Ingests, Putting(ingest'[o], d) PROVE ingest'[o].next <= m
      OBVIOUS
    <3>1. CASE o = i
      BY <3>1, <2>5, <1>0
    <3>2. CASE o # i
      <4>1. ingest[o].next <= n /\ ingest[o].next \in Nat
        BY <3>2, <2>2, <1>0 DEF Extent, DumpLocals
      <4> QED BY <4>1, <3>2, <2>5, <2>3, <1>0
    <3> QED BY <3>1, <3>2
  <2>7. \/ m = 1 \/ m = Len(Fragments[d]) + 1
        \/ \E o \in Ingests : Putting(ingest'[o], d) /\ ingest'[o].next = m
    <3>1. CASE k = n
      <4>1. CASE k < Len(Fragments[d])
        <5>1. Putting(y, d) /\ y.next = m
          BY <3>1, <4>1, <1>2 DEF Putting
        <5> QED BY <5>1, <1>0
      <4>2. CASE ~(k < Len(Fragments[d]))
        BY <3>1, <4>2, <1>0, <1>1
      <4> QED BY <4>1, <4>2
    <3>2. CASE k # n
      <4>1. m = n /\ n # 1
        BY <3>2, <2>2, <2>3, <1>1
      <4>2. CASE \E o \in Ingests : Putting(ingest[o], d) /\ ingest[o].next = n
        BY <4>1, <4>2, <3>2, <1>0
      <4> QED BY <4>1, <4>2, <2>2 DEF Extent
    <3> QED BY <3>1, <3>2
  <2>8. Extent(ingest', fragment'[d], d, m)
    BY <2>5, <2>6, <2>7 DEF Extent
  <2>9. Filled(fragment'[d], d)
    <3>1. Row(d, k) \in First(d, m)
      <4>1. k \in 1 .. m - 1
        BY <2>5, <1>1, <1>0
      <4> QED BY <4>1 DEF First
    <3> QED BY <3>1, <2>5 DEF Filled
  <2>10. Putting(y, d) => Putting(ingest[i], d)
    BY <1>2
  <2>11. d \in Wiki => \A j, o \in Ingests :
                         Putting(ingest'[j], d) /\ Putting(ingest'[o], d) => j = o
    <3>1. \A o \in Ingests : Putting(ingest'[o], d) => Putting(ingest[o], d)
      BY <2>10, <1>0
    <3> QED BY <3>1, <2>1 DEF Clean
  <2> HIDE DEF m
  <2> QED BY <2>5, <2>8, <2>9, <2>11 DEF Clean
<1>6. ASSUME NEW o \in Ingests, ingest'[o].at \in InDocument
      PROVE  Placed(ingest'[o], fragment', disturbed')
  <2>1. CASE o = i
    <3>1. y.at \in Inserting => y.next \in 1 .. Len(Fragments[d])
      BY <1>0, <1>1 DEF Inserting
    <3>2. /\ y.at # "wiki" /\ (y.at = "sections" => d \in Wiki)
      BY <1>1, <1>2 DEF Placed, Inserting
    <3>3. d \notin disturbed /\ Whole(d) =>
              (y.at = "upsert" => Filled(fragment'[d], d)) /\ (d \in Wiki => y.at \notin {"still", "plain"})
      BY <1>1, <1>2, <1>5 DEF Placed, Inserting
    <3> QED BY <2>1, <3>1, <3>2, <3>3, <1>0, <1>2 DEF Placed
  <2>2. CASE o # i
    <3>1. ingest'[o] = ingest[o] /\ Placed(ingest[o], fragment, disturbed)
      BY <2>2, <1>0, <1>6 DEF WholeInv
    <3>2. PICK e : e = Lines[ingest[o].now.cursor]
      OBVIOUS
    <3>3. e \in Documents
      BY <3>1, <3>2, <1>6, Handled DEF TheDocument
    <3>4. CASE e = d
      <4>1. e \notin disturbed /\ Whole(e) => Filled(fragment'[e], e)
        BY <3>4, <1>5
      <4> QED BY <3>1, <3>2, <4>1 DEF Placed
    <3>5. CASE e # d
      <4>1. fragment'[e] = fragment[e]
        BY <3>3, <3>5, <1>3
      <4> QED BY <3>1, <3>2, <4>1 DEF Placed
    <3> QED BY <3>4, <3>5
  <2> QED BY <2>1, <2>2
<1> QED BY <1>4, <1>5, <1>6 DEF WholeInv

LEMMA DumpInitWhole == DumpInit => WholeInv
<1> SUFFICES ASSUME DumpInit PROVE WholeInv
  OBVIOUS
<1>1. \A i \in Ingests : ingest[i].at = "idle"
  BY DEF DumpInit, Idle
<1>2. \A i \in Ingests : ingest[i].at \notin InDocument \cup Inserting
  BY <1>1 DEF InDocument, Inserting
<1>3. ASSUME NEW d \in Documents PROVE Clean(ingest, document[d], fragment[d], d)
  <2>1. 1 \in 1 .. Len(Fragments[d]) + 1
    BY DocumentText
  <2>2. First(d, 1) = {}
    BY DEF First
  <2>3. document[d] \notin Done /\ fragment[d] = {}
    BY DEF DumpInit, Done
  <2>4. Extent(ingest, fragment[d], d, 1)
    BY <1>2, <2>2, <2>3 DEF Extent, Putting
  <2> QED BY <1>2, <2>1, <2>3, <2>4 DEF Clean, Putting
<1> QED BY <1>2, <1>3 DEF WholeInv

(* With no invocation in it, what is stored is nothing or all of it, and a *)
(* sentence only if there are any.                                         *)
LEMMA StoredSentences ==
    ASSUME DumpTypeOK, WholeInv, NEW d \in Documents \ disturbed, Whole(d), d \in Wiki,
           \A o \in Ingests : ~Putting(ingest[o], d)
    PROVE  fragment[d] = {} \/ HasSentence(d)
<1>1. PICK n \in 1 .. Len(Fragments[d]) + 1 : Extent(ingest, fragment[d], d, n)
  BY DEF WholeInv, Clean
<1>2. n = 1 \/ n = Len(Fragments[d]) + 1
  BY <1>1 DEF Extent
<1>3. CASE n = 1
  BY <1>1, <1>3 DEF Extent, First
<1>4. CASE n = Len(Fragments[d]) + 1
  <2>1. PICK k \in 1 .. Len(Fragments[d]) : Fragments[d][k].kind = "sentence"
    BY DocumentText DEF Whole, SentencesOf
  <2>2. Row(d, k) \in fragment[d] /\ Row(d, k).kind = "sentence"
    BY <1>1, <1>4, <2>1, DocumentText DEF Extent, First, Row
  <2> QED BY <2>2 DEF HasSentence
<1> QED BY <1>2, <1>3, <1>4

(* The invocation neither stores nor goes on to insert; if it was inserting*)
(* it had inserted nothing, or has disturbed the document.                 *)
LEMMA NotInserting ==
    ASSUME DumpTypeOK, WholeInv, NEW i \in Ingests, NEW y, ingest' = [ingest EXCEPT ![i] = y],
           fragment' = fragment, disturbed \subseteq disturbed', y.at \notin Inserting,
           \/ ingest[i].at \notin Inserting \/ ingest[i].next = 1
           \/ TheDocument(i) \in disturbed',
           y.at \in InDocument => Placed(y, fragment, disturbed'),
           \A d \in Documents \ disturbed' : Whole(d) =>
              document'[d] = document[d] \/ document'[d] \notin Done \/ Filled(fragment[d], d)
    PROVE  WholeInv'
<1>1. ASSUME NEW d \in Documents \ disturbed', Putting(ingest[i], d) PROVE ingest[i].next = 1
  BY <1>1 DEF Putting, TheDocument
<1>2. \A d : ~Putting(y, d)
  BY DEF Putting
<1> QED BY <1>1, <1>2, NothingStored

LEMMA PlainlyPlaced ==
    ASSUME NEW y, y.at \in {"check", "plan", "insert", "count", "failed", "save"}, NEW f, NEW t
    PROVE  Placed(y, f, t) /\ y.at \notin Inserting
BY DEF Placed, Inserting

LEMMA DumpStepWhole ==
    ASSUME DumpTypeOK, WholeInv, NEW i \in Ingests, DumpStep(i)
    PROVE  WholeInv'
<1> DEFINE x == ingest[i]
<1>0. /\ x \in DumpLocals /\ ingest \in [Ingests -> DumpLocals]
      /\ document \in [Documents -> Terminal \cup {"none"}]
      /\ x.at \in InDocument => Placed(x, fragment, disturbed) /\ TheDocument(i) \in Documents
  BY Handled DEF DumpTypeOK, WholeInv
(* Steps that leave the documents alone, and do not go into one.           *)
<1>a. ASSUME NEW y, ingest' = [ingest EXCEPT ![i] = y], fragment' = fragment,
             document' = document, disturbed \subseteq disturbed',
             y.at \notin InDocument \/ y.at \in {"check", "plan", "insert", "count", "failed", "save"},
             \/ x.at \notin Inserting \/ x.next = 1 \/ TheDocument(i) \in disturbed'
      PROVE  WholeInv'
  <2>1. y.at \notin Inserting /\ (y.at \in InDocument => Placed(y, fragment, disturbed'))
    BY <1>a, PlainlyPlaced DEF Inserting, InDocument, DumpPlaces
  <2> QED BY <2>1, <1>a, NotInserting
<1>b. ASSUME NEW p \in DumpPlaces, DumpGoes(i, p), fragment' = fragment,
             document' = document, disturbed \subseteq disturbed',
             p \notin InDocument \/ p \in {"check", "plan", "insert", "count", "failed", "save"},
             x.at \notin Inserting
      PROVE  WholeInv'
  <2>1. PICK y : y = [x EXCEPT !.at = p]
    OBVIOUS
  <2>2. y.at = p /\ ingest' = [ingest EXCEPT ![i] = y]
    BY <2>1, <1>0, <1>b DEF DumpGoes, DumpLocals
  <2> QED BY <2>2, <1>a, <1>b
<1>1. CASE StartDump(i)
  BY <1>1, <1>b DEF StartDump, DumpPlaces, InDocument, Inserting
<1>2. CASE ResumeDump(i)
  <2>1. PICK y : y = [x EXCEPT !.at = "mark", !.now = Restored(dumpRun.saved)]
    OBVIOUS
  <2>2. y.at = "mark" /\ ingest' = [ingest EXCEPT ![i] = y]
    BY <2>1, <1>0, <1>2 DEF ResumeDump, DumpLocals
  <2> QED BY <2>2, <1>2, <1>a DEF ResumeDump, InDocument, Inserting
<1>3. CASE MarkRunning(i)
  BY <1>3, <1>b DEF MarkRunning, DumpPlaces, InDocument, Inserting
<1>4. CASE ReadRecord(i)
  <2>1. PICK l \in Ahead(i) : ingest' = [ingest EXCEPT ![i] = OnRecord(i, l)]
    BY <1>4 DEF ReadRecord
  <2>2. PICK y : y = OnRecord(i, l)
    OBVIOUS
  <2>3. y.at \in {"check", "plan"}
    BY <2>2, <1>0 DEF OnRecord, DumpLocals
  <2> QED BY <2>1, <2>2, <2>3, <1>4, <1>a DEF ReadRecord, Inserting
<1>5. CASE ReadNoMore(i)
  <2>1. CASE DumpGoes(i, "part")
    BY <2>1, <1>5, <1>b DEF ReadNoMore, DumpPlaces, InDocument, Inserting
  <2>2. CASE ingest' = [ingest EXCEPT ![i].at = "finish", ![i].now.cursor = Len(Lines)]
    <3>1. PICK y : y = [x EXCEPT !.at = "finish", !.now.cursor = Len(Lines)]
      OBVIOUS
    <3>2. y.at = "finish" /\ ingest' = [ingest EXCEPT ![i] = y]
      BY <3>1, <2>2, <1>0 DEF DumpLocals
    <3> QED BY <3>2, <1>5, <1>a DEF ReadNoMore, InDocument, Inserting
  <2> QED BY <2>1, <2>2, <1>5 DEF ReadNoMore
<1>6. CASE CheckDone(i)
  BY <1>6, <1>b DEF CheckDone, DumpPlaces, InDocument, Inserting
(* The document gets its row.                                              *)
<1>s. ASSUME ToSave(i), x.at \notin Inserting, UNCHANGED <<fragment, disturbed>>,
             \A d \in Documents \ disturbed : Whole(d) =>
                document'[d] = document[d] \/ document'[d] \notin Done \/ Filled(fragment[d], d)
      PROVE  WholeInv'
  <2>1. PICK y : y = [x EXCEPT !.at = "save", !.existed = FALSE, !.had = FALSE, !.next = 1]
    OBVIOUS
  <2>2. y.at = "save" /\ ingest' = [ingest EXCEPT ![i] = y]
    BY <2>1, <1>0, <1>s DEF ToSave, DumpLocals
  <2>3. Placed(y, fragment, disturbed') /\ y.at \notin Inserting
    BY <2>2, PlainlyPlaced
  <2> QED BY <2>2, <2>3, <1>s, NotInserting
<1>7. CASE FilterDocument(i)
  <2>1. x.at = "plan" /\ \A d \in Documents : document'[d] = document[d] \/ document'[d] \notin Done
    BY <1>7, <1>0 DEF FilterDocument, Done
  <2> QED BY <2>1, <1>7, <1>s DEF FilterDocument, Inserting
<1>8. CASE FindSnapshot(i)
  <2>1. PICK y : y = [x EXCEPT !.at = "insert", !.existed = TheDocument(i) \in snapshot]
    OBVIOUS
  <2>2. y.at = "insert" /\ ingest' = [ingest EXCEPT ![i] = y]
    BY <2>1, <1>0, <1>8 DEF FindSnapshot, DumpLocals
  <2> QED BY <2>2, <1>8, <1>a DEF FindSnapshot, Inserting
<1>9. CASE InsertSnapshot(i)
  BY <1>9, <1>b DEF InsertSnapshot, DumpPlaces, InDocument, Inserting
<1> DEFINE d == TheDocument(i)
<1>10. CASE CountFragments(i)
  <2>1. PICK y : y = [x EXCEPT !.had = Fragmented(i), !.next = 1,
            !.at = IF Fragmented(i) THEN "upsert" ELSE IF d \in Wiki THEN "wiki" ELSE "still"]
    OBVIOUS
  <2>2. /\ ingest' = [ingest EXCEPT ![i] = y] /\ y.next = 1 /\ y.now = x.now
        /\ y.at = IF Fragmented(i) THEN "upsert" ELSE IF d \in Wiki THEN "wiki" ELSE "still"
    BY <2>1, <1>0, <1>10 DEF CountFragments, DumpLocals
  <2>3. y.at = "upsert" => fragment[d] # {}
    BY <2>2 DEF Fragmented, HasSentence
  <2>4. Lines[y.now.cursor] = d
    BY <2>2 DEF TheDocument
  <2> HIDE DEF d
  <2>5. Placed(y, fragment, disturbed)
    BY <2>2, <2>3, <2>4 DEF Placed, Filled, Inserting
  <2>6. y.at \notin Inserting
    BY <2>2 DEF Inserting
  <2> QED BY <2>2, <2>5, <2>6, <1>10, NotInserting DEF CountFragments, Inserting
<1>11. CASE CountAllFragments(i)
  <2>0. /\ x.at = "wiki" /\ x.next = 1 /\ d \in Wiki /\ d \in Documents /\ Len(Fragments[d]) \in Nat
        /\ disturbed \subseteq disturbed'
    BY <1>11, <1>0, DocumentText DEF CountAllFragments, InDocument, DumpPlaces, Placed, TheDocument
  <2>a. d \notin disturbed' => \A o \in Ingests : ~Putting(ingest[o], d)
    BY <1>11 DEF CountAllFragments, Putting, TheDocument
  <2>1. PICK p : p = IF fragment[d] = {} /\ Fragments[d] # <<>> THEN "sections"
                     ELSE IF HasSentence(d) THEN "upsert" ELSE "still"
    OBVIOUS
  <2>2. PICK y : y = [x EXCEPT !.at = p]
    OBVIOUS
  <2>3. /\ ingest' = [ingest EXCEPT ![i] = y] /\ y.at = p /\ y.next = 1 /\ Lines[y.now.cursor] = d
    BY <2>0, <2>1, <2>2, <1>0, <1>11 DEF CountAllFragments, DumpGoes, DumpLocals, TheDocument
  <2>4. fragment' = fragment /\ document' = document
    BY <1>11 DEF CountAllFragments
  <2>5. Fragments[d] # <<>> => 1 \in 1 .. Len(Fragments[d])
    BY <2>0, DumpAssumption
  <2>6. SentencesOf(d) # {} => Fragments[d] # <<>>
    BY DEF SentencesOf
  <2>7. p = "still" => ~(d \notin disturbed' /\ Whole(d))
    <3> SUFFICES ASSUME d \notin disturbed', Whole(d), p = "still" PROVE FALSE
      OBVIOUS
    <3>1. fragment[d] = {} \/ HasSentence(d)
      BY <2>0, <2>a, StoredSentences
    <3> QED BY <3>1, <2>0, <2>1, <2>6 DEF Whole
  <2>8. p = "upsert" => fragment[d] # {}
    BY <2>1 DEF HasSentence
  <2>9. p \in {"sections", "upsert", "still"} /\ (p = "sections" => Fragments[d] # <<>>)
    BY <2>1
  <2> HIDE DEF d
  <2>10. Placed(y, fragment, disturbed')
    BY <2>0, <2>3, <2>5, <2>7, <2>8, <2>9 DEF Placed, Filled, Inserting
  <2>11. \A e : Putting(y, e) => e = d
    BY <2>3 DEF Putting
  <2>12. \A e : ~Putting(x, e)
    BY <2>0 DEF Putting, Inserting
  <2>13. ASSUME NEW e \in Documents \ disturbed'
        PROVE  /\ document'[e] = document[e]
               /\ Putting(x, e) => x.next = 1 \/ (Putting(y, e) /\ y.next = x.next)
               /\ Putting(y, e) =>
                     /\ y.next = 1
                     /\ Whole(e) /\ e \in Wiki => \A o \in Ingests \ {i} : ~Putting(ingest[o], e)
    BY <2>a, <2>3, <2>4, <2>11, <2>12
  <2> QED BY <2>0, <2>3, <2>4, <2>10, <2>13, NothingStored
<1>n. ASSUME NEW last \in {"still", "upsert"}, NEW kind, Inserted(i, last), x.at \in Inserting,
             fragment' = Stored(i, kind), UNCHANGED <<document, disturbed>>,
             d \notin disturbed /\ Whole(d) => kind = Fragments[d][x.next].kind,
             last = "still" => d \in Wiki /\ ~Whole(d)
      PROVE  WholeInv'
  <2>1. PICK y : y = [x EXCEPT !.next = @ + 1,
                              !.at = IF x.next < Len(Fragments[d]) THEN @ ELSE last]
    OBVIOUS
  <2>2. /\ ingest' = [ingest EXCEPT ![i] = y] /\ y.now = x.now /\ y.next = x.next + 1
        /\ y.at = IF x.next < Len(Fragments[d]) THEN x.at ELSE last
    BY <2>1, <1>0, <1>n DEF Inserted, DumpLocals
  <2>3. d \in Documents
    BY <1>0, <1>n DEF Inserting, InDocument, DumpPlaces
  <2>4. PICK k, e : k = x.next /\ e = d
    OBVIOUS
  <2> HIDE DEF d
  <2> QED BY <2>2, <2>3, <2>4, <1>n, NextFragment DEF d
<1>12. CASE InsertWikiFragment(i)
  <2>1. x.at \in Inserting /\ d \in Wiki
    BY <1>12, <1>0 DEF InsertWikiFragment, Inserting, InDocument, DumpPlaces, Placed, TheDocument
  <2>2. PICK last \in {"still", "upsert"} :
           Inserted(i, last) /\ (last = "still" => SentencesOf(d) = {})
    BY <1>12 DEF InsertWikiFragment
  <2>3. fragment' = Stored(i, Fragments[d][x.next].kind) /\ UNCHANGED <<document, disturbed>>
    BY <1>12 DEF InsertWikiFragment
  <2> QED BY <2>1, <2>2, <2>3, <1>n DEF Whole
<1>13. CASE WikiFails(i)
  <2>1. PICK y : y = [x EXCEPT !.at = "still"]
    OBVIOUS
  <2>2. /\ ingest' = [ingest EXCEPT ![i] = y] /\ y.at = "still" /\ Lines[y.now.cursor] = d
    BY <2>1, <1>0, <1>13 DEF WikiFails, DumpGoes, DumpLocals, TheDocument
  <2>3. d \in disturbed' /\ disturbed \subseteq disturbed' /\ fragment' = fragment /\ document' = document
    BY <1>13 DEF WikiFails
  <2>4. Placed(y, fragment, disturbed') /\ y.at \notin Inserting
    BY <2>2, <2>3 DEF Placed, Inserting
  <2> QED BY <2>2, <2>3, <2>4, NotInserting
<1>14. CASE CountAgain(i)
  <2>0. /\ x.at = "still" /\ d \in Documents /\ Len(Fragments[d]) \in Nat
        /\ ~(d \in Wiki /\ d \notin disturbed /\ Whole(d))
    BY <1>14, <1>0, DocumentText DEF CountAgain, InDocument, DumpPlaces, Placed, TheDocument
  <2>1. PICK p : p = IF HasSentence(d) \/ Fragments[d] = <<>> THEN "upsert" ELSE "plain"
    OBVIOUS
  <2>2. PICK y : y = [x EXCEPT !.next = 1, !.at = p]
    OBVIOUS
  <2>3. /\ ingest' = [ingest EXCEPT ![i] = y] /\ y.at = p /\ y.next = 1 /\ Lines[y.now.cursor] = d
    BY <2>1, <2>2, <1>0, <1>14 DEF CountAgain, DumpLocals, TheDocument
  <2>4. fragment' = fragment /\ document' = document /\ disturbed' = disturbed
    BY <1>14 DEF CountAgain
  <2>5. Fragments[d] # <<>> => 1 \in 1 .. Len(Fragments[d])
    BY <2>0, DumpAssumption
  <2>6. p \in {"upsert", "plain"} /\ (p = "plain" => Fragments[d] # <<>>)
        /\ (p = "upsert" => fragment[d] # {} \/ Fragments[d] = <<>>)
    BY <2>1 DEF HasSentence
  <2> HIDE DEF d
  <2>7. Placed(y, fragment, disturbed')
    BY <2>0, <2>3, <2>4, <2>5, <2>6 DEF Placed, Filled, Inserting
  <2>8. \A e : Putting(y, e) => e = d
    BY <2>3 DEF Putting
  <2>9. \A e : ~Putting(x, e)
    BY <2>0 DEF Putting, Inserting
  <2>10. ASSUME NEW e \in Documents \ disturbed'
        PROVE  /\ document'[e] = document[e]
               /\ Putting(x, e) => x.next = 1 \/ (Putting(y, e) /\ y.next = x.next)
               /\ Putting(y, e) =>
                     /\ y.next = 1
                     /\ Whole(e) /\ e \in Wiki => \A o \in Ingests \ {i} : ~Putting(ingest[o], e)
    BY <2>0, <2>3, <2>4, <2>8, <2>9
  <2> QED BY <2>3, <2>4, <2>7, <2>10, NothingStored
<1>15. CASE InsertSentence(i)
  <2>1. x.at = "plain" /\ x.next \in DOMAIN Fragments[d]
    BY <1>15 DEF InsertSentence
  <2>2. d \in Documents /\ ~(d \in Wiki /\ d \notin disturbed /\ Whole(d))
    BY <2>1, <1>0 DEF InDocument, DumpPlaces, Placed, TheDocument
  <2>3. d \notin disturbed /\ Whole(d) => Fragments[d][x.next].kind = "sentence"
    BY <2>1, <2>2, DumpAssumption
  <2> QED BY <2>1, <2>3, <1>15, <1>n DEF InsertSentence, Inserting
<1>16. CASE UpsertDocument(i)
  <2>1. x.at = "upsert" /\ d \in Documents
    BY <1>16, <1>0 DEF UpsertDocument, InDocument, DumpPlaces
  <2>2. d \notin disturbed /\ Whole(d) => Filled(fragment[d], d)
    BY <2>1, <1>0 DEF InDocument, DumpPlaces, Placed, TheDocument
  <2>3. \A e \in Documents : e # d => document'[e] = document[e]
    BY <1>16, <1>0 DEF UpsertDocument
  <2> QED BY <2>1, <2>2, <2>3, <1>16, <1>s DEF UpsertDocument, Inserting
<1>c. /\ disturbed \subseteq CutShort(i)
      /\ x.at \notin Inserting \/ x.next = 1 \/ TheDocument(i) \in CutShort(i)
  <2>1. x.at \in Inserting => x.next \in 1 .. Len(Fragments[d]) /\ Len(Fragments[d]) \in Nat
    BY <1>0, DocumentText DEF Placed, TheDocument, Inserting, InDocument, DumpPlaces
  <2> QED BY <2>1 DEF CutShort
<1>17. CASE DocumentFails(i)
  <2>1. PICK y : y = [x EXCEPT !.at = "failed", !.now.failed = @ + 1]
    OBVIOUS
  <2>2. y.at = "failed" /\ ingest' = [ingest EXCEPT ![i] = y]
    BY <2>1, <1>0, <1>17 DEF DocumentFails, DumpLocals
  <2> QED BY <2>2, <1>17, <1>a, <1>c DEF DocumentFails
<1>18. CASE MarkFailed(i)
  <2>1. x.at = "failed" /\ \A e \in Documents : document'[e] = document[e] \/ document'[e] \notin Done
    BY <1>18, <1>0 DEF MarkFailed, Done
  <2> QED BY <2>1, <1>18, <1>s DEF MarkFailed, Inserting
<1>e. ASSUME DumpEnds(i), fragment' = fragment, document' = document,
             disturbed \subseteq disturbed',
             \/ x.at \notin Inserting \/ x.next = 1 \/ TheDocument(i) \in disturbed'
      PROVE  WholeInv'
  <2>1. Idle.at \notin InDocument
    BY DEF Idle, InDocument
  <2> QED BY <2>1, <1>a, <1>e DEF DumpEnds
<1>19. CASE SaveProgress(i)
  <2>1. CASE DumpEnds(i)
    BY <2>1, <1>19, <1>e DEF SaveProgress, Inserting
  <2>2. CASE DumpGoes(i, "read")
    BY <2>2, <1>19, <1>b DEF SaveProgress, Inserting, InDocument, DumpPlaces
  <2> QED BY <2>1, <2>2, <1>19 DEF SaveProgress
<1>20. CASE FinishDump(i)
  BY <1>20, <1>e DEF FinishDump, Inserting
<1>21. CASE DumpDies(i)
  BY <1>21, <1>e, <1>c DEF DumpDies
<1> QED
  BY <1>1, <1>2, <1>3, <1>4, <1>5, <1>6, <1>7, <1>8, <1>9, <1>10, <1>11, <1>12, <1>13,
     <1>14, <1>15, <1>16, <1>17, <1>18, <1>19, <1>20, <1>21 DEF DumpStep

(* A document that counts as ingested, or as unchanged, has its sentences  *)
(* and nothing else for a sentence, unless its fragments failed, were cut  *)
(* short or raced for: whatever died before them or after them is healed.  *)
THEOREM IngestedAreWhole == DumpSpec => []IngestedIsWhole
<1>1. ASSUME DumpTypeOK, WholeInv, [DumpNext]_dumpVars
      PROVE  WholeInv'
  <2>1. CASE UNCHANGED dumpVars
    BY <2>1, <1>1 DEF dumpVars, WholeInv
  <2>2. CASE DumpNext
    BY <2>2, <1>1, DumpStepWhole DEF DumpNext
  <2> QED BY <2>1, <2>2, <1>1
<1>2. ASSUME DumpTypeOK, WholeInv
      PROVE  IngestedIsWhole
  <2> SUFFICES ASSUME NEW d \in Documents \ disturbed, document[d] \in Done, Whole(d),
                      \A o \in Ingests : ~Putting(ingest[o], d)
               PROVE  Sentences(d) = {[kind |-> "sentence", ord |-> Fragments[d][k].ord, text |-> k] :
                              k \in SentencesOf(d)}
    BY DEF IngestedIsWhole, Done, Whole, Putting, TheDocument
  <2>1. Clean(ingest, document[d], fragment[d], d)
    BY <1>2 DEF WholeInv
  <2>2. PICK n \in 1 .. Len(Fragments[d]) + 1 : Extent(ingest, fragment[d], d, n)
    BY <2>1 DEF Clean
  <2>3. n = 1 \/ n = Len(Fragments[d]) + 1
    BY <2>2 DEF Extent
  <2>4. n = 1 => Fragments[d] = <<>>
    BY <2>1, <2>2 DEF Clean, Filled, Extent, First
  <2>5. n = Len(Fragments[d]) + 1
    BY <2>3, <2>4, DocumentText
  <2>6. fragment[d] = {Row(d, k) : k \in DOMAIN Fragments[d]}
    BY <2>2, <2>5, DocumentText DEF Extent, First
  <2> QED BY <2>6 DEF Sentences, SentencesOf, Row
<1> QED
  BY <1>1, <1>2, DumpInitWhole, DumpTypes, PTL DEF DumpSpec
=============================================================================
