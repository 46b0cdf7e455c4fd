------------------------- MODULE CorpusIngestProofs -------------------------
(***************************************************************************)
(* What is proved of CorpusIngest for every value of its constants, with   *)
(* attempts that overlap as they like (Spec).                              *)
(*                                                                         *)
(* The actions are first reduced to the few effects the invariants tell    *)
(* apart (Quiet covers everything an attempt does within a batch of one    *)
(* provider), then the invariant is built up in layers: types, budgets,    *)
(* the fence, completeness, reports, metrics and reservations.             *)
(***************************************************************************)
EXTENDS CorpusIngest, FiniteSetTheorems, TLAPS

-----------------------------------------------------------------------------
(* Facts about the operators of the model.                                 *)

LEMMA Constants ==
    /\ NProviders \in Nat \ {0} /\ MaxAttempts \in Nat \ {0} /\ MaxPages \in Nat \ {0}
    /\ Total \in Nat \ {0} /\ PerProvider \in Nat \ {0} /\ Minimum \in Nat
    /\ Concurrency \in 1 .. 4
    /\ Configured \subseteq Providers /\ IsFiniteSet(Docs)
    /\ \A d \in Docs : Source[d] \in Configured /\ Identity[d] \in CorpusDocuments
    /\ None \notin Builds /\ None \notin Docs
BY CorpusAssumption DEF CorpusAssumption, CorpusDocuments

LEMMA LeastIs ==
    ASSUME NEW m \in Nat, NEW n \in Nat
    PROVE  Least(m, n) \in Nat /\ Least(m, n) <= m /\ Least(m, n) <= n /\ Least(m, n) \in {m, n}
BY DEF Least

LEMMA SaturatingSubIs ==
    ASSUME NEW m \in Nat, NEW n \in Nat
    PROVE  /\ SaturatingSub(m, n) \in Nat /\ SaturatingSub(m, n) <= m
           /\ SaturatingSub(m, n) > 0 => SaturatingSub(m, n) + n = m
           /\ SaturatingSub(m, n) + n >= m
BY DEF SaturatingSub

(* Sets of documents and of corpus documents are finite, and so counted.   *)
LEMMA DocsAreCounted ==
    ASSUME NEW S \in SUBSET Docs
    PROVE  IsFiniteSet(S) /\ Cardinality(S) \in Nat
BY Constants, FS_Subset, FS_CardinalityType

LEMMA FromIs ==
    ASSUME NEW S \in SUBSET Docs, NEW p
    PROVE  From(S, p) \in SUBSET Docs /\ From(S, p) \subseteq S
BY DEF From

LEMMA CorpusIsFinite == IsFiniteSet(CorpusDocuments)
<1> DEFINE f == [d \in Docs |-> Identity[d]]
<1>1. f \in Surjection(Docs, CorpusDocuments)
  BY DEF CorpusDocuments, Surjection
<1> QED BY <1>1, Constants, FS_Surjection

LEMMA IdentitiesAreCounted ==
    ASSUME NEW S \in SUBSET Docs
    PROVE  /\ IdentitiesOf(S) \in SUBSET CorpusDocuments
           /\ IsFiniteSet(IdentitiesOf(S)) /\ Cardinality(IdentitiesOf(S)) \in Nat
<1>1. IdentitiesOf(S) \in SUBSET CorpusDocuments
  BY DEF IdentitiesOf, CorpusDocuments
<1> QED BY <1>1, CorpusIsFinite, FS_Subset, FS_CardinalityType

(* One more document is at most one more identity, and one more of its     *)
(* provider only.                                                          *)
LEMMA OneMoreIdentity ==
    ASSUME NEW S \in SUBSET Docs, NEW d \in Docs
    PROVE  /\ IdentitiesOf(S \cup {d}) = IdentitiesOf(S) \cup {Identity[d]}
           /\ Cardinality(IdentitiesOf(S \cup {d})) <= Cardinality(IdentitiesOf(S)) + 1
<1>1. IdentitiesOf(S \cup {d}) = IdentitiesOf(S) \cup {Identity[d]}
  BY DEF IdentitiesOf
<1> HIDE DEF IdentitiesOf
<1>2. IsFiniteSet(IdentitiesOf(S)) /\ Cardinality(IdentitiesOf(S)) \in Nat
  BY IdentitiesAreCounted
<1>3. Cardinality(IdentitiesOf(S) \cup {Identity[d]})
        = IF Identity[d] \in IdentitiesOf(S) THEN Cardinality(IdentitiesOf(S))
          ELSE Cardinality(IdentitiesOf(S)) + 1
  BY <1>2, FS_AddElement
<1> QED BY <1>1, <1>2, <1>3

LEMMA OneMoreDocument ==
    ASSUME NEW S \in SUBSET Docs, NEW d \in Docs \ S, NEW p
    PROVE  Cardinality(From(S \cup {d}, p))
             = Cardinality(From(S, p)) + (IF Source[d] = p THEN 1 ELSE 0)
<1>1. From(S, p) \in SUBSET Docs /\ d \notin From(S, p)
  BY DEF From
<1>2. IsFiniteSet(From(S, p)) /\ Cardinality(From(S, p)) \in Nat
  BY <1>1, DocsAreCounted
<1>3. CASE Source[d] = p
  <2>1. From(S \cup {d}, p) = From(S, p) \cup {d}
    BY <1>3 DEF From
  <2> QED BY <1>1, <1>2, <1>3, <2>1, FS_AddElement
<1>4. CASE Source[d] # p
  <2>1. From(S \cup {d}, p) = From(S, p)
    BY <1>4 DEF From
  <2> QED BY <1>2, <1>4, <2>1
<1> QED BY <1>3, <1>4

LEMMA FewerDocuments ==
    ASSUME NEW S \in SUBSET Docs, NEW T \in SUBSET S
    PROVE  Cardinality(T) \in Nat /\ Cardinality(T) <= Cardinality(S)
<1>1. IsFiniteSet(S) /\ T \in SUBSET Docs
  BY DocsAreCounted
<1> QED BY <1>1, DocsAreCounted, FS_Subset

LEMMA ProvidersAreCounted ==
    ASSUME NEW S \in SUBSET Providers
    PROVE  IsFiniteSet(S) /\ Cardinality(S) \in Nat /\ Cardinality(S) <= NProviders
<1>1. IsFiniteSet(Providers) /\ Cardinality(Providers) = NProviders
  BY Constants, FS_Interval DEF Providers
<1> QED BY <1>1, FS_Subset, FS_CardinalityType

LEMMA ProductGrows ==
    ASSUME NEW f \in Nat, NEW m \in Nat, NEW n \in Nat, m <= n
    PROVE  f * m \in Nat /\ f * m <= f * n
OBVIOUS

LEMMA FairMinimumIs ==
    FairMinimum \in Nat /\ FairMinimum <= PerProvider /\ FairMinimum * NProviders <= Total
<1> DEFINE share == Total \div NProviders
<1>1. share \in Nat /\ share * NProviders <= Total
  BY Constants
<1> HIDE DEF share
<1>2. Least(Minimum, PerProvider) \in Nat /\ Least(Minimum, PerProvider) <= PerProvider
  BY Constants, LeastIs
<1>3. /\ FairMinimum \in Nat /\ FairMinimum <= Least(Minimum, PerProvider)
      /\ FairMinimum <= share
  BY <1>1, <1>2, LeastIs DEF FairMinimum, share
<1>4. NProviders * FairMinimum <= NProviders * share /\ NProviders * FairMinimum \in Nat
  BY <1>1, <1>3, Constants, ProductGrows
<1> QED BY <1>1, <1>2, <1>3, <1>4, Constants

-----------------------------------------------------------------------------
(* The shape of the state.                                                 *)

Busy == {"discover", "fetch", "save", "record", "turn", "complete"}
Resting == {"idle", "conclude", "gone", "resume"}
Ran == {"healthy"} \cup Trouble

(* What the fields of an attempt say to each other.                        *)
Placed(w) ==
    /\ w.pc \in Resting => w.at = 0 /\ w.known = {} /\ w.ids = {}
    /\ w.pc \in Resting \cup {"start", "historiography"} =>
          w.remaining = 0 /\ w.page = {} /\ w.calls = 0
    /\ w.pc \in Busy \cup {"start", "observe"} => w.at \in Providers
    /\ w.pc \in Busy => w.at \in Configured /\ w.report[w.at].status \in Ran
    /\ w.pc = "observe" =>
          w.report[w.at].status \in IF w.at \in Configured THEN Ran ELSE {"not_configured"}
    /\ w.pc = "historiography" => w.at = NProviders + 1
    /\ w.pc \in Pipeline => w.build \in Builds
    /\ (w.pc = "record") <=> (w.doc # None)
    /\ w.pc \notin {"save", "record"} => w.saving = {}
    /\ w.pc = "discover" => w.calls < MaxPages \/ w.remaining = 0
    /\ w.pc \in {"fetch", "save", "record", "turn"} => w.calls >= 1

QueueSound ==
    /\ queue.valid => queue.status = "running"
    /\ queue.status = "running" => queue.owner = queue.attempts /\ queue.attempts >= 1

TypeInv ==
    /\ TypeOK /\ QueueSound
    /\ \A a \in Attempts : /\ Placed(work[a])
                           /\ a > queue.attempts => work[a] = Unstarted

LEMMA UnstartedIs == Unstarted \in Work /\ Placed(Unstarted)
<1>1. [p \in Providers |-> NoCheckpoint] \in [Providers -> Checkpoint]
  BY DEF NoCheckpoint, Checkpoint
<1>2. [p \in Providers |-> [status |-> "pending", persisted |-> 0]] \in [Providers -> Outcome]
  BY DEF Outcome
<1>3. 0 \in 0 .. NProviders + 1 /\ 0 \in 0 .. MaxPages
  BY Constants
<1>4. Unstarted \in Work
  BY <1>1, <1>2, <1>3 DEF Unstarted, Work, Pipeline
<1>5. Placed(Unstarted)
  BY DEF Unstarted, Placed, Resting, Busy, Pipeline
<1> QED BY <1>4, <1>5

LEMMA EndedIs ==
    ASSUME NEW w \in Work, NEW pc \in {"conclude", "gone"},
           NEW result \in {"none", "report", "retryable", "error"}
    PROVE  /\ Ended(w, pc, result) \in Work /\ Placed(Ended(w, pc, result))
           /\ Ended(w, pc, result).pc = pc /\ Ended(w, pc, result).build = w.build
           /\ Ended(w, pc, result).result = result
<1>1. /\ Ended(w, pc, result) \in Work
      /\ Ended(w, pc, result).pc = pc /\ Ended(w, pc, result).build = w.build
      /\ Ended(w, pc, result).result = result
      /\ Ended(w, pc, result).at = 0 /\ Ended(w, pc, result).known = {}
      /\ Ended(w, pc, result).ids = {} /\ Ended(w, pc, result).remaining = 0
      /\ Ended(w, pc, result).page = {} /\ Ended(w, pc, result).saving = {}
      /\ Ended(w, pc, result).doc = None /\ Ended(w, pc, result).calls = 0
  <2>1. Unstarted \in Work /\ w.build \in Builds \cup {None}
    BY UnstartedIs DEF Work
  <2>2. /\ Unstarted.at = 0 /\ Unstarted.known = {} /\ Unstarted.ids = {}
        /\ Unstarted.remaining = 0 /\ Unstarted.page = {} /\ Unstarted.saving = {}
        /\ Unstarted.doc = None /\ Unstarted.calls = 0
    BY DEF Unstarted
  <2> HIDE DEF Unstarted
  <2> QED BY <2>1, <2>2 DEF Ended, Work
<1> QED BY <1>1 DEF Placed, Resting, Busy, Pipeline

LEMMA NextProviderIs ==
    ASSUME NEW w \in Work, w.at \in Providers, w.build \in Builds, w.saving = {}, w.doc = None
    PROVE  /\ NextProvider(w) \in Work /\ Placed(NextProvider(w))
           /\ NextProvider(w).at = w.at + 1 /\ NextProvider(w).remaining = 0
           /\ NextProvider(w).page = {} /\ NextProvider(w).saving = {}
           /\ NextProvider(w).doc = None
           /\ NextProvider(w).pc \in {"start", "historiography"}
           /\ NextProvider(w).build = w.build /\ NextProvider(w).saved = w.saved
           /\ NextProvider(w).known = w.known /\ NextProvider(w).ids = w.ids
           /\ NextProvider(w).report = w.report /\ NextProvider(w).result = w.result
<1>1. /\ w.at + 1 \in 0 .. NProviders + 1 /\ 0 \in 0 .. MaxPages
      /\ w.at # NProviders => w.at + 1 \in Providers
  BY Constants DEF Providers
<1>2. NextProvider(w) \in Work
  <2>1. ASSUME NEW n \in 0 .. NProviders + 1, NEW pc \in {"historiography", "start"}
        PROVE  [w EXCEPT !.at = n, !.calls = 0, !.paged = FALSE, !.stop = FALSE, !.page = {},
                         !.remaining = 0, !.pc = pc] \in Work
    BY <1>1 DEF Work, Pipeline
  <2> DEFINE pc == IF w.at = NProviders THEN "historiography" ELSE "start"
  <2>2. pc \in {"historiography", "start"}
    OBVIOUS
  <2> HIDE DEF pc
  <2>3. [w EXCEPT !.at = w.at + 1, !.calls = 0, !.paged = FALSE, !.stop = FALSE, !.page = {},
                  !.remaining = 0, !.pc = pc] \in Work
    BY <1>1, <2>1, <2>2
  <2> QED BY <2>3 DEF NextProvider, pc
<1>3. /\ NextProvider(w).at = w.at + 1 /\ NextProvider(w).remaining = 0
      /\ NextProvider(w).calls = 0
      /\ NextProvider(w).page = {} /\ NextProvider(w).saving = {}
      /\ NextProvider(w).doc = None
      /\ NextProvider(w).pc = IF w.at = NProviders THEN "historiography" ELSE "start"
      /\ NextProvider(w).build = w.build /\ NextProvider(w).saved = w.saved
      /\ NextProvider(w).known = w.known /\ NextProvider(w).ids = w.ids
      /\ NextProvider(w).report = w.report /\ NextProvider(w).result = w.result
  BY DEF NextProvider, Work
<1>4. Placed(NextProvider(w))
  BY <1>1, <1>3 DEF Placed, Resting, Busy, Pipeline
<1> QED BY <1>2, <1>3, <1>4

LEMMA ReportOfIs ==
    ASSUME NEW w \in Work, NEW p \in Providers, NEW status \in Health, NEW n \in Nat
    PROVE  /\ ReportOf(w, p, status, n) \in Work
           /\ ReportOf(w, p, status, n).report[p] = [status |-> status, persisted |-> n]
           /\ \A q \in Providers \ {p} : ReportOf(w, p, status, n).report[q] = w.report[q]
           /\ ReportOf(w, p, status, n).pc = w.pc /\ ReportOf(w, p, status, n).build = w.build
           /\ ReportOf(w, p, status, n).at = w.at /\ ReportOf(w, p, status, n).saved = w.saved
           /\ ReportOf(w, p, status, n).known = w.known /\ ReportOf(w, p, status, n).ids = w.ids
           /\ ReportOf(w, p, status, n).remaining = w.remaining
           /\ ReportOf(w, p, status, n).calls = w.calls
           /\ ReportOf(w, p, status, n).page = w.page
           /\ ReportOf(w, p, status, n).saving = w.saving
           /\ ReportOf(w, p, status, n).doc = w.doc
           /\ ReportOf(w, p, status, n).result = w.result
<1>1. w.report \in [Providers -> Outcome] /\ [status |-> status, persisted |-> n] \in Outcome
  BY DEF Work, Outcome
<1>2. [w.report EXCEPT ![p] = [status |-> status, persisted |-> n]] \in [Providers -> Outcome]
  BY <1>1
<1>3. ReportOf(w, p, status, n)
        = [w EXCEPT !.report = [w.report EXCEPT ![p] = [status |-> status, persisted |-> n]]]
  BY DEF ReportOf
<1>4. ReportOf(w, p, status, n) \in Work
  BY <1>2, <1>3 DEF Work
<1> QED BY <1>1, <1>3, <1>4 DEF Work

-----------------------------------------------------------------------------
(* The effects of the steps.                                               *)

Others(a) == work' = [work EXCEPT ![a] = work'[a]]
Well(a) == Others(a) /\ work'[a] \in Work /\ Placed(work'[a])
Tables == <<queue, checkpoint, ledger, corpus, observed>>

Fixed(w, v) == v.build = w.build /\ v.at = w.at /\ v.saved = w.saved
Told(w, v) == v.known = w.known /\ v.ids = w.ids
OthersReported(w, v) == \A p \in Providers \ {w.at} : v.report[p] = w.report[p]
Advanced(w, v) ==
    /\ v.pc \in {"start", "historiography"} /\ v.at = w.at + 1
    /\ v.build = w.build /\ v.saved = w.saved /\ Told(w, v)
    /\ v.remaining = 0 /\ v.page = {} /\ v.saving = {} /\ v.doc = None

Entered(a, build) ==
    /\ a = queue.attempts + 1 /\ work[a] = Unstarted
    /\ queue.status # "done"
    /\ queue' = [status |-> "running", attempts |-> a, owner |-> a, valid |-> TRUE]
    /\ work'[a] = [Unstarted EXCEPT !.pc = "resume", !.build = build]
    /\ work'[a].pc = "resume" /\ work'[a].build = build
    /\ UNCHANGED <<checkpoint, ledger, corpus, observed>>

HasResumed(a) ==
    LET w == work[a]
        v == work'[a]
    IN
    /\ w.pc = "resume" /\ Owns(a)
    /\ v.pc = "start" /\ v.at = 1 /\ v.build = w.build /\ v.saved = checkpoint
    /\ v.known = ledger /\ v.ids = IdentitiesOf(ledger)
    /\ v.remaining = 0 /\ v.page = {} /\ v.saving = {} /\ v.doc = None
    /\ UNCHANGED Tables

HasSkipped(a) ==
    LET w == work[a]
        v == work'[a]
    IN
    /\ w.pc = "start" /\ w.at \in Configured /\ w.saved[w.at].version = w.build
    /\ Advanced(w, v) /\ OthersReported(w, v)
    /\ v.report[w.at] = [status |-> "healthy", persisted |-> w.saved[w.at].persisted]
    /\ UNCHANGED Tables

IsObserved(a) ==
    LET p == work[a].at IN
    /\ observed[p][a] = "absent"
    /\ observed' = [observed EXCEPT ![p][a] = "running"]

PassedOver(a) ==
    LET w == work[a]
        v == work'[a]
    IN
    /\ w.pc = "start" /\ w.at \in Providers \ Configured /\ Owns(a) /\ IsObserved(a)
    /\ v.pc = "observe" /\ Fixed(w, v) /\ Told(w, v) /\ OthersReported(w, v)
    /\ v.remaining = w.remaining /\ v.page = w.page /\ v.saving = {} /\ v.doc = None
    /\ v.report[w.at] = [status |-> "not_configured", persisted |-> 0]
    /\ UNCHANGED <<queue, checkpoint, ledger, corpus>>

StartBudget(w) ==
    Least(Budget(w, w.at), SaturatingSub(PerProvider, Cardinality(From(w.known, w.at))))
Started(a) ==
    LET w == work[a]
        v == work'[a]
    IN
    /\ w.pc = "start" /\ w.at \in Configured /\ w.saved[w.at].version # w.build
    /\ Owns(a) /\ IsObserved(a)
    /\ v.pc = "discover" /\ Fixed(w, v) /\ Told(w, v) /\ OthersReported(w, v)
    /\ v.remaining = StartBudget(w) /\ v.page = w.page /\ v.saving = {} /\ v.doc = None
    /\ v.report[w.at] = [status |-> "healthy", persisted |-> Cardinality(From(w.known, w.at))]
    /\ UNCHANGED <<queue, checkpoint, ledger, corpus>>

(* A step between two statements: a page, a batch, a status.               *)
Quiet(a) ==
    LET w == work[a]
        v == work'[a]
    IN
    /\ w.pc \in {"discover", "fetch", "save", "turn"} /\ w.at \in Configured
    /\ v.pc \in {"discover", "fetch", "save", "turn", "complete"}
    /\ v.pc = "discover" => v.calls # 0
    /\ Fixed(w, v) /\ Told(w, v) /\ v.remaining = w.remaining
    /\ w.doc = None /\ v.doc = None
    /\ OthersReported(w, v)
    /\ v.report[w.at].persisted = w.report[w.at].persisted
    /\ v.page \subseteq w.page \/ v.page \subseteq From(Docs, w.at)
    /\ \/ v.saving = w.saving
       \/ /\ v.saving \subseteq w.page \ w.known
          /\ Cardinality(v.saving) <= BatchSize(w)
    /\ UNCHANGED Tables

Persisted(a) ==
    LET w == work[a]
        v == work'[a]
    IN
    /\ w.pc = "save" /\ v.pc = "record" /\ w.at \in Configured /\ w.doc = None
    /\ v.doc \in w.saving /\ v.saving = w.saving \ {v.doc}
    /\ corpus' = corpus \cup {Identity[v.doc]}
    /\ Fixed(w, v) /\ Told(w, v) /\ v.remaining = w.remaining /\ v.page = w.page
    /\ v.report = w.report
    /\ UNCHANGED <<queue, checkpoint, ledger, observed>>

HasRecorded(a) ==
    LET w == work[a]
        v == work'[a]
    IN
    /\ w.pc = "record" /\ v.pc = "save" /\ w.at \in Configured /\ Owns(a)
    /\ w.doc \in Docs /\ v.doc = None /\ v.saving = w.saving
    /\ ledger' = ledger \cup {w.doc}
    /\ Fixed(w, v) /\ v.known = w.known \cup {w.doc} /\ v.ids = w.ids \cup {Identity[w.doc]}
    /\ v.remaining = SaturatingSub(w.remaining, 1) /\ v.page = w.page
    /\ OthersReported(w, v)
    /\ v.report[w.at].persisted
         = w.report[w.at].persisted + (IF w.doc \in ledger THEN 0 ELSE 1)
    /\ UNCHANGED <<queue, checkpoint, corpus, observed>>

Completed(a) ==
    LET w == work[a]
        v == work'[a]
    IN
    /\ w.pc = "complete" /\ v.pc = "observe" /\ w.at \in Configured
    /\ Fixed(w, v) /\ Told(w, v) /\ v.remaining = w.remaining /\ v.page = w.page
    /\ v.saving = {} /\ v.doc = None /\ v.report = w.report
    /\ \/ /\ w.report[w.at].status = "healthy" /\ Owns(a)
          /\ checkpoint' = [checkpoint EXCEPT ![w.at] =
                              [version |-> w.build, persisted |-> w.report[w.at].persisted]]
       \/ w.report[w.at].status # "healthy" /\ UNCHANGED checkpoint
    /\ UNCHANGED <<queue, ledger, corpus, observed>>

HasFinished(a) ==
    LET w == work[a]
        v == work'[a]
    IN
    /\ w.pc = "observe" /\ w.at \in Providers /\ Owns(a) /\ observed[w.at][a] = "running"
    /\ observed' = [observed EXCEPT ![w.at][a] = w.report[w.at].status]
    /\ Advanced(w, v) /\ v.report = w.report
    /\ UNCHANGED <<queue, checkpoint, ledger, corpus>>

(* The end of an attempt, and of its turn in the queue.                    *)
HasEnded(a) ==
    LET w == work[a]
        v == work'[a]
    IN
    /\ w.pc \notin {"idle", "gone"}
    /\ v.build = w.build /\ v.pc \in {"conclude", "gone"}
    /\ v.remaining = 0 /\ v.page = {} /\ v.saving = {} /\ v.doc = None /\ v.at = 0
    /\ v.known = {} /\ v.ids = {}
    /\ v.result = "report" => w.pc = "historiography" /\ Incomplete(w) = {}
    /\ \/ UNCHANGED queue
       \/ /\ w.pc = "conclude" /\ Owns(a) /\ v.pc = "gone"
          /\ queue' = [queue EXCEPT !.status = Settled(a), !.owner = 0, !.valid = FALSE]
    /\ UNCHANGED <<checkpoint, ledger, corpus, observed>>

(* The table alone: time, or exhaust_stale.                                *)
RowMoved ==
    /\ queue.status = "running"
    /\ queue' \in {[queue EXCEPT !.valid = FALSE], [queue EXCEPT !.status = "failed", !.owner = 0]}
    /\ queue'.valid = FALSE
    /\ UNCHANGED <<checkpoint, ledger, corpus, observed, work>>

Effect(a) ==
    \/ \E build \in Builds : Entered(a, build)
    \/ HasResumed(a) \/ HasSkipped(a) \/ PassedOver(a) \/ Started(a) \/ Quiet(a) \/ Persisted(a)
    \/ HasRecorded(a) \/ Completed(a) \/ HasFinished(a) \/ HasEnded(a)

LEMMA Wrote ==
    ASSUME TypeInv, NEW a \in Attempts, NEW new, work' = [work EXCEPT ![a] = new]
    PROVE  work'[a] = new /\ Others(a)
BY DEF TypeInv, TypeOK, Others

LEMMA OthersStay ==
    ASSUME TypeInv, NEW a \in Attempts, Well(a)
    PROVE  /\ work' \in [Attempts -> Work] /\ Placed(work'[a])
           /\ \A b \in Attempts \ {a} : work'[b] = work[b]
BY DEF TypeInv, TypeOK, Well, Others

LEMMA AttemptIs ==
    ASSUME TypeInv, NEW a \in Attempts
    PROVE  work[a] \in Work /\ Placed(work[a])
BY DEF TypeInv, TypeOK

(* The fields an action leaves alone keep their type: the record is put    *)
(* together from typed fields only.                                        *)
LEMMA ResumeEffect ==
    ASSUME TypeInv, NEW a \in Attempts, Resume(a)
    PROVE  Well(a) /\ HasResumed(a)
<1> DEFINE w == work[a]
           v == [Resumed(a) EXCEPT !.pc = "start", !.at = 1]
<1>1. /\ w \in Work /\ Placed(w) /\ w.pc = "resume" /\ Owns(a)
      /\ checkpoint \in [Providers -> Checkpoint] /\ ledger \in SUBSET Docs
      /\ UNCHANGED Tables
  BY AttemptIs DEF Resume, TypeInv, TypeOK, Tables
<1>2. work'[a] = v /\ Others(a)
  BY Wrote DEF Resume
<1>3. IdentitiesOf(ledger) \in SUBSET CorpusDocuments /\ 1 \in Providers /\ 1 \in 0 .. NProviders + 1
  BY <1>1, IdentitiesAreCounted, Constants DEF Providers
<1>4. v \in Work
  BY <1>1, <1>3 DEF Resumed, Work, Pipeline
<1>5. /\ v.pc = "start" /\ v.at = 1 /\ v.build = w.build /\ v.saved = checkpoint
      /\ v.known = ledger /\ v.ids = IdentitiesOf(ledger)
      /\ v.remaining = w.remaining /\ v.page = w.page /\ v.saving = w.saving /\ v.doc = w.doc
      /\ v.calls = w.calls
  BY <1>1 DEF Resumed, Work
<1>6. /\ w.remaining = 0 /\ w.calls = 0 /\ w.page = {} /\ w.saving = {} /\ w.doc = None /\ w.build \in Builds
  BY <1>1 DEF Placed, Resting, Pipeline
<1> HIDE DEF v
<1>7. Placed(v)
  BY <1>3, <1>5, <1>6 DEF Placed, Resting, Busy, Pipeline
<1> QED BY <1>1, <1>2, <1>4, <1>5, <1>6, <1>7 DEF Well, HasResumed

LEMMA SkipEffect ==
    ASSUME TypeInv, NEW a \in Attempts, Skip(a)
    PROVE  Well(a) /\ HasSkipped(a)
<1> DEFINE w == work[a]
           x == ReportOf(w, w.at, "healthy", w.saved[w.at].persisted)
<1>1. /\ w \in Work /\ Placed(w) /\ w.pc = "start" /\ w.at \in Configured
      /\ w.saved[w.at].version = w.build /\ UNCHANGED Tables
  BY AttemptIs DEF Skip, Checkpointed, Tables
<1>2. w.at \in Providers /\ w.build \in Builds /\ w.saving = {} /\ w.doc = None
  BY <1>1, Constants DEF Placed, Pipeline
<1>3. w.saved[w.at].persisted \in Nat /\ "healthy" \in Health
  BY <1>1, <1>2 DEF Work, Checkpoint, Health
<1>4. work'[a] = NextProvider(x) /\ Others(a)
  BY Wrote DEF Skip
<1>5. /\ x \in Work /\ x.at = w.at /\ x.build = w.build /\ x.saving = {} /\ x.doc = None
      /\ x.report[w.at] = [status |-> "healthy", persisted |-> w.saved[w.at].persisted]
      /\ \A q \in Providers \ {w.at} : x.report[q] = w.report[q]
      /\ x.saved = w.saved /\ x.known = w.known /\ x.ids = w.ids
  <2> DEFINE n == w.saved[w.at].persisted
  <2>1. n \in Nat
    BY <1>3
  <2> HIDE DEF w, n
  <2> QED BY <1>1, <1>2, <1>3, <2>1, ReportOfIs DEF n
<1> HIDE DEF x
<1>6. /\ NextProvider(x) \in Work /\ Placed(NextProvider(x)) /\ Advanced(x, NextProvider(x))
      /\ NextProvider(x).report = x.report
  BY <1>2, <1>5, NextProviderIs DEF Advanced, Told
<1> QED BY <1>1, <1>4, <1>5, <1>6 DEF Well, HasSkipped, Advanced, OthersReported, Told

LEMMA NotConfiguredEffect ==
    ASSUME TypeInv, NEW a \in Attempts, NotConfigured(a)
    PROVE  Well(a) /\ PassedOver(a)
<1> DEFINE w == work[a]
           x == ReportOf(w, w.at, "not_configured", 0)
           v == [x EXCEPT !.pc = "observe"]
<1>1. /\ w \in Work /\ Placed(w) /\ w.pc = "start" /\ w.at \notin Configured /\ Owns(a)
      /\ IsObserved(a) /\ UNCHANGED <<queue, checkpoint, ledger, corpus>>
  BY AttemptIs DEF NotConfigured, Observe, IsObserved
<1>2. /\ w.at \in Providers /\ w.build \in Builds /\ w.saving = {} /\ w.doc = None
      /\ "not_configured" \in Health
  BY <1>1 DEF Placed, Pipeline, Health
<1>3. work'[a] = v /\ Others(a)
  BY Wrote DEF NotConfigured
<1>4. /\ x \in Work /\ x.report[w.at] = [status |-> "not_configured", persisted |-> 0]
      /\ OthersReported(w, x) /\ Fixed(w, x) /\ Told(w, x) /\ x.remaining = w.remaining
      /\ x.page = w.page /\ x.saving = {} /\ x.doc = None
  BY <1>1, <1>2, ReportOfIs DEF OthersReported, Fixed, Told
<1> HIDE DEF x
<1>5. /\ v \in Work /\ v.pc = "observe" /\ v.report = x.report
      /\ Fixed(x, v) /\ Told(x, v) /\ v.remaining = x.remaining
      /\ v.page = x.page /\ v.saving = x.saving /\ v.doc = x.doc
  BY <1>4 DEF Work, Pipeline, Fixed, Told
<1> HIDE DEF v
<1>6. Placed(v)
  BY <1>1, <1>2, <1>4, <1>5 DEF Placed, Resting, Busy, Pipeline, Fixed
<1> QED BY <1>1, <1>2, <1>3, <1>4, <1>5, <1>6
        DEF Well, PassedOver, Fixed, Told, OthersReported

(* provider_budget_with_pending never exceeds what is left, for the job    *)
(* and for the provider, and leaves the fair minimum of those that wait.   *)
LEMMA BudgetIs ==
    ASSUME NEW w \in Work, w.at \in Providers
    PROVE  /\ StartBudget(w) \in Nat
           /\ Cardinality(From(w.known, w.at)) <= PerProvider =>
                 Cardinality(From(w.known, w.at)) + StartBudget(w) <= PerProvider
           /\ Cardinality(w.ids) <= Total => Cardinality(w.ids) + StartBudget(w) <= Total
           /\ StartBudget(w) > 0 =>
                 Cardinality(w.ids) + StartBudget(w)
                   + FairMinimum * Cardinality(PendingAfter(w, w.at)) <= Total
           /\ StartBudget(w) >= Least(Least(Total - Cardinality(w.ids)
                                             - FairMinimum * Cardinality(PendingAfter(w, w.at)),
                                            PerProvider),
                                      PerProvider - Cardinality(From(w.known, w.at)))
<1> DEFINE saved == Cardinality(From(w.known, w.at))
           ids == Cardinality(w.ids)
           reserved == FairMinimum * Cardinality(PendingAfter(w, w.at))
<1>1. saved \in Nat
  <2>1. From(w.known, w.at) \in SUBSET Docs
    BY FromIs DEF Work
  <2> QED BY <2>1, DocsAreCounted
<1>2. ids \in Nat
  <2>1. w.ids \in SUBSET CorpusDocuments
    BY DEF Work
  <2> QED BY <2>1, CorpusIsFinite, FS_Subset, FS_CardinalityType
<1>3. reserved \in Nat
  <2>1. PendingAfter(w, w.at) \in SUBSET Providers
    BY Constants DEF PendingAfter
  <2>2. Cardinality(PendingAfter(w, w.at)) \in Nat
    BY <2>1, ProvidersAreCounted
  <2> QED BY <2>2, FairMinimumIs, ProductGrows
<1>4. /\ StartBudget(w) = Least(Least(SaturatingSub(SaturatingSub(Total, ids), reserved), PerProvider),
                                SaturatingSub(PerProvider, saved))
      /\ Total \in Nat /\ PerProvider \in Nat
  BY Constants DEF StartBudget, Budget
<1> HIDE DEF saved, ids, reserved
<1>5. /\ StartBudget(w) \in Nat
      /\ saved <= PerProvider => saved + StartBudget(w) <= PerProvider
      /\ ids <= Total => ids + StartBudget(w) <= Total
      /\ StartBudget(w) > 0 => ids + StartBudget(w) + reserved <= Total
      /\ StartBudget(w) >= Least(Least(Total - ids - reserved, PerProvider), PerProvider - saved)
  BY <1>1, <1>2, <1>3, <1>4 DEF Least, SaturatingSub
<1> QED BY <1>5 DEF saved, ids, reserved

LEMMA StartEffect ==
    ASSUME TypeInv, NEW a \in Attempts, Start(a)
    PROVE  Well(a) /\ Started(a)
<1> DEFINE w == work[a]
           n == Cardinality(From(w.known, w.at))
           x == ReportOf(w, w.at, "healthy", n)
           v == [x EXCEPT !.remaining = StartBudget(w), !.pc = "discover"]
<1>1. /\ w \in Work /\ Placed(w) /\ w.pc = "start" /\ w.at \in Configured /\ Owns(a)
      /\ w.saved[w.at].version # w.build
      /\ IsObserved(a) /\ UNCHANGED <<queue, checkpoint, ledger, corpus>>
  BY AttemptIs DEF Start, Checkpointed, Observe, IsObserved
<1>2. /\ w.at \in Providers /\ w.build \in Builds /\ w.saving = {} /\ w.doc = None
      /\ "healthy" \in Health
  BY <1>1, Constants DEF Placed, Pipeline, Health
<1>3. StartBudget(w) \in Nat /\ n \in Nat
  <2>1. From(w.known, w.at) \in SUBSET Docs
    BY <1>1, FromIs DEF Work
  <2> QED BY <1>1, <1>2, <2>1, BudgetIs, DocsAreCounted
<1>4. work'[a] = v /\ Others(a)
  BY Wrote DEF Start, StartBudget
<1>5. /\ x \in Work /\ x.report[w.at] = [status |-> "healthy", persisted |-> n]
      /\ OthersReported(w, x) /\ Fixed(w, x) /\ Told(w, x)
      /\ x.page = w.page /\ x.saving = {} /\ x.doc = None /\ x.calls = w.calls
  BY <1>1, <1>2, <1>3, ReportOfIs DEF OthersReported, Fixed, Told
<1> HIDE DEF x
<1>6. /\ v \in Work /\ v.pc = "discover" /\ v.report = x.report
      /\ Fixed(x, v) /\ Told(x, v) /\ v.remaining = StartBudget(w)
      /\ v.page = x.page /\ v.saving = x.saving /\ v.doc = x.doc /\ v.calls = x.calls
  BY <1>3, <1>5 DEF Work, Pipeline, Fixed, Told
<1>7. v.calls < MaxPages
  BY <1>1, <1>5, <1>6, Constants DEF Placed
<1> HIDE DEF v, n
<1>8. Placed(v)
  BY <1>1, <1>2, <1>5, <1>6, <1>7 DEF Placed, Resting, Busy, Pipeline, Fixed, Ran
<1> QED BY <1>1, <1>2, <1>4, <1>5, <1>6, <1>8
        DEF Well, Started, Fixed, Told, OthersReported, n

(* A page, then the batches of a page.                                     *)
LEMMA DiscoverEffect ==
    ASSUME TypeInv, NEW a \in Attempts, Discover(a) \/ DiscoverNoMore(a)
    PROVE  Well(a) /\ Quiet(a)
<1> DEFINE w == work[a]
<1>1. /\ w \in Work /\ Placed(w) /\ w.pc = "discover" /\ UNCHANGED Tables
  BY AttemptIs DEF Discover, DiscoverNoMore, Tables
<1>2. /\ w.at \in Configured /\ w.at \in Providers /\ w.build \in Builds /\ w.doc = None
      /\ w.saving = {} /\ w.report[w.at].status \in Ran /\ w.report \in [Providers -> Outcome]
  BY <1>1, Constants DEF Placed, Pipeline, Busy, Work
<1>3. CASE DiscoverNoMore(a)
  <2> DEFINE v == [w EXCEPT !.pc = "complete"]
  <2>1. work'[a] = v /\ Others(a)
    BY <1>3, Wrote DEF DiscoverNoMore
  <2>2. v \in Work
    BY <1>1 DEF Work, Pipeline
  <2>3. /\ v.pc = "complete" /\ Fixed(w, v) /\ Told(w, v) /\ v.remaining = w.remaining
        /\ v.page = w.page /\ v.saving = w.saving /\ v.doc = w.doc /\ v.report = w.report
    BY <1>1 DEF Work, Fixed, Told
  <2> HIDE DEF v
  <2>4. Placed(v)
    BY <1>1, <1>2, <2>3 DEF Placed, Resting, Busy, Pipeline, Fixed
  <2> QED BY <1>1, <1>2, <2>1, <2>2, <2>3, <2>4 DEF Well, Quiet, OthersReported
<1>4. CASE \E page \in SUBSET From(Docs, w.at) :
              /\ w.remaining > 0 \/ w.calls = 0
              /\ work' = [work EXCEPT ![a] = [w EXCEPT !.pc = "fetch", !.page = page, !.calls = @ + 1]]
  <2>1. PICK page \in SUBSET From(Docs, w.at) :
              /\ w.remaining > 0 \/ w.calls = 0
              /\ work' = [work EXCEPT ![a] = [w EXCEPT !.pc = "fetch", !.page = page, !.calls = @ + 1]]
    BY <1>4
  <2> DEFINE v == [w EXCEPT !.pc = "fetch", !.page = page, !.calls = w.calls + 1]
  <2>2. work'[a] = v /\ Others(a)
    BY <2>1, Wrote
  <2>3. page \in SUBSET Docs
    BY FromIs
  <2>4. w.calls + 1 \in 0 .. MaxPages /\ w.calls + 1 >= 1
    BY <1>1, <2>1, Constants DEF Placed, Work
  <2>5. v \in Work
    BY <1>1, <2>3, <2>4 DEF Work, Pipeline
  <2>6. /\ v.pc = "fetch" /\ Fixed(w, v) /\ Told(w, v) /\ v.remaining = w.remaining
        /\ v.page = page /\ v.saving = w.saving /\ v.doc = w.doc /\ v.report = w.report
        /\ v.calls = w.calls + 1
    BY <1>1 DEF Work, Fixed, Told
  <2> HIDE DEF v
  <2>7. Placed(v)
    BY <1>1, <1>2, <2>4, <2>6 DEF Placed, Resting, Busy, Pipeline, Fixed
  <2> QED BY <1>1, <1>2, <2>2, <2>5, <2>6, <2>7 DEF Well, Quiet, OthersReported
<1>5. CASE \E status \in {"failed", "rate_limited"} :
              work' = [work EXCEPT ![a] = [w EXCEPT !.pc = "complete", !.report[w.at].status = status]]
  <2>1. PICK status \in {"failed", "rate_limited"} :
              work' = [work EXCEPT ![a] = [w EXCEPT !.pc = "complete", !.report[w.at].status = status]]
    BY <1>5
  <2> DEFINE report == [w.report EXCEPT ![w.at] = [w.report[w.at] EXCEPT !.status = status]]
             v == [w EXCEPT !.pc = "complete", !.report = report]
  <2>2. work'[a] = v /\ Others(a)
    <3>1. [w EXCEPT !.pc = "complete", !.report[w.at].status = status] = v
      BY <1>1, <1>2 DEF Work
    <3>2. work' = [work EXCEPT ![a] = v]
      BY <2>1, <3>1
    <3> HIDE DEF v
    <3> QED BY <3>2, Wrote
  <2>3. /\ report \in [Providers -> Outcome] /\ report[w.at].status = status
        /\ report[w.at].persisted = w.report[w.at].persisted
        /\ \A q \in Providers \ {w.at} : report[q] = w.report[q]
    BY <1>2 DEF Outcome, Health, Trouble
  <2> HIDE DEF report
  <2>4. v \in Work
    BY <1>1, <2>3 DEF Work, Pipeline
  <2>5. /\ v.pc = "complete" /\ Fixed(w, v) /\ Told(w, v) /\ v.remaining = w.remaining
        /\ v.page = w.page /\ v.saving = w.saving /\ v.doc = w.doc /\ v.report = report
    BY <1>1 DEF Work, Fixed, Told
  <2> HIDE DEF v
  <2>6. Placed(v)
    BY <1>1, <1>2, <2>3, <2>5 DEF Placed, Resting, Busy, Pipeline, Fixed, Ran, Trouble
  <2> QED BY <1>1, <1>2, <2>2, <2>3, <2>4, <2>5, <2>6 DEF Well, Quiet, OthersReported
<1> QED BY <1>3, <1>4, <1>5 DEF Discover

LEMMA FetchEffect ==
    ASSUME TypeInv, NEW a \in Attempts, Fetch(a)
    PROVE  Well(a) /\ Quiet(a)
<1> DEFINE w == work[a]
<1>1. /\ w \in Work /\ Placed(w) /\ w.pc = "fetch" /\ UNCHANGED Tables
  BY AttemptIs DEF Fetch, Tables
<1>2. /\ w.at \in Configured /\ w.at \in Providers /\ w.build \in Builds /\ w.doc = None
      /\ w.report[w.at].status \in Ran /\ w.report \in [Providers -> Outcome] /\ w.calls >= 1
  BY <1>1, Constants DEF Placed, Pipeline, Busy, Work
<1>3. PICK batch \in SUBSET Offered(w) :
        /\ Cardinality(batch) = Least(BatchSize(w), Cardinality(Offered(w)))
        /\ \E answer \in [batch -> {"ok", "unnormalized", "partial", "rate_limited"}] :
           \E status \in Health :
             LET failures == {answer[d] : d \in batch} \cap Trouble IN
             /\ status \in (IF failures = {} THEN {w.report[w.at].status} ELSE failures)
             /\ work' = [work EXCEPT ![a] =
                           [w EXCEPT !.page = @ \ batch,
                                     !.saving = {d \in batch : answer[d] = "ok"},
                                     !.report[w.at].status = status,
                                     !.stop = "rate_limited" \in failures,
                                     !.pc = "save"]]
  BY DEF Fetch
<1>4. PICK answer \in [batch -> {"ok", "unnormalized", "partial", "rate_limited"}],
           status \in Health :
             LET failures == {answer[d] : d \in batch} \cap Trouble IN
             /\ status \in (IF failures = {} THEN {w.report[w.at].status} ELSE failures)
             /\ work' = [work EXCEPT ![a] =
                           [w EXCEPT !.page = @ \ batch,
                                     !.saving = {d \in batch : answer[d] = "ok"},
                                     !.report[w.at].status = status,
                                     !.stop = "rate_limited" \in failures,
                                     !.pc = "save"]]
  BY <1>3
<1> DEFINE failures == {answer[d] : d \in batch} \cap Trouble
           saving == {d \in batch : answer[d] = "ok"}
           stop == "rate_limited" \in failures
           report == [w.report EXCEPT ![w.at] = [w.report[w.at] EXCEPT !.status = status]]
           v == [w EXCEPT !.page = w.page \ batch, !.saving = saving, !.report = report,
                          !.stop = stop, !.pc = "save"]
<1>5. work'[a] = v /\ Others(a)
  <2>1. [w EXCEPT !.page = @ \ batch, !.saving = saving, !.report[w.at].status = status,
                  !.stop = stop, !.pc = "save"] = v
    BY <1>1, <1>2 DEF Work
  <2>2. work' = [work EXCEPT ![a] = v]
    BY <1>4, <2>1
  <2> HIDE DEF v
  <2> QED BY <2>2, Wrote
<1>6. status \in Ran
  BY <1>2, <1>4 DEF Ran
<1>7. /\ report \in [Providers -> Outcome] /\ report[w.at].status = status
      /\ report[w.at].persisted = w.report[w.at].persisted
      /\ \A q \in Providers \ {w.at} : report[q] = w.report[q]
  BY <1>2 DEF Outcome
<1>8. /\ Offered(w) \in SUBSET Docs /\ saving \in SUBSET Docs /\ saving \subseteq w.page \ w.known
      /\ w.page \ batch \in SUBSET Docs /\ stop \in BOOLEAN
  BY <1>1 DEF Offered, Work
<1>9. Cardinality(saving) <= BatchSize(w)
  <2>1. batch \in SUBSET Docs /\ saving \in SUBSET batch
    BY <1>8
  <2>2. /\ Cardinality(saving) \in Nat /\ Cardinality(saving) <= Cardinality(batch)
        /\ Cardinality(Offered(w)) \in Nat
    BY <1>8, <2>1, FewerDocuments, DocsAreCounted
  <2>3. Cardinality(w.ids) \in Nat /\ w.remaining \in Nat
    <3>1. w.ids \in SUBSET CorpusDocuments /\ w.remaining \in Nat
      BY <1>1 DEF Work
    <3> QED BY <3>1, CorpusIsFinite, FS_Subset, FS_CardinalityType
  <2>4. BatchSize(w) \in Nat
    BY <2>3, Constants DEF BatchSize, Least, SaturatingSub
  <2>5. Cardinality(batch) <= BatchSize(w) /\ Cardinality(batch) \in Nat
    BY <1>3, <2>2, <2>4, LeastIs
  <2> QED BY <2>2, <2>4, <2>5
<1> HIDE DEF saving, stop, report, failures
<1>10. v \in Work
  BY <1>1, <1>7, <1>8 DEF Work, Pipeline
<1>11. /\ v.pc = "save" /\ Fixed(w, v) /\ Told(w, v) /\ v.remaining = w.remaining
       /\ v.page = w.page \ batch /\ v.saving = saving /\ v.doc = w.doc /\ v.report = report
       /\ v.calls = w.calls
  BY <1>1 DEF Work, Fixed, Told
<1> HIDE DEF v
<1>12. Placed(v)
  BY <1>1, <1>2, <1>6, <1>7, <1>11 DEF Placed, Resting, Busy, Pipeline, Fixed
<1> QED BY <1>1, <1>2, <1>5, <1>7, <1>8, <1>9, <1>10, <1>11, <1>12 DEF Well, Quiet, OthersReported

(* The steps to another statement, with nothing in hand.                   *)
LEMMA NoMoreEffect ==
    ASSUME TypeInv, NEW a \in Attempts, FetchNoMore(a) \/ SaveNoMore(a) \/ Turn(a)
    PROVE  Well(a) /\ Quiet(a)
<1> DEFINE w == work[a]
<1>1. /\ w \in Work /\ Placed(w) /\ w.pc \in {"fetch", "save", "turn"} /\ w.saving = {}
      /\ UNCHANGED Tables
  BY AttemptIs DEF FetchNoMore, SaveNoMore, Turn, Tables, Placed
<1>2. w.report \in [Providers -> Outcome] /\ w.paged \in BOOLEAN
  BY <1>1 DEF Work
<1>3. w.report[w.at].status \in Ran /\ w.at \in Providers
  BY <1>1 DEF Placed, Busy
<1>4. ASSUME NEW pc \in {"discover", "fetch", "turn", "complete"}, NEW paged \in BOOLEAN,
             pc = "discover" => w.calls < MaxPages \/ w.remaining = 0,
             NEW report \in [Providers -> Outcome], report[w.at].status \in Ran,
             report[w.at].persisted = w.report[w.at].persisted,
             \A q \in Providers \ {w.at} : report[q] = w.report[q],
             work' = [work EXCEPT ![a] = [w EXCEPT !.pc = pc, !.paged = paged, !.report = report]]
      PROVE  Well(a) /\ Quiet(a)
  <2> DEFINE v == [w EXCEPT !.pc = pc, !.paged = paged, !.report = report]
  <2>0. /\ w.at \in Configured /\ w.at \in Providers /\ w.build \in Builds /\ w.doc = None
        /\ w.calls >= 1
    BY <1>1, Constants DEF Placed, Pipeline, Busy
  <2>1. /\ v \in Work /\ v.pc = pc /\ v.report = report
        /\ Fixed(w, v) /\ Told(w, v) /\ v.remaining = w.remaining
        /\ v.page = w.page /\ v.saving = w.saving /\ v.doc = w.doc /\ v.calls = w.calls
    <3>1. v \in Work
      BY <1>1, <1>4 DEF Work, Pipeline
    <3> QED BY <1>1, <3>1 DEF Work, Fixed, Told
  <2>2. work' = [work EXCEPT ![a] = v]
    BY <1>4
  <2> HIDE DEF v
  <2>3. Placed(v)
    BY <1>1, <1>4, <2>0, <2>1 DEF Placed, Resting, Busy, Pipeline, Fixed
  <2>4. v.calls # 0
    BY <1>1, <2>0, <2>1 DEF Work
  <2>5. work'[a] = v /\ Others(a)
    BY <2>2, Wrote
  <2> QED BY <1>1, <1>4, <2>0, <2>1, <2>3, <2>4, <2>5 DEF Well, Quiet, OthersReported
<1>5. ASSUME NEW pc \in {"fetch", "turn", "complete"}, work' = [work EXCEPT ![a] = [w EXCEPT !.pc = pc]]
      PROVE  Well(a) /\ Quiet(a)
  <2>1. [w EXCEPT !.pc = pc] = [w EXCEPT !.pc = pc, !.paged = w.paged, !.report = w.report]
    BY <1>1 DEF Work
  <2> QED BY <1>2, <1>3, <1>4, <1>5, <2>1
<1>6. CASE FetchNoMore(a) \/ SaveNoMore(a)
  <2>1. CASE FetchNoMore(a)
    BY <1>5, <2>1 DEF FetchNoMore
  <2>2. CASE SaveNoMore(a)
    <3>1. PICK pc \in {"fetch", "turn"} : pc = IF w.stop THEN "turn" ELSE "fetch"
      OBVIOUS
    <3>2. work' = [work EXCEPT ![a] = [w EXCEPT !.pc = pc]]
      BY <2>2, <3>1 DEF SaveNoMore
    <3> QED BY <1>5, <3>2
  <2> QED BY <1>6, <2>1, <2>2
<1>7. CASE Turn(a)
  <2>1. CASE work' = [work EXCEPT ![a].pc = "complete"]
    BY <1>5, <2>1
  <2>2. CASE /\ w.calls < MaxPages \/ w.remaining = 0
             /\ work' = [work EXCEPT ![a].pc = "discover", ![a].paged = TRUE]
    <3>1. [w EXCEPT !.pc = "discover", !.paged = TRUE]
            = [w EXCEPT !.pc = "discover", !.paged = TRUE, !.report = w.report]
      BY <1>1 DEF Work
    <3>2. work' = [work EXCEPT ![a] = [w EXCEPT !.pc = "discover", !.paged = TRUE]]
      BY <2>2 DEF TypeInv, TypeOK
    <3> QED BY <1>2, <1>3, <1>4, <2>2, <3>1, <3>2
  <2>3. CASE work' = [work EXCEPT ![a].pc = "complete", ![a].report[w.at].status = "partial"]
    <3> DEFINE report == [w.report EXCEPT ![w.at] = [w.report[w.at] EXCEPT !.status = "partial"]]
    <3>1. [w EXCEPT !.pc = "complete", !.report[w.at].status = "partial"]
            = [w EXCEPT !.pc = "complete", !.paged = w.paged, !.report = report]
      BY <1>1 DEF Work
    <3>2. work' = [work EXCEPT ![a] = [w EXCEPT !.pc = "complete", !.report[w.at].status = "partial"]]
      BY <2>3 DEF TypeInv, TypeOK
    <3>3. /\ report \in [Providers -> Outcome] /\ report[w.at].status = "partial"
          /\ report[w.at].persisted = w.report[w.at].persisted
          /\ \A q \in Providers \ {w.at} : report[q] = w.report[q]
      BY <1>2, <1>3 DEF Outcome, Health, Trouble
    <3>4. work' = [work EXCEPT ![a] = [w EXCEPT !.pc = "complete", !.paged = w.paged, !.report = report]]
      BY <3>1, <3>2
    <3> HIDE DEF report
    <3> QED BY <1>2, <1>4, <3>3, <3>4 DEF Ran, Trouble
  <2> QED BY <1>7, <2>1, <2>2, <2>3 DEF Turn
<1> QED BY <1>6, <1>7

LEMMA PersistEffect ==
    ASSUME TypeInv, NEW a \in Attempts, Persist(a)
    PROVE  Well(a) /\ Persisted(a)
<1> DEFINE w == work[a]
<1>1. /\ w \in Work /\ Placed(w) /\ w.pc = "save"
      /\ UNCHANGED <<queue, checkpoint, ledger, observed>>
  BY AttemptIs DEF Persist
<1>2. /\ w.at \in Configured /\ w.at \in Providers /\ w.build \in Builds /\ w.doc = None
      /\ w.report[w.at].status \in Ran /\ w.calls >= 1
  BY <1>1, Constants DEF Placed, Pipeline, Busy
<1>3. PICK d \in w.saving :
         /\ corpus' = corpus \cup {Identity[d]}
         /\ work' = [work EXCEPT ![a] =
                       [w EXCEPT !.saving = @ \ {d}, !.doc = d, !.pc = "record"]]
  BY DEF Persist
<1> DEFINE v == [w EXCEPT !.saving = w.saving \ {d}, !.doc = d, !.pc = "record"]
<1>4. work' = [work EXCEPT ![a] = v]
  BY <1>3
<1>5. d \in Docs /\ d # None
  BY <1>1, Constants DEF Work
<1>6. v \in Work
  BY <1>1, <1>5 DEF Work, Pipeline
<1>7. /\ v.pc = "record" /\ Fixed(w, v) /\ Told(w, v) /\ v.remaining = w.remaining
      /\ v.page = w.page /\ v.saving = w.saving \ {d} /\ v.doc = d /\ v.report = w.report
      /\ v.calls = w.calls
  BY <1>1 DEF Work, Fixed, Told
<1> HIDE DEF v
<1>8. Placed(v)
  BY <1>1, <1>2, <1>5, <1>7 DEF Placed, Resting, Busy, Pipeline, Fixed
<1>9. work'[a] = v /\ Others(a)
  BY <1>4, Wrote
<1> QED BY <1>1, <1>2, <1>3, <1>5, <1>6, <1>7, <1>8, <1>9 DEF Well, Persisted

LEMMA RecordEffect ==
    ASSUME TypeInv, NEW a \in Attempts, Record(a)
    PROVE  Well(a) /\ HasRecorded(a)
<1> DEFINE w == work[a]
           n == w.report[w.at].persisted + (IF w.doc \in ledger THEN 0 ELSE 1)
           report == [w.report EXCEPT ![w.at] = [w.report[w.at] EXCEPT !.persisted = n]]
           v == [w EXCEPT !.report = report, !.known = w.known \cup {w.doc},
                          !.ids = w.ids \cup {Identity[w.doc]},
                          !.remaining = SaturatingSub(w.remaining, 1), !.doc = None, !.pc = "save"]
<1>1. /\ w \in Work /\ Placed(w) /\ w.pc = "record" /\ Owns(a)
      /\ ledger' = ledger \cup {w.doc} /\ work' = [work EXCEPT ![a] = Recorded(w)]
      /\ UNCHANGED <<queue, checkpoint, corpus, observed>>
  BY AttemptIs DEF Record
<1>2. /\ w.at \in Configured /\ w.at \in Providers /\ w.build \in Builds /\ w.doc # None
      /\ w.report[w.at].status \in Ran /\ w.calls >= 1
  BY <1>1, Constants DEF Placed, Pipeline, Busy
<1>3. /\ w.doc \in Docs /\ Identity[w.doc] \in CorpusDocuments
      /\ w.report \in [Providers -> Outcome] /\ w.remaining \in Nat
  BY <1>1, <1>2, Constants DEF Work
<1>4. n \in Nat
  BY <1>2, <1>3 DEF Outcome
<1>5. SaturatingSub(w.remaining, 1) \in Nat
  BY <1>3, SaturatingSubIs
<1>6. /\ report \in [Providers -> Outcome] /\ report[w.at].status = w.report[w.at].status
      /\ report[w.at].persisted = n
      /\ \A q \in Providers \ {w.at} : report[q] = w.report[q]
  BY <1>2, <1>3, <1>4 DEF Outcome
<1>7. Recorded(w) = v
  <2>1. n = IF w.doc \in ledger THEN w.report[w.at].persisted ELSE w.report[w.at].persisted + 1
    BY <1>2, <1>3 DEF Outcome
  <2> QED BY <1>1, <1>2, <2>1 DEF Recorded, Work
<1> HIDE DEF report, n
<1>8. v \in Work
  BY <1>1, <1>3, <1>5, <1>6 DEF Work, Pipeline
<1>9. /\ v.pc = "save" /\ Fixed(w, v) /\ v.known = w.known \cup {w.doc}
      /\ v.ids = w.ids \cup {Identity[w.doc]} /\ v.remaining = SaturatingSub(w.remaining, 1)
      /\ v.page = w.page /\ v.saving = w.saving /\ v.doc = None /\ v.report = report
      /\ v.calls = w.calls
  BY <1>1 DEF Work, Fixed
<1> HIDE DEF v
<1>10. Placed(v)
  BY <1>1, <1>2, <1>6, <1>9 DEF Placed, Resting, Busy, Pipeline, Fixed
<1>11. work'[a] = v /\ Others(a)
  BY <1>1, <1>7, Wrote
<1> QED BY <1>1, <1>2, <1>3, <1>6, <1>8, <1>9, <1>10, <1>11
        DEF Well, HasRecorded, OthersReported, n

LEMMA CompleteEffect ==
    ASSUME TypeInv, NEW a \in Attempts, Complete(a)
    PROVE  Well(a) /\ Completed(a)
<1> DEFINE w == work[a]
           v == [w EXCEPT !.pc = "observe"]
<1>1. w \in Work /\ Placed(w) /\ w.pc = "complete" /\ UNCHANGED <<queue, ledger, corpus, observed>>
  BY AttemptIs DEF Complete
<1>2. /\ w.at \in Configured /\ w.at \in Providers /\ w.build \in Builds /\ w.doc = None
      /\ w.saving = {} /\ w.report[w.at].status \in Ran
  BY <1>1, Constants DEF Placed, Pipeline, Busy
<1>3. work'[a] = v /\ Others(a)
  BY Wrote DEF Complete
<1>4. v \in Work
  BY <1>1 DEF Work, Pipeline
<1>5. /\ v.pc = "observe" /\ Fixed(w, v) /\ Told(w, v) /\ v.remaining = w.remaining
      /\ v.page = w.page /\ v.saving = w.saving /\ v.doc = w.doc /\ v.report = w.report
  BY <1>1 DEF Work, Fixed, Told
<1> HIDE DEF v
<1>6. Placed(v)
  BY <1>1, <1>2, <1>5 DEF Placed, Resting, Busy, Pipeline, Fixed
<1> QED BY <1>1, <1>2, <1>3, <1>4, <1>5, <1>6 DEF Well, Completed, Complete

LEMMA FinishObservationEffect ==
    ASSUME TypeInv, NEW a \in Attempts, FinishObservation(a)
    PROVE  Well(a) /\ HasFinished(a)
<1> DEFINE w == work[a]
<1>1. /\ w \in Work /\ Placed(w) /\ w.pc = "observe" /\ Owns(a) /\ observed[w.at][a] = "running"
      /\ observed' = [observed EXCEPT ![w.at][a] = w.report[w.at].status]
      /\ UNCHANGED <<queue, checkpoint, ledger, corpus>>
  BY AttemptIs DEF FinishObservation
<1>2. w.at \in Providers /\ w.build \in Builds /\ w.saving = {} /\ w.doc = None
  BY <1>1 DEF Placed, Pipeline
<1>3. work'[a] = NextProvider(w) /\ Others(a)
  BY Wrote DEF FinishObservation
<1>4. /\ NextProvider(w) \in Work /\ Placed(NextProvider(w)) /\ Advanced(w, NextProvider(w))
      /\ NextProvider(w).report = w.report
  BY <1>1, <1>2, NextProviderIs DEF Advanced, Told
<1> QED BY <1>1, <1>2, <1>3, <1>4 DEF Well, HasFinished

LEMMA EndEffect ==
    ASSUME TypeInv, NEW a \in Attempts, Historiography(a) \/ Abort(a) \/ Crash(a) \/ Conclude(a)
    PROVE  Well(a) /\ HasEnded(a)
<1> DEFINE w == work[a]
<1>1. /\ w \in Work /\ w.pc \notin {"idle", "gone"}
      /\ UNCHANGED <<checkpoint, ledger, corpus, observed>>
  BY AttemptIs DEF Historiography, Abort, Crash, Conclude, Pipeline
<1>2. PICK pc \in {"conclude", "gone"}, result \in {"none", "report", "retryable", "error"} :
        /\ work' = [work EXCEPT ![a] = Ended(w, pc, result)]
        /\ result = "report" => w.pc = "historiography" /\ Incomplete(w) = {}
        /\ \/ UNCHANGED queue
           \/ /\ w.pc = "conclude" /\ Owns(a) /\ pc = "gone"
              /\ queue' = [queue EXCEPT !.status = Settled(a), !.owner = 0, !.valid = FALSE]
  BY DEF Historiography, Abort, Crash, Conclude
<1> DEFINE v == Ended(w, pc, result)
<1>3. /\ v \in Work /\ Placed(v) /\ v.pc = pc /\ v.build = w.build /\ v.result = result
  BY <1>1, EndedIs
<1>4. work'[a] = v /\ Others(a)
  BY <1>2, Wrote
<1> HIDE DEF v
<1>5. /\ v.remaining = 0 /\ v.page = {} /\ v.saving = {} /\ v.doc = None /\ v.at = 0
      /\ v.known = {} /\ v.ids = {}
  BY <1>3 DEF Placed, Resting
<1> QED BY <1>1, <1>2, <1>3, <1>4, <1>5 DEF Well, HasEnded

LEMMA ClaimEffect ==
    ASSUME TypeInv, NEW build \in Builds, Claim(build)
    PROVE  \E a \in Attempts : Well(a) /\ Entered(a, build)
<1>1. PICK a \in Attempts : a = queue.attempts + 1
  BY Constants DEF Claim, TypeInv, TypeOK, Attempts
<1>2. a > queue.attempts
  BY <1>1 DEF TypeInv, TypeOK
<1>3. work[a] = Unstarted
  BY <1>2 DEF TypeInv
<1> DEFINE v == [Unstarted EXCEPT !.pc = "resume", !.build = build]
<1>4. work' = [work EXCEPT ![a] = v]
  BY <1>1, <1>3 DEF Claim, TypeInv, TypeOK
<1>5. v \in Work
  <2>1. Unstarted \in Work
    BY UnstartedIs
  <2> HIDE DEF Unstarted
  <2> QED BY <2>1 DEF Work, Pipeline
<1>6. /\ v.pc = "resume" /\ v.build = build /\ v.at = 0 /\ v.known = {} /\ v.ids = {}
      /\ v.remaining = 0 /\ v.page = {} /\ v.saving = {} /\ v.doc = None /\ v.calls = 0
  BY DEF Unstarted
<1>7. Placed(v)
  BY <1>6 DEF Placed, Resting, Busy, Pipeline
<1>8. /\ queue' = [status |-> "running", attempts |-> a, owner |-> a, valid |-> TRUE]
      /\ queue.status # "done" /\ UNCHANGED <<checkpoint, ledger, corpus, observed>>
  BY <1>1 DEF Claim
<1>9. work'[a] = v /\ Others(a)
  BY <1>4, Wrote
<1> QED BY <1>1, <1>3, <1>5, <1>6, <1>7, <1>8, <1>9 DEF Well, Entered

LEMMA RowEffect ==
    ASSUME TypeInv, LeaseExpires \/ ExhaustStale
    PROVE  RowMoved
BY DEF LeaseExpires, ExhaustStale, RowMoved, TypeInv, TypeOK

LEMMA StepEffect ==
    ASSUME TypeInv, [Next]_vars
    PROVE  \/ UNCHANGED vars
           \/ RowMoved
           \/ \E a \in Attempts : Well(a) /\ Effect(a)
<1>1. ASSUME NEW a \in Attempts, ProviderStep(a) PROVE Well(a) /\ Effect(a)
  BY <1>1, SkipEffect, NotConfiguredEffect, StartEffect, DiscoverEffect, FetchEffect, NoMoreEffect,
     PersistEffect, RecordEffect, CompleteEffect, FinishObservationEffect
     DEF ProviderStep, Effect
<1>2. ASSUME NEW a \in Attempts, Historiography(a) \/ Abort(a) \/ Crash(a) \/ Conclude(a)
      PROVE  Well(a) /\ Effect(a)
  BY <1>2, EndEffect DEF Effect
<1>3. ASSUME NEW a \in Attempts, Resume(a) PROVE Well(a) /\ Effect(a)
  BY <1>3, ResumeEffect DEF Effect
<1>4. ASSUME NEW build \in Builds, Claim(build) PROVE \E a \in Attempts : Well(a) /\ Effect(a)
  BY <1>4, ClaimEffect DEF Effect
<1> QED BY <1>1, <1>2, <1>3, <1>4, RowEffect DEF Next, Proceed

-----------------------------------------------------------------------------
(* Types.                                                                  *)

LEMMA OwnerIsLatest ==
    ASSUME TypeInv, NEW a \in Attempts, Owns(a)
    PROVE  a = queue.attempts /\ queue.status = "running" /\ queue.valid
BY DEF TypeInv, QueueSound, Owns

LEMMA StartedAttempts ==
    ASSUME TypeInv, NEW a \in Attempts, work[a].pc # "idle"
    PROVE  a <= queue.attempts
BY DEF TypeInv, TypeOK, Unstarted, Attempts

LEMMA QueueTyped ==
    ASSUME TypeInv, NEW a \in Attempts, Effect(a)
    PROVE  /\ QueueSound'
           /\ queue' \in [status : {"queued", "running", "done", "failed"},
                          attempts : 0 .. MaxAttempts, owner : 0 .. MaxAttempts, valid : BOOLEAN]
           /\ queue'.attempts = queue.attempts
                \/ \E build \in Builds : Entered(a, build) /\ queue'.attempts = a
<1>1. CASE UNCHANGED queue
  BY <1>1 DEF TypeInv, TypeOK, QueueSound
<1>2. CASE \E build \in Builds : Entered(a, build)
  <2>1. PICK build \in Builds : Entered(a, build)
    BY <1>2
  <2>2. queue' = [status |-> "running", attempts |-> a, owner |-> a, valid |-> TRUE]
    BY <2>1 DEF Entered
  <2>3. a \in 0 .. MaxAttempts /\ a >= 1
    BY Constants DEF Attempts
  <2> QED BY <2>1, <2>2, <2>3 DEF QueueSound
<1>3. CASE HasEnded(a)
  <2>1. Settled(a) \in {"queued", "done", "failed"}
    BY DEF Settled
  <2>2. CASE queue' = [queue EXCEPT !.status = Settled(a), !.owner = 0, !.valid = FALSE]
    <3>1. 0 \in 0 .. MaxAttempts
      BY Constants
    <3> QED BY <2>1, <2>2, <3>1 DEF TypeInv, TypeOK, QueueSound
  <2> QED BY <1>1, <1>3, <2>2 DEF HasEnded
<1> QED BY <1>1, <1>2, <1>3
        DEF Effect, HasResumed, HasSkipped, PassedOver, Started, Quiet, Persisted, HasRecorded,
            Completed, HasFinished, Tables

LEMMA TablesTyped ==
    ASSUME TypeInv, NEW a \in Attempts, Effect(a)
    PROVE  /\ checkpoint' \in [Providers -> Checkpoint]
           /\ ledger' \subseteq Docs /\ corpus' \subseteq CorpusDocuments
           /\ observed' \in [Providers -> [Attempts -> {"absent", "running"} \cup Health]]
<1>1. /\ checkpoint \in [Providers -> Checkpoint]
      /\ ledger \subseteq Docs /\ corpus \subseteq CorpusDocuments
      /\ observed \in [Providers -> [Attempts -> {"absent", "running"} \cup Health]]
      /\ work[a] \in Work /\ Placed(work[a])
  BY AttemptIs DEF TypeInv, TypeOK
<1>2. CASE UNCHANGED <<checkpoint, ledger, corpus, observed>>
  BY <1>1, <1>2
<1>3. CASE PassedOver(a) \/ Started(a)
  <2>1. work[a].at \in Providers /\ IsObserved(a) /\ UNCHANGED <<checkpoint, ledger, corpus>>
    BY <1>3, Constants DEF PassedOver, Started
  <2>2. observed' = [observed EXCEPT ![work[a].at][a] = "running"]
    BY <2>1 DEF IsObserved
  <2>3. observed' \in [Providers -> [Attempts -> {"absent", "running"} \cup Health]]
    BY <1>1, <2>1, <2>2
  <2> QED BY <1>1, <2>1, <2>3
<1>4. CASE Persisted(a)
  <2>1. work'[a].doc \in Docs /\ corpus' = corpus \cup {Identity[work'[a].doc]}
    BY <1>1, <1>4 DEF Persisted, Work
  <2> QED BY <1>1, <1>4, <2>1, Constants DEF Persisted
<1>5. CASE HasRecorded(a)
  BY <1>1, <1>5 DEF HasRecorded
<1>6. CASE Completed(a)
  <2>1. work[a].at \in Providers
    BY <1>6, Constants DEF Completed
  <2>2. work[a].report[work[a].at].persisted \in Nat /\ work[a].build \in Builds \cup {None}
    BY <1>1, <2>1 DEF Work, Outcome
  <2>3. [version |-> work[a].build, persisted |-> work[a].report[work[a].at].persisted] \in Checkpoint
    BY <2>2 DEF Checkpoint
  <2> QED BY <1>1, <1>6, <2>3 DEF Completed
<1>7. CASE HasFinished(a)
  <2>1. work[a].report[work[a].at].status \in Health
    BY <1>1, <1>7 DEF HasFinished, Placed, Ran, Health
  <2> QED BY <1>1, <1>7, <2>1 DEF HasFinished
<1> QED BY <1>2, <1>3, <1>4, <1>5, <1>6, <1>7
        DEF Effect, Entered, HasResumed, HasSkipped, Quiet, HasEnded, Tables

LEMMA RowTyped ==
    ASSUME TypeInv, RowMoved
    PROVE  /\ QueueSound' /\ queue'.attempts = queue.attempts
           /\ queue'.status \in {"running", "failed"} /\ queue.status = "running"
           /\ \A a \in Attempts : ~Owns(a)'
           /\ queue' \in [status : {"queued", "running", "done", "failed"},
                          attempts : 0 .. MaxAttempts, owner : 0 .. MaxAttempts, valid : BOOLEAN]
<1>1. 0 \in 0 .. MaxAttempts
  BY Constants
<1>2. queue' \in [status : {"queued", "running", "done", "failed"},
                  attempts : 0 .. MaxAttempts, owner : 0 .. MaxAttempts, valid : BOOLEAN]
  BY <1>1 DEF RowMoved, TypeInv, TypeOK
<1>3. /\ queue'.attempts = queue.attempts /\ queue'.valid = FALSE /\ queue.status = "running"
      /\ queue'.status = "running" => queue'.owner = queue.owner
      /\ queue'.status \in {"running", "failed"}
  BY DEF RowMoved, TypeInv, TypeOK
<1> QED BY <1>2, <1>3 DEF TypeInv, QueueSound, Owns

LEMMA EffectOfStarted ==
    ASSUME NEW a \in Attempts, Effect(a)
    PROVE  (\E build \in Builds : Entered(a, build)) \/ work[a].pc # "idle"
<1>1. CASE HasEnded(a)
  BY <1>1 DEF HasEnded
<1>2. CASE Completed(a)
  BY <1>2 DEF Completed
<1>3. CASE HasFinished(a) \/ HasRecorded(a) \/ Persisted(a) \/ Quiet(a)
  BY <1>3 DEF HasFinished, HasRecorded, Persisted, Quiet
<1>4. CASE HasResumed(a) \/ HasSkipped(a) \/ PassedOver(a) \/ Started(a)
  BY <1>4 DEF HasResumed, HasSkipped, PassedOver, Started
<1> QED BY <1>1, <1>2, <1>3, <1>4 DEF Effect

LEMMA TypeInductive == TypeInv /\ [Next]_vars => TypeInv'
<1> SUFFICES ASSUME TypeInv, [Next]_vars PROVE TypeInv'
  OBVIOUS
<1>1. CASE UNCHANGED vars
  BY <1>1 DEF vars, TypeInv, TypeOK, QueueSound, Placed
<1>2. CASE RowMoved
  BY <1>2, RowTyped DEF RowMoved, TypeInv, TypeOK, Placed
<1>3. ASSUME NEW a \in Attempts, Well(a), Effect(a) PROVE TypeInv'
  <2>1. /\ checkpoint' \in [Providers -> Checkpoint]
        /\ ledger' \subseteq Docs /\ corpus' \subseteq CorpusDocuments
        /\ observed' \in [Providers -> [Attempts -> {"absent", "running"} \cup Health]]
    BY <1>3, TablesTyped
  <2>2. /\ QueueSound'
        /\ queue' \in [status : {"queued", "running", "done", "failed"},
                       attempts : 0 .. MaxAttempts, owner : 0 .. MaxAttempts, valid : BOOLEAN]
        /\ queue'.attempts = queue.attempts
             \/ \E build \in Builds : Entered(a, build) /\ queue'.attempts = a
    BY <1>3, QueueTyped
  <2>3. /\ work' \in [Attempts -> Work] /\ Placed(work'[a])
        /\ \A b \in Attempts \ {a} : work'[b] = work[b]
    BY <1>3, OthersStay
  <2>4. \A b \in Attempts : Placed(work'[b])
    BY <2>3, AttemptIs
  <2>5. ASSUME NEW b \in Attempts, b > queue'.attempts PROVE work'[b] = Unstarted
    <3>1. queue.attempts \in Nat /\ a \in Nat /\ b \in Nat
      BY DEF TypeInv, TypeOK, Attempts
    <3>2. a <= queue'.attempts
      <4>1. CASE queue'.attempts = queue.attempts
        <5>1. CASE work[a].pc # "idle"
          BY <4>1, <5>1, StartedAttempts
        <5>2. CASE \E build \in Builds : Entered(a, build)
          <6>1. PICK build \in Builds : Entered(a, build)
            BY <5>2
          <6>2. queue'.attempts = a
            BY <6>1 DEF Entered
          <6> QED BY <3>1, <6>2
        <5> QED BY <1>3, <5>1, <5>2, EffectOfStarted
      <4>2. CASE queue'.attempts = a
        BY <4>2, <3>1
      <4> QED BY <2>2, <4>1, <4>2
    <3>3. queue'.attempts \in Nat /\ queue.attempts <= queue'.attempts
      <4>1. CASE queue'.attempts = queue.attempts
        BY <3>1, <4>1
      <4>2. CASE \E build \in Builds : Entered(a, build) /\ queue'.attempts = a
        BY <3>1, <4>2 DEF Entered
      <4> QED BY <2>2, <4>1, <4>2
    <3>4. b # a /\ b > queue.attempts
      BY <2>5, <3>1, <3>2, <3>3
    <3> QED BY <2>3, <3>4 DEF TypeInv
  <2> QED BY <2>1, <2>2, <2>3, <2>4, <2>5 DEF TypeInv, TypeOK, Placed
<1> QED BY <1>1, <1>2, <1>3, StepEffect

LEMMA InitType == Init => TypeInv
<1> SUFFICES ASSUME Init PROVE TypeInv
  OBVIOUS
<1>1. 0 \in 0 .. MaxAttempts
  BY Constants
<1>2. [p \in Providers |-> NoCheckpoint] \in [Providers -> Checkpoint]
  BY DEF NoCheckpoint, Checkpoint
<1>3. Unstarted \in Work /\ Placed(Unstarted)
  BY UnstartedIs
<1> HIDE DEF Unstarted
<1> QED BY <1>1, <1>2, <1>3 DEF Init, TypeInv, TypeOK, QueueSound

LEMMA AlwaysTyped == Spec => []TypeInv
BY InitType, TypeInductive, PTL DEF Spec

(* Tables, attempts and the job's row keep to their types, however the     *)
(* attempts of a job overlap and end.                                      *)
THEOREM CorpusTypes == Spec => []TypeOK
<1>1. TypeInv => TypeOK
  BY DEF TypeInv
<1> QED BY <1>1, AlwaysTyped, PTL

-----------------------------------------------------------------------------
(* The fence and the budgets.                                              *)

(* What an attempt has in hand: fetched, not yet in the ledger.            *)
InHand(w) == w.saving \cup ({w.doc} \ {None})

(* An attempt stays within the budgets with all it has in hand.            *)
Within(w) ==
    /\ w.ids = IdentitiesOf(w.known)
    /\ Cardinality(w.ids) + Cardinality(InHand(w)) <= Total
    /\ Cardinality(InHand(w)) <= w.remaining
    /\ \A p \in Providers :
          Cardinality(From(w.known, p)) + (IF p = w.at THEN w.remaining ELSE 0) <= PerProvider
    /\ w.page \subseteq From(Docs, w.at)
    /\ InHand(w) \subseteq From(Docs, w.at) \ w.known
    /\ w.doc \notin w.saving
    /\ w.pc \in Busy => w.saved[w.at].version # w.build

Active(a) == Owns(a) /\ work[a].pc \in Pipeline \ {"resume"}

(* What the attempt that holds the lease remembers of the tables is still  *)
(* so: the ledger, and the checkpoints it has yet to look at.              *)
Fenced(a) ==
    Active(a) =>
        /\ work[a].known = ledger
        /\ \A p \in Providers :
              p > work[a].at \/ (p = work[a].at /\ work[a].pc # "observe") =>
                 work[a].saved[p] = checkpoint[p]

Snapshot(a) == work[a].pc = "record" => Identity[work[a].doc] \in corpus

LedgerInv ==
    /\ LedgerIsBacked /\ CapsHoldAcrossAttempts
    /\ \A a \in Attempts : Within(work[a]) /\ Snapshot(a) /\ Fenced(a)

(* While another attempt takes a step, nothing the fence protects moves    *)
(* under the attempt that holds the lease.                                 *)
LEMMA Fence ==
    ASSUME TypeInv, NEW a \in Attempts, Well(a), Effect(a), NEW b \in Attempts \ {a}, Owns(b)'
    PROVE  Owns(b) /\ UNCHANGED <<queue, checkpoint, ledger, observed>> /\ work'[b] = work[b]
<1>1. /\ Owns(a) /\ Owns(b) => FALSE
      /\ work'[b] = work[b]
  BY OwnerIsLatest, OthersStay
<1>2. CASE \E build \in Builds : Entered(a, build)
  <2>1. queue'.owner = a
    BY <1>2 DEF Entered
  <2> QED BY <2>1 DEF Owns
<1>3. CASE HasEnded(a)
  <2>1. CASE queue' = [queue EXCEPT !.status = Settled(a), !.owner = 0, !.valid = FALSE]
    <3>1. ~queue'.valid
      BY <2>1 DEF TypeInv, TypeOK
    <3> QED BY <3>1 DEF Owns
  <2> QED BY <1>1, <1>3, <2>1 DEF HasEnded, Owns
<1>4. CASE HasResumed(a) \/ HasSkipped(a) \/ PassedOver(a) \/ Started(a) \/ HasRecorded(a)
             \/ HasFinished(a)
  BY <1>1, <1>4 DEF HasResumed, HasSkipped, PassedOver, Started, HasRecorded, HasFinished, Tables, Owns
<1>5. CASE Quiet(a) \/ Persisted(a)
  BY <1>1, <1>5 DEF Quiet, Persisted, Tables, Owns
<1>6. CASE Completed(a)
  BY <1>1, <1>6 DEF Completed, Owns
<1> QED BY <1>2, <1>3, <1>4, <1>5, <1>6 DEF Effect

(* The attempt that steps keeps the lease or gives it up.                  *)
LEMMA StaysActive ==
    ASSUME TypeInv, NEW a \in Attempts, Well(a), Effect(a), Active(a)'
    PROVE  Owns(a) /\ queue' = queue /\ (HasResumed(a) \/ Active(a))
<1>1. Owns(a)' /\ work'[a].pc \in Pipeline /\ work'[a].pc # "resume"
  BY DEF Active
<1>2. ~ \E build \in Builds : Entered(a, build)
  BY <1>1 DEF Entered
<1>3. ~ HasEnded(a)
  BY <1>1 DEF HasEnded, Pipeline
<1>4. CASE HasResumed(a) \/ HasSkipped(a) \/ PassedOver(a) \/ Started(a)
  BY <1>1, <1>4 DEF HasResumed, HasSkipped, PassedOver, Started, Tables, Owns, Active, Pipeline
<1>5. CASE HasRecorded(a) \/ HasFinished(a) \/ Quiet(a) \/ Persisted(a)
  BY <1>1, <1>5 DEF HasRecorded, HasFinished, Quiet, Persisted, Tables, Owns, Active, Pipeline
<1>6. CASE Completed(a)
  BY <1>1, <1>6 DEF Completed, Owns, Active, Pipeline
<1> QED BY <1>2, <1>3, <1>4, <1>5, <1>6 DEF Effect

LEMMA TablesGrow ==
    ASSUME TypeInv, NEW a \in Attempts, Effect(a)
    PROVE  /\ corpus \subseteq corpus' /\ ledger \subseteq ledger'
           /\ ledger' = ledger \/ HasRecorded(a)
           /\ checkpoint' = checkpoint \/ Completed(a)
           /\ observed' = observed \/ PassedOver(a) \/ Started(a) \/ HasFinished(a)
<1>1. CASE Completed(a)
  BY <1>1 DEF Completed
<1>2. CASE HasEnded(a)
  BY <1>2 DEF HasEnded
<1>3. CASE \E build \in Builds : Entered(a, build)
  BY <1>3 DEF Entered
<1>4. CASE HasResumed(a) \/ HasSkipped(a) \/ PassedOver(a) \/ Started(a)
  BY <1>4 DEF HasResumed, HasSkipped, PassedOver, Started, Tables
<1>5. CASE HasRecorded(a) \/ HasFinished(a) \/ Quiet(a) \/ Persisted(a)
  BY <1>5 DEF HasRecorded, HasFinished, Quiet, Persisted, Tables
<1> QED BY <1>1, <1>2, <1>3, <1>4, <1>5 DEF Effect

LEMMA InHandIs ==
    ASSUME NEW w \in Work
    PROVE  /\ InHand(w) \in SUBSET Docs /\ IsFiniteSet(InHand(w)) /\ Cardinality(InHand(w)) \in Nat
           /\ w.saving = {} /\ w.doc = None => InHand(w) = {} /\ Cardinality(InHand(w)) = 0
<1>1. InHand(w) \in SUBSET Docs
  BY DEF InHand, Work
<1>2. w.saving = {} /\ w.doc = None => InHand(w) = {}
  BY DEF InHand
<1> QED BY <1>1, <1>2, DocsAreCounted, FS_EmptySet

LEMMA KnownIsCounted ==
    ASSUME NEW w \in Work
    PROVE  /\ w.known \in SUBSET Docs /\ w.remaining \in Nat
           /\ \A p : Cardinality(From(w.known, p)) \in Nat
           /\ Cardinality(w.ids) \in Nat
<1>1. w.known \in SUBSET Docs /\ w.ids \in SUBSET CorpusDocuments /\ w.remaining \in Nat
  BY DEF Work
<1>2. ASSUME NEW p PROVE Cardinality(From(w.known, p)) \in Nat
  BY <1>1, FromIs, DocsAreCounted
<1>3. Cardinality(w.ids) \in Nat
  BY <1>1, CorpusIsFinite, FS_Subset, FS_CardinalityType
<1> QED BY <1>1, <1>2, <1>3

(* Empty-handed and with no budget: only what is known counts.             *)
LEMMA EmptyHanded ==
    ASSUME NEW w \in Work, w.saving = {}, w.doc = None, w.page = {}, w.remaining = 0,
           w.pc \notin Busy, w.ids = IdentitiesOf(w.known), Cardinality(w.ids) <= Total,
           \A p \in Providers : Cardinality(From(w.known, p)) <= PerProvider
    PROVE  Within(w)
<1>1. InHand(w) = {} /\ Cardinality(InHand(w)) = 0
  BY InHandIs
<1>2. Cardinality(w.ids) \in Nat /\ \A p \in Providers : Cardinality(From(w.known, p)) \in Nat
  BY KnownIsCounted
<1> HIDE DEF InHand
<1> QED BY <1>1, <1>2 DEF Within

LEMMA RestingWithin ==
    ASSUME NEW w \in Work, Placed(w), w.pc \in Resting
    PROVE  Within(w)
<1>1. /\ w.known = {} /\ w.ids = {} /\ w.remaining = 0 /\ w.page = {} /\ w.saving = {}
      /\ w.doc = None /\ w.pc \notin Busy
  BY DEF Placed, Resting, Busy
<1>2. IdentitiesOf({}) = {} /\ Cardinality({}) = 0 /\ \A p : From({}, p) = {}
  BY FS_EmptySet DEF IdentitiesOf, From
<1>3. Cardinality(w.ids) <= Total /\ \A p \in Providers : Cardinality(From(w.known, p)) <= PerProvider
  BY <1>1, <1>2, Constants
<1> QED BY <1>1, <1>2, <1>3, EmptyHanded

LEMMA WithinSteps ==
    ASSUME TypeInv, LedgerInv, NEW a \in Attempts, Well(a), Effect(a)
    PROVE  Within(work'[a])
<1>1. PICK w \in Work : w = work[a]
  BY AttemptIs
<1>2. PICK v \in Work : v = work'[a]
  BY DEF Well
<1>3. Placed(w) /\ Placed(v) /\ Within(w)
  BY <1>1, <1>2, AttemptIs, OthersStay DEF LedgerInv
<1>4. /\ w.known \in SUBSET Docs /\ w.remaining \in Nat /\ Cardinality(w.ids) \in Nat
      /\ \A p \in Providers : Cardinality(From(w.known, p)) \in Nat
      /\ Cardinality(InHand(w)) \in Nat /\ IsFiniteSet(InHand(w))
      /\ InHand(w) \in SUBSET Docs /\ InHand(v) \in SUBSET Docs
  BY KnownIsCounted, InHandIs
<1>5. /\ w.ids = IdentitiesOf(w.known) /\ Cardinality(w.ids) <= Total
      /\ \A p \in Providers : Cardinality(From(w.known, p)) <= PerProvider
  BY <1>3, <1>4, Constants DEF Within
<1>6. SUFFICES Within(v)
  BY <1>2
<1>7. CASE (\E build \in Builds : Entered(a, build)) \/ HasEnded(a)
  <2>1. v.pc \in Resting
    BY <1>2, <1>7 DEF Entered, HasEnded, Resting
  <2> QED BY <1>3, <2>1, RestingWithin
<1>8. CASE HasResumed(a)
  <2>1. /\ v.saving = {} /\ v.doc = None /\ v.page = {} /\ v.remaining = 0 /\ v.pc \notin Busy
        /\ v.known = ledger /\ v.ids = IdentitiesOf(ledger)
    BY <1>2, <1>8 DEF HasResumed, Busy
  <2>2. /\ Cardinality(IdentitiesOf(ledger)) <= Total
        /\ \A p \in Providers : Cardinality(From(ledger, p)) <= PerProvider
    BY DEF LedgerInv, CapsHoldAcrossAttempts
  <2> QED BY <2>1, <2>2, EmptyHanded
<1>9. CASE HasSkipped(a) \/ HasFinished(a)
  <2>1. Advanced(w, v)
    BY <1>1, <1>2, <1>9 DEF HasSkipped, HasFinished
  <2>2. /\ v.saving = {} /\ v.doc = None /\ v.page = {} /\ v.remaining = 0 /\ v.pc \notin Busy
        /\ v.known = w.known /\ v.ids = w.ids
    BY <2>1 DEF Advanced, Told, Busy
  <2> QED BY <1>5, <2>2, EmptyHanded
<1>10. CASE PassedOver(a)
  <2>1. /\ v.saving = {} /\ v.doc = None /\ v.page = w.page /\ v.remaining = w.remaining
        /\ w.pc = "start" /\ v.pc \notin Busy /\ v.known = w.known /\ v.ids = w.ids
    BY <1>1, <1>2, <1>10 DEF PassedOver, Told, Busy
  <2>2. v.page = {} /\ v.remaining = 0
    BY <1>3, <2>1 DEF Placed
  <2> QED BY <1>5, <2>1, <2>2, EmptyHanded
<1>11. CASE Started(a)
  <2>1. /\ v.saving = {} /\ v.doc = None /\ v.page = w.page /\ v.remaining = StartBudget(w)
        /\ w.pc = "start" /\ v.pc = "discover" /\ v.known = w.known /\ v.ids = w.ids
        /\ v.at = w.at /\ v.build = w.build /\ v.saved = w.saved
        /\ w.saved[w.at].version # w.build
    BY <1>1, <1>2, <1>11 DEF Started, Told, Fixed
  <2>2. v.page = {} /\ w.at \in Providers
    BY <1>3, <2>1 DEF Placed
  <2>3. /\ StartBudget(w) \in Nat
        /\ Cardinality(From(w.known, w.at)) + StartBudget(w) <= PerProvider
    BY <1>5, <2>2, BudgetIs
  <2>4. InHand(v) = {} /\ Cardinality(InHand(v)) = 0
    BY <2>1, InHandIs
  <2>5. \A p \in Providers :
            Cardinality(From(v.known, p)) + (IF p = v.at THEN v.remaining ELSE 0) <= PerProvider
    BY <1>4, <1>5, <2>1, <2>3
  <2> HIDE DEF InHand
  <2> QED BY <1>4, <1>5, <2>1, <2>2, <2>3, <2>4, <2>5 DEF Within
<1>12. CASE Quiet(a)
  <2>1. /\ w.pc \in Busy /\ v.at = w.at /\ v.build = w.build /\ v.saved = w.saved
        /\ v.known = w.known /\ v.ids = w.ids /\ v.remaining = w.remaining
        /\ w.doc = None /\ v.doc = None
        /\ v.page \subseteq w.page \/ v.page \subseteq From(Docs, w.at)
        /\ \/ v.saving = w.saving
           \/ /\ v.saving \subseteq w.page \ w.known
              /\ Cardinality(v.saving) <= BatchSize(w)
    BY <1>1, <1>2, <1>12 DEF Quiet, Fixed, Told, Busy
  <2>2. InHand(v) = v.saving /\ InHand(w) = w.saving
    BY <2>1 DEF InHand
  <2>3. /\ Cardinality(v.saving) <= w.remaining
        /\ Cardinality(w.ids) + Cardinality(v.saving) <= Total
        /\ v.saving \subseteq From(Docs, w.at) \ w.known
    <3>1. CASE v.saving = w.saving
      BY <1>3, <2>2, <3>1 DEF Within
    <3>2. CASE /\ v.saving \subseteq w.page \ w.known
               /\ Cardinality(v.saving) <= BatchSize(w)
      <4>1. SaturatingSub(Total, Cardinality(w.ids)) = Total - Cardinality(w.ids)
        BY <1>4, <1>5, Constants DEF SaturatingSub
      <4>2. /\ BatchSize(w) <= w.remaining /\ BatchSize(w) <= Total - Cardinality(w.ids)
            /\ BatchSize(w) \in Nat
        <5> DEFINE m == w.remaining
                   n == Cardinality(w.ids)
        <5>1. BatchSize(w) = Least(Least(m, Total - n), Concurrency) /\ m \in Nat /\ n \in Nat
              /\ n <= Total /\ Total \in Nat /\ Concurrency \in Nat
          BY <1>4, <1>5, <4>1, Constants DEF BatchSize
        <5> HIDE DEF m, n
        <5>2. BatchSize(w) <= m /\ BatchSize(w) <= Total - n /\ BatchSize(w) \in Nat
          BY <5>1 DEF Least
        <5> QED BY <5>2 DEF m, n
      <4>3. Cardinality(v.saving) \in Nat
        BY <2>2, InHandIs
      <4>4. w.page \subseteq From(Docs, w.at)
        BY <1>3 DEF Within
      <4> QED BY <1>4, <3>2, <4>2, <4>3, <4>4, Constants
    <3> QED BY <2>1, <3>1, <3>2
  <2>4. v.page \subseteq From(Docs, w.at) /\ w.saved[w.at].version # w.build
    BY <1>3, <2>1 DEF Within
  <2>5. \A p \in Providers :
            Cardinality(From(v.known, p)) + (IF p = v.at THEN v.remaining ELSE 0) <= PerProvider
    BY <1>3, <2>1 DEF Within
  <2>6. v.doc \notin v.saving
    BY <1>4, <2>1, <2>2, Constants
  <2> QED BY <1>5, <2>1, <2>2, <2>3, <2>4, <2>5, <2>6 DEF Within
<1>13. CASE Persisted(a)
  <2>1. /\ w.pc \in Busy /\ v.at = w.at /\ v.build = w.build /\ v.saved = w.saved
        /\ v.known = w.known /\ v.ids = w.ids /\ v.remaining = w.remaining
        /\ w.doc = None /\ v.doc \in w.saving /\ v.saving = w.saving \ {v.doc}
        /\ v.page = w.page
    BY <1>1, <1>2, <1>13 DEF Persisted, Fixed, Told, Busy
  <2>2. v.doc # None
    BY <2>1, Constants DEF Work
  <2>3. InHand(v) = InHand(w) /\ v.doc \notin v.saving
    BY <2>1, <2>2 DEF InHand
  <2> HIDE DEF InHand
  <2> QED BY <1>3, <2>1, <2>3 DEF Within
<1>14. CASE HasRecorded(a)
  <2>0. PICK d \in Docs : d = w.doc
    BY <1>1, <1>14 DEF HasRecorded
  <2>1. /\ w.pc \in Busy /\ v.at = w.at /\ v.build = w.build /\ v.saved = w.saved
        /\ v.known = w.known \cup {d} /\ v.ids = w.ids \cup {Identity[d]}
        /\ v.remaining = SaturatingSub(w.remaining, 1) /\ v.doc = None /\ v.saving = w.saving
        /\ v.page = w.page /\ w.doc = d /\ w.at \in Configured
    BY <1>1, <1>2, <1>14, <2>0 DEF HasRecorded, Fixed, Busy
  <2>2. /\ d \in InHand(w) /\ InHand(v) = InHand(w) \ {d} /\ v.doc \notin v.saving
    <3>1. d # None /\ d \notin w.saving /\ None \notin w.saving
      BY <1>3, <2>1, Constants DEF Within, Work
    <3> QED BY <2>1, <3>1 DEF InHand
  <2> HIDE DEF InHand
  <2>3. Cardinality(InHand(v)) = Cardinality(InHand(w)) - 1
    <3>1. Cardinality(InHand(w) \ {d}) = Cardinality(InHand(w)) - 1
      BY <1>4, <2>2, FS_RemoveElement
    <3> QED BY <2>2, <3>1
  <2>4. /\ Cardinality(InHand(w)) <= w.remaining
        /\ Cardinality(w.ids) + Cardinality(InHand(w)) <= Total
        /\ InHand(w) \subseteq From(Docs, w.at) \ w.known
        /\ w.page \subseteq From(Docs, w.at)
        /\ w.saved[w.at].version # w.build
        /\ \A p \in Providers :
              Cardinality(From(w.known, p)) + (IF p = w.at THEN w.remaining ELSE 0) <= PerProvider
    BY <1>3, <2>1 DEF Within
  <2>5. Cardinality(InHand(v)) \in Nat
    BY InHandIs
  <2>6. w.remaining >= 1 /\ v.remaining = w.remaining - 1
    BY <1>4, <2>1, <2>3, <2>4, <2>5 DEF SaturatingSub
  <2>7. Source[d] = w.at /\ d \in Docs \ w.known
    BY <2>2, <2>4 DEF From
  <2>8. v.ids = IdentitiesOf(v.known) /\ Cardinality(v.ids) <= Cardinality(w.ids) + 1
    <3>1. IdentitiesOf(w.known \cup {d}) = IdentitiesOf(w.known) \cup {Identity[d]}
          /\ Cardinality(IdentitiesOf(w.known \cup {d})) <= Cardinality(IdentitiesOf(w.known)) + 1
      BY <1>4, OneMoreIdentity
    <3> QED BY <1>5, <2>1, <3>1
  <2>9. Cardinality(v.ids) \in Nat
    BY KnownIsCounted
  <2>10. \A p \in Providers :
            Cardinality(From(v.known, p)) + (IF p = v.at THEN v.remaining ELSE 0) <= PerProvider
    <3> SUFFICES ASSUME NEW p \in Providers
                 PROVE Cardinality(From(v.known, p)) + (IF p = v.at THEN v.remaining ELSE 0) <= PerProvider
      OBVIOUS
    <3>1. Cardinality(From(v.known, p)) = Cardinality(From(w.known, p)) + (IF p = w.at THEN 1 ELSE 0)
      BY <1>4, <2>1, <2>7, OneMoreDocument
    <3>2. Cardinality(From(w.known, p)) + (IF p = w.at THEN w.remaining ELSE 0) <= PerProvider
      BY <2>4
    <3>3. Cardinality(From(w.known, p)) \in Nat
      BY <1>4
    <3> QED BY <1>4, <2>1, <2>6, <3>1, <3>2, <3>3, Constants
  <2>11. InHand(v) \subseteq From(Docs, v.at) \ v.known
    BY <2>1, <2>2, <2>4
  <2>12. /\ Cardinality(v.ids) + Cardinality(InHand(v)) <= Total
         /\ Cardinality(InHand(v)) <= v.remaining
    BY <1>4, <2>3, <2>4, <2>5, <2>6, <2>8, <2>9, Constants
  <2>13. v.page \subseteq From(Docs, v.at) /\ v.saved[v.at].version # v.build
    BY <2>1, <2>4
  <2> QED BY <2>2, <2>8, <2>10, <2>11, <2>12, <2>13 DEF Within
<1>15. CASE Completed(a)
  <2>1. /\ w.pc = "complete" /\ v.pc = "observe" /\ v.at = w.at
        /\ v.known = w.known /\ v.ids = w.ids /\ v.remaining = w.remaining
        /\ v.doc = None /\ v.saving = {} /\ v.page = w.page
    BY <1>1, <1>2, <1>15 DEF Completed, Fixed, Told
  <2>2. w.doc = None /\ w.saving = {}
    BY <1>3, <2>1 DEF Placed
  <2>3. InHand(v) = InHand(w)
    BY <2>1, <2>2 DEF InHand
  <2> HIDE DEF InHand
  <2> QED BY <1>3, <2>1, <2>2, <2>3 DEF Within, Busy
<1> QED BY <1>7, <1>8, <1>9, <1>10, <1>11, <1>12, <1>13, <1>14, <1>15 DEF Effect

LEMMA FencedSteps ==
    ASSUME TypeInv, LedgerInv, NEW a \in Attempts, Well(a), Effect(a)
    PROVE  Fenced(a)'
<1> SUFFICES ASSUME Active(a)'
             PROVE  /\ work'[a].known = ledger'
                    /\ \A p \in Providers :
                          p > work'[a].at \/ (p = work'[a].at /\ work'[a].pc # "observe") =>
                             work'[a].saved[p] = checkpoint'[p]
  BY DEF Fenced
<1>1. Owns(a) /\ queue' = queue /\ (HasResumed(a) \/ Active(a))
  BY StaysActive
<1>2. CASE HasResumed(a)
  BY <1>2 DEF HasResumed, Tables
<1>3. ASSUME Active(a), ~HasResumed(a)
      PROVE  /\ work'[a].known = ledger'
             /\ \A p \in Providers :
                   p > work'[a].at \/ (p = work'[a].at /\ work'[a].pc # "observe") =>
                      work'[a].saved[p] = checkpoint'[p]
  <2>1. PICK w \in Work : w = work[a]
    BY AttemptIs
  <2>2. PICK v \in Work : v = work'[a]
    BY DEF Well
  <2>3. /\ w.known = ledger
        /\ \A p \in Providers :
              p > w.at \/ (p = w.at /\ w.pc # "observe") => w.saved[p] = checkpoint[p]
        /\ Placed(w) /\ w.at \in Nat
    BY <1>3, <2>1, AttemptIs DEF LedgerInv, Fenced, Work
  <2>4. CASE HasSkipped(a) \/ HasFinished(a)
    <3>1. v.at = w.at + 1 /\ v.known = w.known /\ v.saved = w.saved /\ ledger' = ledger
          /\ checkpoint' = checkpoint
      BY <2>1, <2>2, <2>4 DEF HasSkipped, HasFinished, Advanced, Told, Tables
    <3>2. \A p \in Providers : p > v.at \/ p = v.at => p > w.at
      BY <2>3, <3>1 DEF Providers
    <3> QED BY <2>2, <2>3, <3>1, <3>2
  <2>5. CASE PassedOver(a) \/ Started(a) \/ Quiet(a) \/ Persisted(a)
    <3>1. v.at = w.at /\ v.known = w.known /\ v.saved = w.saved /\ ledger' = ledger
          /\ checkpoint' = checkpoint /\ w.pc # "observe"
      BY <2>1, <2>2, <2>5 DEF PassedOver, Started, Quiet, Persisted, Fixed, Told, Tables
    <3> QED BY <2>2, <2>3, <3>1
  <2>6. CASE HasRecorded(a)
    <3>1. v.at = w.at /\ v.known = w.known \cup {w.doc} /\ v.saved = w.saved
          /\ ledger' = ledger \cup {w.doc} /\ checkpoint' = checkpoint /\ w.pc # "observe"
      BY <2>1, <2>2, <2>6 DEF HasRecorded, Fixed
    <3> QED BY <2>2, <2>3, <3>1
  <2>7. CASE Completed(a)
    <3>1. v.at = w.at /\ v.known = w.known /\ v.saved = w.saved /\ ledger' = ledger
          /\ v.pc = "observe"
      BY <2>1, <2>2, <2>7 DEF Completed, Fixed, Told
    <3>2. \A p \in Providers : p # w.at => checkpoint'[p] = checkpoint[p]
      BY <2>1, <2>7 DEF Completed, TypeInv, TypeOK
    <3> QED BY <2>2, <2>3, <3>1, <3>2
  <2>8. ~(\E build \in Builds : Entered(a, build)) /\ ~HasEnded(a)
    <3>1. work'[a].pc \in Pipeline /\ work'[a].pc # "resume"
      BY DEF Active
    <3>2. ~HasEnded(a)
      BY <3>1 DEF HasEnded, Pipeline
    <3>3. ~ \E build \in Builds : Entered(a, build)
      BY <3>1 DEF Entered
    <3> QED BY <3>2, <3>3
  <2> QED BY <1>3, <2>4, <2>5, <2>6, <2>7, <2>8 DEF Effect
<1> QED BY <1>1, <1>2, <1>3

LEMMA SnapshotSteps ==
    ASSUME TypeInv, LedgerInv, NEW a \in Attempts, Well(a), Effect(a)
    PROVE  Snapshot(a)'
<1> SUFFICES ASSUME work'[a].pc = "record"
             PROVE  Identity[work'[a].doc] \in corpus'
  BY DEF Snapshot
<1>1. ~HasResumed(a) /\ ~HasSkipped(a) /\ ~PassedOver(a) /\ ~Started(a)
  BY DEF HasResumed, HasSkipped, Advanced, PassedOver, Started
<1>2. ~(\E build \in Builds : Entered(a, build)) /\ ~Quiet(a)
  BY DEF Entered, Quiet
<1>3. ~HasRecorded(a) /\ ~HasFinished(a) /\ ~Completed(a) /\ ~HasEnded(a)
  BY DEF HasRecorded, Completed, HasFinished, Advanced, HasEnded
<1>4. Persisted(a)
  BY <1>1, <1>2, <1>3 DEF Effect
<1> QED BY <1>4 DEF Persisted

LEMMA CapsSteps ==
    ASSUME TypeInv, LedgerInv, NEW a \in Attempts, Well(a), Effect(a)
    PROVE  LedgerIsBacked' /\ CapsHoldAcrossAttempts'
<1>1. CASE ledger' = ledger
  BY <1>1, TablesGrow DEF LedgerInv, LedgerIsBacked, CapsHoldAcrossAttempts
<1>2. CASE HasRecorded(a)
  <2>1. PICK w \in Work : w = work[a]
    BY AttemptIs
  <2>2. PICK d \in Docs : d = w.doc
    BY <1>2, <2>1 DEF HasRecorded
  <2>3. /\ w.pc = "record" /\ Active(a) /\ ledger' = ledger \cup {d} /\ corpus' = corpus
    BY <1>2, <2>1, <2>2 DEF HasRecorded, Active, Pipeline
  <2>4. /\ Within(w) /\ w.known = ledger /\ Identity[d] \in corpus
    BY <2>1, <2>2, <2>3 DEF LedgerInv, Fenced, Snapshot
  <2>5. d \in InHand(w)
    BY <2>2, Constants DEF InHand
  <2>6. /\ Cardinality(InHand(w)) \in Nat /\ Cardinality(InHand(w)) >= 1
        /\ w.known \in SUBSET Docs /\ w.remaining \in Nat /\ Cardinality(w.ids) \in Nat
        /\ \A p \in Providers : Cardinality(From(w.known, p)) \in Nat
    <3>1. Cardinality(InHand(w)) \in Nat /\ IsFiniteSet(InHand(w)) /\ InHand(w) # {}
      BY <2>5, InHandIs
    <3>2. Cardinality(InHand(w)) # 0
      BY <3>1, FS_EmptySet
    <3> QED BY <3>1, <3>2, KnownIsCounted
  <2>7. /\ Cardinality(w.ids) + 1 <= Total /\ w.remaining >= 1
        /\ w.ids = IdentitiesOf(ledger)
        /\ d \in Docs \ w.known /\ Source[d] = w.at
        /\ \A p \in Providers :
              Cardinality(From(w.known, p)) + (IF p = w.at THEN w.remaining ELSE 0) <= PerProvider
    <3>1. d \in From(Docs, w.at) \ w.known
      BY <2>4, <2>5 DEF Within
    <3>2. /\ Cardinality(InHand(w)) <= w.remaining
          /\ Cardinality(w.ids) + Cardinality(InHand(w)) <= Total
      BY <2>4 DEF Within
    <3>3. Cardinality(w.ids) + 1 <= Total /\ w.remaining >= 1
      BY <2>6, <3>2, Constants
    <3> QED BY <2>4, <3>1, <3>3 DEF Within, From
  <2>8. /\ IdentitiesOf(ledger \cup {d}) = IdentitiesOf(ledger) \cup {Identity[d]}
        /\ Cardinality(IdentitiesOf(ledger \cup {d})) <= Cardinality(IdentitiesOf(ledger)) + 1
    BY <2>4, <2>6, OneMoreIdentity
  <2>9. Cardinality(IdentitiesOf(ledger')) <= Total
    <3>1. Cardinality(IdentitiesOf(ledger \cup {d})) \in Nat
      BY <2>4, <2>6, IdentitiesAreCounted
    <3> QED BY <2>3, <2>6, <2>7, <2>8, <3>1, Constants
  <2>10. ASSUME NEW p \in Providers PROVE Cardinality(From(ledger', p)) <= PerProvider
    <3>1. Cardinality(From(w.known \cup {d}, p))
            = Cardinality(From(w.known, p)) + (IF Source[d] = p THEN 1 ELSE 0)
      BY <2>6, <2>7, OneMoreDocument
    <3>2. Cardinality(From(w.known, p)) + (IF p = w.at THEN w.remaining ELSE 0) <= PerProvider
      BY <2>7
    <3> QED BY <2>3, <2>4, <2>6, <2>7, <3>1, <3>2, Constants
  <2>11. LedgerIsBacked'
    BY <2>3, <2>4, <2>8 DEF LedgerInv, LedgerIsBacked
  <2> QED BY <2>9, <2>10, <2>11 DEF CapsHoldAcrossAttempts
<1> QED BY <1>1, <1>2, TablesGrow

LEMMA LedgerInductive == TypeInv /\ LedgerInv /\ [Next]_vars => LedgerInv'
<1> SUFFICES ASSUME TypeInv, LedgerInv, [Next]_vars PROVE LedgerInv'
  OBVIOUS
<1>1. CASE UNCHANGED vars
  BY <1>1 DEF vars, LedgerInv, LedgerIsBacked, CapsHoldAcrossAttempts, Within, Snapshot, Fenced,
              Active, Owns, InHand
<1>2. CASE RowMoved
  <2>1. UNCHANGED <<checkpoint, ledger, corpus, observed, work>> /\ ~queue'.valid
    BY <1>2 DEF RowMoved
  <2>2. ASSUME NEW a \in Attempts PROVE Fenced(a)'
    BY <2>1 DEF Fenced, Active, Owns
  <2> QED BY <2>1, <2>2 DEF LedgerInv, LedgerIsBacked, CapsHoldAcrossAttempts, Within, Snapshot,
                           InHand
<1>3. ASSUME NEW a \in Attempts, Well(a), Effect(a) PROVE LedgerInv'
  <2>1. LedgerIsBacked' /\ CapsHoldAcrossAttempts'
    BY <1>3, CapsSteps
  <2>2. Within(work'[a]) /\ Snapshot(a)' /\ Fenced(a)'
    BY <1>3, WithinSteps, SnapshotSteps, FencedSteps
  <2>3. ASSUME NEW b \in Attempts \ {a}
        PROVE  Within(work'[b]) /\ Snapshot(b)' /\ Fenced(b)'
    <3>1. work'[b] = work[b]
      BY <1>3, OthersStay
    <3>2. Fenced(b)'
      <4> SUFFICES ASSUME Owns(b)' PROVE Fenced(b)'
        BY DEF Fenced, Active
      <4>1. Owns(b) /\ UNCHANGED <<queue, checkpoint, ledger, observed>>
        BY <1>3, Fence
      <4> QED BY <3>1, <4>1 DEF LedgerInv, Fenced, Active
    <3>3. Snapshot(b)'
      BY <1>3, <3>1, TablesGrow DEF LedgerInv, Snapshot
    <3> QED BY <3>1, <3>2, <3>3 DEF LedgerInv
  <2>4. \A b \in Attempts : Within(work'[b]) /\ Snapshot(b)' /\ Fenced(b)'
    BY <2>2, <2>3
  <2> QED BY <2>1, <2>4 DEF LedgerInv, Within, InHand
<1> QED BY <1>1, <1>2, <1>3, StepEffect

LEMMA InitLedger == Init => LedgerInv
<1> SUFFICES ASSUME Init PROVE LedgerInv
  OBVIOUS
<1>1. Unstarted \in Work /\ Placed(Unstarted) /\ Unstarted.pc = "idle"
  BY UnstartedIs DEF Unstarted
<1>2. /\ \A a \in Attempts : work[a] = Unstarted
      /\ ledger = {}
  BY DEF Init
<1>3. Within(Unstarted)
  BY <1>1, RestingWithin DEF Resting
<1>4. IdentitiesOf({}) = {} /\ Cardinality({}) = 0 /\ \A p : From({}, p) = {}
  BY FS_EmptySet DEF IdentitiesOf, From
<1>5. LedgerIsBacked /\ CapsHoldAcrossAttempts
  BY <1>2, <1>4, Constants DEF LedgerIsBacked, CapsHoldAcrossAttempts
<1> HIDE DEF Unstarted
<1> QED BY <1>1, <1>2, <1>3, <1>5 DEF LedgerInv, Snapshot, Fenced, Active, Pipeline

LEMMA AlwaysWithin == Spec => [](TypeInv /\ LedgerInv)
BY InitType, TypeInductive, InitLedger, LedgerInductive, PTL DEF Spec

(* An entry of the ledger has its snapshot, whichever attempt wrote it.    *)
THEOREM LedgerEntriesAreBacked == Spec => []LedgerIsBacked
<1>1. LedgerInv => LedgerIsBacked
  BY DEF LedgerInv
<1> QED BY <1>1, AlwaysWithin, PTL

(* No sequence of interrupted, overlapping and resumed attempts takes the  *)
(* ledger over the quota of the job or of a provider.                      *)
THEOREM CapsHold == Spec => []CapsHoldAcrossAttempts
<1>1. LedgerInv => CapsHoldAcrossAttempts
  BY DEF LedgerInv
<1> QED BY <1>1, AlwaysWithin, PTL

(* The attempt that holds the lease repeats neither a provider that is     *)
(* complete nor a document that is saved.                                  *)
THEOREM NothingSavedIsRepeated == Spec => []NothingIsRepeated
<1>1. TypeInv /\ LedgerInv => NothingIsRepeated
  <2> SUFFICES ASSUME TypeInv, LedgerInv, NEW a \in Attempts, Working(a), Owns(a)
               PROVE  /\ checkpoint[work[a].at].version # work[a].build
                      /\ (work[a].saving \cup ({work[a].doc} \ {None})) \cap ledger = {}
    BY DEF NothingIsRepeated
  <2>1. /\ work[a].pc \in Busy /\ work[a].pc # "observe" /\ Active(a)
    BY DEF Working, Busy, Active, Pipeline
  <2>2. work[a].at \in Providers /\ Within(work[a])
    BY <2>1, AttemptIs DEF Placed, LedgerInv
  <2>3. work[a].known = ledger /\ work[a].saved[work[a].at] = checkpoint[work[a].at]
    BY <2>1, <2>2 DEF LedgerInv, Fenced
  <2> QED BY <2>1, <2>2, <2>3 DEF Within, InHand
<1> QED BY <1>1, AlwaysWithin, PTL

-----------------------------------------------------------------------------
(* Completeness.                                                           *)

Passed(w, p) == p < w.at \/ (p = w.at /\ w.pc = "observe")

(* The providers behind an attempt have run, and those it found healthy    *)
(* are checkpointed with its build, as long as it holds the lease.         *)
CompleteUpTo(a) ==
    /\ work[a].pc \in Pipeline \ {"resume"} =>
          \A p \in Configured : p < work[a].at => work[a].report[p].status \in Ran
    /\ Active(a) =>
          \A p \in Configured :
             Passed(work[a], p) /\ work[a].report[p].status = "healthy" =>
                checkpoint[p].version = work[a].build
    /\ work[a].pc = "conclude" /\ work[a].result = "report" /\ Owns(a) =>
          \A p \in Configured : checkpoint[p].version = work[a].build

DoneInv ==
    /\ DoneIsComplete
    /\ queue.status = "done" => queue.attempts \in Attempts
    /\ \A a \in Attempts : CompleteUpTo(a)

LEMMA BuildStays ==
    ASSUME TypeInv, NEW a \in Attempts, Well(a), Effect(a), ~ \E build \in Builds : Entered(a, build)
    PROVE  work'[a].build = work[a].build
<1>1. CASE HasEnded(a)
  BY <1>1 DEF HasEnded
<1>2. CASE Completed(a)
  BY <1>2 DEF Completed, Fixed
<1>3. CASE HasFinished(a) \/ HasRecorded(a) \/ Persisted(a) \/ Quiet(a)
  BY <1>3 DEF HasFinished, HasRecorded, Persisted, Quiet, Advanced, Fixed
<1>4. CASE HasResumed(a) \/ HasSkipped(a) \/ PassedOver(a) \/ Started(a)
  BY <1>4 DEF HasResumed, HasSkipped, PassedOver, Started, Advanced, Fixed
<1> QED BY <1>1, <1>2, <1>3, <1>4 DEF Effect

(* What an attempt that goes on reports of the providers behind it.        *)
LEMMA ReportsStay ==
    ASSUME TypeInv, NEW a \in Attempts, Well(a), Effect(a), work'[a].pc \in Pipeline \ {"resume"},
           ~HasResumed(a)
    PROVE  LET w == work[a]
               v == work'[a]
           IN /\ w.pc \in Pipeline \ {"resume"} /\ w.at \in Providers /\ v.build = w.build
              /\ OthersReported(w, v)
              /\ \/ v.at = w.at
                 \/ v.at = w.at + 1 /\ v.pc # "observe" /\ (HasSkipped(a) \/ HasFinished(a))
<1>1. PICK w \in Work : w = work[a] /\ Placed(w)
  BY AttemptIs
<1>2. PICK v \in Work : v = work'[a]
  BY DEF Well
<1> SUFFICES /\ w.pc \in Pipeline \ {"resume"} /\ w.at \in Providers /\ v.build = w.build
             /\ OthersReported(w, v)
             /\ \/ v.at = w.at
                \/ v.at = w.at + 1 /\ v.pc # "observe" /\ (HasSkipped(a) \/ HasFinished(a))
  BY <1>1, <1>2
<1>3. CASE HasSkipped(a)
  BY <1>1, <1>2, <1>3, Constants DEF HasSkipped, Advanced, Pipeline
<1>4. CASE HasFinished(a)
  BY <1>1, <1>2, <1>4 DEF HasFinished, Advanced, OthersReported, Pipeline
<1>5. CASE PassedOver(a) \/ Started(a) \/ Quiet(a) \/ HasRecorded(a)
  BY <1>1, <1>2, <1>5, Constants DEF PassedOver, Started, Quiet, HasRecorded, Fixed, Pipeline
<1>6. CASE Persisted(a) \/ Completed(a)
  BY <1>1, <1>2, <1>6, Constants DEF Persisted, Completed, Fixed, OthersReported, Pipeline
<1>7. ~HasEnded(a)
  BY DEF HasEnded, Pipeline
<1>8. ~ \E build \in Builds : Entered(a, build)
  BY DEF Entered
<1> QED BY <1>3, <1>4, <1>5, <1>6, <1>7, <1>8 DEF Effect

LEMMA CompleteUpToSteps ==
    ASSUME TypeInv, LedgerInv, DoneInv, NEW a \in Attempts, Well(a), Effect(a)
    PROVE  CompleteUpTo(a)'
<1>1. PICK w \in Work : w = work[a] /\ Placed(w)
  BY AttemptIs
<1>2. PICK v \in Work : v = work'[a]
  BY DEF Well
<1>3. CompleteUpTo(a)
  BY DEF DoneInv
<1>4. ASSUME v.pc \in Pipeline \ {"resume"}, NEW p \in Configured, p < v.at
      PROVE  v.report[p].status \in Ran
  <2>1. p \in Providers /\ p \in Nat /\ p >= 1
    BY Constants DEF Providers
  <2>2. CASE HasResumed(a)
    <3>1. v.at = 1
      BY <1>2, <2>2 DEF HasResumed
    <3> QED BY <1>4, <2>1, <3>1
  <2>3. CASE ~HasResumed(a)
    <3>1. /\ w.pc \in Pipeline \ {"resume"} /\ w.at \in Providers /\ OthersReported(w, v)
          /\ v.at = w.at \/ (v.at = w.at + 1 /\ (HasSkipped(a) \/ HasFinished(a)))
      BY <1>1, <1>2, <1>4, <2>3, ReportsStay
    <3>2. CASE p < w.at
      <4>1. w.report[p].status \in Ran
        BY <1>1, <1>3, <3>1, <3>2 DEF CompleteUpTo
      <4> QED BY <2>1, <3>1, <3>2, <4>1 DEF OthersReported
    <3>3. CASE p = w.at /\ HasSkipped(a)
      BY <1>1, <1>2, <3>3 DEF HasSkipped, Ran
    <3>4. CASE p = w.at /\ HasFinished(a)
      BY <1>1, <1>2, <3>4 DEF HasFinished, Placed
    <3>5. w.at \in Nat
      BY <3>1 DEF Providers
    <3> QED BY <1>4, <2>1, <3>1, <3>2, <3>3, <3>4, <3>5
  <2> QED BY <2>2, <2>3
<1>5. ASSUME Active(a)', NEW p \in Configured, Passed(v, p), v.report[p].status = "healthy"
      PROVE  checkpoint'[p].version = v.build
  <2>1. p \in Providers /\ p \in Nat /\ p >= 1
    BY Constants DEF Providers
  <2>2. Owns(a) /\ (HasResumed(a) \/ Active(a)) /\ v.pc \in Pipeline \ {"resume"}
    BY <1>2, <1>5, StaysActive DEF Active
  <2>3. CASE HasResumed(a)
    <3>1. v.at = 1 /\ v.pc = "start"
      BY <1>2, <2>3 DEF HasResumed
    <3> QED BY <1>5, <2>1, <3>1 DEF Passed
  <2>4. CASE ~HasResumed(a)
    <3>1. /\ w.pc \in Pipeline \ {"resume"} /\ w.at \in Providers /\ OthersReported(w, v)
          /\ v.build = w.build /\ Active(a) /\ w.at \in Nat
          /\ v.at = w.at \/ (v.at = w.at + 1 /\ v.pc # "observe" /\ (HasSkipped(a) \/ HasFinished(a)))
      BY <1>1, <1>2, <2>2, <2>4, ReportsStay DEF Providers
    <3>2. CASE p < w.at
      <4>1. w.report[p].status = "healthy"
        BY <1>5, <2>1, <3>1, <3>2 DEF OthersReported
      <4>2. checkpoint[p].version = w.build
        BY <1>1, <1>3, <3>1, <3>2, <4>1 DEF CompleteUpTo, Passed
      <4>3. checkpoint'[p] = checkpoint[p]
        <5>1. p # w.at
          BY <2>1, <3>1, <3>2
        <5>2. CASE checkpoint' = checkpoint
          BY <5>2
        <5>3. CASE Completed(a)
          BY <1>1, <2>1, <5>1, <5>3 DEF Completed, TypeInv, TypeOK
        <5> QED BY <5>2, <5>3, TablesGrow
      <4> QED BY <3>1, <4>2, <4>3
    <3>3. CASE p = w.at /\ v.at = w.at + 1 /\ HasSkipped(a)
      <4>1. w.pc = "start" /\ w.saved[p].version = w.build /\ checkpoint' = checkpoint
        BY <1>1, <3>3 DEF HasSkipped, Tables
      <4>2. w.saved[p] = checkpoint[p]
        BY <1>1, <2>1, <3>1, <3>3, <4>1 DEF LedgerInv, Fenced
      <4> QED BY <3>1, <4>1, <4>2
    <3>4. CASE p = w.at /\ v.at = w.at + 1 /\ HasFinished(a)
      <4>1. w.pc = "observe" /\ w.report = v.report /\ checkpoint' = checkpoint
        BY <1>1, <1>2, <3>4 DEF HasFinished
      <4>2. checkpoint[p].version = w.build
        BY <1>1, <1>3, <1>5, <3>1, <3>4, <4>1 DEF CompleteUpTo, Passed
      <4> QED BY <3>1, <4>1, <4>2
    <3>5. CASE p = w.at /\ v.at = w.at /\ v.pc = "observe"
      <4>1. ~Started(a) /\ ~Quiet(a) /\ ~Persisted(a) /\ ~HasRecorded(a)
        BY <1>2, <3>5 DEF Started, Quiet, Persisted, HasRecorded
      <4>2. ~HasSkipped(a) /\ ~HasFinished(a) /\ ~HasEnded(a)
        BY <1>2, <3>5 DEF HasSkipped, HasFinished, Advanced, HasEnded
      <4>3. ~PassedOver(a) /\ ~ \E build \in Builds : Entered(a, build)
        BY <1>1, <1>2, <3>5 DEF PassedOver, Entered
      <4>4. Completed(a)
        BY <2>4, <4>1, <4>2, <4>3 DEF Effect
      <4>5. w.report = v.report
        BY <1>1, <1>2, <4>4 DEF Completed
      <4>6. checkpoint' = [checkpoint EXCEPT ![w.at] =
                              [version |-> w.build, persisted |-> w.report[w.at].persisted]]
        BY <1>1, <1>5, <3>5, <4>4, <4>5 DEF Completed
      <4>7. checkpoint'[p] = [version |-> w.build, persisted |-> w.report[w.at].persisted]
        BY <2>1, <3>5, <4>6 DEF TypeInv, TypeOK
      <4> QED BY <3>1, <4>7
    <3>6. \/ p < w.at \/ (p = w.at /\ v.at = w.at + 1) \/ (p = w.at /\ v.at = w.at /\ v.pc = "observe")
      BY <1>5, <2>1, <3>1 DEF Passed
    <3> QED BY <3>1, <3>2, <3>3, <3>4, <3>5, <3>6
  <2> QED BY <2>3, <2>4
<1>6. ASSUME v.pc = "conclude", v.result = "report", Owns(a)', NEW p \in Configured
      PROVE  checkpoint'[p].version = v.build
  <2>1. HasEnded(a)
    <3>1. ~HasResumed(a) /\ ~HasSkipped(a) /\ ~HasFinished(a) /\ ~PassedOver(a) /\ ~Started(a)
      BY <1>2, <1>6 DEF HasResumed, HasSkipped, HasFinished, Advanced, PassedOver, Started
    <3>2. ~Quiet(a) /\ ~Persisted(a) /\ ~HasRecorded(a) /\ ~Completed(a)
          /\ ~ \E build \in Builds : Entered(a, build)
      BY <1>2, <1>6 DEF Quiet, Persisted, HasRecorded, Completed, Entered
    <3> QED BY <3>1, <3>2 DEF Effect
  <2>2. /\ w.pc = "historiography" /\ Incomplete(w) = {} /\ checkpoint' = checkpoint
        /\ v.build = w.build /\ queue' = queue
    BY <1>1, <1>2, <1>6, <2>1 DEF HasEnded
  <2>3. Active(a) /\ w.at = NProviders + 1 /\ p \in Providers
    BY <1>1, <1>6, <2>2, Constants DEF Active, Owns, Pipeline, Placed
  <2>4. p < w.at
    BY <2>3, Constants DEF Providers
  <2>5. w.report[p].status \in Ran
    BY <1>1, <1>3, <2>3, <2>4 DEF CompleteUpTo, Active
  <2>6. w.report[p].status = "healthy"
    BY <2>2, <2>3, <2>5 DEF Incomplete, Ran
  <2>7. checkpoint[p].version = w.build
    BY <1>1, <1>3, <2>3, <2>4, <2>6 DEF CompleteUpTo, Passed
  <2> QED BY <2>2, <2>7
<1> QED BY <1>2, <1>4, <1>5, <1>6 DEF CompleteUpTo, Active, Passed

LEMMA DoneSteps ==
    ASSUME TypeInv, LedgerInv, DoneInv, NEW a \in Attempts, Well(a), Effect(a)
    PROVE  DoneIsComplete' /\ (queue'.status = "done" => queue'.attempts \in Attempts)
<1> SUFFICES ASSUME queue'.status = "done"
             PROVE  /\ \A p \in Configured : checkpoint'[p].version = work'[queue'.attempts].build
                    /\ queue'.attempts \in Attempts
  BY DEF DoneIsComplete
<1>1. CASE queue' = queue
  <2>1. queue.status = "done" /\ queue.attempts \in Attempts
    BY <1>1 DEF DoneInv
  <2>2. ~Owns(a) /\ ~ \E build \in Builds : Entered(a, build)
    BY <2>1 DEF Owns, Entered
  <2>3. checkpoint' = checkpoint
    <3>1. CASE Completed(a)
      BY <2>2, <3>1 DEF Completed
    <3> QED BY <3>1, TablesGrow
  <2>4. work'[queue.attempts].build = work[queue.attempts].build
    BY <2>1, <2>2, BuildStays, OthersStay
  <2> QED BY <1>1, <2>1, <2>3, <2>4 DEF DoneInv, DoneIsComplete
<1>2. CASE queue' # queue
  <2>1. ASSUME NEW build \in Builds, Entered(a, build) PROVE FALSE
    <3>1. queue'.status = "running"
      BY <2>1 DEF Entered
    <3> QED BY <3>1
  <2>2. HasEnded(a)
    <3>1. ~HasResumed(a) /\ ~HasSkipped(a) /\ ~HasFinished(a) /\ ~PassedOver(a) /\ ~Started(a)
      BY <1>2 DEF HasResumed, HasSkipped, HasFinished, PassedOver, Started, Tables
    <3>2. ~Quiet(a) /\ ~Persisted(a) /\ ~HasRecorded(a) /\ ~Completed(a)
      BY <1>2 DEF Quiet, Persisted, HasRecorded, Completed, Tables
    <3> QED BY <2>1, <3>1, <3>2 DEF Effect
  <2>3. /\ work[a].pc = "conclude" /\ Owns(a)
        /\ queue' = [queue EXCEPT !.status = Settled(a), !.owner = 0, !.valid = FALSE]
        /\ checkpoint' = checkpoint /\ work'[a].build = work[a].build
    BY <1>2, <2>2 DEF HasEnded
  <2>4. a = queue.attempts /\ queue'.attempts = a /\ Settled(a) = "done"
    BY <2>3, OwnerIsLatest DEF TypeInv, TypeOK
  <2>5. work[a].result = "report"
    BY <2>4 DEF Settled
  <2>6. CompleteUpTo(a)
    BY DEF DoneInv
  <2>7. \A p \in Configured : checkpoint[p].version = work[a].build
    BY <2>3, <2>5, <2>6 DEF CompleteUpTo
  <2> QED BY <2>3, <2>4, <2>7
<1> QED BY <1>1, <1>2

LEMMA DoneInductive == TypeInv /\ LedgerInv /\ DoneInv /\ [Next]_vars => DoneInv'
<1> SUFFICES ASSUME TypeInv, LedgerInv, DoneInv, [Next]_vars PROVE DoneInv'
  OBVIOUS
<1>1. CASE UNCHANGED vars
  BY <1>1 DEF vars, DoneInv, DoneIsComplete, CompleteUpTo, Active, Owns, Passed
<1>2. CASE RowMoved
  <2>1. /\ UNCHANGED <<checkpoint, ledger, corpus, observed, work>> /\ ~queue'.valid
        /\ queue'.status # "done"
    BY <1>2, RowTyped DEF RowMoved
  <2>2. ASSUME NEW a \in Attempts PROVE CompleteUpTo(a)'
    <3>1. ~Owns(a)' /\ ~Active(a)'
      BY <2>1 DEF Owns, Active
    <3>2. CompleteUpTo(a)
      BY DEF DoneInv
    <3> QED BY <2>1, <3>1, <3>2 DEF CompleteUpTo
  <2> QED BY <2>1, <2>2 DEF DoneInv, DoneIsComplete
<1>3. ASSUME NEW a \in Attempts, Well(a), Effect(a) PROVE DoneInv'
  <2>1. DoneIsComplete' /\ (queue'.status = "done" => queue'.attempts \in Attempts)
    BY <1>3, DoneSteps
  <2>2. CompleteUpTo(a)'
    BY <1>3, CompleteUpToSteps
  <2>3. ASSUME NEW b \in Attempts \ {a} PROVE CompleteUpTo(b)'
    <3>1. work'[b] = work[b] /\ CompleteUpTo(b)
      BY <1>3, OthersStay DEF DoneInv
    <3>2. Owns(b)' => Owns(b) /\ checkpoint' = checkpoint
      BY <1>3, Fence
    <3> QED BY <3>1, <3>2 DEF CompleteUpTo, Active, Passed
  <2>4. \A b \in Attempts : CompleteUpTo(b)'
    BY <2>2, <2>3
  <2> QED BY <2>1, <2>4 DEF DoneInv
<1> QED BY <1>1, <1>2, <1>3, StepEffect

LEMMA InitDone == Init => DoneInv
<1> SUFFICES ASSUME Init PROVE DoneInv
  OBVIOUS
<1>1. \A a \in Attempts : work[a].pc = "idle"
  BY DEF Init, Unstarted
<1>2. queue.status = "queued"
  BY DEF Init
<1> QED BY <1>1, <1>2 DEF DoneInv, DoneIsComplete, CompleteUpTo, Active, Pipeline

LEMMA AlwaysComplete == Spec => [](TypeInv /\ LedgerInv /\ DoneInv)
BY InitType, TypeInductive, InitLedger, LedgerInductive, InitDone, DoneInductive, PTL DEF Spec

(* A job is done only with every configured provider checkpointed by the   *)
(* build of its last attempt.                                              *)
THEOREM DoneJobsAreComplete == Spec => []DoneIsComplete
<1>1. DoneInv => DoneIsComplete
  BY DEF DoneInv
<1> QED BY <1>1, AlwaysComplete, PTL

-----------------------------------------------------------------------------
(* Metrics.                                                                *)

(* The attempt that checkpointed a provider: it found it healthy, or it    *)
(* was stopped between the checkpoint and the end of its observation.      *)
Witness(p, a) ==
    /\ work[a].build = checkpoint[p].version
    /\ a <= queue.attempts
    /\ \/ observed[p][a] = "healthy"
       \/ /\ observed[p][a] = "running"
          /\ \/ work[a].pc \in {"conclude", "gone"}
             \/ work[a].pc = "observe" /\ work[a].at = p /\ work[a].report[p].status = "healthy"

MetricsInv ==
    /\ \A p \in Providers : \A a \in Attempts :
          /\ observed[p][a] # "absent" => a <= queue.attempts
          /\ observed[p][a] = "healthy" => checkpoint[p].version # None
    /\ \A a \in Attempts :
          work[a].pc \in Busy \cup {"observe"} => observed[work[a].at][a] = "running"
    /\ \A p \in Providers :
          checkpoint[p].version # None => \E a \in Attempts : Witness(p, a)

(* An attempt writes in its own column only, and never takes back a row.   *)
LEMMA ColumnsAreOwn ==
    ASSUME TypeInv, NEW a \in Attempts, Well(a), Effect(a), NEW p \in Providers, NEW b \in Attempts
    PROVE  /\ b # a \/ p # work[a].at => observed'[p][b] = observed[p][b]
           /\ observed[p][b] # "absent" => observed'[p][b] # "absent"
           /\ observed[p][b] \notin {"absent", "running"} => observed'[p][b] = observed[p][b]
           /\ observed'[p][b] # observed[p][b] => Owns(b) /\ queue' = queue
<1>1. CASE observed' = observed
  BY <1>1
<1>2. CASE PassedOver(a) \/ Started(a)
  <2>1. IsObserved(a) /\ Owns(a) /\ work[a].at \in Providers /\ queue' = queue
    BY <1>2, Constants DEF PassedOver, Started
  <2> QED BY <2>1 DEF IsObserved, TypeInv, TypeOK
<1>3. CASE HasFinished(a)
  <2>1. /\ observed[work[a].at][a] = "running" /\ Owns(a) /\ work[a].at \in Providers
        /\ observed' = [observed EXCEPT ![work[a].at][a] = work[a].report[work[a].at].status]
        /\ queue' = queue
        /\ work[a].report[work[a].at].status \in Ran \cup {"not_configured"}
    BY <1>3, AttemptIs DEF HasFinished, Placed
  <2>2. work[a].report[work[a].at].status # "absent"
    BY <2>1 DEF Ran, Trouble
  <2> QED BY <2>1, <2>2 DEF TypeInv, TypeOK
<1> QED BY <1>1, <1>2, <1>3, TablesGrow

LEMMA AttemptsGrow ==
    ASSUME TypeInv, NEW a \in Attempts, Effect(a)
    PROVE  /\ queue.attempts \in Nat /\ queue'.attempts \in Nat /\ queue.attempts <= queue'.attempts
           /\ ~(\E build \in Builds : Entered(a, build)) => queue'.attempts = queue.attempts
<1>1. queue.attempts \in Nat /\ a \in Nat
  BY DEF TypeInv, TypeOK, Attempts
<1>2. CASE queue'.attempts = queue.attempts
  BY <1>1, <1>2
<1>3. ASSUME NEW build \in Builds, Entered(a, build), queue'.attempts = a
      PROVE  queue'.attempts \in Nat /\ queue.attempts <= queue'.attempts
  <2>1. a = queue.attempts + 1
    BY <1>3 DEF Entered
  <2> QED BY <1>1, <1>3, <2>1
<1> QED BY <1>1, <1>2, <1>3, QueueTyped

LEMMA RunningSteps ==
    ASSUME TypeInv, MetricsInv, NEW a \in Attempts, Well(a), Effect(a),
           work'[a].pc \in Busy \cup {"observe"}
    PROVE  observed'[work'[a].at][a] = "running"
<1>1. CASE PassedOver(a) \/ Started(a)
  <2>1. IsObserved(a) /\ work[a].at \in Providers /\ work'[a].at = work[a].at
    BY <1>1, Constants DEF PassedOver, Started, Fixed
  <2> QED BY <2>1 DEF IsObserved, TypeInv, TypeOK
<1>2. CASE Quiet(a) \/ Persisted(a) \/ HasRecorded(a) \/ Completed(a)
  <2>1. work[a].pc \in Busy /\ work'[a].at = work[a].at /\ observed' = observed
    BY <1>2 DEF Quiet, Persisted, HasRecorded, Completed, Fixed, Tables, Busy
  <2> QED BY <2>1 DEF MetricsInv
<1>3. ~HasResumed(a) /\ ~HasSkipped(a) /\ ~HasFinished(a)
  BY DEF HasResumed, HasSkipped, HasFinished, Advanced, Busy
<1>4. ~HasEnded(a) /\ ~ \E build \in Builds : Entered(a, build)
  BY DEF HasEnded, Entered, Busy
<1> QED BY <1>1, <1>2, <1>3, <1>4 DEF Effect

LEMMA WitnessSteps ==
    ASSUME TypeInv, MetricsInv, NEW a \in Attempts, Well(a), Effect(a),
           NEW p \in Providers, checkpoint'[p].version # None
    PROVE  \E c \in Attempts : Witness(p, c)'
<1>1. CASE checkpoint'[p] # checkpoint[p]
  <2>1. Completed(a)
    BY <1>1, TablesGrow
  <2>2. PICK w \in Work : w = work[a] /\ Placed(w)
    BY AttemptIs
  <2>3. PICK v \in Work : v = work'[a]
    BY DEF Well
  <2>4. /\ w.pc = "complete" /\ v.pc = "observe" /\ v.at = w.at /\ v.build = w.build
        /\ v.report = w.report /\ w.report[w.at].status = "healthy" /\ Owns(a)
        /\ checkpoint' = [checkpoint EXCEPT ![w.at] =
                            [version |-> w.build, persisted |-> w.report[w.at].persisted]]
        /\ observed' = observed /\ queue' = queue
    BY <1>1, <2>1, <2>2, <2>3 DEF Completed, Fixed
  <2>5. p = w.at /\ checkpoint'[p].version = w.build
    BY <1>1, <2>4 DEF TypeInv, TypeOK
  <2>6. observed[p][a] = "running" /\ a <= queue.attempts
    <3>1. a = queue.attempts /\ queue.attempts \in Nat
      BY <2>4, OwnerIsLatest DEF TypeInv, TypeOK
    <3> QED BY <2>2, <2>4, <2>5, <3>1 DEF MetricsInv, Busy
  <2> QED BY <2>3, <2>4, <2>5, <2>6 DEF Witness
<1>2. CASE checkpoint'[p] = checkpoint[p]
  <2>1. PICK c \in Attempts : Witness(p, c)
    BY <1>2 DEF MetricsInv
  <2>2. c <= queue'.attempts /\ c \in Nat
    BY <2>1, AttemptsGrow DEF Witness, Attempts
  <2>3. CASE c # a
    <3>1. work'[c] = work[c] /\ observed'[p][c] = observed[p][c]
      BY <2>3, OthersStay, ColumnsAreOwn
    <3> QED BY <1>2, <2>1, <2>2, <3>1 DEF Witness
  <2>4. CASE c = a
    <3>1. ASSUME NEW build \in Builds, Entered(a, build) PROVE FALSE
      <4>1. a = queue.attempts + 1 /\ c <= queue.attempts
        BY <2>1, <3>1 DEF Entered, Witness
      <4>2. queue.attempts \in Nat
        BY DEF TypeInv, TypeOK
      <4> QED BY <2>2, <2>4, <4>1, <4>2
    <3>2. work'[a].build = work[a].build
      BY <3>1, BuildStays
    <3>3. CASE observed[p][a] = "healthy"
      <4>1. observed'[p][a] = "healthy"
        BY <3>3, ColumnsAreOwn
      <4> QED BY <1>2, <2>1, <2>2, <2>4, <3>2, <4>1 DEF Witness
    <3>4. CASE observed[p][a] = "running" /\ HasEnded(a)
      <4>1. work'[a].pc \in {"conclude", "gone"} /\ observed' = observed
        BY <3>4 DEF HasEnded
      <4> QED BY <1>2, <2>1, <2>2, <2>4, <3>2, <3>4, <4>1 DEF Witness
    <3>5. CASE /\ observed[p][a] = "running" /\ ~HasEnded(a)
               /\ work[a].pc = "observe" /\ work[a].at = p /\ work[a].report[p].status = "healthy"
      <4>1. ~HasResumed(a) /\ ~HasSkipped(a) /\ ~PassedOver(a) /\ ~Started(a)
        BY <3>5 DEF HasResumed, HasSkipped, PassedOver, Started
      <4>2. ~Quiet(a) /\ ~Persisted(a) /\ ~HasRecorded(a) /\ ~Completed(a)
        BY <3>5 DEF Quiet, Persisted, HasRecorded, Completed
      <4>3. HasFinished(a)
        BY <3>1, <3>5, <4>1, <4>2 DEF Effect
      <4>4. observed'[p][a] = "healthy"
        BY <3>5, <4>3 DEF HasFinished, TypeInv, TypeOK
      <4> QED BY <1>2, <2>1, <2>2, <2>4, <3>2, <4>4 DEF Witness
    <3>6. CASE work[a].pc \in {"conclude", "gone"} /\ ~HasEnded(a)
      <4>1. ~HasResumed(a) /\ ~HasSkipped(a) /\ ~PassedOver(a) /\ ~Started(a) /\ ~HasFinished(a)
        BY <3>6 DEF HasResumed, HasSkipped, PassedOver, Started, HasFinished
      <4>2. ~Quiet(a) /\ ~Persisted(a) /\ ~HasRecorded(a) /\ ~Completed(a)
        BY <3>6 DEF Quiet, Persisted, HasRecorded, Completed
      <4> QED BY <3>1, <3>6, <4>1, <4>2 DEF Effect
    <3> QED BY <2>1, <2>4, <3>3, <3>4, <3>5, <3>6 DEF Witness
  <2> QED BY <2>3, <2>4
<1> QED BY <1>1, <1>2

LEMMA HealthySteps ==
    ASSUME TypeInv, LedgerInv, DoneInv, MetricsInv, NEW a \in Attempts, Well(a), Effect(a),
           NEW p \in Providers, NEW b \in Attempts, observed'[p][b] = "healthy"
    PROVE  checkpoint'[p].version # None
<1>1. checkpoint[p].version # None => checkpoint'[p].version # None
  <2>1. CASE Completed(a)
    <3>1. work[a].build # None
      BY <2>1, AttemptIs, Constants DEF Completed, Placed, Pipeline
    <3> QED BY <2>1, <3>1 DEF Completed, TypeInv, TypeOK
  <2> QED BY <2>1, TablesGrow
<1>2. CASE observed[p][b] = "healthy"
  BY <1>1, <1>2 DEF MetricsInv
<1>3. CASE observed[p][b] # "healthy"
  <2>1. b = a /\ p = work[a].at
    BY <1>3, ColumnsAreOwn
  <2>2. ~PassedOver(a) /\ ~Started(a)
    <3>1. ASSUME IsObserved(a) PROVE FALSE
      BY <2>1, <3>1 DEF IsObserved, TypeInv, TypeOK
    <3> QED BY <3>1 DEF PassedOver, Started
  <2>3. HasFinished(a)
    BY <1>3, <2>2, TablesGrow
  <2>4. /\ work[a].pc = "observe" /\ Owns(a) /\ work[a].report[p].status = "healthy"
    BY <2>1, <2>3 DEF HasFinished, TypeInv, TypeOK
  <2>5. p \in Configured /\ Active(a) /\ work[a].build \in Builds
    BY <2>1, <2>4, AttemptIs DEF Placed, Active, Pipeline
  <2>6. checkpoint[p].version = work[a].build
    BY <2>1, <2>4, <2>5 DEF DoneInv, CompleteUpTo, Passed
  <2> QED BY <1>1, <2>5, <2>6, Constants
<1> QED BY <1>2, <1>3

LEMMA MetricsInductive ==
    TypeInv /\ LedgerInv /\ DoneInv /\ MetricsInv /\ [Next]_vars => MetricsInv'
<1> SUFFICES ASSUME TypeInv, LedgerInv, DoneInv, MetricsInv, [Next]_vars PROVE MetricsInv'
  OBVIOUS
<1>1. CASE UNCHANGED vars
  BY <1>1 DEF vars, MetricsInv, Witness
<1>2. CASE RowMoved
  <2>1. UNCHANGED <<checkpoint, observed, work>> /\ queue'.attempts = queue.attempts
    BY <1>2, RowTyped DEF RowMoved
  <2> QED BY <2>1 DEF MetricsInv, Witness
<1>3. ASSUME NEW a \in Attempts, Well(a), Effect(a) PROVE MetricsInv'
  <2>1. ASSUME NEW p \in Providers, NEW b \in Attempts, observed'[p][b] # "absent"
        PROVE  b <= queue'.attempts
    <3>1. CASE observed'[p][b] = observed[p][b]
      BY <1>3, <2>1, <3>1, AttemptsGrow DEF MetricsInv, Attempts
    <3>2. CASE observed'[p][b] # observed[p][b]
      BY <1>3, <3>2, ColumnsAreOwn, OwnerIsLatest DEF TypeInv, TypeOK
    <3> QED BY <3>1, <3>2
  <2>2. ASSUME NEW p \in Providers, NEW b \in Attempts, observed'[p][b] = "healthy"
        PROVE  checkpoint'[p].version # None
    BY <1>3, <2>2, HealthySteps
  <2>3. ASSUME NEW b \in Attempts, work'[b].pc \in Busy \cup {"observe"}
        PROVE  observed'[work'[b].at][b] = "running"
    <3>1. CASE b = a
      BY <1>3, <2>3, <3>1, RunningSteps
    <3>2. CASE b # a
      <4>1. work'[b] = work[b]
        BY <1>3, <3>2, OthersStay
      <4>2. work[b].at \in Providers
        BY <2>3, <4>1, AttemptIs DEF Placed
      <4> QED BY <1>3, <2>3, <3>2, <4>1, <4>2, ColumnsAreOwn DEF MetricsInv
    <3> QED BY <3>1, <3>2
  <2>4. ASSUME NEW p \in Providers, checkpoint'[p].version # None
        PROVE  \E c \in Attempts : Witness(p, c)'
    BY <1>3, <2>4, WitnessSteps
  <2> QED BY <2>1, <2>2, <2>3, <2>4 DEF MetricsInv
<1> QED BY <1>1, <1>2, <1>3, StepEffect

LEMMA InitMetrics == Init => MetricsInv
<1> SUFFICES ASSUME Init PROVE MetricsInv
  OBVIOUS
<1>1. /\ \A a \in Attempts : work[a].pc = "idle"
      /\ \A p \in Providers : checkpoint[p].version = None
      /\ \A p \in Providers : \A a \in Attempts : observed[p][a] = "absent"
  BY DEF Init, Unstarted, NoCheckpoint
<1> QED BY <1>1 DEF MetricsInv, Busy

LEMMA AlwaysMeasured == Spec => [](TypeInv /\ LedgerInv /\ DoneInv /\ MetricsInv)
BY InitType, TypeInductive, InitLedger, LedgerInductive, InitDone, DoneInductive,
   InitMetrics, MetricsInductive, PTL DEF Spec

(* The metrics of the attempts and the checkpoints tell the same story,    *)
(* whenever attempts are stopped or overlap.                               *)
THEOREM MetricsAgree == Spec => []MetricsMatchCheckpoints
<1>1. MetricsInv => MetricsMatchCheckpoints
  BY DEF MetricsInv, MetricsMatchCheckpoints, Witness
<1> QED BY <1>1, AlwaysMeasured, PTL

-----------------------------------------------------------------------------
(* Reports.                                                                *)

SameBuild == \A b \in 1 .. queue.attempts : work[b].build = work[queue.attempts].build

(* Counts are those of the ledger: always for the provider an attempt is   *)
(* at, and for the ones it is past as long as there was no rollback.       *)
ReportInv ==
    /\ \A a \in Attempts :
          work[a].pc \in Busy \cup {"observe"} =>
             work[a].report[work[a].at].persisted = Cardinality(From(work[a].known, work[a].at))
    /\ SameBuild =>
          \A p \in Providers :
             checkpoint[p].version # None => checkpoint[p].persisted = Cardinality(From(ledger, p))
    /\ SameBuild =>
          \A a \in Attempts : Active(a) =>
             \A p \in Providers :
                p < work[a].at => work[a].report[p].persisted = Cardinality(From(ledger, p))

LEMMA NothingUnconfigured ==
    ASSUME NEW S \in SUBSET Docs, NEW p \in Providers \ Configured
    PROVE  Cardinality(From(S, p)) = 0
<1>1. From(S, p) = {}
  BY Constants DEF From
<1> QED BY <1>1, FS_EmptySet

LEMMA SameBuildBefore ==
    ASSUME TypeInv, NEW a \in Attempts, Well(a), Effect(a), SameBuild'
    PROVE  SameBuild
<1>1. queue.attempts \in 0 .. MaxAttempts /\ queue'.attempts \in 0 .. MaxAttempts
      /\ MaxAttempts \in Nat
  BY QueueTyped, Constants DEF TypeInv, TypeOK
<1>2. CASE \E build \in Builds : Entered(a, build)
  <2>1. PICK build \in Builds : Entered(a, build)
    BY <1>2
  <2>2. a = queue.attempts + 1 /\ queue'.attempts = a
    BY <2>1 DEF Entered
  <2>3. ASSUME NEW b \in 1 .. queue.attempts PROVE work[b].build = work'[a].build
    <3>1. b \in Attempts \ {a} /\ b \in 1 .. a
      BY <1>1, <2>2 DEF Attempts
    <3>2. work'[b] = work[b] /\ work'[b].build = work'[a].build
      BY <2>2, <3>1, OthersStay DEF SameBuild
    <3> QED BY <3>2
  <2>4. CASE queue.attempts = 0
    BY <2>4 DEF SameBuild
  <2>5. CASE queue.attempts # 0
    <3>1. queue.attempts \in 1 .. queue.attempts
      BY <1>1, <2>5
    <3>2. work[queue.attempts].build = work'[a].build
      BY <2>3, <3>1
    <3> QED BY <2>3, <3>2 DEF SameBuild
  <2> QED BY <2>4, <2>5
<1>3. CASE ~ \E build \in Builds : Entered(a, build)
  <2>1. queue'.attempts = queue.attempts
    BY <1>3, AttemptsGrow
  <2>2. ASSUME NEW b \in 1 .. queue.attempts PROVE work'[b].build = work[b].build
    <3>1. b \in Attempts
      BY <1>1 DEF Attempts
    <3> QED BY <1>3, <3>1, OthersStay, BuildStays
  <2>3. ASSUME NEW b \in 1 .. queue.attempts PROVE work[b].build = work[queue.attempts].build
    <3>1. queue.attempts \in 1 .. queue.attempts
      BY <1>1
    <3> QED BY <2>1, <2>2, <3>1 DEF SameBuild
  <2> QED BY <2>3 DEF SameBuild
<1> QED BY <1>2, <1>3

(* Without a rollback, a checkpoint is of the build of the last attempt.   *)
LEMMA CheckpointsAreCurrent ==
    ASSUME TypeInv, MetricsInv, SameBuild, NEW a \in Attempts, Owns(a), NEW p \in Providers,
           checkpoint[p].version # None
    PROVE  checkpoint[p].version = work[a].build
<1>1. PICK c \in Attempts : Witness(p, c)
  BY DEF MetricsInv
<1>2. c \in 1 .. queue.attempts /\ a = queue.attempts
  BY <1>1, OwnerIsLatest DEF Witness, Attempts, TypeInv, TypeOK
<1> QED BY <1>1, <1>2 DEF Witness, SameBuild

(* The document an attempt records is new to the ledger, and counts for    *)
(* its provider alone.                                                     *)
LEMMA RecordedIs ==
    ASSUME TypeInv, LedgerInv, NEW a \in Attempts, HasRecorded(a)
    PROVE  LET w == work[a] IN
           /\ Active(a) /\ w.known = ledger /\ w.doc \in Docs \ ledger /\ Source[w.doc] = w.at
           /\ w.saved[w.at] = checkpoint[w.at] /\ w.saved[w.at].version # w.build
           /\ ledger' = ledger \cup {w.doc} /\ w.remaining >= 1 /\ w.at \in Providers
           /\ \A p \in Providers :
                 Cardinality(From(ledger', p))
                   = Cardinality(From(ledger, p)) + (IF p = w.at THEN 1 ELSE 0)
<1>1. PICK w \in Work : w = work[a]
  BY AttemptIs
<1>2. PICK d \in Docs : d = w.doc
  BY <1>1 DEF HasRecorded
<1>3. /\ w.pc = "record" /\ Active(a) /\ w.at \in Providers /\ ledger' = ledger \cup {d}
  BY <1>1, <1>2, Constants DEF HasRecorded, Active, Pipeline
<1>4. Within(w) /\ w.known = ledger /\ w.saved[w.at] = checkpoint[w.at]
  BY <1>1, <1>3 DEF LedgerInv, Fenced
<1>5. d \in InHand(w)
  BY <1>2, Constants DEF InHand
<1>6. /\ d \in From(Docs, w.at) \ w.known /\ w.saved[w.at].version # w.build
      /\ Cardinality(InHand(w)) <= w.remaining
  BY <1>3, <1>4, <1>5 DEF Within, Busy
<1>7. w.remaining >= 1
  <2>1. Cardinality(InHand(w)) \in Nat /\ IsFiniteSet(InHand(w)) /\ InHand(w) # {}
    BY <1>5, InHandIs
  <2>2. Cardinality(InHand(w)) # 0
    BY <2>1, FS_EmptySet
  <2> QED BY <1>6, <2>1, <2>2, KnownIsCounted
<1>8. Source[d] = w.at /\ d \in Docs \ ledger
  BY <1>4, <1>6 DEF From
<1>9. ASSUME NEW p \in Providers
      PROVE  Cardinality(From(ledger', p))
               = Cardinality(From(ledger, p)) + (IF p = w.at THEN 1 ELSE 0)
  <2>1. ledger \in SUBSET Docs
    BY DEF TypeInv, TypeOK
  <2>2. Cardinality(From(ledger \cup {d}, p))
          = Cardinality(From(ledger, p)) + (IF Source[d] = p THEN 1 ELSE 0)
    BY <1>8, <2>1, OneMoreDocument
  <2> QED BY <1>3, <1>8, <2>2
<1> QED BY <1>1, <1>2, <1>3, <1>4, <1>6, <1>7, <1>8, <1>9

LEMMA CurrentCountSteps ==
    ASSUME TypeInv, LedgerInv, ReportInv, NEW a \in Attempts, Well(a), Effect(a),
           work'[a].pc \in Busy \cup {"observe"}
    PROVE  work'[a].report[work'[a].at].persisted
             = Cardinality(From(work'[a].known, work'[a].at))
<1>1. PICK w \in Work : w = work[a] /\ Placed(w)
  BY AttemptIs
<1>2. PICK v \in Work : v = work'[a]
  BY DEF Well
<1> SUFFICES v.report[v.at].persisted = Cardinality(From(v.known, v.at))
  BY <1>2
<1>3. CASE PassedOver(a)
  <2>1. /\ v.at = w.at /\ v.report[w.at] = [status |-> "not_configured", persisted |-> 0]
        /\ w.at \in Providers \ Configured /\ v.known \in SUBSET Docs
    BY <1>1, <1>2, <1>3 DEF PassedOver, Fixed, Work
  <2> QED BY <2>1, NothingUnconfigured
<1>4. CASE Started(a)
  <2>1. /\ v.at = w.at /\ v.known = w.known
        /\ v.report[w.at] = [status |-> "healthy", persisted |-> Cardinality(From(w.known, w.at))]
    BY <1>1, <1>2, <1>4 DEF Started, Fixed, Told
  <2> QED BY <2>1
<1>5. CASE Quiet(a) \/ Persisted(a) \/ Completed(a)
  <2>1. /\ v.at = w.at /\ v.known = w.known /\ w.pc \in Busy
        /\ v.report[w.at].persisted = w.report[w.at].persisted
    BY <1>1, <1>2, <1>5 DEF Quiet, Persisted, Completed, Fixed, Told, Busy
  <2> QED BY <1>1, <2>1 DEF ReportInv
<1>6. CASE HasRecorded(a)
  <2>1. /\ v.at = w.at /\ v.known = w.known \cup {w.doc} /\ w.pc \in Busy
        /\ v.report[w.at].persisted
             = w.report[w.at].persisted + (IF w.doc \in ledger THEN 0 ELSE 1)
        /\ w.at \in Providers
    BY <1>1, <1>2, <1>6, Constants DEF HasRecorded, Fixed, Busy
  <2>2. /\ w.known = ledger /\ w.doc \notin ledger /\ ledger' = ledger \cup {w.doc}
        /\ Cardinality(From(ledger', w.at)) = Cardinality(From(ledger, w.at)) + 1
    BY <1>1, <1>6, <2>1, RecordedIs
  <2> QED BY <1>1, <2>1, <2>2 DEF ReportInv
<1>7. ~HasResumed(a) /\ ~HasSkipped(a) /\ ~HasFinished(a)
  BY DEF HasResumed, HasSkipped, HasFinished, Advanced, Busy
<1>8. ~HasEnded(a) /\ ~ \E build \in Builds : Entered(a, build)
  BY DEF HasEnded, Entered, Busy
<1> QED BY <1>3, <1>4, <1>5, <1>6, <1>7, <1>8 DEF Effect

LEMMA CheckpointCountSteps ==
    ASSUME TypeInv, LedgerInv, MetricsInv, ReportInv, NEW a \in Attempts, Well(a), Effect(a),
           SameBuild', NEW p \in Providers, checkpoint'[p].version # None
    PROVE  checkpoint'[p].persisted = Cardinality(From(ledger', p))
<1>1. SameBuild
  BY SameBuildBefore
<1>2. CASE Completed(a)
  <2>1. PICK w \in Work : w = work[a] /\ Placed(w)
    BY AttemptIs
  <2>2. ledger' = ledger
    BY <1>2 DEF Completed
  <2>3. CASE checkpoint'[p] = checkpoint[p]
    BY <1>1, <2>2, <2>3 DEF ReportInv
  <2>4. CASE checkpoint'[p] # checkpoint[p]
    <3>1. /\ w.pc = "complete" /\ Owns(a)
          /\ checkpoint' = [checkpoint EXCEPT ![w.at] =
                              [version |-> w.build, persisted |-> w.report[w.at].persisted]]
      BY <1>2, <2>1, <2>4 DEF Completed
    <3>2. p = w.at /\ checkpoint'[p].persisted = w.report[w.at].persisted
      BY <2>4, <3>1 DEF TypeInv, TypeOK
    <3>3. Active(a)
      BY <2>1, <3>1 DEF Active, Pipeline
    <3>4. w.known = ledger
      BY <2>1, <3>3 DEF LedgerInv, Fenced
    <3>5. w.report[w.at].persisted = Cardinality(From(w.known, w.at))
      BY <2>1, <3>1 DEF ReportInv, Busy
    <3> QED BY <2>2, <3>2, <3>4, <3>5
  <2> QED BY <2>3, <2>4
<1>3. CASE HasRecorded(a)
  <2>1. checkpoint' = checkpoint /\ Owns(a)
    BY <1>3 DEF HasRecorded
  <2>2. checkpoint[p].version = work[a].build
    BY <1>1, <2>1, CheckpointsAreCurrent
  <2>3. /\ work[a].saved[work[a].at] = checkpoint[work[a].at]
        /\ work[a].saved[work[a].at].version # work[a].build
        /\ Cardinality(From(ledger', p))
             = Cardinality(From(ledger, p)) + (IF p = work[a].at THEN 1 ELSE 0)
    BY <1>3, RecordedIs
  <2>4. p # work[a].at
    BY <2>2, <2>3
  <2>5. Cardinality(From(ledger, p)) \in Nat
    BY FromIs, DocsAreCounted DEF TypeInv, TypeOK
  <2> QED BY <1>1, <2>1, <2>3, <2>4, <2>5 DEF ReportInv
<1>4. CASE ledger' = ledger /\ checkpoint' = checkpoint
  BY <1>1, <1>4 DEF ReportInv
<1> QED BY <1>2, <1>3, <1>4, TablesGrow

LEMMA PastCountSteps ==
    ASSUME TypeInv, LedgerInv, MetricsInv, ReportInv, NEW a \in Attempts, Well(a), Effect(a),
           SameBuild', Active(a)', NEW p \in Providers, p < work'[a].at
    PROVE  work'[a].report[p].persisted = Cardinality(From(ledger', p))
<1>1. PICK w \in Work : w = work[a] /\ Placed(w)
  BY AttemptIs
<1>2. PICK v \in Work : v = work'[a]
  BY DEF Well
<1>3. Owns(a) /\ (HasResumed(a) \/ Active(a)) /\ v.pc \in Pipeline \ {"resume"} /\ SameBuild
  BY <1>2, StaysActive, SameBuildBefore DEF Active
<1>4. CASE HasResumed(a)
  <2>1. v.at = 1
    BY <1>2, <1>4 DEF HasResumed
  <2> QED BY <1>2, <2>1 DEF Providers
<1>5. CASE ~HasResumed(a)
  <2>1. /\ w.pc \in Pipeline \ {"resume"} /\ w.at \in Providers /\ OthersReported(w, v)
        /\ Active(a) /\ w.at \in Nat /\ p \in Nat
        /\ v.at = w.at \/ (v.at = w.at + 1 /\ (HasSkipped(a) \/ HasFinished(a)))
    BY <1>1, <1>2, <1>3, <1>5, ReportsStay DEF Providers
  <2>2. w.known = ledger
    BY <1>1, <2>1 DEF LedgerInv, Fenced
  <2>3. CASE p < w.at
    <3>1. w.report[p].persisted = Cardinality(From(ledger, p))
      BY <1>1, <1>3, <2>1, <2>3 DEF ReportInv
    <3>2. v.report[p] = w.report[p] /\ p # w.at
      BY <2>1, <2>3 DEF OthersReported
    <3>3. Cardinality(From(ledger', p)) = Cardinality(From(ledger, p))
      <4>1. CASE HasRecorded(a)
        <5>1. Cardinality(From(ledger', p))
                = Cardinality(From(ledger, p)) + (IF p = w.at THEN 1 ELSE 0)
          BY <1>1, <4>1, RecordedIs
        <5>2. Cardinality(From(ledger, p)) \in Nat
          BY FromIs, DocsAreCounted DEF TypeInv, TypeOK
        <5> QED BY <3>2, <5>1, <5>2
      <4> QED BY <4>1, TablesGrow
    <3> QED BY <1>2, <3>1, <3>2, <3>3
  <2>4. CASE p = w.at /\ HasSkipped(a)
    <3>1. /\ w.pc = "start" /\ w.saved[p].version = w.build /\ ledger' = ledger
          /\ v.report[p] = [status |-> "healthy", persisted |-> w.saved[p].persisted]
      BY <1>1, <1>2, <2>4 DEF HasSkipped, Tables
    <3>2. w.saved[p] = checkpoint[p] /\ w.build # None
      BY <1>1, <2>1, <2>4, <3>1, Constants DEF LedgerInv, Fenced, Placed, Pipeline
    <3> QED BY <1>2, <1>3, <3>1, <3>2 DEF ReportInv
  <2>5. CASE p = w.at /\ HasFinished(a)
    <3>1. w.pc = "observe" /\ v.report = w.report /\ ledger' = ledger
      BY <1>1, <1>2, <2>5 DEF HasFinished
    <3>2. w.report[p].persisted = Cardinality(From(w.known, p))
      BY <1>1, <2>5, <3>1 DEF ReportInv
    <3> QED BY <1>2, <2>2, <3>1, <3>2
  <2> QED BY <1>2, <2>1, <2>3, <2>4, <2>5
<1> QED BY <1>4, <1>5

LEMMA ReportInductive ==
    TypeInv /\ LedgerInv /\ MetricsInv /\ ReportInv /\ [Next]_vars => ReportInv'
<1> SUFFICES ASSUME TypeInv, LedgerInv, MetricsInv, ReportInv, [Next]_vars PROVE ReportInv'
  OBVIOUS
<1>1. CASE UNCHANGED vars
  BY <1>1 DEF vars, ReportInv, SameBuild, Active, Owns
<1>2. CASE RowMoved
  <2>1. /\ UNCHANGED <<checkpoint, ledger, work>> /\ queue'.attempts = queue.attempts
        /\ ~queue'.valid
    BY <1>2, RowTyped DEF RowMoved
  <2>2. \A a \in Attempts : ~Active(a)'
    BY <2>1 DEF Active, Owns
  <2>3. SameBuild' = SameBuild
    BY <2>1 DEF SameBuild
  <2> QED BY <2>1, <2>2, <2>3 DEF ReportInv
<1>3. ASSUME NEW a \in Attempts, Well(a), Effect(a) PROVE ReportInv'
  <2>1. ASSUME NEW b \in Attempts, work'[b].pc \in Busy \cup {"observe"}
        PROVE  work'[b].report[work'[b].at].persisted
                 = Cardinality(From(work'[b].known, work'[b].at))
    <3>1. CASE b = a
      BY <1>3, <2>1, <3>1, CurrentCountSteps
    <3>2. CASE b # a
      <4>1. work'[b] = work[b]
        BY <1>3, <3>2, OthersStay
      <4> QED BY <2>1, <4>1 DEF ReportInv
    <3> QED BY <3>1, <3>2
  <2>2. ASSUME SameBuild', NEW p \in Providers, checkpoint'[p].version # None
        PROVE  checkpoint'[p].persisted = Cardinality(From(ledger', p))
    BY <1>3, <2>2, CheckpointCountSteps
  <2>3. ASSUME SameBuild', NEW b \in Attempts, Active(b)', NEW p \in Providers, p < work'[b].at
        PROVE  work'[b].report[p].persisted = Cardinality(From(ledger', p))
    <3>1. CASE b = a
      BY <1>3, <2>3, <3>1, PastCountSteps
    <3>2. CASE b # a
      <4>1. /\ Owns(b) /\ UNCHANGED <<queue, checkpoint, ledger, observed>> /\ work'[b] = work[b]
        BY <1>3, <2>3, <3>2, Fence DEF Active
      <4>2. SameBuild /\ Active(b)
        BY <1>3, <2>3, <4>1, SameBuildBefore DEF Active
      <4> QED BY <2>3, <4>1, <4>2 DEF ReportInv
    <3> QED BY <3>1, <3>2
  <2> QED BY <2>1, <2>2, <2>3 DEF ReportInv, From
<1> QED BY <1>1, <1>2, <1>3, StepEffect

LEMMA InitReport == Init => ReportInv
<1> SUFFICES ASSUME Init PROVE ReportInv
  OBVIOUS
<1>1. /\ \A a \in Attempts : work[a].pc = "idle"
      /\ \A p \in Providers : checkpoint[p].version = None
  BY DEF Init, Unstarted, NoCheckpoint
<1> QED BY <1>1 DEF ReportInv, Busy, Active, Pipeline

(* Without a rollback between its attempts, the report of the attempt that *)
(* holds the lease counts for each provider what the ledger holds.         *)
THEOREM ReportsAreTrue == Spec => []ReportMatchesLedger
<1>1. TypeInv /\ ReportInv => ReportMatchesLedger
  <2> SUFFICES ASSUME TypeInv, ReportInv, NEW a \in Attempts,
                      work[a].pc = "historiography", Owns(a),
                      \A b \in 1 .. a : work[b].build = work[a].build,
                      NEW p \in Providers
               PROVE  work[a].report[p].persisted = Cardinality(From(ledger, p))
    BY DEF ReportMatchesLedger
  <2>1. a = queue.attempts
    BY OwnerIsLatest
  <2>2. SameBuild /\ Active(a) /\ work[a].at = NProviders + 1
    BY <2>1, AttemptIs DEF SameBuild, Active, Pipeline, Placed
  <2>3. p < work[a].at
    BY <2>2, Constants DEF Providers
  <2> QED BY <2>2, <2>3 DEF ReportInv
<1> QED BY <1>1, InitType, TypeInductive, InitLedger, LedgerInductive, InitDone, DoneInductive,
           InitMetrics, MetricsInductive, InitReport, ReportInductive, PTL DEF Spec

-----------------------------------------------------------------------------
(* Reservations.                                                           *)

Seen(p) == \E b \in Attempts : observed[p][b] # "absent"
Unseen == {p \in Configured : ~Seen(p)}

(* Room is left for the fair minimum of every provider that has not run:   *)
(* by the ledger, and by what the attempt that holds the lease may add.    *)
SampleInv ==
    /\ Cardinality(IdentitiesOf(ledger)) + FairMinimum * Cardinality(Unseen) <= Total
    /\ \A d \in ledger : Seen(Source[d])
    /\ \A p \in Configured : \A q \in Providers : p < q /\ Seen(q) => Seen(p)
    /\ \A a \in Attempts : Active(a) => \A p \in Configured : p < work[a].at => Seen(p)
    /\ \A a \in Attempts :
          Active(a) /\ work[a].pc \in Busy =>
             \/ work[a].remaining = 0
             \/ Cardinality(work[a].ids) + work[a].remaining
                  + FairMinimum * Cardinality(Unseen) <= Total
    /\ FirstSampleIsReserved

LEMMA UnseenIs ==
    /\ Unseen \in SUBSET Configured /\ Unseen \in SUBSET Providers
    /\ Cardinality(Unseen) \in Nat /\ FairMinimum * Cardinality(Unseen) \in Nat
<1>1. Unseen \in SUBSET Configured /\ Unseen \in SUBSET Providers
  BY Constants DEF Unseen
<1>2. Cardinality(Unseen) \in Nat
  BY <1>1, ProvidersAreCounted
<1> QED BY <1>1, <1>2, FairMinimumIs, ProductGrows

(* Reservations for fewer providers are smaller.                           *)
LEMMA FewerReservations ==
    ASSUME NEW S \in SUBSET Providers, NEW T \in SUBSET S
    PROVE  /\ FairMinimum * Cardinality(T) \in Nat /\ FairMinimum * Cardinality(S) \in Nat
           /\ FairMinimum * Cardinality(T) <= FairMinimum * Cardinality(S)
<1>1. IsFiniteSet(S) /\ Cardinality(S) \in Nat
  BY ProvidersAreCounted
<1>2. Cardinality(T) \in Nat /\ Cardinality(T) <= Cardinality(S)
  BY <1>1, FS_Subset, FS_CardinalityType
<1> QED BY <1>1, <1>2, FairMinimumIs, ProductGrows

LEMMA SeenStays ==
    ASSUME TypeInv, NEW a \in Attempts, Well(a), Effect(a)
    PROVE  /\ \A p \in Providers : Seen(p) => Seen(p)'
           /\ \A p \in Providers : Seen(p)' => Seen(p) \/ (p = work[a].at /\ Active(a)')
           /\ Unseen' \in SUBSET Unseen
           /\ FairMinimum * Cardinality(Unseen') \in Nat
           /\ FairMinimum * Cardinality(Unseen') <= FairMinimum * Cardinality(Unseen)
<1>1. ASSUME NEW p \in Providers, Seen(p) PROVE Seen(p)'
  <2>1. PICK b \in Attempts : observed[p][b] # "absent"
    BY <1>1 DEF Seen
  <2> QED BY <2>1, ColumnsAreOwn DEF Seen
<1>2. ASSUME NEW p \in Providers, Seen(p)', ~Seen(p) PROVE p = work[a].at /\ Active(a)'
  <2>1. PICK b \in Attempts : observed'[p][b] # "absent"
    BY <1>2 DEF Seen
  <2>2. observed[p][b] = "absent"
    BY <1>2 DEF Seen
  <2>3. p = work[a].at /\ b = a /\ Owns(a) /\ queue' = queue
    BY <2>1, <2>2, ColumnsAreOwn
  <2>4. PassedOver(a) \/ Started(a) \/ HasFinished(a)
    BY <2>1, <2>2, TablesGrow
  <2>5. work'[a].pc \in {"observe", "discover", "start", "historiography"}
    BY <2>4 DEF PassedOver, Started, HasFinished, Advanced
  <2> QED BY <2>3, <2>5 DEF Active, Owns, Pipeline
<1>3. Unseen' \in SUBSET Unseen
  BY <1>1, Constants DEF Unseen
<1> QED BY <1>1, <1>2, <1>3, UnseenIs, FewerReservations

(* A provider behind the attempt that holds the lease has run.             *)
LEMMA BehindIsSeen ==
    ASSUME TypeInv, LedgerInv, MetricsInv, SampleInv, NEW a \in Attempts, Well(a), Effect(a),
           Active(a)', NEW p \in Configured, p < work'[a].at
    PROVE  Seen(p)
<1>1. PICK w \in Work : w = work[a] /\ Placed(w)
  BY AttemptIs
<1>2. PICK v \in Work : v = work'[a]
  BY DEF Well
<1>3. /\ Owns(a) /\ (HasResumed(a) \/ Active(a)) /\ v.pc \in Pipeline \ {"resume"}
      /\ p \in Providers
  BY <1>2, StaysActive, Constants DEF Active
<1>4. CASE HasResumed(a)
  <2>1. v.at = 1
    BY <1>2, <1>4 DEF HasResumed
  <2> QED BY <1>2, <1>3, <2>1 DEF Providers
<1>5. CASE ~HasResumed(a)
  <2>1. /\ w.pc \in Pipeline \ {"resume"} /\ w.at \in Providers
        /\ Active(a) /\ w.at \in Nat /\ p \in Nat
        /\ v.at = w.at \/ (v.at = w.at + 1 /\ (HasSkipped(a) \/ HasFinished(a)))
    BY <1>1, <1>2, <1>3, <1>5, ReportsStay DEF Providers
  <2>2. CASE p < w.at
    BY <1>1, <2>1, <2>2 DEF SampleInv
  <2>3. CASE p = w.at /\ HasSkipped(a)
    <3>1. w.pc = "start" /\ w.saved[p].version = w.build
      BY <1>1, <2>3 DEF HasSkipped
    <3>2. w.saved[p] = checkpoint[p] /\ w.build # None
      BY <1>1, <2>1, <2>3, <3>1, Constants DEF LedgerInv, Fenced, Placed, Pipeline
    <3>3. PICK c \in Attempts : Witness(p, c)
      BY <1>3, <3>1, <3>2 DEF MetricsInv
    <3> QED BY <3>3 DEF Witness, Seen
  <2>4. CASE p = w.at /\ HasFinished(a)
    <3>1. observed[p][a] = "running"
      BY <1>1, <2>4 DEF HasFinished
    <3> QED BY <3>1 DEF Seen
  <2> QED BY <1>2, <2>1, <2>2, <2>3, <2>4
<1> QED BY <1>4, <1>5

(* What is unseen once a provider has started is still pending after it,   *)
(* and at its first run all that is pending is unseen.                     *)
LEMMA PendingIs ==
    ASSUME TypeInv, LedgerInv, MetricsInv, SampleInv, NEW a \in Attempts, Well(a), Started(a)
    PROVE  /\ Unseen' \in SUBSET PendingAfter(work[a], work[a].at)
           /\ ~Seen(work[a].at) =>
                 PendingAfter(work[a], work[a].at) \cup {work[a].at} \in SUBSET Unseen
<1>1. PICK w \in Work : w = work[a] /\ Placed(w)
  BY AttemptIs
<1>2. /\ w.pc = "start" /\ w.at \in Configured /\ w.at \in Providers /\ w.at \in Nat
      /\ Active(a) /\ IsObserved(a) /\ w.build # None
  BY <1>1, Constants DEF Started, Active, Pipeline, Placed, Providers
<1>3. observed'[w.at][a] = "running"
  BY <1>1, <1>2 DEF IsObserved, TypeInv, TypeOK
<1>4. Effect(a)
  BY DEF Effect
<1>5. ASSUME NEW p \in Unseen' PROVE p \in PendingAfter(w, w.at)
  <2>1. p \in Configured /\ p \in Providers /\ p \in Nat /\ ~Seen(p)' /\ ~Seen(p)
    <3>1. p \in Configured /\ ~Seen(p)'
      BY <1>5 DEF Unseen
    <3>2. p \in Providers /\ p \in Nat
      BY <3>1, Constants DEF Providers
    <3> QED BY <1>4, <3>1, <3>2, SeenStays
  <2>2. p # w.at
    BY <1>3, <2>1 DEF Seen
  <2>3. ~(p < w.at)
    BY <1>1, <1>2, <2>1 DEF SampleInv
  <2>4. w.saved[p] = checkpoint[p]
    BY <1>1, <1>2, <2>1, <2>2, <2>3 DEF LedgerInv, Fenced
  <2>5. w.saved[p].version # w.build
    BY <1>2, <2>1, <2>4 DEF MetricsInv, Witness, Seen
  <2> QED BY <1>2, <2>1, <2>2, <2>3, <2>5 DEF PendingAfter, Checkpointed
<1>6. ASSUME ~Seen(w.at), NEW q \in PendingAfter(w, w.at) \cup {w.at} PROVE q \in Unseen
  <2>1. CASE q = w.at
    BY <1>2, <1>6, <2>1 DEF Unseen
  <2>2. CASE q \in PendingAfter(w, w.at)
    <3>1. q \in Configured /\ q \in Providers /\ w.at < q
      BY <2>2, <1>2, Constants DEF PendingAfter, Providers
    <3>2. ~Seen(q)
      BY <1>2, <1>6, <3>1 DEF SampleInv
    <3> QED BY <3>1, <3>2 DEF Unseen
  <2> QED BY <1>6, <2>1, <2>2
<1> QED BY <1>1, <1>5, <1>6

LEMMA RoomSteps ==
    ASSUME TypeInv, LedgerInv, MetricsInv, SampleInv, NEW a \in Attempts, Well(a), Effect(a),
           Active(a)', work'[a].pc \in Busy
    PROVE  \/ work'[a].remaining = 0
           \/ Cardinality(work'[a].ids) + work'[a].remaining
                + FairMinimum * Cardinality(Unseen') <= Total
<1>1. PICK w \in Work : w = work[a] /\ Placed(w)
  BY AttemptIs
<1>2. PICK v \in Work : v = work'[a]
  BY DEF Well
<1>3. /\ Cardinality(w.ids) \in Nat /\ Cardinality(v.ids) \in Nat
      /\ w.remaining \in Nat /\ v.remaining \in Nat /\ Total \in Nat
  BY KnownIsCounted, Constants
<1>4. PICK m \in Nat : m = FairMinimum * Cardinality(Unseen)
  BY UnseenIs
<1>5. PICK n \in Nat : n = FairMinimum * Cardinality(Unseen') /\ n <= m
  BY <1>4, SeenStays
<1> SUFFICES v.remaining = 0 \/ Cardinality(v.ids) + v.remaining + n <= Total
  BY <1>2, <1>5
<1>6. CASE Started(a)
  <2>1. /\ v.remaining = StartBudget(w) /\ v.ids = w.ids /\ w.at \in Providers
    BY <1>1, <1>2, <1>6, Constants DEF Started, Told
  <2>2. PendingAfter(w, w.at) \in SUBSET Providers /\ Unseen' \in SUBSET PendingAfter(w, w.at)
    BY <1>1, <1>6, PendingIs, Constants DEF PendingAfter
  <2>3. /\ FairMinimum * Cardinality(PendingAfter(w, w.at)) \in Nat
        /\ n <= FairMinimum * Cardinality(PendingAfter(w, w.at))
    BY <1>5, <2>2, FewerReservations
  <2>4. StartBudget(w) \in Nat /\
        (StartBudget(w) > 0 =>
            Cardinality(w.ids) + StartBudget(w)
              + FairMinimum * Cardinality(PendingAfter(w, w.at)) <= Total)
    BY <2>1, BudgetIs
  <2> QED BY <1>3, <1>5, <2>1, <2>3, <2>4
<1>7. CASE Quiet(a) \/ Persisted(a) \/ HasRecorded(a)
  <2>1. w.pc \in Busy /\ Active(a)
    <3>1. w.pc \in Busy /\ ~HasResumed(a)
      BY <1>1, <1>7 DEF Quiet, Persisted, HasRecorded, HasResumed, Busy
    <3> QED BY <3>1, StaysActive
  <2>2. w.remaining = 0 \/ Cardinality(w.ids) + w.remaining + m <= Total
    BY <1>1, <1>4, <2>1 DEF SampleInv
  <2>3. CASE Quiet(a) \/ Persisted(a)
    <3>1. v.remaining = w.remaining /\ v.ids = w.ids
      BY <1>1, <1>2, <2>3 DEF Quiet, Persisted, Told
    <3> QED BY <1>3, <1>5, <2>2, <3>1
  <2>4. CASE HasRecorded(a)
    <3>1. v.remaining = SaturatingSub(w.remaining, 1) /\ w.remaining >= 1
          /\ v.ids = w.ids \cup {Identity[w.doc]}
      BY <1>1, <1>2, <2>4, RecordedIs DEF HasRecorded
    <3>2. Cardinality(v.ids) <= Cardinality(w.ids) + 1
      <4>1. IsFiniteSet(w.ids)
        BY CorpusIsFinite, FS_Subset DEF Work
      <4>2. PICK x : x = Identity[w.doc]
        OBVIOUS
      <4>3. Cardinality(w.ids \cup {x})
              = IF x \in w.ids THEN Cardinality(w.ids) ELSE Cardinality(w.ids) + 1
        BY <4>1, FS_AddElement
      <4> QED BY <1>3, <3>1, <4>2, <4>3
    <3>3. v.remaining = w.remaining - 1
      BY <1>3, <3>1 DEF SaturatingSub
    <3> QED BY <1>3, <1>5, <2>2, <3>1, <3>2, <3>3
  <2> QED BY <1>7, <2>3, <2>4
<1>8. ~HasResumed(a) /\ ~HasSkipped(a) /\ ~HasFinished(a) /\ ~PassedOver(a) /\ ~Completed(a)
  BY DEF HasResumed, HasSkipped, HasFinished, Advanced, PassedOver, Completed, Busy
<1>9. ~HasEnded(a) /\ ~ \E build \in Builds : Entered(a, build)
  BY DEF HasEnded, Entered, Busy
<1> QED BY <1>6, <1>7, <1>8, <1>9 DEF Effect

LEMMA LedgerRoomSteps ==
    ASSUME TypeInv, LedgerInv, MetricsInv, SampleInv, NEW a \in Attempts, Well(a), Effect(a)
    PROVE  /\ Cardinality(IdentitiesOf(ledger')) + FairMinimum * Cardinality(Unseen') <= Total
           /\ \A d \in ledger' : Seen(Source[d])'
<1>1. PICK m \in Nat : m = FairMinimum * Cardinality(Unseen)
  BY UnseenIs
<1>2. PICK n \in Nat : n = FairMinimum * Cardinality(Unseen') /\ n <= m
  BY <1>1, SeenStays
<1>3. Cardinality(IdentitiesOf(ledger)) \in Nat /\ Cardinality(IdentitiesOf(ledger')) \in Nat
      /\ Total \in Nat /\ ledger \subseteq Docs /\ ledger' \subseteq Docs
  BY IdentitiesAreCounted, TablesTyped, Constants DEF TypeInv, TypeOK
<1>4. \A d \in Docs : Source[d] \in Providers
  BY Constants
<1>5. CASE ledger' = ledger
  <2>1. Cardinality(IdentitiesOf(ledger)) + m <= Total /\ \A d \in ledger : Seen(Source[d])
    BY <1>1 DEF SampleInv
  <2> QED BY <1>2, <1>3, <1>4, <1>5, <2>1, SeenStays
<1>6. CASE HasRecorded(a)
  <2>1. PICK w \in Work : w = work[a]
    BY AttemptIs
  <2>2. /\ Active(a) /\ w.pc \in Busy /\ w.known = ledger /\ w.doc \in Docs \ ledger
        /\ Source[w.doc] = w.at /\ ledger' = ledger \cup {w.doc} /\ w.remaining >= 1
        /\ w.at \in Providers
    BY <1>6, <2>1, RecordedIs DEF HasRecorded, Busy
  <2>3. w.ids = IdentitiesOf(ledger)
    BY <2>1, <2>2 DEF LedgerInv, Within
  <2>4. Cardinality(w.ids) + w.remaining + m <= Total /\ w.remaining \in Nat
    BY <1>1, <2>1, <2>2, KnownIsCounted DEF SampleInv
  <2>5. PICK d \in Docs : d = w.doc
    BY <2>2
  <2>6. Cardinality(IdentitiesOf(ledger \cup {d})) <= Cardinality(IdentitiesOf(ledger)) + 1
    BY <1>3, OneMoreIdentity
  <2>7. Cardinality(IdentitiesOf(ledger')) <= Cardinality(IdentitiesOf(ledger)) + 1
    BY <2>2, <2>5, <2>6
  <2>8. Seen(w.at)
    BY <2>1, <2>2 DEF MetricsInv, Seen
  <2>9. \A e \in ledger' : Seen(Source[e])
    BY <2>2, <2>8 DEF SampleInv
  <2> QED BY <1>2, <1>3, <1>4, <2>2, <2>3, <2>4, <2>7, <2>9, SeenStays
<1> QED BY <1>5, <1>6, TablesGrow

LEMMA FirstSampleSteps ==
    ASSUME TypeInv, LedgerInv, MetricsInv, SampleInv, NEW a \in Attempts, Well(a), Effect(a),
           work'[a].pc = "discover", work'[a].calls = 0, Owns(a)',
           \A b \in Attempts : b < a => observed'[work'[a].at][b] = "absent"
    PROVE  work'[a].remaining >= FairMinimum
<1>1. PICK w \in Work : w = work[a] /\ Placed(w)
  BY AttemptIs
<1>2. PICK v \in Work : v = work'[a]
  BY DEF Well
<1>3. Started(a)
  <2>1. ~HasResumed(a) /\ ~HasSkipped(a) /\ ~HasFinished(a) /\ ~PassedOver(a) /\ ~Completed(a)
    BY DEF HasResumed, HasSkipped, HasFinished, Advanced, PassedOver, Completed
  <2>2. ~HasEnded(a) /\ ~(\E build \in Builds : Entered(a, build)) /\ ~Quiet(a) /\ ~Persisted(a)
        /\ ~HasRecorded(a)
    BY DEF HasEnded, Entered, Quiet, Persisted, HasRecorded
  <2> QED BY <2>1, <2>2 DEF Effect
<1>4. /\ v.at = w.at /\ v.remaining = StartBudget(w) /\ Owns(a) /\ w.at \in Providers
      /\ observed[w.at][a] = "absent" /\ Active(a)
  BY <1>1, <1>2, <1>3, Constants DEF Started, Fixed, IsObserved, Active, Pipeline
<1>5. ~Seen(w.at)
  <2> SUFFICES ASSUME NEW b \in Attempts PROVE observed[w.at][b] = "absent"
    BY DEF Seen
  <2>1. CASE b < a
    <3>1. observed'[w.at][b] = "absent"
      BY <1>2, <1>4, <2>1
    <3> QED BY <1>4, <3>1, ColumnsAreOwn
  <2>2. CASE b = a
    BY <1>4, <2>2
  <2>3. CASE b > a
    <3>1. a = queue.attempts /\ b \in Nat /\ a \in Nat
      BY <1>4, OwnerIsLatest DEF Attempts
    <3> QED BY <1>4, <2>3, <3>1 DEF MetricsInv
  <2> QED BY <2>1, <2>2, <2>3 DEF Attempts
<1>6. w.known = ledger /\ w.ids = IdentitiesOf(ledger)
  BY <1>1, <1>4 DEF LedgerInv, Fenced, Within
<1>7. From(w.known, w.at) = {} /\ Cardinality(From(w.known, w.at)) = 0
  <2>1. From(w.known, w.at) = {}
    BY <1>5, <1>6 DEF SampleInv, From
  <2> QED BY <2>1, FS_EmptySet
<1> DEFINE pending == PendingAfter(w, w.at)
<1>8. /\ pending \cup {w.at} \in SUBSET Unseen
      /\ pending \in SUBSET Providers /\ w.at \notin pending
  <2>1. pending \cup {w.at} \in SUBSET Unseen
    <3> HIDE DEF pending
    <3>1. PendingAfter(w, w.at) \cup {w.at} \in SUBSET Unseen
      BY <1>1, <1>3, <1>5, PendingIs
    <3> QED BY <3>1 DEF pending
  <2>2. pending \in SUBSET Providers
    BY Constants DEF PendingAfter
  <2>3. w.at \notin pending
    BY <1>4 DEF PendingAfter, Providers
  <2> QED BY <2>1, <2>2, <2>3
<1>9. PICK k \in Nat : k = Cardinality(pending) /\ IsFiniteSet(pending)
  BY <1>8, ProvidersAreCounted
<1>10. Cardinality(pending \cup {w.at}) = k + 1
  <2> HIDE DEF pending
  <2> QED BY <1>8, <1>9, FS_AddElement
<1>11. PICK u \in Nat : u = Cardinality(Unseen)
  BY UnseenIs
<1>12. k + 1 <= u
  <2>1. IsFiniteSet(Unseen)
    BY UnseenIs, ProvidersAreCounted
  <2>2. Cardinality(pending \cup {w.at}) <= Cardinality(Unseen)
    BY <1>8, <2>1, FS_Subset
  <2> QED BY <1>10, <1>11, <2>2
<1>13. PICK f \in Nat : f = FairMinimum
  BY FairMinimumIs
<1>14. f * k + f <= f * u /\ f * k \in Nat /\ f * u \in Nat
  <2>1. f * (k + 1) <= f * u /\ f * u \in Nat /\ f * k \in Nat
    BY <1>12, ProductGrows
  <2>2. f * (k + 1) = f * k + f
    OBVIOUS
  <2> QED BY <2>1, <2>2
<1>15. PICK i \in Nat : i = Cardinality(w.ids)
  BY KnownIsCounted
<1>16. i + f * u <= Total
  BY <1>6, <1>11, <1>13, <1>15 DEF SampleInv
<1>17. StartBudget(w) \in Nat /\ StartBudget(w) >= Least(Least(Total - i - f * k, PerProvider), PerProvider - 0)
  BY <1>4, <1>7, <1>9, <1>13, <1>15, BudgetIs
<1>18. f <= PerProvider /\ PerProvider \in Nat /\ Total \in Nat
  BY <1>13, FairMinimumIs, Constants
<1>19. f <= Total - i - f * k
  BY <1>14, <1>16, <1>18
<1>20. f <= Least(Least(Total - i - f * k, PerProvider), PerProvider - 0)
  BY <1>18, <1>19 DEF Least
<1> QED
  <2>1. Least(Least(Total - i - f * k, PerProvider), PerProvider - 0) \in Int
    BY <1>14, <1>18 DEF Least
  <2> QED BY <1>2, <1>4, <1>13, <1>17, <1>20, <2>1

LEMMA SampleInductive ==
    TypeInv /\ LedgerInv /\ MetricsInv /\ SampleInv /\ [Next]_vars => SampleInv'
<1> SUFFICES ASSUME TypeInv, LedgerInv, MetricsInv, SampleInv, [Next]_vars PROVE SampleInv'
  OBVIOUS
<1>1. CASE UNCHANGED vars
  BY <1>1 DEF vars, SampleInv, FirstSampleIsReserved, Seen, Unseen, Active, Owns
<1>2. CASE RowMoved
  <2>1. UNCHANGED <<checkpoint, ledger, observed, work>> /\ ~queue'.valid
    BY <1>2 DEF RowMoved
  <2>2. \A a \in Attempts : ~Active(a)' /\ ~Owns(a)'
    BY <2>1 DEF Active, Owns
  <2>3. Unseen' = Unseen /\ \A p : Seen(p)' = Seen(p)
    BY <2>1 DEF Unseen, Seen
  <2> QED BY <2>1, <2>2, <2>3 DEF SampleInv, FirstSampleIsReserved
<1>3. ASSUME NEW a \in Attempts, Well(a), Effect(a) PROVE SampleInv'
  <2>1. /\ Cardinality(IdentitiesOf(ledger')) + FairMinimum * Cardinality(Unseen') <= Total
        /\ \A d \in ledger' : Seen(Source[d])'
    BY <1>3, LedgerRoomSteps
  <2>2. ASSUME NEW p \in Configured, NEW q \in Providers, p < q, Seen(q)' PROVE Seen(p)'
    <3>1. p \in Providers
      BY Constants
    <3>2. CASE Seen(q)
      BY <1>3, <2>2, <3>1, <3>2, SeenStays DEF SampleInv
    <3>3. CASE ~Seen(q)
      <4>1. q = work[a].at /\ Active(a)'
        BY <1>3, <2>2, <3>3, SeenStays
      <4>2. work[a].at <= work'[a].at
        <5>1. ~(\E b \in Attempts : observed[q][b] # "absent")
          BY <3>3 DEF Seen
        <5>2. PassedOver(a) \/ Started(a) \/ HasFinished(a)
          BY <1>3, <2>2, <5>1, TablesGrow DEF Seen
        <5>3. work'[a].at = work[a].at \/ work'[a].at = work[a].at + 1
          BY <5>2 DEF PassedOver, Started, HasFinished, Advanced, Fixed
        <5> QED BY <4>1, <5>3 DEF Providers
      <4>3. p < work'[a].at
        <5>1. work'[a].at \in Nat
          BY <1>3 DEF Well, Work
        <5> QED BY <2>2, <3>1, <4>1, <4>2, <5>1 DEF Providers
      <4>4. Seen(p)
        BY <1>3, <4>1, <4>3, BehindIsSeen
      <4> QED BY <1>3, <3>1, <4>4, SeenStays
    <3> QED BY <3>2, <3>3
  <2>3. ASSUME NEW b \in Attempts \ {a}, Owns(b)'
        PROVE  /\ Owns(b) /\ work'[b] = work[b] /\ observed' = observed
               /\ Active(b)' => Active(b)
    BY <1>3, <2>3, Fence DEF Active
  <2>4. ASSUME NEW b \in Attempts, Active(b)', NEW p \in Configured, p < work'[b].at
        PROVE  Seen(p)'
    <3>1. CASE b = a
      BY <1>3, <2>4, <3>1, BehindIsSeen, SeenStays, Constants
    <3>2. CASE b # a
      <4>1. Owns(b)'
        BY <2>4 DEF Active
      <4>2. Active(b) /\ work'[b] = work[b]
        BY <2>3, <2>4, <3>2, <4>1
      <4> QED BY <1>3, <2>4, <4>2, SeenStays, Constants DEF SampleInv
    <3> QED BY <3>1, <3>2
  <2>5. ASSUME NEW b \in Attempts, Active(b)', work'[b].pc \in Busy
        PROVE  \/ work'[b].remaining = 0
               \/ Cardinality(work'[b].ids) + work'[b].remaining
                    + FairMinimum * Cardinality(Unseen') <= Total
    <3>1. CASE b = a
      BY <1>3, <2>5, <3>1, RoomSteps
    <3>2. CASE b # a
      <4>1. Owns(b)'
        BY <2>5 DEF Active
      <4>2. Active(b) /\ work'[b] = work[b] /\ observed' = observed
        BY <2>3, <2>5, <3>2, <4>1
      <4>3. Unseen' = Unseen
        BY <4>2 DEF Unseen, Seen
      <4> QED BY <2>5, <4>2, <4>3 DEF SampleInv
    <3> QED BY <3>1, <3>2
  <2>6. ASSUME NEW b \in Attempts, work'[b].pc = "discover", work'[b].calls = 0, Owns(b)',
               \A c \in Attempts : c < b => observed'[work'[b].at][c] = "absent"
        PROVE  work'[b].remaining >= FairMinimum
    <3>1. CASE b = a
      BY <1>3, <2>6, <3>1, FirstSampleSteps
    <3>2. CASE b # a
      BY <2>3, <2>6, <3>2 DEF SampleInv, FirstSampleIsReserved
    <3> QED BY <3>1, <3>2
  <2>7. FirstSampleIsReserved'
    BY <2>6 DEF FirstSampleIsReserved
  <2> QED BY <2>1, <2>2, <2>4, <2>5, <2>7 DEF SampleInv, IdentitiesOf
<1> QED BY <1>1, <1>2, <1>3, StepEffect

LEMMA InitSample == Init => SampleInv
<1> SUFFICES ASSUME Init PROVE SampleInv
  OBVIOUS
<1>1. /\ \A a \in Attempts : work[a].pc = "idle"
      /\ \A p \in Providers : \A a \in Attempts : observed[p][a] = "absent"
      /\ ledger = {}
  BY DEF Init, Unstarted
<1>2. Cardinality(IdentitiesOf(ledger)) = 0
  <2>1. IdentitiesOf(ledger) = {}
    BY <1>1 DEF IdentitiesOf
  <2> QED BY <2>1, FS_EmptySet
<1>3. FairMinimum * Cardinality(Unseen) <= Total /\ FairMinimum * Cardinality(Unseen) \in Nat
  <2>1. PICK u \in Nat : u = Cardinality(Unseen) /\ u <= NProviders
    BY UnseenIs, ProvidersAreCounted
  <2>2. PICK f \in Nat : f = FairMinimum
    BY FairMinimumIs
  <2>3. f * u <= f * NProviders /\ f * u \in Nat /\ f * NProviders <= Total
    BY <2>1, <2>2, ProductGrows, FairMinimumIs, Constants
  <2>4. f * NProviders \in Nat /\ Total \in Nat
    BY Constants
  <2> QED BY <2>1, <2>2, <2>3, <2>4
<1>4. \A p \in Providers : ~Seen(p)
  BY <1>1 DEF Seen
<1>5. Cardinality(IdentitiesOf(ledger)) + FairMinimum * Cardinality(Unseen) <= Total
  BY <1>2, <1>3, Constants
<1> QED BY <1>1, <1>4, <1>5 DEF SampleInv, FirstSampleIsReserved, Active, Pipeline

(* A provider that runs for the first time finds room for its fair         *)
(* minimum, whatever earlier attempts have saved for the others.           *)
THEOREM FirstSamplesAreReserved == Spec => []FirstSampleIsReserved
<1>1. SampleInv => FirstSampleIsReserved
  BY DEF SampleInv
<1> QED BY <1>1, InitType, TypeInductive, InitLedger, LedgerInductive, InitDone, DoneInductive,
           InitMetrics, MetricsInductive, InitSample, SampleInductive, PTL DEF Spec

-----------------------------------------------------------------------------
(* The job is a leased job.                                                *)

LeaseStep == [L!LNext]_(L!leaseVars)

(* A step of attempt a moves no other attempt.                             *)
LEMMA PlacesMove ==
    ASSUME TypeInv, NEW a \in Attempts, Well(a)
    PROVE  /\ a \in 1 .. MaxAttempts /\ Places[a] = PlaceOf(work[a])
           /\ Places' = [Places EXCEPT ![a] = PlaceOf(work'[a])]
<1>1. a \in 1 .. MaxAttempts /\ \A b \in (1 .. MaxAttempts) \ {a} : work'[b] = work[b]
  BY OthersStay DEF Attempts
<1> QED BY <1>1 DEF Places

(* What an attempt does within its pipeline.                               *)
Goes(a) ==
    \/ HasResumed(a) \/ HasSkipped(a) \/ PassedOver(a) \/ Started(a) \/ Quiet(a) \/ Persisted(a)
    \/ HasRecorded(a) \/ Completed(a) \/ HasFinished(a)

(* Within its pipeline an attempt writes nothing into the row.             *)
LEMMA AttemptSteps ==
    ASSUME TypeInv, NEW a \in Attempts, Well(a), Goes(a)
    PROVE  UNCHANGED <<queue, Places>>
<1>1. /\ UNCHANGED queue
      /\ work[a].pc \notin {"idle", "gone"} /\ work'[a].pc \notin {"idle", "gone"}
  BY DEF Goes, HasResumed, HasSkipped, PassedOver, Started, Quiet, Persisted, HasRecorded,
         Completed, HasFinished, Advanced, Tables
<1>2. PlaceOf(work'[a]) = PlaceOf(work[a])
  BY <1>1 DEF PlaceOf
<1>3. Places' = Places
  BY <1>2, PlacesMove DEF Places
<1> QED BY <1>1, <1>3

LEMMA ClaimLeases ==
    ASSUME TypeInv, NEW build \in Builds, Claim(build)
    PROVE  LeaseStep
<1>1. PICK a \in Attempts : Well(a) /\ Entered(a, build)
  BY ClaimEffect
<1>2. /\ a = queue.attempts + 1 /\ work'[a].pc = "resume"
      /\ queue' = [status |-> "running", attempts |-> a, owner |-> a, valid |-> TRUE]
      /\ queue.status = "queued" \/ (queue.status = "running" /\ ~queue.valid)
  BY <1>1 DEF Entered, Claim
<1>3. work[a].pc = "idle"
  BY <1>1 DEF Entered, Unstarted
<1>4. /\ a \in 1 .. MaxAttempts /\ Places[a] = "ahead"
      /\ Places' = [Places EXCEPT ![a] = "alive"]
  BY <1>1, <1>2, <1>3, PlacesMove DEF PlaceOf
<1>5. L!Lease(a)
  BY <1>2, <1>4 DEF L!Lease, L!Columns
<1> QED BY <1>4, <1>5 DEF LeaseStep, L!LNext

LEMMA RowLeases ==
    ASSUME TypeInv, LeaseExpires \/ ExhaustStale
    PROVE  LeaseStep
<1>1. UNCHANGED Places
  BY DEF LeaseExpires, ExhaustStale, Places
<1>2. queue.valid \in BOOLEAN
  BY DEF TypeInv, TypeOK
<1>3. CASE LeaseExpires
  <2>1. queue' = [status |-> "running", attempts |-> queue.attempts, owner |-> queue.owner,
                  valid |-> FALSE]
    BY <1>3 DEF LeaseExpires, TypeInv, TypeOK
  <2>2. L!Expire
    BY <1>1, <1>3, <2>1 DEF LeaseExpires, L!Expire, L!Columns
  <2> QED BY <2>2 DEF LeaseStep, L!LNext
<1>4. CASE ExhaustStale
  <2>1. queue' = [status |-> "failed", attempts |-> MaxAttempts, owner |-> 0, valid |-> FALSE]
    BY <1>2, <1>4 DEF ExhaustStale, TypeInv, TypeOK
  <2>2. L!GiveUp
    BY <1>1, <1>4, <2>1 DEF ExhaustStale, L!GiveUp, L!Columns
  <2> QED BY <2>2 DEF LeaseStep, L!LNext
<1> QED BY <1>3, <1>4

(* An attempt that ends settles the job while it owns it, and otherwise    *)
(* leaves the row as it is.                                                *)
LEMMA EndLeases ==
    ASSUME TypeInv, NEW a \in Attempts, Well(a), HasEnded(a)
    PROVE  LeaseStep
<1>1. /\ a \in 1 .. MaxAttempts /\ Places[a] = "alive"
      /\ Places' = [Places EXCEPT ![a] = PlaceOf(work'[a])]
  BY PlacesMove DEF HasEnded, PlaceOf
<1>2. PlaceOf(work'[a]) \in {"alive", "over"}
  BY DEF HasEnded, PlaceOf
<1>3. CASE queue' = [queue EXCEPT !.status = Settled(a), !.owner = 0, !.valid = FALSE] /\ Owns(a)
  <2>1. PICK outcome \in {"queued", "done", "failed"} : outcome = Settled(a)
    BY DEF Settled
  <2>2. outcome = "queued" => a < MaxAttempts
    BY <2>1 DEF Settled
  <2>3. queue' = [status |-> outcome, attempts |-> queue.attempts, owner |-> 0, valid |-> FALSE]
    BY <1>3, <2>1 DEF TypeInv, TypeOK
  <2>4. L!Settle(a, outcome)
    BY <1>1, <1>2, <1>3, <2>2, <2>3 DEF Owns, L!Settle, L!Columns
  <2> QED BY <1>1, <2>4 DEF LeaseStep, L!LNext
<1>4. CASE UNCHANGED queue
  <2>1. CASE PlaceOf(work'[a]) = "alive"
    <3>1. Places' = Places
      BY <1>1, <2>1 DEF Places
    <3> QED BY <1>4, <3>1 DEF LeaseStep, L!leaseVars
  <2>2. CASE PlaceOf(work'[a]) = "over"
    <3>1. Places' = [b \in 1 .. MaxAttempts |-> IF b \in {a} THEN "over" ELSE Places[b]]
      BY <1>1, <2>2 DEF Places
    <3>2. L!EndOf({a})
      BY <1>1, <1>4, <3>1 DEF L!EndOf
    <3>3. {a} \in SUBSET (1 .. MaxAttempts)
      BY <1>1
    <3> QED BY <3>2, <3>3 DEF LeaseStep, L!LNext
  <2> QED BY <1>2, <2>1, <2>2
<1> QED BY <1>3, <1>4 DEF HasEnded

LEMMA NextLeased ==
    ASSUME TypeInv, [Next]_vars
    PROVE  LeaseStep
<1>1. CASE \E build \in Builds : Claim(build)
  BY <1>1, ClaimLeases
<1>2. CASE LeaseExpires \/ ExhaustStale
  BY <1>2, RowLeases
<1>3. ASSUME NEW a \in Attempts, Well(a), HasEnded(a) PROVE LeaseStep
  BY <1>3, EndLeases
<1>4. ASSUME NEW a \in Attempts, Well(a), Goes(a) PROVE LeaseStep
  BY <1>4, AttemptSteps DEF LeaseStep, L!leaseVars
<1>5. CASE UNCHANGED vars
  <2>1. UNCHANGED <<queue, Places>>
    BY <1>5 DEF vars, Places
  <2> QED BY <2>1 DEF LeaseStep, L!leaseVars
<1>6. ASSUME NEW a \in Attempts,
             \/ Resume(a) \/ ProviderStep(a) \/ Historiography(a)
             \/ Abort(a) \/ Crash(a) \/ Conclude(a)
      PROVE  Well(a) /\ (Goes(a) \/ HasEnded(a))
  BY <1>6, ResumeEffect, SkipEffect, NotConfiguredEffect, StartEffect, DiscoverEffect, FetchEffect,
     NoMoreEffect, PersistEffect, RecordEffect, CompleteEffect, FinishObservationEffect, EndEffect
     DEF ProviderStep, Goes
<1> QED BY <1>1, <1>2, <1>3, <1>4, <1>5, <1>6 DEF Next, Proceed

(* The row of the job changes only as a leased job allows: the next claim  *)
(* takes it over from an attempt whose lease has run out, only the attempt *)
(* that holds it settles it, and a late attempt ends without a trace.      *)
THEOREM JobKeepsTheLease == Spec => JobIsLeased
<1>1. Init => L!LInit
  <2> SUFFICES ASSUME Init PROVE L!LInit
    OBVIOUS
  <2>1. \A a \in 1 .. MaxAttempts : work[a].pc = "idle"
    BY DEF Init, Unstarted, Attempts
  <2>2. Places = [a \in 1 .. MaxAttempts |-> "ahead"]
    BY <2>1 DEF Places, PlaceOf
  <2> QED BY <2>2 DEF Init, L!LInit, L!Columns
<1>2. TypeInv /\ [Next]_vars => [L!LNext]_(L!leaseVars)
  BY NextLeased DEF LeaseStep
<1> QED BY <1>1, <1>2, AlwaysTyped, PTL DEF Spec, JobIsLeased, L!LSpec
=============================================================================
