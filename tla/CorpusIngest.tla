---------------------------- MODULE CorpusIngest ----------------------------
(***************************************************************************)
(* One durable Agora job: the document pipeline that each of its attempts  *)
(* runs over the bibliographic providers, and the three tables that let an *)
(* attempt resume where an earlier one was interrupted: the checkpoints of *)
(* the completed providers, the ledger of the saved documents and the      *)
(* metrics of every attempt.                                               *)
(*                                                                         *)
(* The queue is reduced to the columns that fence these tables; module     *)
(* IngestQueue has it in full.  Attempts overlap: an execution that lost   *)
(* its lease goes on until its next heartbeat or fenced statement.  One    *)
(* action is one SQL statement or one exchange with a provider.            *)
(***************************************************************************)
EXTENDS Naturals, FiniteSets

CONSTANTS
    NProviders,   \* number of providers in `kinds`; they are worked through in order
    Configured,   \* the providers that have an implemented connector
    Docs,         \* the documents any provider may discover, by (source_kind, external_id)
    Source,       \* Source[d]: the provider that discovers d
    Identity,     \* Identity[d]: the corpus document d is normalized to
    Builds,       \* versions of the program, hence of its connectors
    Total,        \* CorpusIngestLimits.total
    PerProvider,  \* CorpusIngestLimits.per_provider
    Minimum,      \* CorpusIngestLimits.minimum_per_provider
    Concurrency,  \* TALARIA_CORPUS_FETCH_CONCURRENCY, clamped to 1..4
    MaxAttempts,  \* MAX_INGEST_ATTEMPTS
    MaxPages,     \* bound of the model: pages a provider offers in one attempt
    None

Providers == 1 .. NProviders
Attempts == 1 .. MaxAttempts
CorpusDocuments == {Identity[d] : d \in Docs}

ASSUME CorpusAssumption ==
    /\ NProviders \in Nat \ {0} /\ MaxAttempts \in Nat \ {0} /\ MaxPages \in Nat \ {0}
    /\ Total \in Nat \ {0} /\ PerProvider \in Nat \ {0} /\ Minimum \in Nat
    /\ Concurrency \in 1 .. 4
    /\ Configured \subseteq Providers
    /\ IsFiniteSet(Docs)
    /\ DOMAIN Source = Docs /\ DOMAIN Identity = Docs
    /\ \A d \in Docs : Source[d] \in Configured
    /\ None \notin Builds \cup Docs

VARIABLES
    queue,       \* the job's row: status, attempts, owner (an attempt, 0 for none), lease
    checkpoint,  \* ingest_provider_checkpoints: version and persisted count of a provider
    ledger,      \* ingest_job_documents: the documents saved for this job
    corpus,      \* corpus_documents and entity_document_links, unfenced and idempotent
    observed,    \* ingest_provider_attempt_metrics: observed[p][a]
    work         \* work[a]: the pipeline of attempt a
vars == <<queue, checkpoint, ledger, corpus, observed, work>>

Trouble == {"failed", "partial", "rate_limited"}
Health == {"healthy", "not_configured"} \cup Trouble
Checkpoint == [version : Builds \cup {None}, persisted : Nat]
Outcome == [status : {"pending"} \cup Health, persisted : Nat]

Pipeline == {"resume", "start", "discover", "fetch", "save", "record", "turn", "complete",
             "observe", "historiography"}
Work == [pc : {"idle", "conclude", "gone"} \cup Pipeline,
         build : Builds \cup {None},
         at : 0 .. NProviders + 1,
         saved : [Providers -> Checkpoint],
         known : SUBSET Docs,
         ids : SUBSET CorpusDocuments,
         remaining : Nat,
         calls : 0 .. MaxPages, paged : BOOLEAN, stop : BOOLEAN,
         page : SUBSET Docs, saving : SUBSET Docs, doc : Docs \cup {None},
         report : [Providers -> Outcome],
         result : {"none", "report", "retryable", "error"}]

TypeOK ==
    /\ queue \in [status : {"queued", "running", "done", "failed"}, attempts : 0 .. MaxAttempts,
                  owner : 0 .. MaxAttempts, valid : BOOLEAN]
    /\ checkpoint \in [Providers -> Checkpoint]
    /\ ledger \subseteq Docs
    /\ corpus \subseteq CorpusDocuments
    /\ observed \in [Providers -> [Attempts -> {"absent", "running"} \cup Health]]
    /\ work \in [Attempts -> Work]

NoCheckpoint == [version |-> None, persisted |-> 0]
Unstarted == [pc |-> "idle", build |-> None, at |-> 0,
              saved |-> [p \in Providers |-> NoCheckpoint],
              known |-> {}, ids |-> {}, remaining |-> 0,
              calls |-> 0, paged |-> FALSE, stop |-> FALSE,
              page |-> {}, saving |-> {}, doc |-> None,
              report |-> [p \in Providers |-> [status |-> "pending", persisted |-> 0]],
              result |-> "none"]

Init ==
    /\ queue = [status |-> "queued", attempts |-> 0, owner |-> 0, valid |-> FALSE]
    /\ checkpoint = [p \in Providers |-> NoCheckpoint]
    /\ ledger = {}
    /\ corpus = {}
    /\ observed = [p \in Providers |-> [a \in Attempts |-> "absent"]]
    /\ work = [a \in Attempts |-> Unstarted]

(* An attempt that has ended keeps nothing but its outcome.                *)
Ended(w, pc, result) == [Unstarted EXCEPT !.pc = pc, !.build = w.build, !.result = result]

(* The fence: EXISTS / INSERT .. SELECT / UPDATE .. FROM ingest_jobs with  *)
(* id, owner_token, status = 'running' and lease_until > now().            *)
Owns(a) == queue.status = "running" /\ queue.owner = a /\ queue.valid

From(S, p) == {d \in S : Source[d] = p}
IdentitiesOf(S) == {Identity[d] : d \in S}
Least(m, n) == IF m < n THEN m ELSE n
SaturatingSub(m, n) == IF m > n THEN m - n ELSE 0

-----------------------------------------------------------------------------
(* The queue, as far as this job sees it.                                  *)

Claim(build) ==
    /\ queue.status = "queued" \/ (queue.status = "running" /\ ~queue.valid)
    /\ queue.attempts < MaxAttempts
    /\ LET a == queue.attempts + 1 IN
       /\ queue' = [status |-> "running", attempts |-> a, owner |-> a, valid |-> TRUE]
       /\ work' = [work EXCEPT ![a].pc = "resume", ![a].build = build]
    /\ UNCHANGED <<checkpoint, ledger, corpus, observed>>

LeaseExpires ==
    /\ queue.status = "running" /\ queue.valid
    /\ queue' = [queue EXCEPT !.valid = FALSE]
    /\ UNCHANGED <<checkpoint, ledger, corpus, observed, work>>

ExhaustStale ==
    /\ queue.status = "running" /\ ~queue.valid /\ queue.attempts = MaxAttempts
    /\ queue' = [queue EXCEPT !.status = "failed", !.owner = 0]
    /\ UNCHANGED <<checkpoint, ledger, corpus, observed, work>>

(* retry_incomplete_providers, then finish: both fenced.                   *)
Settled(a) ==
    CASE work[a].result = "report" -> "done"
      [] work[a].result = "retryable" /\ a < MaxAttempts -> "queued"
      [] OTHER -> "failed"
Conclude(a) ==
    /\ work[a].pc = "conclude"
    /\ \/ /\ Owns(a)
          /\ queue' = [queue EXCEPT !.status = Settled(a), !.owner = 0, !.valid = FALSE]
       \/ UNCHANGED queue
    /\ work' = [work EXCEPT ![a] = Ended(@, "gone", "none")]
    /\ UNCHANGED <<checkpoint, ledger, corpus, observed>>

(* Any `?` of the pipeline: a fenced statement that was refused, a         *)
(* statement that failed, the heartbeat that cancels the pipeline.         *)
Abort(a) ==
    /\ work[a].pc \in Pipeline
    /\ work' = [work EXCEPT ![a] = Ended(@, "conclude", "error")]
    /\ UNCHANGED <<queue, checkpoint, ledger, corpus, observed>>

Crash(a) ==
    /\ work[a].pc \in Pipeline \cup {"conclude"}
    /\ work' = [work EXCEPT ![a] = Ended(@, "gone", "none")]
    /\ UNCHANGED <<queue, checkpoint, ledger, corpus, observed>>

-----------------------------------------------------------------------------
(* run_corpus_ingest_inner: what an attempt knows when it starts.          *)

(* Mutant of Resumed: the ledger is not read back.                         *)
ResumedEmpty(a) == [work[a] EXCEPT !.saved = checkpoint]

Resumed(a) ==
    [work[a] EXCEPT !.saved = checkpoint, !.known = ledger, !.ids = IdentitiesOf(ledger)]

(* ensure_lease, completed_documents and completed_providers.  Between the *)
(* three statements only an attempt that has taken the lease over can have *)
(* written; this one can then write nothing.                               *)
Resume(a) ==
    /\ work[a].pc = "resume"
    /\ Owns(a)
    /\ work' = [work EXCEPT ![a] = [Resumed(a) EXCEPT !.pc = "start", !.at = 1]]
    /\ UNCHANGED <<queue, checkpoint, ledger, corpus, observed>>

-----------------------------------------------------------------------------
(* The provider loop.                                                      *)

(* Mutant of Checkpointed: whatever the version of the connector.          *)
CheckpointedOnce(w, p) == w.saved[p].version # None

(* should_skip_completed_provider *)
Checkpointed(w, p) == w.saved[p].version = w.build

(* The attempt goes on to the next provider, or past the last one.         *)
NextProvider(w) ==
    [w EXCEPT !.at = w.at + 1, !.calls = 0, !.paged = FALSE, !.stop = FALSE, !.page = {},
              !.remaining = 0,
              !.pc = IF w.at = NProviders THEN "historiography" ELSE "start"]

ReportOf(w, p, status, persisted) ==
    [w EXCEPT !.report[p] = [status |-> status, persisted |-> persisted]]

(* The outcome of a checkpointed provider is that of its checkpoint.       *)
Skip(a) ==
    LET w == work[a] IN
    /\ w.pc = "start" /\ w.at \in Configured
    /\ Checkpointed(w, w.at)
    /\ work' = [work EXCEPT ![a] =
                  NextProvider(ReportOf(w, w.at, "healthy", w.saved[w.at].persisted))]
    /\ UNCHANGED <<queue, checkpoint, ledger, corpus, observed>>

(* begin_attempt: the row must be new.                                     *)
Observe(a, p) ==
    /\ observed[p][a] = "absent"
    /\ observed' = [observed EXCEPT ![p][a] = "running"]

NotConfigured(a) ==
    LET w == work[a] IN
    /\ w.pc = "start" /\ w.at \notin Configured
    /\ Owns(a)
    /\ Observe(a, w.at)
    /\ work' = [work EXCEPT ![a] =
                  [ReportOf(w, w.at, "not_configured", 0) EXCEPT !.pc = "observe"]]
    /\ UNCHANGED <<queue, checkpoint, ledger, corpus>>

FairMinimum == Least(Least(Minimum, PerProvider), Total \div NProviders)
PendingAfter(w, p) == {q \in Configured : q > p /\ ~Checkpointed(w, q)}

(* Mutant of Budget: nothing is reserved for the providers that follow.    *)
BudgetGreedy(w, p) == Least(SaturatingSub(Total, Cardinality(w.ids)), PerProvider)

(* Mutant of Budget: a plain subtraction.                                  *)
BudgetUnsaturated(w, p) ==
    Least(Total - Cardinality(w.ids) - FairMinimum * Cardinality(PendingAfter(w, p)), PerProvider)

(* provider_budget_with_pending *)
Budget(w, p) ==
    LET globally == SaturatingSub(Total, Cardinality(w.ids))
        reserved == FairMinimum * Cardinality(PendingAfter(w, p))
    IN Least(SaturatingSub(globally, reserved), PerProvider)

(* begin_attempt, ensure_lease, and the budget of this provider.           *)
Start(a) ==
    LET w == work[a]
        saved == Cardinality(From(w.known, w.at))
    IN
    /\ w.pc = "start" /\ w.at \in Configured
    /\ ~Checkpointed(w, w.at)
    /\ Owns(a)
    /\ Observe(a, w.at)
    /\ work' = [work EXCEPT ![a] =
                  [ReportOf(w, w.at, "healthy", saved) EXCEPT
                     !.remaining = Least(Budget(w, w.at), SaturatingSub(PerProvider, saved)),
                     !.pc = "discover"]]
    /\ UNCHANGED <<queue, checkpoint, ledger, corpus>>

(* connector.discover: at least one call, even with no budget left.  Its   *)
(* failure or timeout ends the provider.                                   *)
Discover(a) ==
    LET w == work[a] IN
    /\ w.pc = "discover"
    /\ w.remaining > 0 \/ w.calls = 0
    /\ \/ \E page \in SUBSET From(Docs, w.at) :
            work' = [work EXCEPT ![a] =
                       [w EXCEPT !.pc = "fetch", !.page = page, !.calls = @ + 1]]
       \/ \E status \in {"failed", "rate_limited"} :
            work' = [work EXCEPT ![a] =
                       [w EXCEPT !.pc = "complete", !.report[w.at].status = status]]
    /\ UNCHANGED <<queue, checkpoint, ledger, corpus, observed>>

DiscoverNoMore(a) ==
    /\ work[a].pc = "discover"
    /\ work[a].remaining = 0 /\ work[a].calls > 0
    /\ work' = [work EXCEPT ![a].pc = "complete"]
    /\ UNCHANGED <<queue, checkpoint, ledger, corpus, observed>>

(* Mutant of Offered: documents saved by an earlier attempt are fetched.   *)
OfferedAgain(w) == w.page

(* The documents of the page that are neither saved nor tried yet.         *)
Offered(w) == w.page \ w.known

BatchSize(w) ==
    Least(Least(w.remaining, SaturatingSub(Total, Cardinality(w.ids))), Concurrency)

(* fetch_document_batch, and what becomes of the documents that are not    *)
(* persisted.  The status is that of the last failure in page order; a     *)
(* document without a normalizer is skipped and changes no status.         *)
Fetch(a) ==
    LET w == work[a] IN
    /\ w.pc = "fetch"
    /\ BatchSize(w) > 0 /\ Offered(w) # {}
    /\ \E batch \in SUBSET Offered(w) :
         /\ Cardinality(batch) = Least(BatchSize(w), Cardinality(Offered(w)))
         /\ \E answer \in [batch -> {"ok", "unnormalized", "partial", "rate_limited"}] :
            \E status \in Health :
              LET failures == {answer[d] : d \in batch} \cap Trouble IN
              /\ status \in (IF failures = {} THEN {w.report[w.at].status} ELSE failures)
              /\ work' = [work EXCEPT ![a] =
                            [w EXCEPT !.page = @ \ batch,
                                      !.saving = {d \in batch : answer[d] = "ok"},
                                      !.report[w.at].status = status,
                                      !.stop = "rate_limited" \in failures,
                                      !.pc = "save"]]
    /\ UNCHANGED <<queue, checkpoint, ledger, corpus, observed>>

FetchNoMore(a) ==
    LET w == work[a] IN
    /\ w.pc = "fetch"
    /\ BatchSize(w) = 0 \/ Offered(w) = {}
    /\ work' = [work EXCEPT ![a].pc = "turn"]
    /\ UNCHANGED <<queue, checkpoint, ledger, corpus, observed>>

(* Mutant of Persist: the ledger is written before the snapshot.           *)
PersistLedgerFirst(a) ==
    LET w == work[a] IN
    /\ w.pc = "save" /\ Owns(a)
    /\ \E d \in w.saving :
         /\ ledger' = ledger \cup {d}
         /\ work' = [work EXCEPT ![a] =
                       [w EXCEPT !.saving = @ \ {d}, !.doc = d, !.pc = "record"]]
    /\ UNCHANGED <<queue, checkpoint, corpus, observed>>

(* persist_normalized and upsert_entity_document_link: no fence.           *)
Persist(a) ==
    LET w == work[a] IN
    /\ w.pc = "save"
    /\ \E d \in w.saving :
         /\ corpus' = corpus \cup {Identity[d]}
         /\ work' = [work EXCEPT ![a] =
                       [w EXCEPT !.saving = @ \ {d}, !.doc = d, !.pc = "record"]]
    /\ UNCHANGED <<queue, checkpoint, ledger, observed>>

Recorded(w) ==
    [w EXCEPT !.report[w.at].persisted = IF w.doc \in ledger THEN @ ELSE @ + 1,
              !.known = @ \cup {w.doc}, !.ids = @ \cup {Identity[w.doc]},
              !.remaining = SaturatingSub(@, 1), !.doc = None, !.pc = "save"]

(* Mutant of Record: the ledger is not fenced.                             *)
RecordUnfenced(a) ==
    LET w == work[a] IN
    /\ w.pc = "record"
    /\ ledger' = ledger \cup {w.doc}
    /\ work' = [work EXCEPT ![a] = Recorded(w)]
    /\ UNCHANGED <<queue, checkpoint, corpus, observed>>

(* record_document                                                         *)
Record(a) ==
    LET w == work[a] IN
    /\ w.pc = "record"
    /\ Owns(a)
    /\ ledger' = ledger \cup {w.doc}
    /\ work' = [work EXCEPT ![a] = Recorded(w)]
    /\ UNCHANGED <<queue, checkpoint, corpus, observed>>

(* The batch is through: after a 429 the provider is left alone.           *)
SaveNoMore(a) ==
    LET w == work[a] IN
    /\ w.pc = "save" /\ w.saving = {}
    /\ work' = [work EXCEPT ![a].pc = IF w.stop THEN "turn" ELSE "fetch"]
    /\ UNCHANGED <<queue, checkpoint, ledger, corpus, observed>>

(* The next cursor: none, a new one, or (cursor_stalled) the same again.   *)
(* The bound is on the pages asked for: with no budget left none is.       *)
Turn(a) ==
    LET w == work[a] IN
    /\ w.pc = "turn"
    /\ \/ work' = [work EXCEPT ![a].pc = "complete"]
       \/ /\ ~w.stop /\ (w.calls < MaxPages \/ w.remaining = 0)
          /\ work' = [work EXCEPT ![a].pc = "discover", ![a].paged = TRUE]
       \/ /\ w.paged
          /\ work' = [work EXCEPT ![a].pc = "complete", ![a].report[w.at].status = "partial"]
    /\ UNCHANGED <<queue, checkpoint, ledger, corpus, observed>>

(* Mutant of Complete: a provider in trouble is checkpointed as well.      *)
CompleteAnyway(a) ==
    LET w == work[a] IN
    /\ w.pc = "complete"
    /\ Owns(a)
    /\ checkpoint' = [checkpoint EXCEPT ![w.at] =
                        [version |-> w.build, persisted |-> w.report[w.at].persisted]]
    /\ work' = [work EXCEPT ![a].pc = "observe"]
    /\ UNCHANGED <<queue, ledger, corpus, observed>>

(* Mutant of Complete: the checkpoint is not fenced.                       *)
CompleteUnfenced(a) ==
    LET w == work[a] IN
    /\ w.pc = "complete"
    /\ \/ /\ w.report[w.at].status = "healthy"
          /\ checkpoint' = [checkpoint EXCEPT ![w.at] =
                              [version |-> w.build, persisted |-> w.report[w.at].persisted]]
       \/ /\ w.report[w.at].status # "healthy"
          /\ UNCHANGED checkpoint
    /\ work' = [work EXCEPT ![a].pc = "observe"]
    /\ UNCHANGED <<queue, ledger, corpus, observed>>

(* complete_provider, for a healthy provider only.                         *)
Complete(a) ==
    LET w == work[a] IN
    /\ w.pc = "complete"
    /\ \/ /\ w.report[w.at].status = "healthy"
          /\ Owns(a)
          /\ checkpoint' = [checkpoint EXCEPT ![w.at] =
                              [version |-> w.build, persisted |-> w.report[w.at].persisted]]
       \/ /\ w.report[w.at].status # "healthy"
          /\ UNCHANGED checkpoint
    /\ work' = [work EXCEPT ![a].pc = "observe"]
    /\ UNCHANGED <<queue, ledger, corpus, observed>>

(* finish_attempt: only a row that is still running.                       *)
FinishObservation(a) ==
    LET w == work[a] IN
    /\ w.pc = "observe"
    /\ Owns(a) /\ observed[w.at][a] = "running"
    /\ observed' = [observed EXCEPT ![w.at][a] = w.report[w.at].status]
    /\ work' = [work EXCEPT ![a] = NextProvider(w)]
    /\ UNCHANGED <<queue, checkpoint, ledger, corpus>>

(* incomplete_providers                                                    *)
Incomplete(w) == {p \in Providers : w.report[p].status \in Trouble}

(* run_agora_lane: the historiography extract runs over a full collection  *)
(* only; otherwise the job is to be retried.                               *)
Historiography(a) ==
    LET w == work[a] IN
    /\ w.pc = "historiography"
    /\ work' = [work EXCEPT ![a] =
                  Ended(w, "conclude", IF Incomplete(w) = {} THEN "report" ELSE "retryable")]
    /\ UNCHANGED <<queue, checkpoint, ledger, corpus, observed>>

-----------------------------------------------------------------------------
ProviderStep(a) ==
    \/ Skip(a) \/ NotConfigured(a) \/ Start(a) \/ Discover(a) \/ DiscoverNoMore(a)
    \/ Fetch(a) \/ FetchNoMore(a) \/ Persist(a) \/ Record(a) \/ SaveNoMore(a) \/ Turn(a)
    \/ Complete(a) \/ FinishObservation(a)

Proceed ==
    \/ LeaseExpires \/ ExhaustStale
    \/ \E a \in Attempts : \/ Resume(a) \/ ProviderStep(a) \/ Historiography(a)
                           \/ Abort(a) \/ Crash(a) \/ Conclude(a)

Next == (\E build \in Builds : Claim(build)) \/ Proceed

Spec == Init /\ [][Next]_vars

-----------------------------------------------------------------------------
(* Properties.                                                             *)

(* "The quotas per provider and the global cap continue to be applied":    *)
(* over all the attempts of a job, whatever was interrupted or taken over. *)
CapsHoldAcrossAttempts ==
    /\ Cardinality(IdentitiesOf(ledger)) <= Total
    /\ \A p \in Providers : Cardinality(From(ledger, p)) <= PerProvider

(* A document is in the ledger only after its snapshot and its link: a     *)
(* crash in between can lose the entry, never the document.                *)
LedgerIsBacked == IdentitiesOf(ledger) \subseteq corpus

(* "The connectors that have not failed and whose collection is complete   *)
(* are not run again", and an interrupted one does not fetch what is in    *)
(* the ledger: neither by the attempt that holds the lease.                *)
Working(a) == work[a].pc \in {"discover", "fetch", "save", "record", "turn"}
NothingIsRepeated ==
    \A a \in Attempts :
        Working(a) /\ Owns(a) =>
           /\ checkpoint[work[a].at].version # work[a].build
           /\ (work[a].saving \cup ({work[a].doc} \ {None})) \cap ledger = {}

(* A job is done only when every configured provider is checkpointed, with *)
(* the connectors of the attempt that finished it.                         *)
DoneIsComplete ==
    queue.status = "done" =>
        \A p \in Configured : checkpoint[p].version = work[queue.attempts].build

(* The report of an attempt counts what the ledger holds, also for the     *)
(* providers whose count comes from the checkpoint of an earlier attempt.  *)
(* (Not so across a rollback: a checkpoint of this build may be older than *)
(* documents an interrupted attempt of another build has recorded.)        *)
ReportMatchesLedger ==
    \A a \in Attempts :
        /\ work[a].pc = "historiography" /\ Owns(a)
        /\ \A b \in 1 .. a : work[b].build = work[a].build
        => \A p \in Providers :
              work[a].report[p].persisted = Cardinality(From(ledger, p))

(* The metrics of an attempt agree with the checkpoints: a provider that   *)
(* was found healthy is checkpointed, and one in trouble is not, unless an *)
(* earlier or a later attempt completed it.                                *)
MetricsMatchCheckpoints ==
    \A p \in Providers :
        /\ (\E a \in Attempts : observed[p][a] = "healthy") => checkpoint[p].version # None
        /\ checkpoint[p].version # None =>
              \E a \in Attempts : /\ observed[p][a] \in {"healthy", "running"}
                                  /\ work[a].build = checkpoint[p].version

(* "Reserve the requested first sample for every provider that has not run *)
(* yet": at its first run a provider finds room for its fair minimum.      *)
FirstSampleIsReserved ==
    \A a \in Attempts :
        /\ work[a].pc = "discover" /\ work[a].calls = 0 /\ Owns(a)
        /\ \A b \in Attempts : b < a => observed[work[a].at][b] = "absent"
        => work[a].remaining >= FairMinimum

(* The job is a leased job: attempt a is to come until its claim, and over *)
(* when it is gone.  Module IngestQueue keeps the same promise for every   *)
(* job of the queue it has in full, which is why this module can do with   *)
(* the four columns.                                                       *)
PlaceOf(w) == IF w.pc = "idle" THEN "ahead" ELSE IF w.pc = "gone" THEN "over" ELSE "alive"
Places == [a \in 1 .. MaxAttempts |-> PlaceOf(work[a])]
L == INSTANCE LeasedJob WITH row <- queue, at <- Places
JobIsLeased == L!LSpec
=============================================================================
