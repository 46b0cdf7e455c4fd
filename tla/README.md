# Talaria: a verification project in TLA+

This directory holds TLA+ models of the stateful core of the Talaria engine
(`src/`, a Rust workspace, PostgreSQL and a few side processes): its ingestion
queue and pipelines, and the platform around them (publication, accounts,
interactions, quality commands, dumps). TLC checks them on small instances, and TLAPS
proofs of the most important properties hold for every value of the constants.

1. [The system](#the-system): inventory of its parts, and what is hard in each
2. [The modules](#the-modules): which module models which code, and how
3. [The runs](#the-runs): what each run asks, its bounds, what it shows
4. [Fairness](#fairness)
5. [The proofs](#the-proofs)
6. [What the models found](#what-the-models-found)
7. [Abstractions and limits](#abstractions-and-limits)
8. [Plan](#plan)

Short names of files used below: `ingest_jobs.rs`, `ingest_provider_checkpoints.rs`
and `ingest_provider_metrics.rs` are in `crates/talaria-store/src/`;
`person_events.rs` too; `routes/ingest.rs`, `corpus_ingest.rs` and
`person_ingest/`, `intuition.rs`, `auth.rs`, `interactions.rs`,
`claim_signals.rs`, `quality.rs`, `dump_ingest.rs` and `wiki_persist.rs` in
`crates/talaria-api/src/`; `persist.rs`,
`gating.rs` and `crawl_queue.rs` in `person_ingest/`; `users.rs`,
`user_interactions.rs`, `intuition_user_signals.rs` and `corpus_dump.rs` in
`crates/talaria-store/src/`; `publisher.ts` in `sidecar/intuition/`.

## The system

Talaria collects documents about a historical person, extracts dated facts,
gates them and serves a timeline and a map. An API process (any number of
replicas) answers HTTP requests and also runs the ingestion workers; PostgreSQL
is all that the replicas share.

| Part | State it keeps | Operations | Interacts with | Hard behaviour | What makes it correct |
|---|---|---|---|---|---|
| Durable ingestion queue (`ingest_jobs.rs`, migration 044) | `ingest_jobs`: status, attempts, owner token, lease, retry time, progress, report, error | `find_active`, `admit`, `exhaust_stale`, `claim_next`, `heartbeat`, `finish`, `retry_incomplete_providers` | HTTP admission, every replica's worker loop | two replicas on one row, lost replies, expired leases, crashes at every statement | one active job per lane and identity; at most three attempts; only the current owner ends a job; every job ends |
| Admission and workers (`routes/ingest.rs`) | HTTP requests in flight; per replica: permits, loop, executions, `IngestJobMap` | `start_lane_ingest`, `spawn_ingest_workers`, `execute_claimed_job`, `ProgressHandle`, `read_progress` | the queue; both pipelines | `select!` of pipeline and heartbeat; state captured at the claim and used hours later; a map keyed by job, not by execution | permits respected; stale executions stop; progress shown and stored is the current execution's |
| Corpus ingestion of an Agora job (`corpus_ingest.rs`) | in memory: saved documents, checkpoints read at the start, budget, report | resume, skip, budget, discover, fetch in batches, persist, record, checkpoint, report | connectors; checkpoints, ledger, metrics; the queue's lease | attempts that overlap, interruption at every statement, deployments between attempts | caps over all attempts; ledger after document; nothing done twice; `done` means complete |
| Checkpoints, ledger, metrics (`ingest_provider_checkpoints.rs`, `ingest_provider_metrics.rs`, migrations 045, 046) | three tables keyed by job and provider | fenced `record_document`, `complete_provider`, `begin_attempt`, `finish_attempt`, `ensure_lease` | the lease in `ingest_jobs` | writes of an attempt that has lost its lease | no write without the lease; metrics agree with checkpoints |
| Person pipeline: crawl queue and follow loop (`crawl_queue.rs`, `person_ingest/mod.rs`) | in memory: items, seen titles, next index; pages followed | `push`, `extend_from_*`, `mark_seen`, `sort_by_priority`, `pop` | Wikipedia, the participation harvest, the seed list | three sources find one title in any order; pages that cannot be read; one sort | the best pages within the budget are followed, none twice |
| Person pipeline: facts (`persist.rs`, `gating.rs`) | the gate context; tables `event_candidates`, `canonical_events`, `event_evidence`, `raw_documents` | resolve, collect, extract, ground, type, gate, persist | connectors, LLM, the queue (progress only) | **no fence**: a stale worker and its replacement write the same person; find-then-insert; crash between event and evidence | one active event per occurrence; one birth and death; evidence for each event; only Accept reaches the timeline |
| Intuition publication (`intuition.rs`, `talaria-store/src/intuition.rs`, `publisher.ts`) | `intuition_publications`, `intuition_term_bindings`; the chain | upsert, publish through a sidecar, mark, bind | one sidecar process per fact, the chain | a run dies and its sidecar does not; a transaction is mined late, or reverts; two runs share a triple | published is on the chain, and final; a report is backed |
| Accounts (`auth.rs`, `users.rs`) | challenges, users, identities, sessions | issue, verify and consume a challenge; resolve or create a user; sessions | browser wallet | racing logins of one challenge, or of a wallet without user; expiry | a challenge opens one session; one user per wallet |
| Interactions and claim signals (`interactions.rs`, `user_interactions.rs`, `claim_signals.rs`, `intuition_user_signals.rs`) | `user_interactions`, `intuition_user_signals` | `upsert_interaction`, `replace_claim_stance`, deletion, sync of a deposit | browser, the chain, the publication | concurrent requests of one user; READ COMMITTED; a row deleted while it is linked | one stance, never lost while it is replaced; a signal is the user's own deposit |
| Comments (migration 039) | comments, reactions, moderation states | insert, edit, soft delete, react | HTTP only | - | idempotence |
| Quality pipeline, legacy canonical events (`quality.rs`, `canonical_events.rs`, `talaria-quality`) | analysis runs, candidates, canonical events, claims | analyse, resume, assemble, reinforce, supersede a death | operator's CLI | no transaction: what a dead run left is taken up by the next; overlapping runs | resumption counts nothing twice and rejects nothing of its own |
| Dump ingestion (`dump_ingest.rs`, `corpus_dump.rs`, `wiki_persist.rs`, migration 020) | `corpus_dump_runs` (cursor, counters), `corpus_dump_documents`, `document_snapshots`, `document_fragments` | start, resume, read, filter, snapshot, fragments, row, cursor | operator's CLI, a file | no transaction per document; a run that dies anywhere, or is resumed twice; a failure that is swallowed | the cursor passes nothing unrecorded; an ingested document has its sentences |
| Rest of the dump path (`dump_*`, COSMOS, judge) | dump pages, sentences, judgments | batch commands | operator | long batches | offline and retired from the product path |
| Connectors, extractors (`talaria-sources`, `talaria-wikidata`, `talaria-text`) | none | discover, fetch, parse | providers | timeouts, rate limits | data, not control |
| Entities, places, media, corpus documents | master tables | single-statement upserts | all pipelines | - | idempotence |
| Agora graph, historiography, dossiers, visits, read API, CLI, web | - | queries, rendering, LLM text | - | - | - |

`PROJECT.json` lists each part with its files and status, and under `hazards`
every place of this code where something can go wrong that a test would hardly
reach, with the properties that watch it.

## The modules

### IngestQueue: the durable queue, end to end

`IngestQueue.tla` models the table, the admission path, the loops of all
replicas and the executions they spawn. One action is one SQL statement with
the in-process code up to the next `await`.

| Variable | Code |
|---|---|
| `job[j]` | the row of `ingest_jobs`. `lease` is `lease_until` relative to `now()`, `due` is `next_retry_at IS NULL OR <= now()`, `age` stands for `created_at`; `progress` and `report` name the execution that produced the stored JSON |
| `exec[t]` | the task spawned for the claim that drew token `t`: where `execute_claimed_job` is (`"wedged"`: in a tick that will not end), its `claimed.attempts`, and the result of the `select!` loop |
| `loop[r]` | between `acquire_owned` and `exhaust_stale` (`"sweep"`), or holding a permit before `claim_next` (`"claim"`) |
| `local[r][j]` | the entry of `IngestJobMap` on replica `r`: which execution wrote it last |
| `req[c]` | an HTTP request in `start_lane_ingest` |

| Actions | Code |
|---|---|
| `FindActive`, `Insert`, `Lookup`, `RequestError` | `start_lane_ingest` and `admit`; the partial unique index is the conflict of `Insert` |
| `Sweep`, `SweepError`, `Claim`, `ClaimNothing`, `ClaimError` | the loop of `spawn_ingest_workers`: `exhaust_stale`, `claim_next`, and their errors, committed or not |
| `Start`, `ReportProgress`, `OperationEnds` | `execute_claimed_job` up to the pipeline's return; `ProgressHandle` |
| `Heartbeat`, `HeartbeatRefused`, `HeartbeatError` | a tick of the `select!` loop that gets the map |
| `TickMeetsLockWait` | a tick that comes while the explorer pipeline is in the queue for the map: the arm of the tick waits behind a future that is not polled meanwhile. From then on nobody on the replica gets the map (`MapFree`) |
| `Requeue`, `Finish`, `FinishWithout`, `Cleanup` | the end of `execute_claimed_job` |
| `LeaseExpires`, `BackoffElapses`, `Crash` | time, and the death of a process |

A statement that fails may or may not have been committed; both are behaviours.
`ClaimNothing` and `NextInLine` give `FOR UPDATE SKIP LOCKED` its freedom: with
`n` replicas, up to `n - 1` older rows may be locked by others.

### IngestPromise: what the queue promises

The abstract specification, without leases, tokens, replicas or requests: a
submission per identity at a time, at most `MaxAttempts` tries, each submission
ends once. `IngestQueue` implements it under the mapping
`phase <- status, tries <- attempts, whose <- identity` (`P` in `IngestQueue`).
A takeover is a `Try` of a submission that is already running; `exhaust_stale`
is a `GiveUp` of a set, because one UPDATE ends many rows.

### LeasedJob: what a lease means to an attempt

The other abstract specification, of one job and its attempts: an attempt is to
come, alive or over; the next one gets the lease when the job is queued or the
lease has expired; only an attempt that is alive and holds a valid lease puts the
job back or concludes it; any other ends and leaves the row as it is; after the
last attempt the job is given up. Two modules implement it, each for what it
sees of a job:

- `IngestQueue`, for every job (`L(j)`, `JobsAreLeased`). Attempt `a` is the
  execution of the job's `a`-th claim: `LeaseOf` reads the owner's attempt number
  where the row has a token, `AttemptsOf` says where the execution is. Two
  replicas, sweeps, lost replies, crashes of a whole process and the executions
  of other jobs are all in the mapping.
- `CorpusIngest`, for its one job (`L`, `JobIsLeased`), where an attempt is a
  pipeline and the queue is four columns.

So the reduced queue that `CorpusIngest` works against is not a second opinion
about `ingest_jobs`: it is held to the contract that the queue in full is proved
to keep.

### CorpusIngest: what an attempt does

`CorpusIngest.tla` models one Agora job: the provider loop of
`run_corpus_ingest_inner` for each attempt, with the three recovery tables. The
queue is reduced to the columns that fence those tables (`queue`); attempts
overlap, because an execution that has lost its lease goes on until its next
fenced statement or heartbeat (`Abort`).

| Variable | Code |
|---|---|
| `checkpoint[p]` | `ingest_provider_checkpoints`: connector version, count in `metrics_json` |
| `ledger` | `ingest_job_documents` |
| `corpus` | `corpus_documents` with the subject's link: unfenced, idempotent |
| `observed[p][a]` | `ingest_provider_attempt_metrics.status` |
| `work[a]` | the locals of attempt `a`: `known` = `completed_docs`, `ids` = `persisted_ids`, `saved` = `completed_providers`, `remaining` = `provider_remaining`, `page` and `saving` the rest of the page and of the batch, `report` = `metrics.providers` |

A document is a model value; `Source[d]` is its provider and `Identity[d]` the
corpus document it is normalized to (two catalogues may offer the same one, so
the global cap counts identities and the provider's cap counts documents).
`Builds` are versions of the program: a deployment between two attempts changes
`connector_version()`.

### PersonPersist: what becomes of an extracted fact

`PersonPersist.tla` models `persist_fact_item` for the items of one person,
statement by statement, in executions that may overlap: nothing fences the
explorer lane, so an execution that lost its lease goes on next to its
replacement until its next heartbeat.

| Variable | Code |
|---|---|
| `event[e]` | a row of `canonical_events`: active or not, event type, occurrence key, explorer headline, `place_label`; `geom` (coordinates are named by the place they are of) and `pinned` (`map_eligible`). `by` is history: which execution inserted it |
| `candidate[f]` | `event_candidates` by fingerprint: status, `canonical_event_id` |
| `evidence` | `event_evidence`: which item is quoted for which event |
| `execution[w]` | the locals of `run_person_ingest_inner` and `persist_gated_item`: items still to persist, the current one with the coordinates found for it, whether it is accepted for the canon (`accept_canonical`), the event it is attached to, the `GateContext` flags, the items counted as inserted or reinforced, the events that `backfill_person_geocodes` has still to look up. `base` is history: the events that were there at its start |

| Actions | Code |
|---|---|
| `Start`, `Finish` | `quality_lifespan_years` at the start; the report |
| `Judge` | `ground_place_full` (given coordinates, or those of the label, if they are found), `judge_item` (gates, singleton gate, attribution) and `insert_person_candidate` |
| `FindSingleton`, `FindOccurrence`, `FindTitle`, `FindNearby` | the lookups, in the order of the code; each either attaches the item to a row or goes on to the next. `FindNearby` meets only rows that have coordinates |
| `Insert`, `FindAgain` | `insert_person_event`, which stores coordinates only for kinds that make a map pin (`MapLocus`), under its partial unique indexes, and the lookup after a violation of the singleton index |
| `Ground`, `GroundEvent` | `backfill_person_geocodes` at the end of a run: every active event with a label is looked up and located, museums too |
| `Enrich`, `InsertEvidence`, `Assemble` | `attach_evidence_to_existing`, or the last two alone after an insert |
| `StatementFails`, `Crash` | an error of any statement (fatal, or the end of a followed page), the death of the process |
| `Deactivate` | `deactivate_canonical_event` and the clean-up commands |

### CrawlQueue: which pages are followed

`CrawlQueue.tla` models `PriorityCrawlQueue` and the part of
`run_person_ingest_inner` that fills, sorts and empties it. It is sequential;
what is open is the input: what each page links to, which events the harvest
finds, which seeds there are, which pages can be read.

| Variable | Code |
|---|---|
| `items`, `nextIndex`, `seen` | the fields of `PriorityCrawlQueue`; a title stands for its lower-case key. `rank` is history: the order of discovery |
| `phase`, `language`, `wikiPages`, `followed` | where the function is, and its counters |
| `readable`, `events` | external: the titles whose page can be read; history: what the harvest offered |

| Actions | Code |
|---|---|
| `SubjectPage`, `SubjectPageFails` | an iteration of the loop over languages: `mark_seen`, links filtered, capped and pushed |
| `Harvest`, `LoadSeeds` | participation events, then seeds |
| `SortByPriority` | `sort_by_priority` |
| `FollowPage`, `SkipPage`, `FollowEnds` | an iteration of the follow loop. `followed` counts only pages that could be read; the pop that finds the budget spent drops its item |

### IntuitionPublication: a table, a sidecar and a chain

`IntuitionPublication.tla` models invocations of `intuition-publish` (and plan
and export, which stop after the first phase), the sidecar that each of them
spawns per fact, and the chain. A run and its sidecar are two processes: a run
that dies leaves its sidecar going, and a transaction that was sent may be mined
after everybody has stopped waiting for it.

| Variable | Code |
|---|---|
| `row[f]`, `bound[f]` | `intuition_publications` (status, vote triple) by bundle fingerprint; `intuition_term_bindings` |
| `run[r]` | the locals of `run_intuition_publish`: the facts it collected, the current one, what it has reported |
| `sidecar[r]` | where `publishDebate` is in its plan of terms, and its answer |
| `chain`, `sent` | external: the terms that exist; the create transactions |

| Actions | Code |
|---|---|
| `StartRun`, `PersistPending`, `AllPersisted` | `collect_facts`, then an upsert for every fact; a run that is not live ends here |
| `SpawnSidecar`, `MarkRetryable`, `MarkPublished`, `BindTerm` | the publish loop: spawn, wait, `mark_intuition_pin_failed` / `_failed` / `_published`, a binding per term |
| `PinAtoms`, `PinFails`, `CheckTerm`, `SendCreate`, `ReceiptArrives`, `VerifyTerm`, `SidecarFails` | `publisher.ts`: pin, then for each term look, create, wait, look again |
| `RunDies`, `SidecarDies`, `Mined` | any `?` or the death of a process; the chain |

### UserInteractions: stances, saves and deposits

`UserInteractions.tla` models the requests that write `user_interactions` and
`intuition_user_signals`, one SQL statement per action. `replace_claim_stance`
is a transaction under READ COMMITTED, so its locks and snapshots are in the
model: `gone` and `held` are the rows the transaction has deleted, and the row it
has updated or inserted, until `CommitStance` makes both visible; `Locked` and
`InsertWaits` are where PostgreSQL makes another statement wait.

| Variable | Code |
|---|---|
| `rowOf[i]` | the committed row with id `i` of `user_interactions` (ids are named by the request that inserts them) |
| `signal[t]` | the row of `intuition_user_signals` for transaction hash `t`; `link` is `interaction_id` |
| `ready` | claims whose publication is published; it only grows, which is `PublishedIsFinal` of the module above |
| `post[q]` | a request: the next statement, the row it wants, what it found. `alone` is history |

| Actions | Code |
|---|---|
| `Post`, `Sync`, `Drop` | the three routes after validation |
| `LookupSignal`, `VerifyDeposit`, `RecordSignal` | `sync_claim_signal` before and after the stance |
| `DeleteStarts`, `DeleteOther`, `SelectStance`, `UpdateStance`, `InsertStance`, `InsertRefused`, `CommitStance` | `replace_claim_stance`. The DELETE is two actions, its snapshot and the moment it gets the row |
| `FindOwn`, `TouchOwn`, `PutOwn`, `PutRefused`, `FindAfterConflict` | `upsert_non_stance`, without transaction |
| `DropOwned`, `PostFails`, `PublishClaim` | deletion with `ON DELETE SET NULL`; any failure; the publication |

### WalletAuth: challenges, users, sessions

`WalletAuth.tla` models `verify_wallet_challenge` statement by statement. A login
names the user it may insert and the session it may open.

| Variable | Code |
|---|---|
| `challenge[c]` | `wallet_auth_challenges` |
| `users`, `identity[w]` | committed rows of `users` and `user_identities` (its unique index is the function) |
| `session[l]` | `user_sessions` |
| `login[l]` | a request: the next statement, its challenge, the user it resolved |

| Actions | Code |
|---|---|
| `Issue`, `Submit`, `ReadChallenge`, `Consume` | `issue_wallet_challenge`; the reads and the one UPDATE that spends the challenge |
| `LookupUser`, `InsertUser`, `InsertIdentity`, `CommitUser`, `RollBack`, `RereadUser` | `resolve_or_create_evm_user`, with `ON CONFLICT DO NOTHING` waiting for the transaction that has the identity |
| `OpenSession`, `Revoke`, `SessionExpires`, `ChallengeExpires`, `LoginFails` | sessions, logout, time, failures |

### QualityPipeline: candidates that are judged again

`QualityPipeline.tla` models `run_quality_fixture` from the candidate on and
`run_quality_supersede_death`, statement by statement; neither is a transaction.

| Variable | Code |
|---|---|
| `status[c]` | `event_candidates.status` by fingerprint |
| `event` | `canonical_events` in the order of insertion: active, `source_count`, `superseded_by`. `sources` is history: the candidates that were counted |
| `quality[r]`, `correcting` | the locals of the runs and of the correction |
| `raced` | history: candidates that two runs had in hand at the same time |

| Actions | Code |
|---|---|
| `UpsertCandidate`, `ResumeCandidate` | `upsert_event_candidate`, `existing_candidate_action` |
| `ReadLifespan`, `Judge` | `quality_lifespan_years`, `apply_gates`: any verdict, but a second death is rejected |
| `LookForRivals`, `Abstain` | `abstain_if_competing_place` |
| `FindOccurrence`, `ReinforceEvent`, `FindSingleton`, `RejectSingleton`, `InsertEvent`, `InsertRefusedByIndex`, `MarkAssembled` | the assembly |
| `FindOldDeath` .. `MarkCorrection` | the correction: upsert, deactivate, insert, link, mark |
| `QualityDies`, `CorrectionDies` | any error or death: only the rows remain |

### DumpIngest: a file, its cursor and its fragments

`DumpIngest.tla` models `dump ingest` and `dump resume`: the invocations that work
on one run of one file, one SQL statement per action. Nothing keeps two of them
from resuming a run at the same time, and no transaction holds the statements of
a document together.

| Variable | Code |
|---|---|
| `dumpRun` | the row of `corpus_dump_runs`: status, `cursor_json` (a line) and, of `metrics_json`, `documents_read` and `failed` |
| `document[d]` | `corpus_dump_documents.status` by external id |
| `snapshot`, `fragment[d]` | `document_snapshots`; `document_fragments`, each with its kind, its ordinal, and `text`: which of the document's fragments it is |
| `ingest[i]` | the locals of an invocation: reader and counters (`now`), `existed` and `existing_frags > 0` (`had`), the next fragment to insert |
| `disturbed` | history: documents whose wiki fragments failed, whose inserts were cut short, or that two invocations had in hand |

| Actions | Code |
|---|---|
| `StartDump`, `ResumeDump`, `MarkRunning`, `FinishDump`, `SaveProgress` | `run_dump_ingest_with_config` and the end of each round of `persist_from_reader` |
| `ReadRecord`, `ReadNoMore`, `CheckDone` | `next_record` (lines that are no record are passed over), the limit, `--skip-existing` |
| `FilterDocument`, `FindSnapshot`, `InsertSnapshot`, `CountFragments`, `CountAgain`, `InsertSentence`, `UpsertDocument` | `persist_one_document` |
| `CountAllFragments`, `InsertWikiFragment`, `WikiFails` | `persist_wiki_fragments`, whose error is swallowed: the document goes on as plain text |
| `DocumentFails`, `MarkFailed`, `DumpDies` | the error of a document, counted and passed over; an error of the run, or the death of the process |

### Model-checking and proof modules

`MCIngestQueue`, `MCCorpusIngest`, `MCPersonPersist` and `MCCrawlQueue` declare
the model values of the configurations; `MCCorpusIngest` also defines
`SequentialNext`, which keeps attempts from overlapping in the run that goes deep
in other directions. `MCDocuments` puts these attempts next to the invocations of
a dump run, the other way documents come in.

`MCPlatform` puts `CrawlQueue`, `IntuitionPublication`, `UserInteractions`,
`WalletAuth` and `QualityPipeline` side by side. They share no variable (what
connects them is `ready`, above), so every interleaving of two of them is two
behaviours side by side (the same holds of `MCDocuments`): `part`, chosen in the
initial state, says which one moves, and the states of the components are added instead of multiplied. Runs,
sidecars, requests and logins are interchangeable, hence its `SYMMETRY`; the run
checks no liveness.

`IngestQueueProofs`, `CorpusIngestProofs`, `PersonPersistProofs`,
`CrawlQueueProofs`, `DumpIngestProofs` and `QualityPipelineProofs` hold the
theorems of the component they are named after; `AccountProofs` those of
`WalletAuth`, `UserInteractions` and `IntuitionPublication`, a part each; and
`PlatformProofs` carries those of five components over to the specification that
composes them, `MCPlatform!Spec`.

Operators commented `Mutant of X` are plausible bugs of `X` (a missing fence, an
off-by-one, a forgotten column). No specification uses them; for each property
`PROJECT.json` names the one under which TLC finds that property violated.

## The runs

| Run | Instance | Question and answer |
|---|---|---|
| `queue_takeover` | 1 job of either lane, 2 replicas that may both crash, 2 permits each, 4 tokens, 3 attempts | Can any order of crashes, expiries, lost replies and late executions break lease, attempts, outcome, permits, or rewrite a finished job? No |
| `queue_admission` | 2 requests, 2 identities, 2 Agora jobs of 2 attempts, 1 permit, 1 replica that crashes and comes back, fair | Is admission exclusive and are its answers true while jobs end between the statements of `admit`? Does the queue implement `IngestPromise`: is each step of two jobs a step of it or a stutter, and do both jobs end, neither starving the other? Yes |
| `queue_stale_stops` | 1 job of either lane, 2 replicas with 1 permit, one of which may crash for ever, 3 attempts, fairness of the heartbeat only | Is the stored progress never that of a replaced execution? Does an execution without its lease stop, even if its pipeline never returns, unless one of its replica is wedged? Is the job, seen by itself, a leased job? And does an Agora job end if, besides, the queue is served (`Fairness`, here the hypothesis of the property)? Yes, with one permit per replica, the default |
| `queue_wedged` | 1 explorer job, 1 replica, 2 attempts, the same fairness | Does it stop without that exception? **No**, see below |
| `queue_stale_view` | 2 replicas | Does a poll show the current execution's progress? **No**, see below |
| `queue_lost_entry` | 1 replica with 2 permits | Does an execution that owns its job keep its entry in the map? **No**, see below |
| `corpus_overlap` | 2 configured providers and one that is not, 3 documents, 2 attempts, 1 page | Do caps, ledger and resumption hold when a stale attempt and its replacement interleave? Yes |
| `corpus_pages` | corpus: 2 providers sharing a document, 2 pages, 2 builds, 2 attempts one after the other; dump: 2 invocations of a run over an article, a bad line and a note, one filtering, one with a limit and `--skip-existing` | Paging, stalled cursors, budgets: is the first sample reserved? Does `done` mean complete, and do the report and the metrics agree with the tables, after a deployment too? Is nothing the dump's cursor passed unrecorded, and has an ingested document its sentences? Yes |
| `person_overlap` | 2 births and 2 museums, one headline in common; 2 executions, each of one item or of a pair that can meet, 2 events; one followed page | Whatever overlaps, fails, crashes or is deactivated, is an assembled candidate quoted, is a report's count backed, and do duplicates and refused inserts come of the overlap alone? Yes |
| `person_quarantine` | 2 births, 1 execution | Does what was not attributed to the person stay off the map? **No**, see below |
| `platform` | publication: 2 runs of 2 debates that share their vote triple; interactions: 3 requests of 2 users, 1 claim, 1 deposit; accounts: 3 logins, 2 wallets, 2 challenges; crawl: 4 titles, 2 languages, cap 3; quality: 2 runs of 3 texts, 4 candidates, 1 correction | Is what is published on the chain and final, and a report backed? Is a stance never lost, a deposit true, an error only due to a race? One user per wallet, one session per challenge? Are the best pages followed? Does a repeated quality run count nothing twice and reject nothing of its own? Yes |
| `crawl_events` | 4 titles, 2 languages | Do participation events have High priority? **No**, see below |

Why the bounds are enough to be interesting. The queue's actions touch one row
(`ExhaustStale` apart), so one job shows every race on a row; what needs two is
order, starvation, admission and the sharing of a permit: `queue_admission`, where
two requests are the least for an insert to meet another's row. Two jobs and two
replicas together are beyond five minutes of TLC under fairness; safety is proved
for any number of both. The replicas of `queue_takeover` may both crash and are
interchangeable, hence its `SYMMETRY`.
Two replicas with two permits give four executions of one job at once. Four
tokens with three attempts let a claim's reply be lost and three executions
follow. In `CorpusIngest` two configured providers are the least for the reserve
of one to matter to the other; a third that is not configured is skipped by the
reserve but not by the division of the total; two pages are the least for a
cursor to stall; two attempts of two builds are the least for a checkpoint of
another version.
`Total = PerProvider = 2` and `Minimum = 1` make every `min` and every
saturating subtraction bind on some path. In `PersonPersist` two executions are
the least for a race and two events the least for a duplicate; its items share a
headline across event types, a fingerprint across occurrences, a place and a
page, and one of them lacks its place, so that each lookup is what decides on
some path.

In `platform`, two publication runs and two debates with a common triple are the
least for one run's answer to meet the other's row, and for a term to be created
by somebody else between a look and a transaction. Three requests are the least
for a stance to be replaced while a third request inserts or deletes; a second
user tells "of the same user" from "any". Three logins of two challenges are the
least for one challenge to be raced for while the wallet's user is raced for too.
Of the titles one is the subject, one is in the tier High, two in Medium of which
one is also an event and one an overview that is not pinned; a cap of three,
reduced by the subject pages, is less than the queue. The quality texts have two
candidates of one occurrence, and a death alone, assembled or not; two events is
the least for a correction to supersede one.

For the dump, an article with a section and two sentences is the least for a cut
between fragments and for a section to take a sentence's ordinal; a line that is
no record, a filtered record and a limit tell lines, records and rows apart; two
invocations are the least for a cursor to go backwards.

`CHECK_DEADLOCK FALSE` appears where the system really stops: a `CorpusIngest`
job, a dump run, a `PersonPersist` execution, a crawl, and the runs and requests of
`platform` end. The queue never stops: its loops poll.

## Fairness

`TickSpec` assumes of an execution what the runtime gives: the task is polled, the
`select!` loop delivers a tick of the interval, whoever waits for the map gets it
when his turn comes, and the statements that follow return. It does not assume
that the pipeline returns. Nor does it assume that a tick gets through: the arm
of the tick awaits `jobs.lock()`, and while it does the pipeline is not polled.
If the pipeline is in the queue of that lock (through its `ProgressHandle`), the
lock is handed to it and to nobody else. That is an action,
`TickMeetsLockWait`; afterwards the execution, and whoever needs the map of that
replica, is stuck (`MapFree` guards every access). So `StaleWorkerStops` says that
the heartbeat stops a stale worker unless an execution of its replica is wedged,
and `OldWorkerStops`, without the exception, is violated.

`Fairness`, which `FairSpec` assumes and which is the hypothesis of
`ServedIsConcluded`, adds for termination: the loop of a replica that stays up
runs; `exhaust_stale` and `claim_next` succeed in the end if tried for ever
(strong fairness: an attempt may fail each time, but not always); the pipeline
returns (connectors and fetches have timeouts); and the clock passes the
backoff, and the lease of an execution that is gone. That the pipeline returns
can only be assumed of one that is polled, so `ServedIsConcluded` is about Agora
jobs and `queue_admission` serves no others: their pipeline has no
`ProgressHandle`. With explorer jobs every replica may end wedged, and then no
job of it ends: it keeps its permits, its lease expires, and the job is taken
over only by a replica that is not. Leases of live executions are not made to
expire, nor are heartbeats made to succeed. Crashing replicas may crash for
ever; at least one stays up, or the only one comes back.

The components of `MCPlatform` have safety properties only: nothing in the code
restarts an operator's run or a user's request, so nothing need happen in the end.

## The proofs

Checked by TLAPS for every value of the constants, each component from the
assumption its module states and nothing else: the queue (`QueueAssumption`) for
every number of jobs, tokens, replicas, requests, permits and attempts; the
corpus of a job (`CorpusAssumption`) for every set of providers, documents and
builds, all caps and any number of attempts; the persistence
(`PersonAssumption`) for every set of items and every number of executions and
events; the publication, the accounts and the interactions
(`PublicationAssumption`, `WalletAssumption`, `InteractionAssumption`) for every
number of runs, logins and requests and every plan and deposit; the dump
ingestion (`DumpAssumption`) for every file, every number of invocations and any
options; the quality commands (`QualityAssumption`) for every number of runs,
texts and candidates; the crawl (`CrawlAssumption`) for every set of titles, all
lists and any cap. The composed specification is proved under the assumptions of
its five components together. TLC evaluates these assumptions in the runs.

Two of them say something of the data. `CorpusAssumption` has that `None` is
neither a build nor a document. `DumpAssumption` has that the sentences of a text
have different numbers, and that text which is not wikitext gives sentences
only, as they are numbered in `wiki_fragments.rs:46` and split by
`sentence_fragments` (`dump_ingest.rs:134`).

One theorem has a hypothesis of its own: `ProgressIsTheOwners` assumes one permit
per replica (`Workers = 1`, the default of `TALARIA_INGEST_WORKERS`). With two,
what it states is false (an execution and its replacement on one replica share
a map entry, see `queue_lost_entry` below).

| Theorem | Property |
|---|---|
| `IngestQueueProofs!TypeCorrect` | `TypeOK`, in no run |
| `LeasesAreConsistent` | `LeaseContract` |
| `AttemptsAreBounded` | `NoFourthReplay` |
| `OutcomesAreLatest` | `OutcomeFromLatestClaim` |
| `LeasesProtect` | `LeaseProtectsOwner` |
| `RecordsAreFinal` | `ConcludedIsFinal` |
| `AdmissionIsExclusive` | `OneActivePerIdentity` |
| `AnswersAreTrue` | `AdmissionContract` |
| `QueueKeepsItsPromise` | `P!PSafe`, the safety part of `ImplementsPromise` |
| `JobsKeepTheLease` | `JobsAreLeased` |
| `EachJobIsLeased` | `L(j)!LSpec` for each job, the specification of `LeasedJob` |
| `PermitsAreRespected` | `PermitsRespected` |
| `ProgressIsTheOwners` | `StoredProgressIsOwners`, if `Workers = 1` |
| `CorpusIngestProofs!CorpusTypes` | `TypeOK` |
| `LedgerEntriesAreBacked` | `LedgerIsBacked` |
| `CapsHold` | `CapsHoldAcrossAttempts` |
| `NothingSavedIsRepeated` | `NothingIsRepeated` |
| `DoneJobsAreComplete` | `DoneIsComplete` |
| `MetricsAgree` | `MetricsMatchCheckpoints` |
| `ReportsAreTrue` | `ReportMatchesLedger` |
| `FirstSamplesAreReserved` | `FirstSampleIsReserved` |
| `JobKeepsTheLease` | `JobIsLeased`, the specification of `LeasedJob`; in no run |
| `PersonPersistProofs!TypeCorrect` | `TypeOK` |
| `AssembledCandidatesAreBacked` | `AssembledIsBacked` |
| `TalliesAreBacked` | `TallyIsBacked` |
| `DuplicatesComeOfRaces` | `DuplicatesNeedARace` |
| `RefusalsComeOfRaces` | `RefusalNeedsARace` |
| `AccountProofs!AuthIsSound` | `AuthInv` |
| `AuthTypes` | `AuthTypeOK`, part of `PlatformTypeOK` |
| `WalletHasOneUser` | `OneUserPerWallet` |
| `ChallengeIsSpentOnce` | `ChallengeOpensOneSession` |
| `PublicationIsSound` | `PubInv` |
| `PublicationTypes` | `PubTypeOK`, part of `PlatformTypeOK` |
| `ChainBacksRows` | `PublishedIsOnChain` |
| `RowsBackReports` | `ReportIsBacked` |
| `PublishedStays` | `PublishedIsFinal` |
| `InteractionsAreSound` | `ActInv` |
| `InteractionTypes` | `ActTypeOK`, part of `PlatformTypeOK` |
| `SignalsAreDeposits` | `DepositsAreTrue` |
| `StanceIsKept` | `StanceNeverLost` |
| `OneStancePerClaim` | the unique indexes, stated in the theorem |
| `ErrorsComeOfRaces` | `ErrorNeedsARace` |
| `DumpIngestProofs!DumpTypes` | `DumpTypeOK`, in no run |
| `DumpCovers` | `CursorIsCovered` |
| `IngestedAreWhole` | `IngestedIsWhole` |
| `QualityPipelineProofs!QualityTypes` | `QualityTypeOK`, part of `PlatformTypeOK` |
| `RetriesCountOnce` | `RetriesNeverRecount` |
| `OwnEventIsNoRival` | `OwnEventNeverRejects` |
| `CrawlQueueProofs!CrawlInvariant` | `CrawlInv` |
| `CrawlTypes` | `CrawlTypeOK`, part of `PlatformTypeOK` |
| `FollowingTheBest` | `FollowsTheBest` |
| `PlatformProofs!PlatformIsItsParts` | the specifications of the five components |
| `PlatformTypes` | `PlatformTypeOK` |
| `PlatformIsCorrect` | every other property of the run `platform` |

### The queue

`TypeOK` is not inductive: an execution that is past `"unused"` must have a job
and a replica for its updates to stay in the types. `TypeInv` adds that
(`Placed`). The rest of `IngestQueueProofs` is in layers.

1. *Steps.* Every action changes rows of the table in one of a few ways (insert,
   claim, progress, requeue, conclude, give up, time) and executions in one of a
   few ways (to be wedged is one of them, and the permit stays with it).
   `RowStep` and the lemmas on executions reduce the twenty-odd
   actions to these once, so that the invariants are not proved action by
   action.
2. *The invariant.* None of the properties is inductive alone. `QueueInv` is:
   - `SoundRow`: each row by itself: running iff owned iff leased, a queued row
     has an attempt left, done iff it has a report;
   - `Backed`: the owner of a row is an execution of that job with the row's
     attempt number, so a row that is owned by `t` has not been claimed since;
   - `Counted`: `attempts` is the number of executions of the job;
   - `Numbered`: the attempt number of an execution is between 1 and the row's,
     and an execution whose result is `lease_lost` is not the owner;
   - `Distinct`: executions of one job have different numbers.

   `Backed` and `Distinct` carry the fencing argument: the fence compares tokens,
   the properties speak of attempts, and only because tokens are fresh and
   numbered does "the token matches" mean "this is the latest claim".
   The lease properties follow from `AlwaysQueueInv`; the two action properties
   also from `RowStep`. `AdmissionIsExclusive` adds one step of its own: a row
   that is active afterwards and was not inserted by the step was active before,
   with the same identity, and a row is inserted only when no active row has its
   identity.
3. *Admission.* `AdmissionInv` adds what a request knows of the row it met
   (`Asked`): the row exists and has the request's identity, which never change
   once a row is there, and a request on the `RowNotFound` path met a row that has
   ended, which stays so (`RecordsAreFinal`). A row is inserted once, hence
   `ToldOnce`.
4. *The refinement.* `QueueKeepsItsPromise` maps each step to one of
   `IngestPromise`: an insert is a submission, a claim is a try, `exhaust_stale`
   gives up all the rows it finds at once, a settling row ends, and everything
   else stutters. It needs `QueueInv` (a row that ends was tried, and a
   requeued one has a try left) and `Asked` (what is submitted has an identity).
5. *The lease.* `JobsKeepTheLease` maps each step, for each job, to a step of
   `LeasedJob` or a stutter. The row is `RowStep` again; what is new is the
   executions. `Mover` says that a step that changes the table moves one
   execution at most (a crash moves many and changes no row), so that a claim
   brings up its own attempt only, and an execution that settles its job is the
   one that moves. `Attempted` reads `AttemptsOf` off the executions: by
   `Distinct` an attempt number names one execution, and by `Numbered` the next
   number names none. `AliveBefore`: no execution that is over comes back.
6. *Permits and maps.* `PermitInv`: the live executions on a replica and the
   permit in the hand of its loop are at most `Workers`. A claim turns the loop's permit into a live execution; no other step adds one. `ProgressInv` adds that an
   entry of a replica's map was written by a live execution of that job on that
   replica (`Entry`). With one permit such an execution is the only one there, so
   the heartbeat that its owner sends reads the owner's entry, or none.

### The corpus of a job

`CorpusIngestProofs` first classifies the steps of an attempt (`Effect`: entered,
resumed, skipped, started, recorded, persisted, completed, ended and a few
quiet ones), then proves `TypeInv` and on top of it one invariant per question.

- `LedgerInv` holds the fencing argument. `Fence` says that while another attempt
  takes a step nothing that the fence protects moves under the one that holds
  the lease. Hence `Fenced`: what that attempt remembers is still so, the ledger
  and the checkpoints it has yet to look at. `Within` is the arithmetic of the
  budget: what an attempt knows to be saved and what it has in hand stay within
  the caps, and `remaining` never exceeds what the provider may still take. For
  the attempt that holds the lease what it knows is the ledger; one that lost it
  may have in hand what no longer fits, but cannot record it.
  `CapsHoldAcrossAttempts`, `LedgerIsBacked` and `NothingIsRepeated` follow.
- `DoneInv`: the attempt that holds the lease has seen a checkpoint of its own
  build for every provider that it is past and reports as healthy, and it
  reaches its conclusion with a report only if all are.
- `MetricsInv`: an attempt writes in its own column of the metrics only, and a
  checkpoint has a witness there, the attempt that completed it, which may have
  died between the two statements (`Witness`).
- `ReportInv`: the counts of the provider that is being worked on are those of
  the attempt's own copy of the ledger; for the providers it is past they are
  the ledger's as long as all attempts run one build.
- `SampleInv`: the ledger, what the owner may still add, and the fair minimum of
  every provider that no attempt has yet observed fit into the total. Providers
  are run in order, so the provider that starts now is observed last.

- `JobKeepsTheLease` needs the types only, in which it is said that attempts
  beyond the counter have not started and that the owner of a running job is the
  last attempt. A step within the pipeline writes nothing into the row (`Goes`).

### The crawl

`CrawlQueueProofs` is the one proof here that needs induction over data: the
queue is built by folds of `push` over lists of any length, and then sorted.
The library states induction with operators as parameters, which the installed
provers cannot instantiate; what it says about well-foundedness is first-order.
`LeastElement` and `Induction` follow from it (< has no descending chain, so a
set with 0 that is closed up to `n` has `n`), and from these:

- `FoldExists`, `ExtendSteps`, `OfferType`: what `FoldLeft` computes is the last
  of a sequence of queues in which each is `Push` of the one before, so that
  anything `Push` preserves a fold preserves (`ExtendFinds`), and what is offered
  is followable and within the cap;
- `SortExists`: a sequence whose items differ in rank has a permutation that puts
  it in the order of tier and rank, by induction on the length of the part that is
  sorted, with the greatest item last (`Maximum`). So the `CHOOSE` of `Sorted`
  denotes one, and `SortedQueue` says that nothing is lost or doubled by it.

`CrawlInv` has the types, that no title is in the queue twice (`Distinct`), that up to
the sort ranks are positions and nothing is popped (`Discovering`), the order
from then on (`Following`), and that the pages followed are those popped that
could be read (`Budget`); the last pop, which drops an item when the budget is
spent, is why the count is stated for the whole queue only at the end.

### The composition

`PlatformProofs` first shows that a behaviour of `MCPlatform!Spec`, in which one
part moves, is a behaviour of each part by itself: the parts share no variable
(`ready`, by which interactions depend on the publication, is
`UserInteractions`' own, and grows as it likes). The theorems of the parts then hold of the
whole, for every instance of each and not only for those of the run.

### The person pipeline

`PersonPersistProofs` has one lemma per action (the lookups share `SearchStep`)
that says what the action does in terms of `Acted`: other executions keep their
locals, and either every event is kept but for where it is (`Placement`) and
whether it is active, or exactly one is inserted by the acting execution. `PersonInv` is:

- `Based`: the events there were when an execution started are still stored;
- `Authored`: who inserted an event has started, so that its `base` is fixed;
- `LookedUp`: past a lookup, every active event that would have matched is
  another execution's and newer than this execution's start (`Unseen`). This is
  what the order of the lookups buys, and all that an insert can rely on:
  `DuplicatesNeedARace` and `RefusalNeedsARace` follow from it;
- `Quoted`: a target is stored, quoted events are stored, and at `"assemble"` the
  quote is there, which is the order evidence-before-mark of the code;
- the properties themselves.

### Accounts, publication, interactions

`AccountProofs` proves `AuthInv`, which has what a login knows at each place
(`Sound`), that users and identities come in pairs (`Paired`), that at most one
transaction at a time is about to commit an identity of a wallet
(`CommitsAlone`), and that a consumed challenge was consumed by one login
(`Spent`). `CommitsAlone` is the unique index together with the wait of
`ON CONFLICT`: without it the identity written by `CommitUser` could replace
another one. `Spent` is needed because a session is opened several statements
after its challenge was consumed.

It proves `PubInv` of the publication. What is durable only grows: the
chain, the bindings, and the set of published rows. So whatever a process has
seen there stays true, and `SidecarOK` and `RunOK` say what it has seen: a
sidecar at term `k` has seen terms `1 .. k - 1` on the chain, one that answered
`published` has seen them all, and a run that is binding has a published row and
has bound the terms before `b`. `RunStaysOK` and `SidecarStaysOK` say once that
such knowledge survives the steps of others, so that each action is a matter of
the one process that moves.

Of the interactions it proves `ActInv`: a row appears once and then only goes
(`RowsOK`, with the rows locked by different transactions disjoint), and what a
request found is still that row, or gone (`RequestOK`). `DepositsAreTrue` is part
of it: the link of a signal is safe because the foreign key makes an insert wait
for a transaction that is deleting the row. `StanceIsKept` then has one case that
matters, `CommitStance`: the transaction that deletes the other stance holds the
one it puts in its place.

`ErrorNeedsARace` needs `RaceInv` on top of it. `OneRow` is what the unique indexes
say, also of a row that is inserted and not yet committed: it collides with
nothing its own transaction sees and with no other uncommitted row. `AloneOK` is
what a request that is alone has read, which is still so because a user's rows
change by his own requests only (`OnlySelf`): what it found to update is there,
and when it inserts nothing is in the way. `OneStancePerClaim` is `OneRow` for
the committed rows.

### The dump and the quality commands

`DumpIngestProofs` strengthens `CursorIsCovered` to every cursor there is, the saved
one and those in the invocations: each has counted the records it has passed,
and of these at most as many lack a row as are counted as failures, not counting
the document that the invocation has in hand (`Pending`, `Counted`). A row never
goes away, so what one invocation does never uncovers another's cursor; that is
why invocations may overwrite each other's cursor, backwards too, and a resumption
may start from any of them.

`WholeInv` is for `IngestedIsWhole`. The fragments stored for a document are those
of a beginning of its text (`Extent`): none, all, or the part that an invocation
still at work has inserted. Inserts that are repeated by another invocation, or
after one died, fall on the same rows, since a row is found by kind and number.
Wikitext is different: its fragments are inserted only if none is stored yet, and
sections are not told apart, so that two invocations at work on one text need
the exception of the property (`disturbed`). `Clean` puts this together with the row's status, `Placed` says what
the place of an invocation means for the text in its hand.

`QualityPipelineProofs` proves `QualityInv`. `RowOK` bounds the count of an event by
the number of its sources, unless a source was raced for; `HandOK` says what a
run relies on of the candidate that it has in hand, if no other run has had it at
the same time: that it is not decided yet, that its own event is not in the way,
and that a candidate whose link was inserted afresh is in no event's sources,
so that counting it is due. What a step writes concerns
the candidate in hand only (`Writes`), so other runs' `HandOK` survives unless the
candidate is the same, and then it is `raced`.

### Model-checked only

- Everything under fairness is out of the prover's reach: the liveness part of
  `ImplementsPromise`, `ServedIsConcluded` and `StaleWorkerStops`.
- Every safety property of every passing run is stated by a theorem. The types of
  the queue and of the dump and `JobIsLeased` are the other way round, proved and
  in no run.
- The violations below are counterexamples of TLC.

## What the models found

- **A tick can wedge its execution, and its replica's map** (`queue_wedged`).
  `ingest_jobs.rs` says of a refused heartbeat that the old worker MUST stop
  processing. The tick first awaits `jobs.lock()` inside its `select!` arm
  (`routes/ingest.rs:914`). If the explorer pipeline is already waiting for that
  lock, behind a poll or another execution, the lock goes to a future that is not
  polled, and the arm waits for ever: no heartbeat is sent, the lease expires, the
  execution never notices, keeps its permit, and every later access to the map
  on that replica (polls of running jobs, other executions) waits as well.
- **A poll can show a replaced execution's progress** (`queue_stale_view`).
  `docs/performance/persistent-ingest-jobs.md` says that the status endpoints use
  the table as the source of truth for progress snapshots; `read_progress`
  prefers the replica's own map entry while the row is running, also when the
  row runs on another replica.
- **A replaced execution removes its replacement's map entry**
  (`queue_lost_entry`). `execute_claimed_job` ends with `jobs.remove(&id)`. With
  two or more permits both executions can be in one replica. In the run the
  old one's finish fails, its lease expires, the new one is claimed and inserts
  its entry, and then the old one's cleanup removes it; the new one's
  `ProgressHandle` updates nothing from then on and its heartbeats store the default
  progress. For the same reason `StoredProgressIsOwners` holds with one permit
  per replica only.

None of these touches the queue's safety: the map is never used for admission or
recovery. The first touches its liveness.

- **A rejected item can put its place on the map** (`person_quarantine`).
  `README.md` says that NeedsReview and Reject never appear on the timeline or
  map. A birth or death rejected because there is one already is attached to
  that one, whatever its attribution (`singleton_reject` in `persist.rs`): if the
  event has no place it takes the rejected item's, with the coordinates, and the
  candidate is marked assembled.
- **A participation event can be queued as Medium** (`crawl_events`). A comment in
  `person_ingest/mod.rs` and `docs/CRAWL_PRIORITY.md` give such events the tier
  High. `push` keeps the tier with which a title was first found, and the
  subject's own pages are read before the harvest: in the run a palace that one
  of them links to stays Medium, and may fall out of the budget.

The other components behave as their comments say, with these qualifications,
which the properties carry: a quality candidate can be counted twice only when
two runs have it in hand at the same time (`RetriesNeverRecount`), and an upsert
of an interaction can fail on what it finds only when the same user has another
request under way (`ErrorNeedsARace`).

## Abstractions and limits

- A statement is atomic. For `INSERT .. SELECT .. FROM ingest_jobs` under READ
  COMMITTED the fence is read in the statement's snapshot and takes no lock on
  the job's row, so a claim could commit between that read and the insert; the
  model does not have this window of one statement.
- Time is relative: a lease is valid or expired, at any moment; that it is
  renewed every 15 s and lasts 90 s is not used.
- `local` has one writer per entry; the fields of `IngestProgress` are not told
  apart. The stored progress of a job that has ended is not tracked.
- The result of a pipeline is any of the results its lane can produce. `entity_id`
  and the contents of reports are left out.
- `CorpusIngest` treats the failures of a batch before its documents are saved
  (the code interleaves them in page order; the status of the provider is local
  until the provider ends). A page does not list a document twice.
- `ReportMatchesLedger` is stated for attempts that all ran the same build: after
  a rollback, a checkpoint of the restored build may be older than documents
  that an interrupted attempt of the other build has recorded.
- `PersonPersist` gives the items of an execution in any order and any
  selection (extraction is a model's or a rule's, and changes between runs),
  and the gates other than singleton and attribution any verdict that `Verdicts`
  allows for the item (in the run every verdict occurs, not for every item).
  Coordinates are those an item's source gives, or those of its label, if they are
  found; they are named by their place, and nearness is equality. That an event of
  a kind without map pin has coordinates only after a backfill, or an enrichment, is
  in the model: until then a second museum at one place is inserted. The audit
  trail of places and the command that resolves them later are not. The lookup by
  event fingerprint is that by occurrence, of which it is a function. An insert
  that is committed and whose reply is lost is `Insert` followed by
  `StatementFails`. Events are those of `pipeline = 'person'` and the indexes of
  migration 027 are there.
- `CrawlQueue` is given the tier of a title, as `classify_link_priority` computes
  it; the tier `from_wikidata` gives is used by no caller. The keys `lang:title`
  that `mark_seen` also adds never meet another key. An error of the whole crawl
  ends the run and persists nothing; it is not modelled.
- `IntuitionPublication` gives a debate its terms in the order in which the sidecar
  ensures them; what a transaction costs, and predicate atoms, which are fixed and shared by all, are left out.
  Fingerprints and the graph that a fact becomes are the constants `Facts` and
  `Plan`. The results of a run that died stay as history.
- `UserInteractions` leaves out the visibility of a row, notes and target kinds
  other than claims. A deposit names its claim: two claims that share a vote
  triple would share deposits. A sync of a known transaction brings the stance up
  to date without verifying the deposit again, as the code does.
- `WalletAuth` gives a login one user and one session to insert, named by the
  login. The signature and the message may be refused at any time; how they are
  checked is left out.
- `QualityPipeline` gives gates any verdict but for a second death, and the claims
  of Lot E any competing place. `OwnEventNeverRejects` is about a candidate as long
  as it is accepted: if the run that resumes it abstains, because a competing place
  is known by then, it is judged again by the next, and its own event may reject
  it. A crash between the insert of a candidate and
  `reinforce_quality_event` loses the reinforcement; between the three statements
  of a correction it leaves no active death until the correction is repeated.
- `DumpIngest` has one run of a file that does not change (a changed one is refused
  by its hash); an external id that occurs twice has the same text. Sections stand
  for infoboxes too, whose inserts are the same. The options belong to the
  invocation, not to the run: `dump resume` has none, so that it takes in what the
  filter of the interrupted invocation excluded. `IngestedIsWhole` excludes what is
  in `disturbed`, because the code does not repair it: a document whose inserts
  were cut after the first sentence stays cut, and one whose wiki fragments failed
  may have sections stored as sentences.
- Locals are reset when a run or request ends, except what a property reads.
- Bounds of the models, not of the code: `JobIds`, `Tokens`, `Requests`, `Runs`,
  `Posts`, `Logins`, `Challenges`, `Txs`, `QualityRuns` (finite supplies of fresh
  keys, tokens, requests and runs), `MaxPages` (pages asked for), `MaxEvents`, `Extracts`
  (what a run of the extractors may produce), `MaxQualityEvents`, `Ingests`.

### Not modelled

- *Sources, extraction, Lot E, dossiers, display texts* (`talaria-sources`,
  `talaria-wikidata`, `talaria-text`, `ingest.rs`, `lot_e.rs`, `llm.rs`,
  `narrative_dossier.rs`, `display_i18n.rs`): HTTP, parsing, prompts and text.
  Their control is sequential, what they write is written by idempotent upserts,
  and what makes them right is the data.
- *The rest of the dump path* (index, extraction, COSMOS, judge, mining): batch
  commands of an operator, one at a time, retired from the product path.
- *Comments*: single statements on rows that are never removed.
- *Entities, places, media, corpus documents*: single-statement upserts;
  `CorpusIngest` uses one of them as an idempotent step.
- *Read API, CLI, web, visits, graph*: queries and rendering.

## Plan

Done: `IngestQueue`, `IngestPromise`, `CorpusIngest`, `PersonPersist`,
`CrawlQueue`, `IntuitionPublication`, `UserInteractions`, `WalletAuth`,
`QualityPipeline`, `DumpIngest`, `LeasedJob`; the proofs of every safety property
of these, of the safety part of the queue's promise, and that the queue and the
corpus of a job both implement a leased job.

Theorems left: that `IngestQueue` and `CorpusIngest` composed, with the pipeline of
the one run by the executions of the other, keep what each is proved to keep by
itself. `LeasedJob` is the contract between them; what is not written is the module
that joins their steps.

Modules left: comments, if they come to have more than single statements; the
legacy lane of Lot E, if it comes to be run next to the quality commands.

Runs are limited to what distinguishes questions: a new module brings one run of
its own, and properties that one instance can decide together share it.
