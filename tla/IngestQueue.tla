---------------------------- MODULE IngestQueue ----------------------------
(***************************************************************************)
(* The durable ingestion queue of the Talaria API: the `ingest_jobs` table *)
(* shared by every API replica, the HTTP admission path, the worker loop   *)
(* of each replica and the executions those loops spawn.                   *)
(*                                                                         *)
(* One action is one SQL statement (PostgreSQL makes each of them atomic)  *)
(* together with the in-process code up to the next await.  A statement    *)
(* whose reply is an error may still have been committed: both outcomes    *)
(* are behaviours of the model.                                            *)
(***************************************************************************)
EXTENDS Naturals, FiniteSets

CONSTANTS
    JobIds,       \* primary keys the model may hand out
    Tokens,       \* owner tokens (one fresh Uuid per claim)
    Identities,   \* (lane, identity_key) pairs
    Corpus,       \* the identities of the Agora lane: their failures may be retryable, and
                  \* their pipeline has no ProgressHandle
    Replicas,     \* API processes
    Crashing,     \* the replicas that may crash; the others stay up
    Requests,     \* HTTP ingestion requests
    Workers,      \* TALARIA_INGEST_WORKERS: permits per replica
    MaxAttempts,  \* MAX_INGEST_ATTEMPTS
    None

ASSUME QueueAssumption ==
    /\ Workers \in Nat \ {0}
    /\ MaxAttempts \in Nat \ {0}
    /\ Corpus \subseteq Identities
    /\ Crashing \subseteq Replicas
    /\ IsFiniteSet(JobIds)
    /\ None \notin JobIds \cup Tokens \cup Identities \cup Replicas

VARIABLES
    job,    \* the ingest_jobs table
    exec,   \* exec[t]: the execution spawned by the claim that drew token t
    loop,   \* where each replica's polling loop is
    local,  \* local[r][j]: which execution last wrote job j's entry in replica r's IngestJobMap
    req     \* the HTTP requests
vars == <<job, exec, loop, local, req>>

Status == {"absent", "queued", "running", "done", "failed"}
Failure == {"attempts_exhausted", "retryable", "pipeline", "lease_lost", "heartbeat_failed"}
Result == {"none", "report", "retryable", "pipeline", "lease_lost", "heartbeat_failed"}

(* lease_until is kept relative to now(): "valid" is in the future,        *)
(* "expired" in the past.  due is `next_retry_at IS NULL OR <= now()`.     *)
(* progress and report name the execution that produced the stored JSON;   *)
(* None is the default progress, and stands for it once the job has ended. *)
Row == [identity : Identities \cup {None}, status : Status, attempts : Nat,
        owner : Tokens \cup {None}, lease : {"none", "valid", "expired"},
        due : BOOLEAN, age : Nat, progress : Tokens \cup {None},
        report : Tokens \cup {None}, error : Failure \cup {"none"}]

Execution == [job : JobIds \cup {None}, replica : Replicas \cup {None}, attempt : Nat,
              pc : {"unused", "claimed", "running", "wedged", "requeue", "finish", "cleanup",
                    "gone"},
              result : Result]

Request == [pc : {"idle", "insert", "lookup", "answered", "raced", "db_error"},
            identity : Identities \cup {None}, job : JobIds \cup {None}, created : BOOLEAN]

TypeOK ==
    /\ job \in [JobIds -> Row]
    /\ exec \in [Tokens -> Execution]
    /\ loop \in [Replicas -> {"sweep", "claim"}]
    /\ local \in [Replicas -> [JobIds -> Tokens \cup {None}]]
    /\ req \in [Requests -> Request]

NoRow == [identity |-> None, status |-> "absent", attempts |-> 0, owner |-> None,
          lease |-> "none", due |-> TRUE, age |-> 0, progress |-> None,
          report |-> None, error |-> "none"]
NoExecution == [job |-> None, replica |-> None, attempt |-> 0, pc |-> "unused",
                result |-> "none"]

At(pc, i, j) == [pc |-> pc, identity |-> i, job |-> j, created |-> FALSE]

Init ==
    /\ job = [j \in JobIds |-> NoRow]
    /\ exec = [t \in Tokens |-> NoExecution]
    /\ loop = [r \in Replicas |-> "sweep"]
    /\ local = [r \in Replicas |-> [j \in JobIds |-> None]]
    /\ req = [c \in Requests |-> At("idle", None, None)]

Active(j) == job[j].status \in {"queued", "running"}
Concluded(j) == job[j].status \in {"done", "failed"}
HasActive(i, j) == Active(j) /\ job[j].identity = i
Rows == {j \in JobIds : job[j].status # "absent"}

-----------------------------------------------------------------------------
(* Admission: start_lane_ingest and admit.                                 *)

(* The fast path: SELECT the active job of this lane and identity.         *)
FindActive(c, i) ==
    /\ req[c].pc = "idle"
    /\ \/ \E j \in JobIds :
            /\ HasActive(i, j)
            /\ req' = [req EXCEPT ![c] = At("answered", i, j)]
       \/ /\ \A j \in JobIds : ~HasActive(i, j)
          /\ req' = [req EXCEPT ![c] = At("insert", i, None)]
    /\ UNCHANGED <<job, exec, loop, local>>

NewJob == CHOOSE j \in JobIds : job[j].status = "absent"
NewRow(i) == [NoRow EXCEPT !.identity = i, !.status = "queued",
                           !.age = Cardinality(Rows) + 1]

CreatedIn(i, j) == [pc |-> "answered", identity |-> i, job |-> j, created |-> TRUE]

(* Mutant of Insert: no unique index, the fast path alone deduplicates.    *)
InsertUnindexed(c) ==
    /\ req[c].pc = "insert"
    /\ \E j \in JobIds : job[j].status = "absent"
    /\ job' = [job EXCEPT ![NewJob] = NewRow(req[c].identity)]
    /\ req' = [req EXCEPT ![c] = CreatedIn(req[c].identity, NewJob)]
    /\ UNCHANGED <<exec, loop, local>>

(* INSERT .. ON CONFLICT DO NOTHING against the partial unique index.  The *)
(* colliding row is remembered in req[c].job (no code variable): it is     *)
(* the one the comment on the RowNotFound path speaks of.                  *)
InsertConflict(c) ==
    \E j \in JobIds :
        /\ HasActive(req[c].identity, j)
        /\ req' = [req EXCEPT ![c] = At("lookup", req[c].identity, j)]
        /\ UNCHANGED job

InsertRow(c) ==
    /\ \A j \in JobIds : ~HasActive(req[c].identity, j)
    /\ \E j \in JobIds : job[j].status = "absent"
    /\ job' = [job EXCEPT ![NewJob] = NewRow(req[c].identity)]
    /\ \/ req' = [req EXCEPT ![c] = CreatedIn(req[c].identity, NewJob)]
       \/ req' = [req EXCEPT ![c] = At("db_error", req[c].identity, None)]

Insert(c) ==
    /\ req[c].pc = "insert"
    /\ InsertConflict(c) \/ InsertRow(c)
    /\ UNCHANGED <<exec, loop, local>>

(* Mutant of Lookup: an INSERT that returns no row is RowNotFound.         *)
LookupNothing(c) ==
    /\ req[c].pc = "lookup"
    /\ req' = [req EXCEPT ![c] = At("raced", req[c].identity, req[c].job)]
    /\ UNCHANGED <<job, exec, loop, local>>

(* After a conflict: the separate find_active; none means RowNotFound.     *)
Lookup(c) ==
    /\ req[c].pc = "lookup"
    /\ \/ \E j \in JobIds :
            /\ HasActive(req[c].identity, j)
            /\ req' = [req EXCEPT ![c] = At("answered", req[c].identity, j)]
       \/ /\ \A j \in JobIds : ~HasActive(req[c].identity, j)
          /\ req' = [req EXCEPT ![c] = At("raced", req[c].identity, req[c].job)]
    /\ UNCHANGED <<job, exec, loop, local>>

(* Any of the three statements fails: HTTP 500.                            *)
RequestError(c) ==
    /\ req[c].pc \in {"idle", "insert", "lookup"}
    /\ req' = [req EXCEPT ![c] = At("db_error", req[c].identity, None)]
    /\ UNCHANGED <<job, exec, loop, local>>

-----------------------------------------------------------------------------
(* The polling loop of a replica: spawn_ingest_workers.                    *)

Live(t) == exec[t].pc \in {"claimed", "running", "wedged", "requeue", "finish", "cleanup"}
LiveOn(r) == {t \in Tokens : Live(t) /\ exec[t].replica = r}

(* Nothing remains of an execution but the number of its claim.            *)
Gone(e) == [e EXCEPT !.pc = "gone", !.replica = None, !.result = "none"]

(* Mutant of Stale: the lease is not looked at.                            *)
StaleWhenRunning(j) == job[j].status = "running"

Stale(j) == job[j].status = "running" /\ job[j].lease = "expired"

(* Mutant of Exhausted: `attempts > $1`.                                   *)
ExhaustedLate(j) == Stale(j) /\ job[j].attempts > MaxAttempts

Exhausted(j) == Stale(j) /\ job[j].attempts >= MaxAttempts

GivenUp(row) == [row EXCEPT !.status = "failed", !.error = "attempts_exhausted",
                            !.owner = None, !.lease = "none"]

ExhaustStale == job' = [j \in JobIds |-> IF Exhausted(j) THEN GivenUp(job[j]) ELSE job[j]]

(* Mutant of PermitFree: one permit too many.                              *)
PermitFreeLax(r) == Cardinality(LiveOn(r)) <= Workers

(* The loop waits for a permit, then runs exhaust_stale.  Other steps can  *)
(* only free permits in between, so the two are one action.  On an error   *)
(* the permit is dropped and the loop restarts.                            *)
PermitFree(r) == Cardinality(LiveOn(r)) < Workers

Sweep(r) ==
    /\ loop[r] = "sweep"
    /\ PermitFree(r)
    /\ ExhaustStale
    /\ loop' = [loop EXCEPT ![r] = "claim"]
    /\ UNCHANGED <<exec, local, req>>

SweepError(r) ==
    /\ loop[r] = "sweep"
    /\ PermitFree(r)
    /\ ExhaustStale \/ UNCHANGED job
    /\ UNCHANGED <<exec, loop, local, req>>

(* Mutants of Claimable: no bound on the attempts, and one too low.        *)
ClaimableForever(j) == (job[j].status = "queued" /\ job[j].due) \/ Stale(j)
ClaimableTooFew(j) ==
    /\ (job[j].status = "queued" /\ job[j].due) \/ Stale(j)
    /\ job[j].attempts + 1 < MaxAttempts

Claimable(j) ==
    /\ (job[j].status = "queued" /\ job[j].due) \/ Stale(j)
    /\ job[j].attempts < MaxAttempts

(* ORDER BY created_at FOR UPDATE SKIP LOCKED LIMIT 1: the oldest          *)
(* claimable row that no other replica's claim holds locked.               *)
NextInLine(j) ==
    /\ Claimable(j)
    /\ Cardinality({k \in JobIds : Claimable(k) /\ job[k].age < job[j].age})
         < Cardinality(Replicas)

NewToken == CHOOSE t \in Tokens : exec[t].pc = "unused"

(* Mutant of Leased: the old progress is kept.                             *)
LeasedKeepProgress(row, t) ==
    [row EXCEPT !.attempts = @ + 1, !.status = "running", !.owner = t, !.lease = "valid",
                !.due = TRUE]

Leased(row, t) ==
    [row EXCEPT !.attempts = @ + 1, !.status = "running", !.owner = t, !.lease = "valid",
                !.due = TRUE, !.progress = None]

(* The UPDATE of claim_next, and the execution its token identifies.       *)
TakeLease(j, r, pc) ==
    /\ \E t \in Tokens : exec[t].pc = "unused"
    /\ job' = [job EXCEPT ![j] = Leased(@, NewToken)]
    /\ exec' = [exec EXCEPT ![NewToken] =
                   [job |-> j, replica |-> r, attempt |-> job[j].attempts + 1,
                    pc |-> pc, result |-> "none"]]

(* claim_next, then the spawn of execute_claimed_job.                      *)
Claim(r) ==
    /\ loop[r] = "claim"
    /\ \E j \in JobIds : NextInLine(j) /\ TakeLease(j, r, "claimed")
    /\ loop' = [loop EXCEPT ![r] = "sweep"]
    /\ UNCHANGED <<local, req>>

(* No row: none is claimable, or the others hold every claimable one.      *)
ClaimNothing(r) ==
    /\ loop[r] = "claim"
    /\ \/ \A j \in JobIds : ~Claimable(j)
       \/ Cardinality({j \in JobIds : Claimable(j)}) < Cardinality(Replicas)
    /\ loop' = [loop EXCEPT ![r] = "sweep"]
    /\ UNCHANGED <<job, exec, local, req>>

(* claim_next fails; committed or not, no execution holds the token.       *)
ClaimError(r) ==
    /\ loop[r] = "claim"
    /\ \/ UNCHANGED <<job, exec>>
       \/ \E j \in JobIds : NextInLine(j) /\ TakeLease(j, None, "gone")
    /\ loop' = [loop EXCEPT ![r] = "sweep"]
    /\ UNCHANGED <<local, req>>

-----------------------------------------------------------------------------
(* An execution: execute_claimed_job.                                      *)

JobOf(t) == exec[t].job

(* Mutant of Owns: the fence forgets the owner token.                      *)
OwnsAnyToken(t) == job[JobOf(t)].status = "running" /\ job[JobOf(t)].lease = "valid"

(* The predicate every fenced UPDATE repeats: id, owner_token, running,    *)
(* lease_until > now().                                                    *)
Owns(t) ==
    /\ job[JobOf(t)].status = "running"
    /\ job[JobOf(t)].owner = t
    /\ job[JobOf(t)].lease = "valid"

LocalEntry(t) == local[exec[t].replica][JobOf(t)]

Move(t, pc) == exec' = [exec EXCEPT ![t].pc = pc]

(* The map is behind a tokio mutex, which serves its waiters in the order  *)
(* they came.  Whoever needs it gets it, unless a wedged execution of the  *)
(* replica is first in that order.                                         *)
MapFree(r) == \A t \in Tokens : exec[t].pc = "wedged" => exec[t].replica # r

(* A tick is due while the pipeline waits for the map, which another task  *)
(* of the replica (a poll, an execution) holds for a moment.  The arm of   *)
(* the tick awaits the map as well, behind the pipeline, and select! does  *)
(* not poll the pipeline until the arm is through: the mutex is handed to  *)
(* a future that nobody polls, and the execution stands still for good.    *)
TickMeetsLockWait(t) ==
    /\ exec[t].pc = "running"
    /\ job[JobOf(t)].identity \notin Corpus
    /\ MapFree(exec[t].replica)
    /\ Move(t, "wedged")
    /\ UNCHANGED <<job, loop, local, req>>

(* The spawned task inserts its entry in the process-local map.            *)
Start(t) ==
    /\ exec[t].pc = "claimed"
    /\ MapFree(exec[t].replica)
    /\ local' = [local EXCEPT ![exec[t].replica][JobOf(t)] = t]
    /\ exec' = [exec EXCEPT ![t].pc = "running"]
    /\ UNCHANGED <<job, loop, req>>

(* The person pipeline updates its ProgressHandle: get_mut by job id, a    *)
(* no-op when there is no entry.  The Agora lane is given no handle.       *)
ReportProgress(t) ==
    /\ exec[t].pc = "running"
    /\ MapFree(exec[t].replica)
    /\ job[JobOf(t)].identity \notin Corpus
    /\ LocalEntry(t) # None
    /\ local' = [local EXCEPT ![exec[t].replica][JobOf(t)] = t]
    /\ UNCHANGED <<job, exec, loop, req>>

Stopped(e, result) ==
    [e EXCEPT !.result = result, !.pc = IF result = "retryable" THEN "requeue" ELSE "finish"]
StopWith(t, result) == exec' = [exec EXCEPT ![t] = Stopped(@, result)]

(* The pipeline returns, and the entry is read for the last time.          *)
OperationEnds(t) ==
    /\ exec[t].pc = "running"
    /\ MapFree(exec[t].replica)
    /\ \E result \in {"report", "retryable", "pipeline"} :
         /\ result = "retryable" => job[JobOf(t)].identity \in Corpus
         /\ StopWith(t, result)
    /\ UNCHANGED <<job, loop, local, req>>

SaveProgress(t) == job' = [job EXCEPT ![JobOf(t)].progress = LocalEntry(t)]

(* A tick of the 15 s interval reads the entry; the lease is renewed ...   *)
Heartbeat(t) ==
    /\ exec[t].pc = "running"
    /\ MapFree(exec[t].replica)
    /\ Owns(t)
    /\ SaveProgress(t)
    /\ UNCHANGED <<exec, loop, local, req>>

(* Mutant of HeartbeatRefused: Ok(_) => {}.                                *)
HeartbeatIgnored(t) == exec[t].pc = "running" /\ ~Owns(t) /\ UNCHANGED vars

(* ... or found lost: the pipeline is cancelled ...                        *)
HeartbeatRefused(t) ==
    /\ exec[t].pc = "running"
    /\ MapFree(exec[t].replica)
    /\ ~Owns(t)
    /\ StopWith(t, "lease_lost")
    /\ UNCHANGED <<job, loop, local, req>>

(* ... or the statement fails, and the pipeline is cancelled as well.      *)
HeartbeatError(t) ==
    /\ exec[t].pc = "running"
    /\ MapFree(exec[t].replica)
    /\ UNCHANGED job \/ (Owns(t) /\ SaveProgress(t))
    /\ StopWith(t, "heartbeat_failed")
    /\ UNCHANGED <<loop, local, req>>

(* Mutant of Requeued: the owner token stays in the row.                   *)
RequeuedOwned(row) ==
    [row EXCEPT !.status = "queued", !.lease = "none", !.due = FALSE, !.error = "retryable"]

Requeued(row) ==
    [row EXCEPT !.status = "queued", !.owner = None, !.lease = "none", !.due = FALSE,
                !.error = "retryable", !.progress = None]
BackInQueue(t) == job' = [job EXCEPT ![JobOf(t)] = Requeued(@)]

(* Mutant of Requeue: the last attempt is requeued as well.                *)
RequeueAlways(t) ==
    /\ exec[t].pc = "requeue"
    /\ \/ Owns(t) /\ BackInQueue(t) /\ Move(t, "cleanup")
       \/ UNCHANGED job /\ Move(t, "finish")
    /\ UNCHANGED <<loop, local, req>>

(* retry_incomplete_providers: Ok(true) ends the execution, Ok(false) (the *)
(* last attempt, or a lost lease) and errors fall through to finish.       *)
Requeue(t) ==
    /\ exec[t].pc = "requeue"
    /\ \/ /\ exec[t].attempt < MaxAttempts
          /\ Owns(t)
          /\ BackInQueue(t)
          /\ Move(t, "cleanup") \/ Move(t, "finish")
       \/ /\ UNCHANGED job
          /\ Move(t, "finish")
    /\ UNCHANGED <<loop, local, req>>

Done(row, t) ==
    [row EXCEPT !.status = "done", !.report = t, !.error = "none", !.owner = None,
                !.lease = "none", !.progress = None]
Failed(row, result) ==
    [row EXCEPT !.status = "failed", !.report = None, !.error = result, !.owner = None,
                !.lease = "none", !.progress = None]

Conclude(t) ==
    job' = [job EXCEPT ![JobOf(t)] = IF exec[t].result = "report" THEN Done(@, t)
                                     ELSE Failed(@, exec[t].result)]

(* Mutant of Finish: UPDATE .. WHERE id=$1 alone.                          *)
FinishUnfenced(t) ==
    /\ exec[t].pc = "finish"
    /\ Conclude(t)
    /\ Move(t, "cleanup")
    /\ UNCHANGED <<loop, local, req>>

(* finish: fenced; when the statement fails the outcome is only logged.    *)
Finish(t) ==
    /\ exec[t].pc = "finish"
    /\ Owns(t) /\ Conclude(t)
    /\ Move(t, "cleanup")
    /\ UNCHANGED <<loop, local, req>>

FinishWithout(t) ==
    /\ exec[t].pc = "finish"
    /\ Move(t, "cleanup")
    /\ UNCHANGED <<job, loop, local, req>>

(* jobs.lock().await.remove(&id), whoever inserted the entry.              *)
Cleanup(t) ==
    /\ exec[t].pc = "cleanup"
    /\ MapFree(exec[t].replica)
    /\ local' = [local EXCEPT ![exec[t].replica][JobOf(t)] = None]
    /\ exec' = [exec EXCEPT ![t] = Gone(@)]
    /\ UNCHANGED <<job, loop, req>>

-----------------------------------------------------------------------------
(* Time and crashes.                                                       *)

LeaseExpires(j) ==
    /\ job[j].status = "running" /\ job[j].lease = "valid"
    /\ job' = [job EXCEPT ![j].lease = "expired"]
    /\ UNCHANGED <<exec, loop, local, req>>

BackoffElapses(j) ==
    /\ job[j].status = "queued" /\ ~job[j].due
    /\ job' = [job EXCEPT ![j].due = TRUE]
    /\ UNCHANGED <<exec, loop, local, req>>

(* A replica dies and restarts: its executions, its map and its loop are   *)
(* lost, the table is not.                                                 *)
Crash(r) ==
    /\ exec' = [t \in Tokens |->
                  IF t \in LiveOn(r) THEN Gone(exec[t]) ELSE exec[t]]
    /\ local' = [local EXCEPT ![r] = [j \in JobIds |-> None]]
    /\ loop' = [loop EXCEPT ![r] = "sweep"]
    /\ UNCHANGED <<job, req>>

-----------------------------------------------------------------------------
AdmissionStep(c) ==
    (\E i \in Identities : FindActive(c, i)) \/ Insert(c) \/ Lookup(c) \/ RequestError(c)

LoopStep(r) ==
    Sweep(r) \/ SweepError(r) \/ Claim(r) \/ ClaimNothing(r) \/ ClaimError(r)

ExecutionStep(t) ==
    \/ Start(t) \/ ReportProgress(t) \/ OperationEnds(t) \/ TickMeetsLockWait(t)
    \/ Heartbeat(t) \/ HeartbeatRefused(t) \/ HeartbeatError(t)
    \/ Requeue(t) \/ Finish(t) \/ FinishWithout(t) \/ Cleanup(t)

Next ==
    \/ \E c \in Requests : AdmissionStep(c)
    \/ \E r \in Replicas : LoopStep(r)
    \/ \E r \in Crashing : Crash(r)
    \/ \E t \in Tokens : ExecutionStep(t)
    \/ \E j \in JobIds : LeaseExpires(j) \/ BackoffElapses(j)

Spec == Init /\ [][Next]_vars

-----------------------------------------------------------------------------
(* Fairness.                                                               *)

(* An execution that is not wedged runs on: the select! loop polls the     *)
(* interval, and the map is handed to each task that waits for it, as long *)
(* as none of the replica is wedged (the guards MapFree).  The pipeline    *)
(* need not return, and where it has a handle it may meet a tick at any    *)
(* time while it waits for the map.                                        *)
Advances(t) == Start(t) \/ Requeue(t) \/ Finish(t) \/ FinishWithout(t) \/ Cleanup(t)
TickSpec == Spec /\ \A t \in Tokens : WF_vars(Advances(t) \/ HeartbeatRefused(t))

(* The loops run; a statement that is tried again and again succeeds in    *)
(* the end; the pipeline returns (its connectors have timeouts); the clock *)
(* passes the lease of an execution that is gone, and the backoff.  This   *)
(* is for the Agora lane: a pipeline with a ProgressHandle may be wedged,  *)
(* and its replica with it, and then no job of the replica ends.           *)
Fairness ==
    /\ \A r \in Replicas :
         /\ WF_vars(ClaimNothing(r) \/ ClaimError(r))
         /\ SF_vars(Sweep(r)) /\ SF_vars(Claim(r))
    /\ \A t \in Tokens : WF_vars(Advances(t) \/ OperationEnds(t))
    /\ \A j \in JobIds :
         /\ WF_vars(BackoffElapses(j))
         /\ WF_vars(LeaseExpires(j) /\ job[j].owner \in Tokens /\ ~Live(job[j].owner))
FairSpec == Spec /\ Fairness
-----------------------------------------------------------------------------
(* Properties.                                                             *)

(* The CHECK constraint of the table and the meaning of the columns it     *)
(* does not check: a row is running exactly when it is leased, and a       *)
(* queued row can still be claimed (a queued row with no attempt left      *)
(* would be skipped by claim_next and by exhaust_stale for ever, and would *)
(* block its identity).                                                    *)
LeaseContract ==
    \A j \in JobIds :
        /\ (job[j].status = "running") <=> (job[j].owner # None)
        /\ (job[j].status = "running") <=> (job[j].lease # "none")
        /\ job[j].status = "queued" => job[j].attempts < MaxAttempts

(* The partial unique index: one lane and identity has at most one job     *)
(* queued or running, through every takeover, requeue and conclusion.      *)
OneActivePerIdentity ==
    \A j, k \in JobIds :
        Active(j) /\ Active(k) /\ job[j].identity = job[k].identity => j = k

(* What the HTTP answers say: an answered request names a job of the       *)
(* identity it asked for, at most one request is told that it created a    *)
(* given job, and the RowNotFound path ("Unlikely concurrent terminal      *)
(* transition") is only reached when the colliding job has really ended.   *)
AdmissionContract ==
    \A c \in Requests :
        /\ req[c].pc = "answered" =>
              /\ job[req[c].job].identity = req[c].identity
              /\ job[req[c].job].status # "absent"
        /\ req[c].pc = "raced" => Concluded(req[c].job)
        /\ \A d \in Requests :
              /\ req[c].pc = "answered" /\ req[c].created
              /\ req[d].pc = "answered" /\ req[d].created
              /\ req[c].job = req[d].job
              => c = d

(* attempts counts the claims of a job, each with a number of its own, so  *)
(* no job is replayed a fourth time however its executions end.            *)
ClaimsOf(j) == {t \in Tokens : exec[t].job = j}
NoFourthReplay ==
    \A j \in JobIds :
        /\ job[j].attempts = Cardinality(ClaimsOf(j))
        /\ job[j].attempts <= MaxAttempts
        /\ \A t, u \in ClaimsOf(j) : exec[t].attempt = exec[u].attempt => t = u

(* The outcome of a job comes from its latest claim: a stored report is    *)
(* the report of the execution that holds the last attempt number, a job   *)
(* is done exactly when it has one and no error, and no job ends, or is    *)
(* requeued, with the error of a lost lease ("A lost owner cannot finalize *)
(* a job; it will be retried after its lease").                            *)
OutcomeFromLatestClaim ==
    \A j \in JobIds :
        /\ job[j].status = "done" <=> job[j].report # None
        /\ job[j].status = "done" => job[j].error = "none"
        /\ job[j].status = "failed" => job[j].error # "none"
        /\ job[j].report # None =>
              /\ exec[job[j].report].job = j
              /\ exec[job[j].report].attempt = job[j].attempts
        /\ job[j].error # "lease_lost"

(* The progress stored for a running job is its current execution's own,   *)
(* or the default: never that of an execution it has replaced.             *)
StoredProgressIsOwners ==
    \A j \in JobIds :
        job[j].status = "running" => job[j].progress \in {job[j].owner, None}

(* A replica never runs more executions than it has permits, whatever      *)
(* happens to the executions.                                              *)
PermitsRespected ==
    \A r \in Replicas :
        Cardinality(LiveOn(r)) + (IF loop[r] = "sweep" THEN 0 ELSE 1) <= Workers

(* While a lease is valid, the row can only leave its owner by that        *)
(* owner's own finish or requeue: no sweep, claim, crash or stale          *)
(* execution takes it.                                                     *)
LeaseProtectsOwner ==
    [][\A j \in JobIds :
          job[j].lease = "valid" /\ job'[j].owner # job[j].owner =>
             LET t == job[j].owner IN
             /\ exec[t].job = j
             /\ exec[t].pc \in {"requeue", "finish"}
             /\ exec'[t].pc # exec[t].pc]_vars

(* A concluded job is a record: no late execution, sweep or claim rewrites *)
(* it ("Completed and failed jobs retain their reports for later polling").*)
ConcludedIsFinal ==
    [][\A j \in JobIds : Concluded(j) => job'[j] = job[j]]_vars

(* An execution that no longer owns its job stops, even if its pipeline    *)
(* never returns: only a wedged execution of its replica (its own, or one  *)
(* that keeps the map from it) is in its way.                              *)
StaleWorkerStops ==
    \A t \in Tokens : exec[t].pc = "running" /\ ~Owns(t) ~>
                         exec[t].pc = "gone" \/ ~MapFree(exec[t].replica)

(* "False means the lease is lost; the old worker MUST stop processing":   *)
(* the same without the exception.                                         *)
OldWorkerStops ==
    \A t \in Tokens : exec[t].pc = "running" /\ ~Owns(t) ~> exec[t].pc = "gone"

(* An admitted Agora job ends, through takeovers, requeues and lost        *)
(* replies, and whenever a replica dies, if another one stays up and the   *)
(* queue is served: what a client that polls the job waits for.            *)
ServedIsConcluded ==
    Fairness => \A j \in JobIds : Active(j) /\ job[j].identity \in Corpus ~> Concluded(j)

(* The queue implements what it promises: every step of the jobs is one of *)
(* the promise or a stutter, and under FairSpec an admitted job ends done  *)
(* or failed.                                                              *)
P == INSTANCE IngestPromise WITH
        phase <- [j \in JobIds |-> job[j].status],
        tries <- [j \in JobIds |-> job[j].attempts],
        whose <- [j \in JobIds |-> job[j].identity]
ImplementsPromise == P!Promise

(* Each job by itself is a leased job: attempt a is the execution of its   *)
(* a-th claim, alive until it has finished, has been requeued or is gone.  *)
AttemptOf(t) == IF t = None THEN 0 ELSE exec[t].attempt
LeaseOf(j) == [status |-> IF job[j].status = "absent" THEN "queued" ELSE job[j].status,
               attempts |-> job[j].attempts,
               owner |-> AttemptOf(job[j].owner),
               valid |-> job[j].lease = "valid"]
AttemptsOf(j) ==
    [a \in 1 .. MaxAttempts |->
        LET claims == {t \in Tokens : exec[t].job = j /\ exec[t].attempt = a} IN
        IF claims = {} THEN "ahead"
        ELSE IF \E t \in claims : Live(t) /\ exec[t].pc # "cleanup" THEN "alive"
        ELSE "over"]
L(j) == INSTANCE LeasedJob WITH row <- LeaseOf(j), at <- AttemptsOf(j)

(* The row of a job only changes as the lease allows: by the attempt that  *)
(* holds it, while it holds it, one attempt after the other; whatever      *)
(* becomes of an older attempt, it ends without a trace.                   *)
JobsAreLeased ==
    /\ \A j \in JobIds : L(j)!LInit
    /\ [][\A j \in JobIds : [L(j)!LNext]_(L(j)!leaseVars)]_vars

(* What a poll of the job answers for its progress, on replica r.          *)
ReadProgress(r, j) ==
    IF job[j].status = "running" /\ local[r][j] # None
    THEN local[r][j] ELSE job[j].progress

(* The table is "the source of truth for [..] progress snapshots": a poll  *)
(* on any replica shows the current execution's progress or the default.   *)
PolledProgressIsCurrent ==
    \A r \in Replicas, j \in JobIds :
        job[j].status = "running" => ReadProgress(r, j) \in {job[j].owner, None}

(* A running execution that owns its job can report its progress: its      *)
(* ProgressHandle finds an entry of the job in the map.                    *)
OwnerKeepsItsEntry ==
    \A t \in Tokens : exec[t].pc = "running" /\ Owns(t) => LocalEntry(t) # None
=============================================================================
