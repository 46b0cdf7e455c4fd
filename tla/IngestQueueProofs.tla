------------------------- MODULE IngestQueueProofs --------------------------
(***************************************************************************)
(* What is proved of IngestQueue for every value of its constants.         *)
(*                                                                         *)
(* Types come first.  Then each step of the system is reduced to what it   *)
(* does to one row and to one execution, and the invariants and the action *)
(* properties follow from these few cases instead of the twenty actions.   *)
(* Then what the queue is to its users: the answers of the HTTP requests   *)
(* are true, every step of the table is a step of IngestPromise, and the   *)
(* permits and the local maps of a replica are what they should be.        *)
(***************************************************************************)
EXTENDS IngestQueue, FiniteSetTheorems, TLAPS

-----------------------------------------------------------------------------
(* The fresh identifiers exist when an action uses them.                   *)
LEMMA NewTokenIsFresh ==
    ASSUME \E t \in Tokens : exec[t].pc = "unused"
    PROVE  NewToken \in Tokens /\ exec[NewToken].pc = "unused"
BY DEF NewToken

LEMMA NewJobIsFresh ==
    ASSUME \E j \in JobIds : job[j].status = "absent"
    PROVE  NewJob \in JobIds /\ job[NewJob].status = "absent"
BY DEF NewJob

LEMMA RowsAreCounted == Cardinality(Rows) \in Nat
<1>1. Rows \subseteq JobIds
  BY DEF Rows
<1>2. IsFiniteSet(Rows)
  BY <1>1, FS_Subset, QueueAssumption DEF QueueAssumption
<1> QED BY <1>2, FS_CardinalityType

(* What TypeOK leaves open and the actions rely on: a claim is for a job,  *)
(* a live execution runs on a replica, and one that stopped has a result.  *)
Placed(e) ==
    /\ (e.pc = "unused") <=> (e.job = None)
    /\ e.pc \in {"claimed", "running", "wedged", "requeue", "finish", "cleanup"} =>
          e.replica \in Replicas
    /\ e.pc \in {"requeue", "finish"} => e.result # "none"
    /\ e.pc = "unused" => e.result = "none"

TypeInv == TypeOK /\ \A t \in Tokens : Placed(exec[t])

(* What each UPDATE does to a row and to an execution.                     *)
LEMMA LeasedRow ==
    ASSUME NEW row \in Row, NEW t \in Tokens
    PROVE  /\ Leased(row, t) \in Row
           /\ Leased(row, t).status = "running" /\ Leased(row, t).owner = t
           /\ Leased(row, t).lease = "valid" /\ Leased(row, t).progress = None
           /\ Leased(row, t).attempts = row.attempts + 1
           /\ Leased(row, t).identity = row.identity
           /\ Leased(row, t).report = row.report /\ Leased(row, t).error = row.error
<1>1. Leased(row, t) \in Row
  <2>1. row.attempts + 1 \in Nat
    BY DEF Row
  <2> QED BY <2>1 DEF Leased, Row, Status
<1>2. Leased(row, t).attempts = row.attempts + 1
  BY DEF Leased, Row
<1>3. /\ Leased(row, t).status = "running" /\ Leased(row, t).owner = t
      /\ Leased(row, t).lease = "valid" /\ Leased(row, t).progress = None
      /\ Leased(row, t).identity = row.identity
      /\ Leased(row, t).report = row.report /\ Leased(row, t).error = row.error
  BY DEF Leased, Row
<1> QED BY <1>1, <1>2, <1>3

LEMMA GivenUpRow ==
    ASSUME NEW row \in Row
    PROVE  /\ GivenUp(row) \in Row
           /\ GivenUp(row).status = "failed" /\ GivenUp(row).owner = None
           /\ GivenUp(row).lease = "none" /\ GivenUp(row).error = "attempts_exhausted"
           /\ GivenUp(row).attempts = row.attempts
           /\ GivenUp(row).identity = row.identity /\ GivenUp(row).report = row.report
BY DEF GivenUp, Row, Status, Failure

LEMMA RequeuedRow ==
    ASSUME NEW row \in Row
    PROVE  /\ Requeued(row) \in Row
           /\ Requeued(row).status = "queued" /\ Requeued(row).owner = None
           /\ Requeued(row).lease = "none" /\ Requeued(row).error = "retryable"
           /\ Requeued(row).attempts = row.attempts
           /\ Requeued(row).identity = row.identity /\ Requeued(row).report = row.report
BY DEF Requeued, Row, Status, Failure

LEMMA DoneRow ==
    ASSUME NEW row \in Row, NEW t \in Tokens
    PROVE  /\ Done(row, t) \in Row
           /\ Done(row, t).status = "done" /\ Done(row, t).owner = None
           /\ Done(row, t).lease = "none" /\ Done(row, t).error = "none"
           /\ Done(row, t).attempts = row.attempts
           /\ Done(row, t).identity = row.identity /\ Done(row, t).report = t
BY DEF Done, Row, Status

LEMMA FailedRow ==
    ASSUME NEW row \in Row, NEW result \in Failure
    PROVE  /\ Failed(row, result) \in Row
           /\ Failed(row, result).status = "failed" /\ Failed(row, result).owner = None
           /\ Failed(row, result).lease = "none" /\ Failed(row, result).error = result
           /\ Failed(row, result).attempts = row.attempts
           /\ Failed(row, result).identity = row.identity
           /\ Failed(row, result).report = None
BY DEF Failed, Row, Status

LEMMA StoppedExecution ==
    ASSUME NEW e \in Execution, Placed(e), e.pc = "running",
           NEW result \in Result \ {"none"}
    PROVE  /\ Stopped(e, result) \in Execution /\ Placed(Stopped(e, result))
           /\ Stopped(e, result).job = e.job /\ Stopped(e, result).attempt = e.attempt
           /\ Stopped(e, result).pc = (IF result = "retryable" THEN "requeue" ELSE "finish")
           /\ Stopped(e, result).result = result
BY DEF Stopped, Execution, Placed

LEMMA GoneExecution ==
    ASSUME NEW e \in Execution, Placed(e), e.pc # "unused"
    PROVE  /\ Gone(e) \in Execution /\ Placed(Gone(e))
           /\ Gone(e).job = e.job /\ Gone(e).attempt = e.attempt
           /\ Gone(e).pc = "gone" /\ Gone(e).result = "none"
BY DEF Gone, Execution, Result, Placed

LEMMA MovedExecution ==
    ASSUME NEW e \in Execution, Placed(e),
           NEW pc \in {"running", "wedged", "finish", "cleanup"},
           e.pc \in {"claimed", "running", "requeue", "finish"}, pc = "finish" => e.pc = "requeue"
    PROVE  /\ [e EXCEPT !.pc = pc] \in Execution /\ Placed([e EXCEPT !.pc = pc])
           /\ [e EXCEPT !.pc = pc].job = e.job /\ [e EXCEPT !.pc = pc].attempt = e.attempt
           /\ [e EXCEPT !.pc = pc].pc = pc /\ [e EXCEPT !.pc = pc].result = e.result
BY DEF Execution, Placed

LEMMA NewRowFields ==
    ASSUME NEW i \in Identities \cup {None}
    PROVE  /\ NewRow(i) \in Row
           /\ NewRow(i).status = "queued" /\ NewRow(i).owner = None
           /\ NewRow(i).lease = "none" /\ NewRow(i).attempts = 0
           /\ NewRow(i).identity = i /\ NewRow(i).report = None
           /\ NewRow(i).error = "none"
<1>1. Cardinality(Rows) + 1 \in Nat
  BY RowsAreCounted
<1> QED BY <1>1 DEF NewRow, NoRow, Row, Status

LEMMA AtRequest ==
    ASSUME NEW i \in Identities \cup {None}, NEW j \in JobIds \cup {None},
           NEW pc \in {"idle", "insert", "lookup", "answered", "raced", "db_error"}
    PROVE  At(pc, i, j) \in Request /\ CreatedIn(i, j) \in Request
BY DEF At, CreatedIn, Request

-----------------------------------------------------------------------------
(* Type correctness, one lemma per group of actions.                       *)

LEMMA AdmissionType ==
    ASSUME TypeInv, NEW c \in Requests, AdmissionStep(c)
    PROVE  TypeInv'
<1>1. /\ req \in [Requests -> Request] /\ job \in [JobIds -> Row]
      /\ req[c].identity \in Identities \cup {None}
      /\ req[c].job \in JobIds \cup {None}
  BY DEF TypeInv, TypeOK, Request
<1>2. ASSUME NEW i \in Identities, FindActive(c, i) PROVE req' \in [Requests -> Request]
  <2>1. CASE \E j \in JobIds : req' = [req EXCEPT ![c] = At("answered", i, j)]
    BY <1>1, <2>1, AtRequest
  <2>2. CASE req' = [req EXCEPT ![c] = At("insert", i, None)]
    BY <1>1, <2>2, AtRequest
  <2> QED BY <1>2, <2>1, <2>2 DEF FindActive
<1>3. ASSUME InsertConflict(c) PROVE req' \in [Requests -> Request]
  BY <1>1, <1>3, AtRequest DEF InsertConflict
<1>4. ASSUME InsertRow(c)
      PROVE  req' \in [Requests -> Request] /\ job' \in [JobIds -> Row]
  <2>1. NewJob \in JobIds /\ NewRow(req[c].identity) \in Row
    BY <1>1, <1>4, NewJobIsFresh, NewRowFields DEF InsertRow
  <2>2. At("db_error", req[c].identity, None) \in Request
    BY <1>1, AtRequest
  <2>3. CreatedIn(req[c].identity, NewJob) \in Request
    BY <1>1, <2>1, AtRequest
  <2> QED BY <1>1, <1>4, <2>1, <2>2, <2>3 DEF InsertRow
<1>5. ASSUME Lookup(c) PROVE req' \in [Requests -> Request]
  <2>1. CASE \E j \in JobIds : req' = [req EXCEPT ![c] = At("answered", req[c].identity, j)]
    BY <1>1, <2>1, AtRequest
  <2>2. CASE req' = [req EXCEPT ![c] = At("raced", req[c].identity, req[c].job)]
    BY <1>1, <2>2, AtRequest
  <2> QED BY <1>5, <2>1, <2>2 DEF Lookup
<1>6. ASSUME RequestError(c) PROVE req' \in [Requests -> Request]
  BY <1>1, <1>6, AtRequest DEF RequestError
<1>7. ASSUME req' \in [Requests -> Request], job' \in [JobIds -> Row],
             UNCHANGED <<exec, loop, local>>
      PROVE  TypeInv'
  BY <1>7 DEF TypeInv, TypeOK, Placed
<1>8. CASE \E i \in Identities : FindActive(c, i)
  BY <1>1, <1>2, <1>7, <1>8 DEF FindActive
<1>9. CASE Insert(c)
  BY <1>1, <1>3, <1>4, <1>7, <1>9 DEF Insert, InsertConflict
<1>10. CASE Lookup(c)
  BY <1>1, <1>5, <1>7, <1>10 DEF Lookup
<1>11. CASE RequestError(c)
  BY <1>1, <1>6, <1>7, <1>11 DEF RequestError
<1> QED BY <1>8, <1>9, <1>10, <1>11 DEF AdmissionStep

LEMMA LoopType ==
    ASSUME TypeInv, NEW r \in Replicas, LoopStep(r)
    PROVE  TypeInv'
<1>1. ASSUME ExhaustStale PROVE job' \in [JobIds -> Row]
  BY <1>1, GivenUpRow DEF ExhaustStale, TypeInv, TypeOK
<1>2. ASSUME NEW j \in JobIds, NEW q, NEW pc, TakeLease(j, q, pc),
             \/ q \in Replicas /\ pc = "claimed"
             \/ q = None /\ pc = "gone"
      PROVE  /\ job' \in [JobIds -> Row] /\ exec' \in [Tokens -> Execution]
             /\ \A t \in Tokens : Placed(exec'[t])
  <2> DEFINE e == [job |-> j, replica |-> q, attempt |-> job[j].attempts + 1, pc |-> pc,
                   result |-> "none"]
  <2>1. NewToken \in Tokens
    BY <1>2, NewTokenIsFresh DEF TakeLease
  <2>2. job[j] \in Row /\ job[j].attempts + 1 \in Nat
    BY DEF TypeInv, TypeOK, Row
  <2>3. e \in Execution /\ Placed(e)
    BY <1>2, <2>2, QueueAssumption DEF Execution, Result, Placed, QueueAssumption
  <2>4. Leased(job[j], NewToken) \in Row
    BY <2>1, <2>2, LeasedRow
  <2>5. job' = [job EXCEPT ![j] = Leased(job[j], NewToken)] /\ exec' = [exec EXCEPT ![NewToken] = e]
    BY <1>2 DEF TakeLease
  <2> HIDE DEF e
  <2> QED BY <2>1, <2>3, <2>4, <2>5 DEF TypeInv, TypeOK
<1>3. CASE Sweep(r) \/ SweepError(r)
  BY <1>1, <1>3 DEF Sweep, SweepError, TypeInv, TypeOK, Placed
<1>4. CASE Claim(r)
  BY <1>2, <1>4 DEF Claim, TypeInv, TypeOK
<1>5. CASE ClaimNothing(r)
  BY <1>5 DEF ClaimNothing, TypeInv, TypeOK, Placed
<1>6. CASE ClaimError(r)
  <2>1. CASE UNCHANGED <<job, exec>>
    BY <1>6, <2>1 DEF ClaimError, TypeInv, TypeOK, Placed
  <2>2. CASE \E j \in JobIds : TakeLease(j, None, "gone")
    BY <1>2, <1>6, <2>2 DEF ClaimError, TypeInv, TypeOK
  <2> QED BY <1>6, <2>1, <2>2 DEF ClaimError
<1> QED BY <1>3, <1>4, <1>5, <1>6 DEF LoopStep

LEMMA ExecutionType ==
    ASSUME TypeInv, NEW t \in Tokens, ExecutionStep(t)
    PROVE  TypeInv'
<1> DEFINE JobsTyped == job' \in [JobIds -> Row]
           ExecsTyped == exec' \in [Tokens -> Execution] /\ \A u \in Tokens : Placed(exec'[u])
           LocalTyped == local' \in [Replicas -> [JobIds -> Tokens \cup {None}]]
<1>1. /\ exec[t] \in Execution /\ Placed(exec[t])
      /\ exec \in [Tokens -> Execution] /\ \A u \in Tokens : Placed(exec[u])
      /\ job \in [JobIds -> Row] /\ local \in [Replicas -> [JobIds -> Tokens \cup {None}]]
  BY DEF TypeInv, TypeOK
<1>2. ASSUME NEW e \in Execution, Placed(e), exec' = [exec EXCEPT ![t] = e]
      PROVE  ExecsTyped
  BY <1>1, <1>2
<1>3. ASSUME NEW row \in Row, job' = [job EXCEPT ![JobOf(t)] = row]
      PROVE  JobsTyped
  BY <1>1, <1>3
<1>4. ASSUME NEW v \in Tokens \cup {None},
             local' = [local EXCEPT ![exec[t].replica][JobOf(t)] = v]
      PROVE  LocalTyped
  BY <1>1, <1>4
<1>5. ASSUME Live(t)
      PROVE  JobOf(t) \in JobIds /\ exec[t].replica \in Replicas /\ job[JobOf(t)] \in Row
             /\ LocalEntry(t) \in Tokens \cup {None}
  <2>1. JobOf(t) \in JobIds /\ exec[t].replica \in Replicas
    BY <1>1, <1>5 DEF Live, Placed, JobOf, Execution
  <2> QED BY <1>1, <2>1 DEF LocalEntry
<1>6. ASSUME NEW result \in Result \ {"none"}, exec[t].pc = "running", StopWith(t, result)
      PROVE  ExecsTyped
  <2>1. Stopped(exec[t], result) \in Execution /\ Placed(Stopped(exec[t], result))
    BY <1>1, <1>6, StoppedExecution
  <2> QED BY <1>2, <1>6, <2>1 DEF StopWith
<1>7. ASSUME NEW pc \in {"running", "wedged", "finish", "cleanup"},
             exec[t].pc \in {"claimed", "running", "requeue", "finish"},
             pc = "finish" => exec[t].pc = "requeue",
             Move(t, pc)
      PROVE  ExecsTyped
  <2>1. [exec[t] EXCEPT !.pc = pc] \in Execution /\ Placed([exec[t] EXCEPT !.pc = pc])
    BY <1>1, <1>7, MovedExecution
  <2> QED BY <1>2, <1>7, <2>1 DEF Move
<1>8. ASSUME exec[t].pc = "running", SaveProgress(t) PROVE JobsTyped
  <2>1. [job[JobOf(t)] EXCEPT !.progress = LocalEntry(t)] \in Row
    BY <1>5, <1>8 DEF Live, Row
  <2> QED BY <1>3, <1>8, <2>1 DEF SaveProgress
<1>9. ASSUME JobsTyped, ExecsTyped, LocalTyped, UNCHANGED <<loop, req>>
      PROVE  TypeInv'
  BY <1>9 DEF TypeInv, TypeOK
<1>10. ASSUME UNCHANGED job PROVE JobsTyped
  BY <1>1, <1>10
<1>11. ASSUME UNCHANGED local PROVE LocalTyped
  BY <1>1, <1>11
<1>12. ASSUME UNCHANGED exec PROVE ExecsTyped
  BY <1>1, <1>12
<1> HIDE DEF JobsTyped, ExecsTyped, LocalTyped
<1>13. CASE Start(t)
  <2>1. Move(t, "running")
    BY <1>13 DEF Start, Move
  <2> QED BY <1>4, <1>7, <1>9, <1>10, <1>13, <2>1 DEF Start
<1>14. CASE ReportProgress(t)
  BY <1>4, <1>9, <1>10, <1>12, <1>14 DEF ReportProgress
<1>15. CASE OperationEnds(t)
  BY <1>6, <1>9, <1>10, <1>11, <1>15 DEF OperationEnds, Result
<1>16. CASE Heartbeat(t)
  BY <1>8, <1>9, <1>11, <1>12, <1>16 DEF Heartbeat
<1>17. CASE HeartbeatRefused(t)
  BY <1>6, <1>9, <1>10, <1>11, <1>17 DEF HeartbeatRefused, Result
<1>18. CASE HeartbeatError(t)
  BY <1>6, <1>8, <1>9, <1>10, <1>11, <1>18 DEF HeartbeatError, Result
<1>19. CASE Requeue(t)
  <2>1. ASSUME BackInQueue(t) PROVE JobsTyped
    <3>1. job[JobOf(t)] \in Row
      BY <1>5, <1>19 DEF Live, Requeue
    <3> QED BY <1>3, <2>1, <3>1, RequeuedRow DEF BackInQueue
  <2>2. ExecsTyped
    BY <1>7, <1>19 DEF Requeue
  <2> QED BY <1>9, <1>10, <1>11, <1>19, <2>1, <2>2 DEF Requeue
<1>20. CASE Finish(t)
  <2>1. exec[t].pc = "finish" /\ job[JobOf(t)] \in Row /\ exec[t].result \in Result \ {"none"}
    BY <1>1, <1>5, <1>20 DEF Live, Finish, Placed, Execution
  <2>2. ASSUME exec[t].result = "report" PROVE JobsTyped
    <3>1. job' = [job EXCEPT ![JobOf(t)] = Done(job[JobOf(t)], t)]
      BY <1>20, <2>2 DEF Finish, Conclude
    <3> QED BY <1>3, <2>1, <3>1, DoneRow
  <2>3. ASSUME exec[t].result # "report" PROVE JobsTyped
    <3>1. job' = [job EXCEPT ![JobOf(t)] = Failed(job[JobOf(t)], exec[t].result)]
      BY <1>20, <2>3 DEF Finish, Conclude
    <3>2. exec[t].result \in Failure
      BY <2>1, <2>3 DEF Result, Failure
    <3> QED BY <1>3, <2>1, <3>1, <3>2, FailedRow
  <2> QED BY <1>7, <1>9, <1>11, <1>20, <2>1, <2>2, <2>3 DEF Finish
<1>21. CASE FinishWithout(t)
  BY <1>7, <1>9, <1>10, <1>11, <1>21 DEF FinishWithout
<1>22. CASE Cleanup(t)
  <2>1. Gone(exec[t]) \in Execution /\ Placed(Gone(exec[t]))
    BY <1>1, <1>22, GoneExecution DEF Cleanup
  <2>2. ExecsTyped
    BY <1>2, <1>22, <2>1 DEF Cleanup
  <2> QED BY <1>4, <1>9, <1>10, <1>22, <2>2 DEF Cleanup
<1>23. CASE TickMeetsLockWait(t)
  BY <1>7, <1>9, <1>10, <1>11, <1>23 DEF TickMeetsLockWait
<1> QED BY <1>13, <1>14, <1>15, <1>16, <1>17, <1>18, <1>19, <1>20, <1>21, <1>22, <1>23
        DEF ExecutionStep

LEMMA TimeType ==
    ASSUME TypeInv, NEW j \in JobIds, LeaseExpires(j) \/ BackoffElapses(j)
    PROVE  TypeInv'
<1>1. [job[j] EXCEPT !.lease = "expired"] \in Row /\ [job[j] EXCEPT !.due = TRUE] \in Row
  BY DEF TypeInv, TypeOK, Row
<1>2. job' \in [JobIds -> Row]
  BY <1>1 DEF LeaseExpires, BackoffElapses, TypeInv, TypeOK
<1> QED BY <1>2 DEF LeaseExpires, BackoffElapses, TypeInv, TypeOK, Placed

LEMMA CrashType ==
    ASSUME TypeInv, NEW r \in Replicas, Crash(r)
    PROVE  TypeInv'
<1>1. ASSUME NEW t \in Tokens PROVE exec'[t] \in Execution /\ Placed(exec'[t])
  <2>1. exec[t] \in Execution /\ Placed(exec[t])
    BY DEF TypeInv, TypeOK
  <2>2. Live(t) => exec[t].pc # "unused"
    BY DEF Live
  <2> QED BY <2>1, <2>2, GoneExecution DEF Crash, LiveOn
<1>2. exec' \in [Tokens -> Execution]
  BY <1>1 DEF Crash
<1>3. /\ local' \in [Replicas -> [JobIds -> Tokens \cup {None}]]
      /\ loop' \in [Replicas -> {"sweep", "claim"}]
  BY DEF Crash, TypeInv, TypeOK
<1> QED BY <1>1, <1>2, <1>3 DEF Crash, TypeInv, TypeOK

LEMMA InitType == Init => TypeInv
<1>1. NoRow \in Row /\ NoExecution \in Execution /\ Placed(NoExecution)
  BY DEF NoRow, Row, Status, NoExecution, Execution, Result, Placed
<1>2. At("idle", None, None) \in Request
  BY AtRequest
<1> QED BY <1>1, <1>2 DEF Init, TypeInv, TypeOK

LEMMA NextType == TypeInv /\ [Next]_vars => TypeInv'
<1> SUFFICES ASSUME TypeInv, [Next]_vars PROVE TypeInv'
  OBVIOUS
<1>1. CASE Next
  <2>1. Crashing \subseteq Replicas
    BY QueueAssumption DEF QueueAssumption
  <2> QED BY <1>1, <2>1, AdmissionType, LoopType, ExecutionType, TimeType, CrashType DEF Next
<1>2. CASE UNCHANGED vars
  BY <1>2 DEF vars, TypeInv, TypeOK, Placed
<1> QED BY <1>1, <1>2

LEMMA AlwaysTyped == Spec => []TypeInv
BY InitType, NextType, PTL DEF Spec

(* Every column, token, entry and request keeps to its type, whatever the  *)
(* interleaving of requests, loops, executions, expiries and crashes.      *)
THEOREM TypeCorrect == Spec => []TypeOK
<1>1. TypeInv => TypeOK
  BY DEF TypeInv
<1> QED BY <1>1, AlwaysTyped, PTL

-----------------------------------------------------------------------------
RowInserted(j) ==
    /\ job[j].status = "absent" /\ j = NewJob
    /\ \E i \in Identities \cup {None} :
         job'[j] = NewRow(i) /\ \A k \in JobIds : ~HasActive(i, k)
RowLeased(j) ==
    /\ Claimable(j) /\ NewToken \in Tokens /\ exec[NewToken].pc = "unused"
    /\ job'[j] = Leased(job[j], NewToken)
    /\ exec'[NewToken].job = j /\ exec'[NewToken].attempt = job[j].attempts + 1
RowGivenUp(j) == Exhausted(j) /\ job'[j] = GivenUp(job[j])
RowRequeued(j, t) ==
    /\ exec[t].pc = "requeue" /\ exec'[t].pc # exec[t].pc
    /\ exec[t].attempt < MaxAttempts
    /\ job'[j] = Requeued(job[j])
RowDone(j, t) ==
    /\ exec[t].pc = "finish" /\ exec'[t].pc # exec[t].pc
    /\ job'[j] = Done(job[j], t)
RowFailed(j, t) ==
    /\ exec[t].pc = "finish" /\ exec'[t].pc # exec[t].pc
    /\ exec[t].result \in Failure
    /\ job'[j] = Failed(job[j], exec[t].result)
RowSettled(j) ==
    \E t \in Tokens : /\ JobOf(t) = j /\ Owns(t)
                      /\ RowRequeued(j, t) \/ RowDone(j, t) \/ RowFailed(j, t)

(* A heartbeat, or time: only lease, due and progress can change.          *)
SameBut(row, new) ==
    /\ new.identity = row.identity /\ new.status = row.status
    /\ new.attempts = row.attempts /\ new.owner = row.owner
    /\ new.report = row.report /\ new.error = row.error
    /\ new.lease = row.lease \/ (row.lease = "valid" /\ new.lease = "expired")
RowTouched(j) == Active(j) /\ SameBut(job[j], job'[j])

RowStep(j) ==
    \/ job'[j] = job[j]
    \/ RowInserted(j) \/ RowLeased(j) \/ RowGivenUp(j) \/ RowSettled(j) \/ RowTouched(j)

LEMMA AdmissionRow ==
    ASSUME TypeInv, NEW c \in Requests, AdmissionStep(c), NEW j \in JobIds
    PROVE  RowStep(j)
<1>1. CASE UNCHANGED job
  BY <1>1 DEF RowStep
<1>2. CASE InsertRow(c)
  <2>1. NewJob \in JobIds /\ job[NewJob].status = "absent"
    BY <1>2, NewJobIsFresh DEF InsertRow
  <2>2. req[c].identity \in Identities \cup {None} /\ job \in [JobIds -> Row]
    BY DEF TypeInv, TypeOK, Request
  <2>3. job' = [job EXCEPT ![NewJob] = NewRow(req[c].identity)]
    BY <1>2 DEF InsertRow
  <2>4. \A k \in JobIds : ~HasActive(req[c].identity, k)
    BY <1>2 DEF InsertRow
  <2>5. CASE j = NewJob
    <3>1. job'[j] = NewRow(req[c].identity)
      BY <2>2, <2>3, <2>5
    <3> QED BY <2>1, <2>2, <2>4, <2>5, <3>1 DEF RowStep, RowInserted
  <2>6. CASE j # NewJob
    BY <2>2, <2>3, <2>6 DEF RowStep
  <2> QED BY <2>5, <2>6
<1>3. InsertRow(c) \/ UNCHANGED job
  BY DEF AdmissionStep, FindActive, Insert, InsertConflict, Lookup, RequestError
<1> QED BY <1>1, <1>2, <1>3

LEMMA LoopRow ==
    ASSUME TypeInv, NEW r \in Replicas, LoopStep(r), NEW j \in JobIds
    PROVE  RowStep(j)
<1>1. CASE UNCHANGED job
  BY <1>1 DEF RowStep
<1>2. CASE ExhaustStale
  <2>1. job'[j] = IF Exhausted(j) THEN GivenUp(job[j]) ELSE job[j]
    BY <1>2 DEF ExhaustStale
  <2> QED BY <2>1 DEF RowStep, RowGivenUp
<1>3. ASSUME NEW k \in JobIds, NEW q, NEW pc, Claimable(k), TakeLease(k, q, pc)
      PROVE  RowStep(j)
  <2>1. NewToken \in Tokens /\ exec[NewToken].pc = "unused"
    BY <1>3, NewTokenIsFresh DEF TakeLease
  <2>2. job \in [JobIds -> Row] /\ exec \in [Tokens -> Execution]
    BY DEF TypeInv, TypeOK
  <2>3. job' = [job EXCEPT ![k] = Leased(job[k], NewToken)]
    BY <1>3 DEF TakeLease
  <2>4. exec'[NewToken].job = k /\ exec'[NewToken].attempt = job[k].attempts + 1
    BY <1>3, <2>1, <2>2 DEF TakeLease
  <2>5. CASE j = k
    <3>1. job'[j] = Leased(job[j], NewToken)
      BY <2>2, <2>3, <2>5
    <3> QED BY <1>3, <2>1, <2>4, <2>5, <3>1 DEF RowStep, RowLeased
  <2>6. CASE j # k
    BY <2>2, <2>3, <2>6 DEF RowStep
  <2> QED BY <2>5, <2>6
<1>4. CASE Sweep(r) \/ SweepError(r) \/ ClaimNothing(r)
  BY <1>1, <1>2, <1>4 DEF Sweep, SweepError, ClaimNothing
<1>5. CASE Claim(r) \/ ClaimError(r)
  BY <1>1, <1>3, <1>5 DEF Claim, ClaimError, NextInLine
<1> QED BY <1>4, <1>5 DEF LoopStep

LEMMA ExecutionRow ==
    ASSUME TypeInv, NEW t \in Tokens, ExecutionStep(t), NEW j \in JobIds
    PROVE  RowStep(j)
<1>1. CASE UNCHANGED job
  BY <1>1 DEF RowStep
<1>2. /\ job \in [JobIds -> Row] /\ exec \in [Tokens -> Execution]
      /\ exec[t] \in Execution /\ Placed(exec[t])
  BY DEF TypeInv, TypeOK
<1>3. ASSUME NEW row, job' = [job EXCEPT ![JobOf(t)] = row]
      PROVE  IF JobOf(t) = j THEN job'[j] = row ELSE job'[j] = job[j]
  BY <1>2, <1>3
<1>4. ASSUME NEW pc, Move(t, pc) PROVE exec'[t].pc = pc
  BY <1>2, <1>4 DEF Move, Execution
<1>5. CASE Owns(t) /\ SaveProgress(t)
  <2>1. CASE JobOf(t) = j
    <3>1. job'[j] = [job[j] EXCEPT !.progress = LocalEntry(t)]
      BY <1>3, <1>5, <2>1 DEF SaveProgress
    <3>2. SameBut(job[j], job'[j])
      BY <1>2, <3>1 DEF SameBut, Row
    <3> QED BY <1>5, <2>1, <3>2 DEF RowStep, RowTouched, Active, Owns
  <2>2. CASE JobOf(t) # j
    BY <1>2, <1>5, <2>2 DEF SaveProgress, RowStep
  <2> QED BY <2>1, <2>2
<1>6. CASE Requeue(t) /\ ~UNCHANGED job
  <2>1. /\ exec[t].pc = "requeue" /\ exec[t].attempt < MaxAttempts /\ Owns(t)
        /\ BackInQueue(t) /\ (Move(t, "cleanup") \/ Move(t, "finish"))
    BY <1>6 DEF Requeue
  <2>2. exec'[t].pc # exec[t].pc
    BY <1>4, <2>1
  <2>3. IF JobOf(t) = j THEN job'[j] = Requeued(job[j]) ELSE job'[j] = job[j]
    BY <1>3, <2>1 DEF BackInQueue
  <2> QED BY <2>1, <2>2, <2>3 DEF RowStep, RowSettled, RowRequeued
<1>7. CASE Finish(t)
  <2>1. exec[t].pc = "finish" /\ Owns(t) /\ Conclude(t) /\ Move(t, "cleanup")
    BY <1>7 DEF Finish
  <2>2. exec'[t].pc # exec[t].pc
    BY <1>4, <2>1
  <2>3. CASE exec[t].result = "report"
    <3>1. job' = [job EXCEPT ![JobOf(t)] = Done(job[JobOf(t)], t)]
      BY <2>1, <2>3 DEF Conclude
    <3>2. IF JobOf(t) = j THEN job'[j] = Done(job[j], t) ELSE job'[j] = job[j]
      BY <1>3, <3>1
    <3> QED BY <2>1, <2>2, <3>2 DEF RowStep, RowSettled, RowDone
  <2>4. CASE exec[t].result # "report"
    <3>1. job' = [job EXCEPT ![JobOf(t)] = Failed(job[JobOf(t)], exec[t].result)]
      BY <2>1, <2>4 DEF Conclude
    <3>2. IF JobOf(t) = j THEN job'[j] = Failed(job[j], exec[t].result) ELSE job'[j] = job[j]
      BY <1>3, <3>1
    <3>3. exec[t].result \in Failure
      BY <1>2, <2>1, <2>4 DEF Execution, Result, Failure, Placed
    <3> QED BY <2>1, <2>2, <3>2, <3>3 DEF RowStep, RowSettled, RowFailed
  <2> QED BY <2>3, <2>4
<1> QED BY <1>1, <1>5, <1>6, <1>7
        DEF ExecutionStep, Start, ReportProgress, OperationEnds, TickMeetsLockWait, Heartbeat,
            HeartbeatRefused, HeartbeatError, FinishWithout, Cleanup

LEMMA TimeRow ==
    ASSUME TypeInv, NEW k \in JobIds, LeaseExpires(k) \/ BackoffElapses(k), NEW j \in JobIds
    PROVE  RowStep(j)
<1>1. job \in [JobIds -> Row] /\ job[k] \in Row
  BY DEF TypeInv, TypeOK
<1>2. CASE j # k
  BY <1>1, <1>2 DEF LeaseExpires, BackoffElapses, RowStep
<1>3. CASE j = k
  <2>1. CASE LeaseExpires(k)
    <3>1. job'[j] = [job[j] EXCEPT !.lease = "expired"]
      BY <1>1, <1>3, <2>1 DEF LeaseExpires
    <3> QED BY <1>1, <1>3, <2>1, <3>1 DEF RowStep, RowTouched, SameBut, Active, LeaseExpires, Row
  <2>2. CASE BackoffElapses(k)
    <3>1. job'[j] = [job[j] EXCEPT !.due = TRUE]
      BY <1>1, <1>3, <2>2 DEF BackoffElapses
    <3> QED BY <1>1, <1>3, <2>2, <3>1 DEF RowStep, RowTouched, SameBut, Active, BackoffElapses, Row
  <2> QED BY <2>1, <2>2
<1> QED BY <1>2, <1>3

LEMMA RowSteps ==
    ASSUME TypeInv, [Next]_vars, NEW j \in JobIds
    PROVE  RowStep(j)
<1>1. CASE UNCHANGED job
  BY <1>1 DEF RowStep
<1>2. CASE Next
  BY <1>1, <1>2, AdmissionRow, LoopRow, ExecutionRow, TimeRow DEF Next, Crash
<1> QED BY <1>1, <1>2 DEF vars

-----------------------------------------------------------------------------
(* What each step does to one execution.                                   *)

Claimed(t) ==
    /\ t = NewToken /\ exec[t].pc = "unused" /\ exec'[t].result = "none"
    /\ \E j \in JobIds : RowLeased(j)
Continued(t) ==
    /\ exec[t].pc # "unused"
    /\ exec'[t].job = exec[t].job /\ exec'[t].attempt = exec[t].attempt
    /\ exec'[t].result = "lease_lost" => exec[t].result = "lease_lost" \/ ~Owns(t)

ExecutionStepped(t) == exec'[t] = exec[t] \/ Claimed(t) \/ Continued(t)

LEMMA LoopExecution ==
    ASSUME TypeInv, NEW r \in Replicas, LoopStep(r), NEW t \in Tokens
    PROVE  ExecutionStepped(t)
<1>1. CASE UNCHANGED exec
  BY <1>1 DEF ExecutionStepped
<1>2. ASSUME NEW k \in JobIds, NEW q, NEW pc, Claimable(k), TakeLease(k, q, pc)
      PROVE  ExecutionStepped(t)
  <2>1. NewToken \in Tokens /\ exec[NewToken].pc = "unused"
    BY <1>2, NewTokenIsFresh DEF TakeLease
  <2>2. job \in [JobIds -> Row] /\ exec \in [Tokens -> Execution]
    BY DEF TypeInv, TypeOK
  <2>3. job' = [job EXCEPT ![k] = Leased(job[k], NewToken)]
    BY <1>2 DEF TakeLease
  <2>4. /\ exec'[NewToken].job = k /\ exec'[NewToken].attempt = job[k].attempts + 1
        /\ exec'[NewToken].result = "none"
        /\ t # NewToken => exec'[t] = exec[t]
    BY <1>2, <2>1, <2>2 DEF TakeLease
  <2>5. job'[k] = Leased(job[k], NewToken)
    BY <2>2, <2>3
  <2>6. RowLeased(k)
    BY <1>2, <2>1, <2>4, <2>5 DEF RowLeased
  <2> QED BY <2>1, <2>4, <2>6 DEF ExecutionStepped, Claimed
<1>3. CASE Sweep(r) \/ SweepError(r) \/ ClaimNothing(r)
  BY <1>1, <1>3 DEF Sweep, SweepError, ClaimNothing
<1>4. CASE Claim(r) \/ ClaimError(r)
  BY <1>1, <1>2, <1>4 DEF Claim, ClaimError, NextInLine
<1> QED BY <1>3, <1>4 DEF LoopStep

LEMMA ExecutionExecution ==
    ASSUME TypeInv, NEW u \in Tokens, ExecutionStep(u), NEW t \in Tokens
    PROVE  ExecutionStepped(t)
<1>1. /\ exec \in [Tokens -> Execution] /\ exec[t] \in Execution /\ Placed(exec[t])
  BY DEF TypeInv, TypeOK
<1>2. ASSUME NEW e, exec' = [exec EXCEPT ![u] = e], t # u
      PROVE  ExecutionStepped(t)
  BY <1>1, <1>2 DEF ExecutionStepped
<1>3. ASSUME NEW result \in Result \ {"none"}, exec[u].pc = "running", StopWith(u, result),
             result # "lease_lost" \/ ~Owns(u)
      PROVE  ExecutionStepped(t)
  <2>1. CASE t # u
    BY <1>2, <1>3, <2>1 DEF StopWith
  <2>2. CASE t = u
    <3>1. exec'[t] = Stopped(exec[t], result)
      BY <1>1, <1>3, <2>2 DEF StopWith
    <3> QED BY <1>1, <1>3, <2>2, <3>1, StoppedExecution DEF ExecutionStepped, Continued
  <2> QED BY <2>1, <2>2
<1>4. ASSUME NEW pc \in {"running", "wedged", "finish", "cleanup"},
             exec[u].pc \in {"claimed", "running", "requeue", "finish"},
             pc = "finish" => exec[u].pc = "requeue",
             Move(u, pc)
      PROVE  ExecutionStepped(t)
  <2>1. CASE t # u
    BY <1>2, <1>4, <2>1 DEF Move
  <2>2. CASE t = u
    <3>1. exec'[t] = [exec[t] EXCEPT !.pc = pc]
      BY <1>1, <1>4, <2>2 DEF Move
    <3> QED BY <1>1, <1>4, <2>2, <3>1, MovedExecution DEF ExecutionStepped, Continued
  <2> QED BY <2>1, <2>2
<1>5. CASE Start(u)
  <2>1. Move(u, "running")
    BY <1>5 DEF Start, Move
  <2> QED BY <1>4, <1>5, <2>1 DEF Start
<1>6. CASE ReportProgress(u) \/ Heartbeat(u)
  BY <1>6 DEF ReportProgress, Heartbeat, ExecutionStepped
<1>7. CASE OperationEnds(u)
  BY <1>3, <1>7 DEF OperationEnds, Result
<1>8. CASE HeartbeatRefused(u) \/ HeartbeatError(u)
  BY <1>3, <1>8 DEF HeartbeatRefused, HeartbeatError, Result
<1>9. CASE Requeue(u) \/ Finish(u) \/ FinishWithout(u) \/ TickMeetsLockWait(u)
  BY <1>4, <1>9 DEF Requeue, Finish, FinishWithout, TickMeetsLockWait
<1>10. CASE Cleanup(u)
  <2>1. CASE t # u
    BY <1>2, <1>10, <2>1 DEF Cleanup
  <2>2. CASE t = u
    <3>1. exec'[t] = Gone(exec[t]) /\ exec[t].pc = "cleanup"
      BY <1>1, <1>10, <2>2 DEF Cleanup
    <3> QED BY <1>1, <3>1, GoneExecution DEF ExecutionStepped, Continued
  <2> QED BY <2>1, <2>2
<1> QED BY <1>5, <1>6, <1>7, <1>8, <1>9, <1>10 DEF ExecutionStep

LEMMA ExecutionSteps ==
    ASSUME TypeInv, [Next]_vars, NEW t \in Tokens
    PROVE  ExecutionStepped(t)
<1>1. CASE UNCHANGED exec
  BY <1>1 DEF ExecutionStepped
<1>2. ASSUME NEW r \in Crashing, Crash(r) PROVE ExecutionStepped(t)
  <2>1. exec[t] \in Execution /\ Placed(exec[t])
    BY DEF TypeInv, TypeOK
  <2>2. exec'[t] = IF t \in LiveOn(r) THEN Gone(exec[t]) ELSE exec[t]
    BY <1>2 DEF Crash
  <2>3. t \in LiveOn(r) => exec[t].pc # "unused"
    BY DEF LiveOn, Live
  <2> QED BY <2>1, <2>2, <2>3, GoneExecution DEF ExecutionStepped, Continued
<1>3. ASSUME NEW c \in Requests, AdmissionStep(c) PROVE UNCHANGED exec
  BY <1>3 DEF AdmissionStep, FindActive, Insert, Lookup, RequestError
<1>4. ASSUME NEW j \in JobIds, LeaseExpires(j) \/ BackoffElapses(j) PROVE UNCHANGED exec
  BY <1>4 DEF LeaseExpires, BackoffElapses
<1>5. CASE Next
  BY <1>1, <1>2, <1>3, <1>4, <1>5, LoopExecution, ExecutionExecution DEF Next
<1> QED BY <1>1, <1>5 DEF vars

-----------------------------------------------------------------------------
(* The inductive invariant.                                                *)

(* What the columns of a row say to each other.                            *)
SoundRow(row) ==
    /\ (row.status = "running") <=> (row.owner # None)
    /\ (row.status = "running") <=> (row.lease # "none")
    /\ row.status = "absent" => row.attempts = 0
    /\ row.status = "queued" => row.attempts < MaxAttempts
    /\ row.attempts <= MaxAttempts
    /\ (row.status = "done") <=> (row.report # None)
    /\ row.status = "done" => row.error = "none"
    /\ row.status = "failed" => row.error # "none"
    /\ row.error # "lease_lost"

(* The execution a row names, as owner or as author of its report, is the  *)
(* one that made the latest claim of that row.                             *)
Backed(j) ==
    \A t \in Tokens : t = job[j].owner \/ t = job[j].report =>
                          exec[t].job = j /\ exec[t].attempt = job[j].attempts

(* An execution made one of the counted claims of its job, and has not got *)
(* back a lease it found lost.                                             *)
Numbered(t) ==
    /\ exec[t].pc # "unused" => exec[t].attempt \in 1 .. job[JobOf(t)].attempts
    /\ exec[t].result = "lease_lost" => ~Owns(t)

Distinct(t, u) ==
    /\ exec[t].pc # "unused" /\ exec[u].pc # "unused"
    /\ JobOf(t) = JobOf(u) /\ exec[t].attempt = exec[u].attempt
    => t = u

Counted(j) == IsFiniteSet(ClaimsOf(j)) /\ Cardinality(ClaimsOf(j)) = job[j].attempts

QueueInv ==
    /\ TypeInv
    /\ \A j \in JobIds : SoundRow(job[j]) /\ Backed(j) /\ Counted(j)
    /\ \A t \in Tokens : Numbered(t)
    /\ \A t, u \in Tokens : Distinct(t, u)

LEMMA InitInv == Init => QueueInv
<1> SUFFICES ASSUME Init PROVE QueueInv
  OBVIOUS
<1>1. TypeInv
  BY InitType
<1>2. None \notin Tokens /\ None \notin JobIds /\ MaxAttempts \in Nat \ {0}
  BY QueueAssumption DEF QueueAssumption
<1>3. ASSUME NEW j \in JobIds PROVE SoundRow(job[j]) /\ Backed(j) /\ Counted(j)
  <2>1. job[j] = NoRow
    BY DEF Init
  <2>2. SoundRow(job[j]) /\ Backed(j)
    BY <1>2, <2>1 DEF SoundRow, Backed, NoRow
  <2>3. ClaimsOf(j) = {}
    BY <1>2 DEF ClaimsOf, Init, NoExecution
  <2> QED BY <2>1, <2>2, <2>3, FS_EmptySet DEF Counted, NoRow
<1>4. ASSUME NEW t \in Tokens
      PROVE  exec[t].pc = "unused" /\ exec[t].result = "none"
  BY DEF Init, NoExecution
<1> QED BY <1>1, <1>3, <1>4 DEF QueueInv, Numbered, Distinct

(* The common ground of the lemmas that follow.                            *)
LEMMA StepFacts ==
    ASSUME QueueInv, [Next]_vars
    PROVE  /\ TypeInv /\ TypeInv'
           /\ \A j \in JobIds : RowStep(j) /\ job[j] \in Row /\ job'[j] \in Row
           /\ \A t \in Tokens : /\ ExecutionStepped(t)
                                /\ exec[t] \in Execution /\ Placed(exec[t])
                                /\ exec'[t] \in Execution /\ Placed(exec'[t])
           /\ None \notin Tokens /\ None \notin JobIds /\ MaxAttempts \in Nat \ {0}
<1>1. TypeInv /\ TypeInv'
  BY NextType DEF QueueInv
<1>2. ASSUME NEW j \in JobIds PROVE RowStep(j) /\ job[j] \in Row /\ job'[j] \in Row
  BY <1>1, RowSteps DEF TypeInv, TypeOK
<1>3. ASSUME NEW t \in Tokens
      PROVE  /\ ExecutionStepped(t)
             /\ exec[t] \in Execution /\ Placed(exec[t])
             /\ exec'[t] \in Execution /\ Placed(exec'[t])
  BY <1>1, ExecutionSteps DEF TypeInv, TypeOK, Placed
<1> QED BY <1>1, <1>2, <1>3, QueueAssumption DEF QueueAssumption

LEMMA SoundRows ==
    ASSUME QueueInv, [Next]_vars, NEW j \in JobIds
    PROVE  SoundRow(job'[j])
<1>1. /\ RowStep(j) /\ job[j] \in Row /\ job'[j] \in Row
      /\ None \notin Tokens /\ MaxAttempts \in Nat \ {0}
  BY StepFacts
<1>2. SoundRow(job[j]) /\ Backed(j) /\ job[j].attempts \in Nat
  BY <1>1 DEF QueueInv, Row
<1>3. CASE job'[j] = job[j]
  BY <1>2, <1>3
<1>4. CASE RowInserted(j)
  BY <1>1, <1>4, NewRowFields DEF RowInserted, SoundRow
<1>5. CASE RowLeased(j)
  BY <1>1, <1>2, <1>5, LeasedRow DEF RowLeased, Claimable, Stale, SoundRow
<1>6. CASE RowGivenUp(j)
  BY <1>1, <1>2, <1>6, GivenUpRow DEF RowGivenUp, Exhausted, Stale, SoundRow
<1>7. CASE RowSettled(j)
  <2>1. PICK t \in Tokens : /\ JobOf(t) = j /\ Owns(t)
                            /\ RowRequeued(j, t) \/ RowDone(j, t) \/ RowFailed(j, t)
    BY <1>7 DEF RowSettled
  <2>2. exec[t].attempt = job[j].attempts /\ job[j].status = "running"
    BY <1>2, <2>1 DEF Backed, Owns
  <2>3. CASE RowRequeued(j, t)
    BY <1>1, <1>2, <2>2, <2>3, RequeuedRow DEF RowRequeued, SoundRow
  <2>4. CASE RowDone(j, t)
    BY <1>1, <1>2, <2>2, <2>4, DoneRow DEF RowDone, SoundRow
  <2>5. CASE RowFailed(j, t)
    <3>1. exec[t].result # "lease_lost" /\ exec[t].result # "none"
      BY <2>1, <2>5 DEF QueueInv, Numbered, RowFailed, Failure
    <3> QED BY <1>1, <1>2, <2>2, <2>5, <3>1, FailedRow DEF RowFailed, SoundRow
  <2> QED BY <2>1, <2>3, <2>4, <2>5
<1>8. CASE RowTouched(j)
  BY <1>1, <1>2, <1>8 DEF RowTouched, SameBut, Active, SoundRow
<1> QED BY <1>1, <1>3, <1>4, <1>5, <1>6, <1>7, <1>8 DEF RowStep

(* An execution keeps the job and the number of its claim.                 *)
LEMMA ClaimsAreKept ==
    ASSUME QueueInv, [Next]_vars, NEW t \in Tokens, exec[t].pc # "unused"
    PROVE  /\ exec'[t].job = exec[t].job /\ exec'[t].attempt = exec[t].attempt
           /\ exec'[t].pc # "unused"
<1>1. /\ exec[t] \in Execution /\ Placed(exec[t]) /\ Placed(exec'[t])
      /\ ExecutionStepped(t)
  BY StepFacts
<1> QED BY <1>1 DEF ExecutionStepped, Claimed, Continued, Placed

LEMMA BackedRows ==
    ASSUME QueueInv, [Next]_vars, NEW j \in JobIds
    PROVE  Backed(j)'
<1> SUFFICES ASSUME NEW t \in Tokens, t = job'[j].owner \/ t = job'[j].report
             PROVE  exec'[t].job = j /\ exec'[t].attempt = job'[j].attempts
  BY DEF Backed
<1>1. /\ RowStep(j) /\ job[j] \in Row /\ job'[j] \in Row /\ Placed(exec[t])
      /\ None \notin Tokens /\ None \notin JobIds
  BY StepFacts
<1>2. SoundRow(job[j]) /\ Backed(j)
  BY DEF QueueInv
<1>3. ASSUME t = job[j].owner \/ t = job[j].report, job'[j].attempts = job[j].attempts
      PROVE  exec'[t].job = j /\ exec'[t].attempt = job'[j].attempts
  <2>1. exec[t].job = j /\ exec[t].attempt = job[j].attempts
    BY <1>2, <1>3 DEF Backed
  <2>2. exec[t].pc # "unused"
    BY <1>1, <2>1 DEF Placed
  <2> QED BY <1>3, <2>1, <2>2, ClaimsAreKept
<1>4. CASE job'[j] = job[j]
  BY <1>3, <1>4
<1>5. CASE RowInserted(j)
  BY <1>1, <1>5, NewRowFields DEF RowInserted
<1>6. CASE RowLeased(j)
  BY <1>1, <1>2, <1>6, LeasedRow DEF RowLeased, Claimable, Stale, SoundRow
<1>7. CASE RowGivenUp(j)
  BY <1>1, <1>2, <1>7, GivenUpRow DEF RowGivenUp, Exhausted, Stale, SoundRow
<1>8. CASE RowSettled(j)
  <2>1. PICK u \in Tokens : /\ JobOf(u) = j /\ Owns(u)
                            /\ RowRequeued(j, u) \/ RowDone(j, u) \/ RowFailed(j, u)
    BY <1>8 DEF RowSettled
  <2>2. u = job[j].owner /\ job[j].status = "running"
    BY <2>1 DEF Owns
  <2>3. CASE RowRequeued(j, u)
    BY <1>1, <1>2, <2>2, <2>3, RequeuedRow DEF RowRequeued, SoundRow
  <2>4. CASE RowDone(j, u)
    BY <1>1, <1>3, <2>2, <2>4, DoneRow DEF RowDone
  <2>5. CASE RowFailed(j, u)
    BY <1>1, <2>5, FailedRow DEF RowFailed
  <2> QED BY <2>1, <2>3, <2>4, <2>5
<1>9. CASE RowTouched(j)
  BY <1>3, <1>9 DEF RowTouched, SameBut
<1> QED BY <1>1, <1>4, <1>5, <1>6, <1>7, <1>8, <1>9 DEF RowStep

(* The claims of a row that has some are never forgotten.                  *)
LEMMA AttemptsGrow ==
    ASSUME QueueInv, [Next]_vars, NEW j \in JobIds
    PROVE  \/ job'[j].attempts = job[j].attempts
           \/ RowLeased(j) /\ job'[j].attempts = job[j].attempts + 1
<1>1. RowStep(j) /\ job[j] \in Row
  BY StepFacts
<1>2. SoundRow(job[j])
  BY DEF QueueInv
<1>3. CASE RowInserted(j)
  BY <1>2, <1>3, NewRowFields DEF RowInserted, SoundRow
<1>4. CASE RowLeased(j)
  BY <1>1, <1>4, LeasedRow DEF RowLeased
<1>5. CASE RowGivenUp(j)
  BY <1>1, <1>5, GivenUpRow DEF RowGivenUp
<1>6. CASE RowSettled(j)
  BY <1>1, <1>6, RequeuedRow, DoneRow, FailedRow DEF RowSettled, RowRequeued, RowDone, RowFailed
<1>7. CASE RowTouched(j)
  BY <1>7 DEF RowTouched, SameBut
<1> QED BY <1>1, <1>3, <1>4, <1>5, <1>6, <1>7 DEF RowStep

(* Ownership is only ever gained by the execution of a new claim.          *)
LEMMA OwnershipIsNotRegained ==
    ASSUME QueueInv, [Next]_vars, NEW t \in Tokens, exec[t].pc # "unused", Owns(t)'
    PROVE  Owns(t)
<1> DEFINE j == JobOf(t)
<1>1. /\ exec'[t].job = exec[t].job /\ exec[t] \in Execution /\ Placed(exec[t])
      /\ None \notin Tokens
  BY ClaimsAreKept, StepFacts
<1>2. j \in JobIds
  BY <1>1 DEF Placed, JobOf, Execution
<1>3. job'[j].status = "running" /\ job'[j].owner = t /\ job'[j].lease = "valid"
  BY <1>1 DEF Owns, JobOf
<1>4. RowStep(j) /\ job[j] \in Row
  BY <1>2, StepFacts
<1> HIDE DEF j
<1>5. CASE RowInserted(j)
  BY <1>1, <1>3, <1>5, NewRowFields DEF RowInserted
<1>6. CASE RowLeased(j)
  BY <1>3, <1>4, <1>6, LeasedRow DEF RowLeased
<1>7. CASE RowGivenUp(j)
  BY <1>3, <1>4, <1>7, GivenUpRow DEF RowGivenUp
<1>8. CASE RowSettled(j)
  BY <1>3, <1>4, <1>8, RequeuedRow, DoneRow, FailedRow
     DEF RowSettled, RowRequeued, RowDone, RowFailed
<1>9. CASE job'[j] = job[j] \/ RowTouched(j)
  BY <1>3, <1>9 DEF RowTouched, SameBut, Owns, j
<1> QED BY <1>4, <1>5, <1>6, <1>7, <1>8, <1>9 DEF RowStep

LEMMA NumberedExecutions ==
    ASSUME QueueInv, [Next]_vars, NEW t \in Tokens
    PROVE  Numbered(t)'
<1>1. ExecutionStepped(t) /\ Numbered(t) /\ Placed(exec[t]) /\ exec[t] \in Execution
  BY StepFacts DEF QueueInv
<1>2. CASE exec[t].pc = "unused" /\ exec'[t] = exec[t]
  BY <1>1, <1>2 DEF Placed, Numbered
<1>3. CASE Claimed(t)
  <2>1. PICK j \in JobIds : RowLeased(j)
    BY <1>3 DEF Claimed
  <2>2. exec'[t].attempt = job[j].attempts + 1 /\ exec'[t].job = j /\ job[j] \in Row
    BY <1>3, <2>1, StepFacts DEF Claimed, RowLeased
  <2>3. job'[j].attempts = job[j].attempts + 1
    BY <1>3, <2>1, <2>2, LeasedRow DEF Claimed, RowLeased
  <2>4. exec'[t].attempt \in 1 .. job'[j].attempts
    BY <2>2, <2>3 DEF Row
  <2> QED BY <1>3, <2>2, <2>4 DEF Claimed, Numbered, JobOf
<1>4. CASE exec[t].pc # "unused" /\ (exec'[t] = exec[t] \/ Continued(t))
  <2>1. exec'[t].job = exec[t].job /\ exec'[t].attempt = exec[t].attempt
    BY <1>4, ClaimsAreKept
  <2>2. JobOf(t) \in JobIds
    BY <1>1, <1>4 DEF Placed, JobOf, Execution
  <2>3. exec'[t].attempt \in 1 .. job'[JobOf(t)].attempts
    <3>1. job[JobOf(t)] \in Row
      BY <2>2, StepFacts
    <3>2. \/ job'[JobOf(t)].attempts = job[JobOf(t)].attempts
          \/ job'[JobOf(t)].attempts = job[JobOf(t)].attempts + 1
      BY <2>2, AttemptsGrow
    <3> QED BY <1>1, <1>4, <2>1, <3>1, <3>2 DEF Numbered, Row
  <2>4. exec'[t].result = "lease_lost" => ~Owns(t)
    BY <1>1, <1>4 DEF Numbered, Continued
  <2>5. exec'[t].result = "lease_lost" => ~Owns(t)'
    BY <1>4, <2>4, OwnershipIsNotRegained
  <2> QED BY <2>1, <2>3, <2>5 DEF Numbered, JobOf
<1> QED BY <1>1, <1>2, <1>3, <1>4 DEF ExecutionStepped, Continued

LEMMA DistinctExecutions ==
    ASSUME QueueInv, [Next]_vars, NEW t \in Tokens, NEW u \in Tokens
    PROVE  Distinct(t, u)'
<1>1. ASSUME NEW v \in Tokens, NEW w \in Tokens, Claimed(v), exec[w].pc # "unused",
             exec'[v].job = exec'[w].job
      PROVE  exec'[v].attempt # exec'[w].attempt
  <2>1. PICK j \in JobIds : RowLeased(j)
    BY <1>1 DEF Claimed
  <2>2. exec'[v].attempt = job[j].attempts + 1 /\ exec'[v].job = j /\ job[j] \in Row
    BY <1>1, <2>1, StepFacts DEF Claimed, RowLeased
  <2>3. exec[w].job = j /\ exec'[w].attempt = exec[w].attempt
    BY <1>1, <2>2, ClaimsAreKept
  <2>4. exec[w].attempt \in 1 .. job[j].attempts
    BY <1>1, <2>3 DEF QueueInv, Numbered, JobOf
  <2> QED BY <2>2, <2>3, <2>4 DEF Row
<1>2. /\ ExecutionStepped(t) /\ ExecutionStepped(u) /\ Distinct(t, u)
      /\ Placed(exec'[t]) /\ Placed(exec'[u])
  BY StepFacts DEF QueueInv
<1>3. CASE exec[t].pc # "unused" /\ exec[u].pc # "unused"
  BY <1>2, <1>3, ClaimsAreKept DEF Distinct, JobOf
<1>4. CASE Claimed(t) /\ Claimed(u)
  BY <1>4 DEF Claimed, Distinct
<1>5. CASE Claimed(t) /\ exec[u].pc # "unused"
  BY <1>1, <1>5 DEF Distinct, JobOf
<1>6. CASE Claimed(u) /\ exec[t].pc # "unused"
  BY <1>1, <1>6 DEF Distinct, JobOf
<1>7. CASE \/ exec[t].pc = "unused" /\ exec'[t] = exec[t]
           \/ exec[u].pc = "unused" /\ exec'[u] = exec[u]
  BY <1>7 DEF Distinct
<1> QED BY <1>2, <1>3, <1>4, <1>5, <1>6, <1>7 DEF ExecutionStepped, Continued

LEMMA CountedClaims ==
    ASSUME QueueInv, [Next]_vars, NEW j \in JobIds
    PROVE  Counted(j)'
<1>1. Counted(j) /\ None \notin JobIds /\ job[j] \in Row
  BY StepFacts DEF QueueInv
<1>2. ASSUME NEW t \in Tokens
      PROVE  /\ ExecutionStepped(t) /\ Placed(exec[t]) /\ Placed(exec'[t])
             /\ exec[t].pc # "unused" => exec'[t].job = exec[t].job
  BY StepFacts, ClaimsAreKept
<1>3. CASE RowLeased(j)
  <2>1. NewToken \in Tokens /\ exec[NewToken].pc = "unused" /\ exec'[NewToken].job = j
    BY <1>3 DEF RowLeased
  <2>2. NewToken \notin ClaimsOf(j)
    BY <1>1, <1>2, <2>1 DEF ClaimsOf, Placed
  <2>3. \A t \in Tokens : exec'[t].job = j <=> exec[t].job = j \/ t = NewToken
    BY <1>1, <1>2, <2>1 DEF Placed, ExecutionStepped, Claimed, Continued
  <2>4. ClaimsOf(j)' = ClaimsOf(j) \cup {NewToken}
    BY <2>1, <2>3 DEF ClaimsOf
  <2>5. job'[j].attempts = job[j].attempts + 1
    BY <1>1, <1>3, <2>1, LeasedRow DEF RowLeased
  <2> QED BY <1>1, <2>2, <2>4, <2>5, FS_AddElement DEF Counted
<1>4. CASE ~RowLeased(j)
  <2>1. ASSUME NEW t \in Tokens PROVE exec'[t].job = j <=> exec[t].job = j
    <3>1. CASE Claimed(t)
      <4>1. PICK k \in JobIds : RowLeased(k)
        BY <3>1 DEF Claimed
      <4>2. exec'[t].job = k /\ k # j
        BY <1>4, <3>1, <4>1 DEF Claimed, RowLeased
      <4> QED BY <1>1, <1>2, <3>1, <4>2 DEF Claimed, Placed
    <3>2. CASE exec'[t] = exec[t] \/ Continued(t)
      BY <3>2 DEF Continued
    <3> QED BY <1>2, <3>1, <3>2 DEF ExecutionStepped
  <2>2. ClaimsOf(j)' = ClaimsOf(j)
    BY <2>1 DEF ClaimsOf
  <2>3. job'[j].attempts = job[j].attempts
    BY <1>4, AttemptsGrow
  <2> QED BY <1>1, <2>2, <2>3 DEF Counted
<1> QED BY <1>3, <1>4

LEMMA InvariantInductive == QueueInv /\ [Next]_vars => QueueInv'
<1> SUFFICES ASSUME QueueInv, [Next]_vars PROVE QueueInv'
  OBVIOUS
<1>1. TypeInv'
  BY StepFacts
<1>2. \A j \in JobIds : SoundRow(job'[j]) /\ Backed(j)' /\ Counted(j)'
  BY SoundRows, BackedRows, CountedClaims
<1>3. \A t \in Tokens : Numbered(t)'
  BY NumberedExecutions
<1>4. \A t, u \in Tokens : Distinct(t, u)'
  BY DistinctExecutions
<1> QED BY <1>1, <1>2, <1>3, <1>4 DEF QueueInv

LEMMA AlwaysQueueInv == Spec => []QueueInv
BY InitInv, InvariantInductive, PTL DEF Spec

-----------------------------------------------------------------------------
(* The theorems.                                                           *)

(* A row is leased exactly while it runs, and a queued row can always be   *)
(* claimed once more: neither a takeover, a requeue, an exhausted lease    *)
(* nor a lost reply leaves a row that no sweep and no claim picks up.      *)
THEOREM LeasesAreConsistent == Spec => []LeaseContract
<1>1. QueueInv => LeaseContract
  BY DEF QueueInv, SoundRow, LeaseContract
<1> QED BY <1>1, AlwaysQueueInv, PTL

(* However executions end, crash or are taken over, a job is claimed at    *)
(* most MaxAttempts times, and attempts counts exactly these claims.       *)
THEOREM AttemptsAreBounded == Spec => []NoFourthReplay
<1>1. QueueInv => NoFourthReplay
  <2> SUFFICES ASSUME QueueInv, NEW j \in JobIds
               PROVE  /\ job[j].attempts = Cardinality(ClaimsOf(j))
                      /\ job[j].attempts <= MaxAttempts
                      /\ \A t, u \in ClaimsOf(j) : exec[t].attempt = exec[u].attempt => t = u
    BY DEF NoFourthReplay
  <2>1. SoundRow(job[j]) /\ Counted(j)
    BY DEF QueueInv
  <2>2. ASSUME NEW t \in ClaimsOf(j), NEW u \in ClaimsOf(j), exec[t].attempt = exec[u].attempt
        PROVE  t = u
    <3>1. t \in Tokens /\ u \in Tokens /\ JobOf(t) = j /\ JobOf(u) = j
      BY DEF ClaimsOf, JobOf
    <3>2. exec[t].pc # "unused" /\ exec[u].pc # "unused"
      BY <3>1, QueueAssumption DEF QueueInv, TypeInv, Placed, JobOf, QueueAssumption
    <3> QED BY <2>2, <3>1, <3>2 DEF QueueInv, Distinct
  <2> QED BY <2>1, <2>2 DEF SoundRow, Counted
<1> QED BY <1>1, AlwaysQueueInv, PTL

(* The stored report of a job is that of the execution with the last       *)
(* attempt number: a late result of a superseded execution is never kept,  *)
(* and no job ends, or waits for its retry, with the error of a lost lease.*)
THEOREM OutcomesAreLatest == Spec => []OutcomeFromLatestClaim
<1>1. QueueInv => OutcomeFromLatestClaim
  <2> SUFFICES ASSUME QueueInv, NEW j \in JobIds
               PROVE  /\ job[j].status = "done" <=> job[j].report # None
                      /\ job[j].status = "done" => job[j].error = "none"
                      /\ job[j].status = "failed" => job[j].error # "none"
                      /\ job[j].report # None =>
                            /\ exec[job[j].report].job = j
                            /\ exec[job[j].report].attempt = job[j].attempts
                      /\ job[j].error # "lease_lost"
    BY DEF OutcomeFromLatestClaim
  <2>1. SoundRow(job[j]) /\ Backed(j) /\ job[j].report \in Tokens \cup {None}
    BY DEF QueueInv, TypeInv, TypeOK, Row
  <2> QED BY <2>1 DEF SoundRow, Backed
<1> QED BY <1>1, AlwaysQueueInv, PTL

(* A valid lease is only given up by the execution that holds it.          *)
THEOREM LeasesProtect == Spec => LeaseProtectsOwner
<1> DEFINE Kept(j) ==
      job[j].lease = "valid" /\ job'[j].owner # job[j].owner =>
         LET t == job[j].owner IN
         /\ exec[t].job = j
         /\ exec[t].pc \in {"requeue", "finish"}
         /\ exec'[t].pc # exec[t].pc
<1>1. QueueInv /\ [Next]_vars => [\A j \in JobIds : Kept(j)]_vars
  <2> SUFFICES ASSUME QueueInv, [Next]_vars, NEW j \in JobIds,
                      job[j].lease = "valid", job'[j].owner # job[j].owner
               PROVE  LET t == job[j].owner IN
                      /\ exec[t].job = j
                      /\ exec[t].pc \in {"requeue", "finish"}
                      /\ exec'[t].pc # exec[t].pc
    OBVIOUS
  <2>1. RowStep(j) /\ SoundRow(job[j])
    BY StepFacts DEF QueueInv
  <2>2. CASE RowSettled(j)
    BY <2>2 DEF RowSettled, RowRequeued, RowDone, RowFailed, Owns, JobOf
  <2>3. ~RowInserted(j) /\ ~RowLeased(j) /\ ~RowGivenUp(j)
    BY <2>1 DEF SoundRow, RowInserted, RowLeased, Claimable, RowGivenUp, Exhausted, Stale
  <2> QED BY <2>1, <2>2, <2>3 DEF RowStep, RowTouched, SameBut
<1> QED BY <1>1, AlwaysQueueInv, PTL DEF Spec, LeaseProtectsOwner

(* A job that is done or failed is never written again.                    *)
THEOREM RecordsAreFinal == Spec => ConcludedIsFinal
<1>1. QueueInv /\ [Next]_vars => [\A j \in JobIds : Concluded(j) => job'[j] = job[j]]_vars
  <2> SUFFICES ASSUME QueueInv, [Next]_vars, NEW j \in JobIds, Concluded(j)
               PROVE  job'[j] = job[j]
    OBVIOUS
  <2>1. RowStep(j)
    BY StepFacts
  <2> QED BY <2>1 DEF RowStep, Concluded, Active, RowInserted, RowLeased, Claimable, Stale,
                      RowGivenUp, Exhausted, RowSettled, Owns, RowTouched
<1> QED BY <1>1, AlwaysQueueInv, PTL DEF Spec, ConcludedIsFinal

(* At no moment do two active jobs share a lane and identity, however      *)
(* admissions race each other and the executions of the queue.             *)
THEOREM AdmissionIsExclusive == Spec => []OneActivePerIdentity
<1>1. Init => OneActivePerIdentity
  BY DEF Init, OneActivePerIdentity, Active, NoRow
<1>2. QueueInv /\ OneActivePerIdentity /\ [Next]_vars => OneActivePerIdentity'
  <2> SUFFICES ASSUME QueueInv, OneActivePerIdentity, [Next]_vars
               PROVE  OneActivePerIdentity'
    OBVIOUS
  <2>1. ASSUME NEW j \in JobIds, Active(j)', ~RowInserted(j)
        PROVE  Active(j) /\ job'[j].identity = job[j].identity
    <3>1. RowStep(j) /\ job[j] \in Row
      BY StepFacts
    <3>2. CASE job'[j] = job[j] \/ RowTouched(j)
      BY <2>1, <3>2 DEF Active, RowTouched, SameBut
    <3>3. CASE RowLeased(j)
      BY <3>1, <3>3, LeasedRow DEF RowLeased, Claimable, Stale, Active
    <3>4. CASE RowGivenUp(j)
      BY <2>1, <3>1, <3>4, GivenUpRow DEF RowGivenUp, Active
    <3>5. CASE RowSettled(j)
      <4>1. PICK t \in Tokens : /\ JobOf(t) = j /\ Owns(t)
                                /\ RowRequeued(j, t) \/ RowDone(j, t) \/ RowFailed(j, t)
        BY <3>5 DEF RowSettled
      <4>2. job[j].status = "running"
        BY <4>1 DEF Owns
      <4>3. CASE RowRequeued(j, t)
        BY <3>1, <4>2, <4>3, RequeuedRow DEF RowRequeued, Active
      <4>4. CASE RowDone(j, t) \/ RowFailed(j, t)
        BY <2>1, <3>1, <4>4, DoneRow, FailedRow DEF RowDone, RowFailed, Active
      <4> QED BY <4>1, <4>3, <4>4
    <3> QED BY <2>1, <3>1, <3>2, <3>3, <3>4, <3>5 DEF RowStep
  <2>2. ASSUME NEW j \in JobIds, NEW k \in JobIds, RowInserted(j), ~RowInserted(k),
               Active(k)', job'[j].identity = job'[k].identity
        PROVE  FALSE
    <3>1. PICK i \in Identities \cup {None} :
             job'[j] = NewRow(i) /\ \A l \in JobIds : ~HasActive(i, l)
      BY <2>2 DEF RowInserted
    <3>2. job'[j].identity = i
      BY <3>1, NewRowFields
    <3> QED BY <2>1, <2>2, <3>1, <3>2 DEF HasActive
  <2> SUFFICES ASSUME NEW j \in JobIds, NEW k \in JobIds, Active(j)', Active(k)',
                      job'[j].identity = job'[k].identity
               PROVE  j = k
    BY DEF OneActivePerIdentity
  <2>3. CASE RowInserted(j) /\ RowInserted(k)
    BY <2>3 DEF RowInserted
  <2>4. CASE ~RowInserted(j) /\ ~RowInserted(k)
    BY <2>1, <2>4 DEF OneActivePerIdentity
  <2> QED BY <2>2, <2>3, <2>4
<1> QED BY <1>1, <1>2, AlwaysQueueInv, PTL DEF Spec

-----------------------------------------------------------------------------
(* Admission.                                                              *)

(* A row that exists keeps its identity and never becomes absent, and one  *)
(* that has ended stays ended.                                             *)
LEMMA RowsRemain ==
    ASSUME QueueInv, [Next]_vars, NEW j \in JobIds, job[j].status # "absent"
    PROVE  /\ job'[j].status # "absent" /\ job'[j].identity = job[j].identity
           /\ Concluded(j) => Concluded(j)'
<1>1. RowStep(j) /\ job[j] \in Row
  BY StepFacts
<1>2. CASE job'[j] = job[j] \/ RowTouched(j)
  BY <1>2 DEF RowTouched, SameBut, Active, Concluded
<1>3. CASE RowLeased(j)
  BY <1>1, <1>3, LeasedRow DEF RowLeased, Claimable, Stale, Concluded
<1>4. CASE RowGivenUp(j)
  BY <1>1, <1>4, GivenUpRow DEF RowGivenUp, Concluded
<1>5. CASE RowSettled(j)
  <2>1. PICK t \in Tokens : /\ JobOf(t) = j /\ Owns(t)
                            /\ RowRequeued(j, t) \/ RowDone(j, t) \/ RowFailed(j, t)
    BY <1>5 DEF RowSettled
  <2>2. ~Concluded(j)
    BY <2>1 DEF Owns, Concluded
  <2> QED BY <1>1, <2>1, <2>2, RequeuedRow, DoneRow, FailedRow
          DEF RowRequeued, RowDone, RowFailed
<1> QED BY <1>1, <1>2, <1>3, <1>4, <1>5 DEF RowStep, RowInserted

(* What a request knows of the row it met.                                 *)
Asked(c) ==
    /\ req[c].pc \in {"insert", "lookup", "answered", "raced"} => req[c].identity \in Identities
    /\ req[c].pc \in {"lookup", "answered", "raced"} =>
          /\ req[c].job \in JobIds
          /\ job[req[c].job].identity = req[c].identity
          /\ job[req[c].job].status # "absent"
    /\ req[c].pc = "raced" => Concluded(req[c].job)

ToldOnce(c, d) ==
    /\ req[c].pc = "answered" /\ req[c].created
    /\ req[d].pc = "answered" /\ req[d].created
    /\ req[c].job = req[d].job
    => c = d

AdmissionInv ==
    /\ QueueInv
    /\ \A c \in Requests : Asked(c)
    /\ \A c, d \in Requests : ToldOnce(c, d)

LEMMA AskedStays ==
    ASSUME AdmissionInv, [Next]_vars, NEW c \in Requests, req'[c] = req[c]
    PROVE  Asked(c)'
<1>1. QueueInv /\ Asked(c)
  BY DEF AdmissionInv
<1>2. CASE req[c].pc \in {"lookup", "answered", "raced"}
  <2>1. /\ job'[req[c].job].status # "absent"
        /\ job'[req[c].job].identity = job[req[c].job].identity
        /\ Concluded(req[c].job) => Concluded(req[c].job)'
    BY <1>1, <1>2, RowsRemain DEF Asked
  <2> QED BY <1>1, <1>2, <2>1 DEF Asked, Concluded
<1>3. CASE req[c].pc \notin {"lookup", "answered", "raced"}
  BY <1>1, <1>3 DEF Asked
<1> QED BY <1>2, <1>3

(* The step of a request, as far as the other requests can tell.           *)
LEMMA AskedMoves ==
    ASSUME AdmissionInv, [Next]_vars, NEW c \in Requests, AdmissionStep(c)
    PROVE  /\ \A d \in Requests \ {c} : req'[d] = req[d]
           /\ Asked(c)'
           /\ req'[c].pc = "answered" /\ req'[c].created =>
                 \A d \in Requests : Asked(d) /\ req[d].pc = "answered" => req[d].job # req'[c].job
<1> DEFINE i == req[c].identity
<1>1. /\ QueueInv /\ Asked(c) /\ req \in [Requests -> Request] /\ job \in [JobIds -> Row]
      /\ req[c] \in Request
  BY DEF AdmissionInv, QueueInv, TypeInv, TypeOK
<1>2. CASE \E k \in Identities : FindActive(c, k)
  <2>1. PICK k \in Identities : FindActive(c, k)
    BY <1>2
  <2>2. CASE \E j \in JobIds : HasActive(k, j) /\ req' = [req EXCEPT ![c] = At("answered", k, j)]
    <3>1. PICK j \in JobIds : HasActive(k, j) /\ req' = [req EXCEPT ![c] = At("answered", k, j)]
      BY <2>2
    <3>2. req'[c] = At("answered", k, j) /\ UNCHANGED job
      BY <1>1, <2>1, <3>1 DEF FindActive
    <3> QED BY <1>1, <3>1, <3>2 DEF At, Asked, HasActive, Active
  <2>3. CASE req' = [req EXCEPT ![c] = At("insert", k, None)]
    <3>1. req'[c] = At("insert", k, None)
      BY <1>1, <2>3
    <3> QED BY <1>1, <2>3, <3>1 DEF At, Asked
  <2> QED BY <2>1, <2>2, <2>3 DEF FindActive
<1>3. CASE Insert(c) /\ InsertConflict(c)
  <2>1. PICK j \in JobIds : /\ HasActive(i, j) /\ req' = [req EXCEPT ![c] = At("lookup", i, j)]
                            /\ UNCHANGED job
    BY <1>3 DEF InsertConflict
  <2>2. req'[c] = At("lookup", i, j) /\ i \in Identities
    BY <1>1, <1>3, <2>1 DEF Insert, Asked
  <2> QED BY <1>1, <2>1, <2>2 DEF At, Asked, HasActive, Active
<1>4. CASE Insert(c) /\ InsertRow(c)
  <2>1. NewJob \in JobIds /\ job[NewJob].status = "absent"
    BY <1>4, NewJobIsFresh DEF InsertRow
  <2>2. job' = [job EXCEPT ![NewJob] = NewRow(i)] /\ i \in Identities
    BY <1>1, <1>4 DEF InsertRow, Insert, Asked
  <2>3. job'[NewJob].identity = i /\ job'[NewJob].status = "queued"
    BY <1>1, <2>1, <2>2, NewRowFields
  <2>4. CASE req' = [req EXCEPT ![c] = CreatedIn(i, NewJob)]
    <3>1. req'[c] = CreatedIn(i, NewJob)
      BY <1>1, <2>4
    <3>2. Asked(c)'
      BY <2>1, <2>2, <2>3, <3>1 DEF CreatedIn, Asked
    <3>3. \A d \in Requests : Asked(d) /\ req[d].pc = "answered" => req[d].job # NewJob
      BY <2>1 DEF Asked
    <3> QED BY <1>1, <2>4, <3>1, <3>2, <3>3 DEF CreatedIn
  <2>5. CASE req' = [req EXCEPT ![c] = At("db_error", i, None)]
    <3>1. req'[c] = At("db_error", i, None)
      BY <1>1, <2>5
    <3> QED BY <1>1, <2>5, <3>1 DEF At, Asked
  <2> QED BY <1>4, <2>4, <2>5 DEF InsertRow
<1>5. CASE Lookup(c)
  <2>1. i \in Identities /\ req[c].job \in JobIds /\ job[req[c].job].identity = i
        /\ job[req[c].job].status # "absent" /\ UNCHANGED job
    BY <1>1, <1>5 DEF Lookup, Asked
  <2>2. CASE \E j \in JobIds : HasActive(i, j) /\ req' = [req EXCEPT ![c] = At("answered", i, j)]
    <3>1. PICK j \in JobIds : HasActive(i, j) /\ req' = [req EXCEPT ![c] = At("answered", i, j)]
      BY <2>2
    <3>2. req'[c] = At("answered", i, j)
      BY <1>1, <3>1
    <3> QED BY <1>1, <2>1, <3>1, <3>2 DEF At, Asked, HasActive, Active
  <2>3. CASE /\ \A j \in JobIds : ~HasActive(i, j)
             /\ req' = [req EXCEPT ![c] = At("raced", i, req[c].job)]
    <3>1. req'[c] = At("raced", i, req[c].job)
      BY <1>1, <2>3
    <3>2. Concluded(req[c].job)
      BY <1>1, <2>1, <2>3 DEF HasActive, Active, Concluded, Row, Status
    <3>3. Concluded(req[c].job)'
      BY <2>1, <3>1, <3>2 DEF At, Concluded
    <3>4. Asked(c)'
      BY <2>1, <3>1, <3>3 DEF At, Asked, Concluded
    <3>5. ~req'[c].created
      BY <3>1 DEF At
    <3> QED BY <1>1, <2>3, <3>4, <3>5
  <2> QED BY <1>5, <2>2, <2>3 DEF Lookup
<1>6. CASE RequestError(c)
  <2>1. req' = [req EXCEPT ![c] = At("db_error", i, None)]
    BY <1>6 DEF RequestError
  <2>2. req'[c] = At("db_error", i, None)
    BY <1>1, <2>1
  <2> QED BY <1>1, <2>1, <2>2 DEF At, Asked
<1> QED BY <1>2, <1>3, <1>4, <1>5, <1>6 DEF AdmissionStep, Insert

LEMMA OnlyRequestsMove ==
    ASSUME [Next]_vars, \A c \in Requests : ~AdmissionStep(c)
    PROVE  UNCHANGED req
<1>1. CASE UNCHANGED vars
  BY <1>1 DEF vars
<1>2. ASSUME NEW r \in Replicas, LoopStep(r) PROVE UNCHANGED req
  BY <1>2 DEF LoopStep, Sweep, SweepError, Claim, ClaimNothing, ClaimError
<1>3. ASSUME NEW t \in Tokens, ExecutionStep(t) PROVE UNCHANGED req
  BY <1>3 DEF ExecutionStep, Start, ReportProgress, OperationEnds, TickMeetsLockWait, Heartbeat,
              HeartbeatRefused, HeartbeatError, Requeue, Finish, FinishWithout, Cleanup
<1>4. CASE Next
  BY <1>2, <1>3, <1>4 DEF Next, Crash, LeaseExpires, BackoffElapses
<1> QED BY <1>1, <1>4

LEMMA AdmissionInductive == AdmissionInv /\ [Next]_vars => AdmissionInv'
<1> SUFFICES ASSUME AdmissionInv, [Next]_vars PROVE AdmissionInv'
  OBVIOUS
<1>1. QueueInv'
  BY InvariantInductive DEF AdmissionInv
<1>2. CASE UNCHANGED req
  <2>1. \A c \in Requests : Asked(c)'
    BY <1>2, AskedStays
  <2> QED BY <1>1, <1>2, <2>1 DEF AdmissionInv, ToldOnce
<1>3. ASSUME NEW c \in Requests, AdmissionStep(c) PROVE AdmissionInv'
  <2>1. /\ \A d \in Requests \ {c} : req'[d] = req[d]
        /\ Asked(c)'
        /\ req'[c].pc = "answered" /\ req'[c].created =>
              \A d \in Requests : Asked(d) /\ req[d].pc = "answered" => req[d].job # req'[c].job
    BY <1>3, AskedMoves
  <2>2. \A d \in Requests : Asked(d)'
    BY <2>1, AskedStays
  <2>3. \A d, e \in Requests : Asked(d) /\ ToldOnce(d, e)
    BY DEF AdmissionInv
  <2>4. \A d, e \in Requests : ToldOnce(d, e)'
    BY <2>1, <2>3 DEF ToldOnce
  <2> QED BY <1>1, <2>2, <2>4 DEF AdmissionInv
<1> QED BY <1>2, <1>3, OnlyRequestsMove

LEMMA AlwaysAdmissionInv == Spec => []AdmissionInv
<1>1. Init => AdmissionInv
  <2> SUFFICES ASSUME Init PROVE AdmissionInv
    OBVIOUS
  <2>1. \A c \in Requests : req[c].pc = "idle"
    BY DEF Init, At
  <2> QED BY <2>1, InitInv DEF AdmissionInv, Asked, ToldOnce
<1> QED BY <1>1, AdmissionInductive, PTL DEF Spec

(* The HTTP answers are true: an answered request names a job of its       *)
(* identity, a job is created for one request at most, and the RowNotFound *)
(* path of admit is reached only when the colliding job has ended.         *)
THEOREM AnswersAreTrue == Spec => []AdmissionContract
<1>1. AdmissionInv => AdmissionContract
  BY DEF AdmissionInv, AdmissionContract, Asked, ToldOnce
<1> QED BY <1>1, AlwaysAdmissionInv, PTL

-----------------------------------------------------------------------------
(* The refinement.                                                         *)

(* What the promise sees of a change of one row.                           *)
LEMMA OneRowSeen ==
    ASSUME job \in [JobIds -> Row], NEW k \in JobIds, NEW row \in Row,
           job' = [job EXCEPT ![k] = row]
    PROVE  /\ [j \in JobIds |-> job'[j].status]
                = [[j \in JobIds |-> job[j].status] EXCEPT ![k] = row.status]
           /\ [j \in JobIds |-> job'[j].attempts]
                = [[j \in JobIds |-> job[j].attempts] EXCEPT ![k] = row.attempts]
           /\ [j \in JobIds |-> job'[j].identity]
                = [[j \in JobIds |-> job[j].identity] EXCEPT ![k] = row.identity]
OBVIOUS

PromiseStep == [P!PNext]_(P!pvars)

(* A step that leaves status, attempts and identity of every row alone.    *)
LEMMA UnseenStep ==
    ASSUME \A j \in JobIds : /\ job'[j].status = job[j].status
                             /\ job'[j].attempts = job[j].attempts
                             /\ job'[j].identity = job[j].identity
    PROVE  PromiseStep
BY DEF PromiseStep, P!pvars

LEMMA SubmitStep ==
    ASSUME AdmissionInv, NEW c \in Requests, req[c].pc = "insert", InsertRow(c)
    PROVE  PromiseStep
<1>1. NewJob \in JobIds /\ job[NewJob].status = "absent"
  BY NewJobIsFresh DEF InsertRow
<1>2. PICK k \in JobIds : k = NewJob
  BY <1>1
<1>3. req[c].identity \in Identities
  BY DEF AdmissionInv, Asked
<1>4. PICK i \in Identities : i = req[c].identity
  BY <1>3
<1>5. /\ job \in [JobIds -> Row] /\ SoundRow(job[k])
      /\ job' = [job EXCEPT ![k] = NewRow(i)]
      /\ \A j \in JobIds : ~HasActive(i, j)
  BY <1>2, <1>4 DEF AdmissionInv, InsertRow, QueueInv, TypeInv, TypeOK
<1>6. /\ NewRow(i) \in Row /\ NewRow(i).status = "queued" /\ NewRow(i).attempts = 0
      /\ NewRow(i).identity = i
  BY NewRowFields
<1>7. job[k].attempts = 0 /\ job[k].status = "absent"
  BY <1>1, <1>2, <1>5 DEF SoundRow
<1>8. P!Submit(k, i)
  BY <1>5, <1>6, <1>7, OneRowSeen DEF P!Submit, P!Pending, HasActive, Active
<1> QED BY <1>8 DEF PromiseStep, P!PNext

LEMMA TryStep ==
    ASSUME QueueInv, NEW k \in JobIds, NEW q, NEW pc, Claimable(k), TakeLease(k, q, pc)
    PROVE  PromiseStep
<1>1. NewToken \in Tokens /\ job \in [JobIds -> Row] /\ job[k] \in Row
  BY NewTokenIsFresh DEF TakeLease, QueueInv, TypeInv, TypeOK
<1>2. /\ Leased(job[k], NewToken) \in Row /\ Leased(job[k], NewToken).status = "running"
      /\ Leased(job[k], NewToken).attempts = job[k].attempts + 1
      /\ Leased(job[k], NewToken).identity = job[k].identity
  BY <1>1, LeasedRow
<1>3. job' = [job EXCEPT ![k] = Leased(job[k], NewToken)]
  BY DEF TakeLease
<1>4. P!Try(k)
  BY <1>1, <1>2, <1>3, OneRowSeen DEF P!Try, P!Pending, Claimable, Stale
<1> QED BY <1>4 DEF PromiseStep, P!PNext, P!Settle

LEMMA GiveUpStep ==
    ASSUME QueueInv, ExhaustStale
    PROVE  PromiseStep
<1> DEFINE S == {j \in JobIds : Exhausted(j)}
<1>1. /\ job \in [JobIds -> Row]
      /\ \A j \in JobIds : job'[j] = IF Exhausted(j) THEN GivenUp(job[j]) ELSE job[j]
  BY DEF ExhaustStale, QueueInv, TypeInv, TypeOK
<1>2. CASE S = {}
  BY <1>1, <1>2, UnseenStep
<1>3. CASE S # {}
  <2>1. PICK j \in S : TRUE
    BY <1>3
  <2>2. \A k \in S : job[k].status = "running" /\ job[k].attempts = MaxAttempts
    <3> SUFFICES ASSUME NEW k \in S
                 PROVE  job[k].status = "running" /\ job[k].attempts = MaxAttempts
      OBVIOUS
    <3>1. SoundRow(job[k]) /\ Exhausted(k) /\ job[k] \in Row
      BY <1>1 DEF QueueInv
    <3> QED BY <3>1, QueueAssumption DEF SoundRow, Exhausted, Stale, Row, QueueAssumption
  <2>3. \A k \in JobIds : /\ job'[k].status = IF k \in S THEN "failed" ELSE job[k].status
                          /\ job'[k].attempts = job[k].attempts
                          /\ job'[k].identity = job[k].identity
    BY <1>1, GivenUpRow
  <2>5. PICK T \in SUBSET JobIds : T = S
    OBVIOUS
  <2>6. P!GiveUp(T)
    BY <2>2, <2>3, <2>5 DEF P!GiveUp
  <2>7. j \in JobIds /\ j \in T
    BY <2>1, <2>5
  <2>8. P!Settle(j)
    BY <2>6, <2>7 DEF P!Settle
  <2> QED BY <2>7, <2>8 DEF PromiseStep, P!PNext
<1> QED BY <1>2, <1>3

LEMMA PostponeStep ==
    ASSUME QueueInv, NEW t \in Tokens, exec[t].pc = "requeue", exec[t].attempt < MaxAttempts,
           Owns(t), BackInQueue(t)
    PROVE  PromiseStep
<1>1. job \in [JobIds -> Row] /\ exec[t] \in Execution /\ Placed(exec[t]) /\ None \notin JobIds
  BY QueueAssumption DEF QueueInv, TypeInv, TypeOK, QueueAssumption
<1>2. PICK k \in JobIds : k = JobOf(t)
  BY <1>1 DEF JobOf, Execution, Placed
<1>3. job[k] \in Row /\ Backed(k)
  BY <1>1 DEF QueueInv
<1>4. job[k].attempts < MaxAttempts /\ job[k].status = "running"
  BY <1>2, <1>3 DEF Backed, Owns
<1>5. job' = [job EXCEPT ![k] = Requeued(job[k])]
  BY <1>2 DEF BackInQueue
<1>6. /\ Requeued(job[k]) \in Row /\ Requeued(job[k]).status = "queued"
      /\ Requeued(job[k]).attempts = job[k].attempts
      /\ Requeued(job[k]).identity = job[k].identity
  BY <1>3, RequeuedRow
<1>7. P!Postpone(k)
  BY <1>1, <1>4, <1>5, <1>6, OneRowSeen DEF P!Postpone
<1> QED BY <1>7 DEF PromiseStep, P!PNext, P!Settle

LEMMA EndStep ==
    ASSUME QueueInv, NEW t \in Tokens, exec[t].pc = "finish", Owns(t), Conclude(t)
    PROVE  PromiseStep
<1>1. job \in [JobIds -> Row] /\ exec[t] \in Execution /\ Placed(exec[t]) /\ None \notin JobIds
  BY QueueAssumption DEF QueueInv, TypeInv, TypeOK, QueueAssumption
<1>2. PICK k \in JobIds : k = JobOf(t)
  BY <1>1 DEF JobOf, Execution, Placed
<1> DEFINE row == IF exec[t].result = "report" THEN Done(job[k], t)
                  ELSE Failed(job[k], exec[t].result)
<1>3. exec[t].result # "report" => exec[t].result \in Failure
  BY <1>1 DEF Execution, Placed, Result, Failure
<1>4. job[k] \in Row /\ job[k].status = "running"
  BY <1>1, <1>2 DEF Owns
<1>5. job' = [job EXCEPT ![k] = row]
  BY <1>2 DEF Conclude
<1>6. /\ row \in Row /\ row.status \in {"done", "failed"}
      /\ row.attempts = job[k].attempts /\ row.identity = job[k].identity
  BY <1>3, <1>4, DoneRow, FailedRow
<1> HIDE DEF row
<1>7. P!End(k, "done") \/ P!End(k, "failed")
  BY <1>1, <1>4, <1>5, <1>6, OneRowSeen DEF P!End
<1> QED BY <1>7 DEF PromiseStep, P!PNext, P!Settle

(* Heartbeats and time.                                                    *)
LEMMA TouchStep ==
    ASSUME job \in [JobIds -> Row], NEW k \in JobIds, NEW p,
           \/ job' = [job EXCEPT ![k].progress = p]
           \/ job' = [job EXCEPT ![k].lease = p]
           \/ job' = [job EXCEPT ![k].due = p]
    PROVE  PromiseStep
<1>1. \A j \in JobIds : /\ job'[j].status = job[j].status
                        /\ job'[j].attempts = job[j].attempts
                        /\ job'[j].identity = job[j].identity
  BY DEF Row
<1> QED BY <1>1, UnseenStep

LEMMA ExecutionPromise ==
    ASSUME QueueInv, NEW t \in Tokens, ExecutionStep(t)
    PROVE  PromiseStep
<1>1. job \in [JobIds -> Row] /\ exec[t] \in Execution /\ Placed(exec[t]) /\ None \notin JobIds
  BY QueueAssumption DEF QueueInv, TypeInv, TypeOK, QueueAssumption
<1>2. CASE UNCHANGED job
  BY <1>2, UnseenStep
<1>3. CASE exec[t].pc = "running" /\ SaveProgress(t)
  <2>1. JobOf(t) \in JobIds
    BY <1>1, <1>3 DEF JobOf, Execution, Placed
  <2> QED BY <1>1, <1>3, <2>1, TouchStep DEF SaveProgress
<1>4. CASE Requeue(t)
  BY <1>2, <1>4, PostponeStep DEF Requeue
<1>5. CASE Finish(t)
  BY <1>5, EndStep DEF Finish
<1> QED BY <1>2, <1>3, <1>4, <1>5
        DEF ExecutionStep, Start, ReportProgress, OperationEnds, TickMeetsLockWait, Heartbeat,
            HeartbeatRefused, HeartbeatError, FinishWithout, Cleanup

LEMMA NextPromise == AdmissionInv /\ [Next]_vars => PromiseStep
<1> SUFFICES ASSUME AdmissionInv, [Next]_vars PROVE PromiseStep
  OBVIOUS
<1>1. QueueInv /\ job \in [JobIds -> Row]
  BY DEF AdmissionInv, QueueInv, TypeInv, TypeOK
<1>2. CASE UNCHANGED job
  BY <1>2, UnseenStep
<1>3. ASSUME NEW c \in Requests, AdmissionStep(c) PROVE PromiseStep
  BY <1>2, <1>3, SubmitStep
     DEF AdmissionStep, FindActive, Insert, InsertConflict, Lookup, RequestError
<1>4. ASSUME NEW r \in Replicas, LoopStep(r) PROVE PromiseStep
  BY <1>1, <1>2, <1>4, TryStep, GiveUpStep
     DEF LoopStep, Sweep, SweepError, Claim, ClaimNothing, ClaimError, NextInLine
<1>5. ASSUME NEW j \in JobIds, LeaseExpires(j) \/ BackoffElapses(j) PROVE PromiseStep
  BY <1>1, <1>5, TouchStep DEF LeaseExpires, BackoffElapses
<1>6. CASE Next
  BY <1>1, <1>2, <1>3, <1>4, <1>5, <1>6, ExecutionPromise DEF Next, Crash
<1> QED BY <1>2, <1>6 DEF vars

(* The queue implements the safety part of its promise: a submission per   *)
(* identity at a time, at most MaxAttempts tries of each, and one end,     *)
(* whatever replicas, requests, lost replies, expiries and crashes do.     *)
THEOREM QueueKeepsItsPromise == Spec => P!PSafe
<1>1. Init => P!PInit
  BY DEF Init, NoRow, P!PInit
<1>2. AdmissionInv /\ [Next]_vars => [P!PNext]_(P!pvars)
  BY NextPromise DEF PromiseStep
<1> QED BY <1>1, <1>2, AlwaysAdmissionInv, PTL DEF Spec, P!PSafe

-----------------------------------------------------------------------------
(* Every job by itself is a leased job.                                    *)

Alive(t) == exec[t].pc \in {"claimed", "running", "wedged", "requeue", "finish"}
LeaseStep(j) == [L(j)!LNext]_(L(j)!leaseVars)
OnlyMoves(t) == \A u \in Tokens \ {t} : exec'[u] = exec[u]

(* A step leaves the table or the executions alone, or moves one execution.*)
LEMMA Mover ==
    ASSUME QueueInv, [Next]_vars
    PROVE  UNCHANGED job \/ UNCHANGED exec \/ \E t \in Tokens : OnlyMoves(t)
<1>1. exec \in [Tokens -> Execution]
  BY DEF QueueInv, TypeInv, TypeOK
<1>2. ASSUME NEW k \in JobIds, NEW q, NEW pc, TakeLease(k, q, pc)
      PROVE  \E t \in Tokens : OnlyMoves(t)
  <2>1. NewToken \in Tokens
    BY <1>2, NewTokenIsFresh DEF TakeLease
  <2>2. OnlyMoves(NewToken)
    BY <1>1, <1>2 DEF TakeLease, OnlyMoves
  <2> QED BY <2>1, <2>2
<1>3. ASSUME NEW t \in Tokens, ExecutionStep(t)
      PROVE  UNCHANGED job \/ UNCHANGED exec \/ OnlyMoves(t)
  BY <1>1, <1>3 DEF ExecutionStep, Start, ReportProgress, OperationEnds, TickMeetsLockWait,
     Heartbeat, StopWith, HeartbeatRefused, HeartbeatError, Requeue, Finish, FinishWithout,
     Cleanup, Move, OnlyMoves
<1>4. ASSUME NEW r \in Replicas, LoopStep(r)
      PROVE  UNCHANGED job \/ UNCHANGED exec \/ \E t \in Tokens : OnlyMoves(t)
  BY <1>2, <1>4 DEF LoopStep, Sweep, SweepError, Claim, ClaimNothing, ClaimError
<1>5. CASE UNCHANGED vars
  BY <1>5 DEF vars
<1> QED
  BY <1>3, <1>4, <1>5 DEF Next, AdmissionStep, FindActive, Insert, Lookup, RequestError, Crash,
     LeaseExpires, BackoffElapses

(* A step that expires a lease, or gives a job up, moves no execution.     *)
LEMMA StillExecutions ==
    ASSUME QueueInv, [Next]_vars, NEW j \in JobIds,
           \/ RowGivenUp(j)
           \/ job[j].lease = "valid" /\ job'[j].lease = "expired"
    PROVE  UNCHANGED exec
<1> SUFFICES ASSUME exec' # exec PROVE FALSE
  OBVIOUS
<1>1. /\ job \in [JobIds -> Row] /\ exec \in [Tokens -> Execution] /\ None \notin JobIds
      /\ job'[j] # job[j]
  <2>1. /\ job \in [JobIds -> Row] /\ exec \in [Tokens -> Execution] /\ None \notin JobIds
        /\ job[j] \in Row
    BY QueueAssumption DEF QueueInv, TypeInv, TypeOK
  <2>2. CASE RowGivenUp(j)
    <3>1. job'[j].status = "failed" /\ job[j].status = "running"
      BY <2>1, <2>2, GivenUpRow DEF RowGivenUp, Exhausted, Stale
    <3> QED BY <2>1, <3>1
  <2>3. CASE job[j].lease = "valid" /\ job'[j].lease = "expired"
    BY <2>1, <2>3
  <2> QED BY <2>1, <2>2, <2>3
<1>2. ASSUME NEW k \in JobIds, NEW q, NEW pc, Claimable(k), TakeLease(k, q, pc) PROVE FALSE
  <2>1. NewToken \in Tokens
    BY <1>2, NewTokenIsFresh DEF TakeLease
  <2>2. k = j /\ job'[j] = Leased(job[j], NewToken)
    BY <1>1, <1>2 DEF TakeLease
  <2> QED BY <1>1, <2>1, <2>2, LeasedRow, GivenUpRow DEF RowGivenUp, Exhausted, Stale
<1>3. ASSUME NEW t \in Tokens, ExecutionStep(t) PROVE FALSE
  <2>1. CASE SaveProgress(t)
    <3>1. job'[j].status = job[j].status /\ job'[j].lease = job[j].lease
      BY <1>1, <2>1 DEF SaveProgress, Row
    <3> QED BY <1>1, <3>1, GivenUpRow DEF RowGivenUp, Exhausted, Stale
  <2>2. CASE Owns(t) /\ BackInQueue(t)
    <3>1. JobOf(t) = j
      BY <1>1, <2>2 DEF BackInQueue
    <3>2. job'[j] = Requeued(job[j]) /\ job[j] \in Row
      BY <1>1, <2>2, <3>1 DEF BackInQueue
    <3> QED BY <2>2, <3>1, <3>2, RequeuedRow DEF Owns, RowGivenUp, Exhausted, Stale
  <2>3. CASE exec[t].pc = "finish" /\ Owns(t) /\ Conclude(t)
    <3>1. JobOf(t) = j
      BY <1>1, <2>3 DEF Conclude
    <3>2. exec[t].result # "report" => exec[t].result \in Failure
      BY <2>3, StepFacts DEF Execution, Placed, Result, Failure
    <3>3. job'[j] = (IF exec[t].result = "report" THEN Done(job[j], t)
                     ELSE Failed(job[j], exec[t].result)) /\ job[j] \in Row
      BY <1>1, <2>3, <3>1 DEF Conclude
    <3>4. job'[j].lease = "none"
      BY <3>2, <3>3, DoneRow, FailedRow
    <3> QED BY <2>3, <3>1, <3>4 DEF Owns, RowGivenUp, Exhausted, Stale
  <2> QED
    BY <1>1, <1>3, <2>1, <2>2, <2>3 DEF ExecutionStep, Start, ReportProgress, OperationEnds,
       TickMeetsLockWait, Heartbeat, HeartbeatRefused, HeartbeatError, Requeue, Finish,
       FinishWithout, Cleanup
<1>4. ASSUME NEW r \in Replicas, LoopStep(r) PROVE FALSE
  BY <1>1, <1>2, <1>4 DEF LoopStep, Sweep, SweepError, Claim, ClaimNothing, ClaimError, NextInLine
<1>5. CASE UNCHANGED vars
  BY <1>5 DEF vars
<1> QED
  BY <1>1, <1>3, <1>4, <1>5 DEF Next, AdmissionStep, FindActive, Insert, Lookup, RequestError,
     Crash, LeaseExpires, BackoffElapses

(* An execution that is over does not come back.                           *)
LEMMA AliveBefore ==
    ASSUME QueueInv, [Next]_vars, NEW t \in Tokens, exec[t].pc # "unused", Alive(t)'
    PROVE  Alive(t)
<1>1. exec \in [Tokens -> Execution]
  BY DEF QueueInv, TypeInv, TypeOK
<1>2. ASSUME NEW k \in JobIds, NEW q, NEW pc, TakeLease(k, q, pc) PROVE exec'[t] = exec[t]
  <2>1. NewToken # t
    BY <1>2, NewTokenIsFresh DEF TakeLease
  <2> QED BY <1>1, <1>2, <2>1 DEF TakeLease
<1>3. ASSUME NEW u \in Tokens, ExecutionStep(u) PROVE Alive(t)
  <2>1. CASE t # u
    <3>1. exec'[t] = exec[t]
      BY <1>1, <1>3, <2>1 DEF ExecutionStep, Start, ReportProgress, OperationEnds,
         TickMeetsLockWait, Heartbeat, StopWith, HeartbeatRefused, HeartbeatError, Requeue,
         Finish, FinishWithout, Cleanup, Move
    <3> QED BY <3>1 DEF Alive
  <2>2. CASE t = u
    <3>1. CASE exec[t].pc \in {"claimed", "running", "wedged", "requeue", "finish"}
      BY <3>1 DEF Alive
    <3>2. CASE Cleanup(t)
      <4>1. exec'[t].pc = "gone"
        BY <1>1, <3>2 DEF Cleanup, Gone, Execution
      <4> QED BY <4>1 DEF Alive
    <3> QED
      BY <1>3, <2>2, <3>1, <3>2 DEF ExecutionStep, Start, ReportProgress, OperationEnds,
         TickMeetsLockWait, Heartbeat, HeartbeatRefused, HeartbeatError, Requeue, Finish,
         FinishWithout
  <2> QED BY <2>1, <2>2
<1>4. ASSUME NEW r \in Replicas, Crash(r) PROVE Alive(t)
  <2>1. exec'[t] = exec[t] \/ exec'[t] = Gone(exec[t])
    BY <1>4 DEF Crash
  <2>2. Gone(exec[t]).pc = "gone"
    BY <1>1 DEF Gone, Execution
  <2> QED BY <2>1, <2>2 DEF Alive
<1>5. ASSUME NEW r \in Replicas, LoopStep(r) PROVE exec'[t] = exec[t]
  BY <1>2, <1>5 DEF LoopStep, Sweep, SweepError, Claim, ClaimNothing, ClaimError
<1>6. Crashing \subseteq Replicas
  BY QueueAssumption
<1>7. CASE exec'[t] = exec[t]
  BY <1>7 DEF Alive
<1> QED
  BY <1>3, <1>4, <1>5, <1>6, <1>7 DEF Next, AdmissionStep, FindActive, Insert, Lookup,
     RequestError, LeaseExpires, BackoffElapses, vars

(* The attempts of a job, by the executions that make them.                *)
Attempted(j) ==
    /\ \A t \in Tokens : exec[t].job = j =>
          /\ exec[t].attempt \in 1 .. job[j].attempts
          /\ exec[t].attempt \in 1 .. MaxAttempts
          /\ AttemptsOf(j)[exec[t].attempt] = IF Alive(t) THEN "alive" ELSE "over"
    /\ \A a \in 1 .. MaxAttempts :
          (\A t \in Tokens : exec[t].job = j => exec[t].attempt # a) => AttemptsOf(j)[a] = "ahead"
AllAttempted == \A j \in JobIds : Attempted(j)

LEMMA AttemptsAre == QueueInv => AllAttempted
<1> SUFFICES ASSUME QueueInv, NEW j \in JobIds PROVE Attempted(j)
  BY DEF AllAttempted
<1>1. ASSUME NEW t \in Tokens, exec[t].job = j
      PROVE  /\ exec[t].attempt \in 1 .. job[j].attempts
             /\ exec[t].attempt \in 1 .. MaxAttempts
             /\ AttemptsOf(j)[exec[t].attempt] = IF Alive(t) THEN "alive" ELSE "over"
  <2>1. exec[t].pc # "unused"
    BY <1>1, QueueAssumption DEF QueueInv, TypeInv, Placed
  <2>2. exec[t].attempt \in 1 .. job[j].attempts
    BY <1>1, <2>1 DEF QueueInv, Numbered, JobOf
  <2>3. job[j].attempts \in Nat /\ job[j].attempts <= MaxAttempts /\ MaxAttempts \in Nat
    BY QueueAssumption DEF QueueInv, TypeInv, TypeOK, Row, SoundRow
  <2>4. exec[t].attempt \in 1 .. MaxAttempts
    BY <2>2, <2>3
  <2>5. {u \in Tokens : exec[u].job = j /\ exec[u].attempt = exec[t].attempt} = {t}
    <3> SUFFICES ASSUME NEW u \in Tokens, exec[u].job = j, exec[u].attempt = exec[t].attempt
                 PROVE  u = t
      BY <1>1
    <3>1. exec[u].pc # "unused"
      BY QueueAssumption DEF QueueInv, TypeInv, Placed
    <3> QED BY <1>1, <2>1, <3>1 DEF QueueInv, Distinct, JobOf
  <2>6. (\E u \in {t} : Live(u) /\ exec[u].pc # "cleanup") <=> Alive(t)
    BY DEF Live, Alive
  <2>7. {t} # {}
    OBVIOUS
  <2> QED BY <2>2, <2>4, <2>5, <2>6, <2>7 DEF AttemptsOf
<1>2. ASSUME NEW a \in 1 .. MaxAttempts, \A t \in Tokens : exec[t].job = j => exec[t].attempt # a
      PROVE  AttemptsOf(j)[a] = "ahead"
  <2>1. {u \in Tokens : exec[u].job = j /\ exec[u].attempt = a} = {}
    BY <1>2
  <2> QED BY <2>1 DEF AttemptsOf
<1> QED BY <1>1, <1>2 DEF Attempted

LEMMA AttemptsWillBe == QueueInv' => AllAttempted'
BY AttemptsAre, PTL

LEMMA AttemptsKept ==
    ASSUME UNCHANGED exec, NEW j \in JobIds
    PROVE  AttemptsOf(j)' = AttemptsOf(j)
BY DEF AttemptsOf, Live

(* Without a claim, each attempt of the job stays or ends.                 *)
LEMMA AttemptsEnd ==
    ASSUME QueueInv, [Next]_vars, NEW j \in JobIds, ~RowLeased(j), NEW a \in 1 .. MaxAttempts
    PROVE  \/ AttemptsOf(j)'[a] = AttemptsOf(j)[a]
           \/ AttemptsOf(j)[a] = "alive" /\ AttemptsOf(j)'[a] = "over"
<1>1. Attempted(j) /\ Attempted(j)'
  BY InvariantInductive, AttemptsAre, AttemptsWillBe DEF AllAttempted
<1>2. \A t \in Tokens : exec'[t].job = j => exec[t].job = j
  <2> SUFFICES ASSUME NEW t \in Tokens, exec'[t].job = j PROVE exec[t].job = j
    OBVIOUS
  <2>1. ExecutionStepped(t) /\ None \notin JobIds
    BY StepFacts
  <2>2. CASE Claimed(t)
    BY <2>2 DEF Claimed, RowLeased
  <2> QED BY <2>1, <2>2 DEF ExecutionStepped, Continued
<1>3. CASE \A t \in Tokens : exec[t].job = j => exec[t].attempt # a
  <2>1. \A t \in Tokens : exec'[t].job = j => exec'[t].attempt # a
    <3> SUFFICES ASSUME NEW t \in Tokens, exec'[t].job = j PROVE exec'[t].attempt # a
      OBVIOUS
    <3>1. exec[t].job = j /\ exec[t].pc # "unused"
      BY <1>2, QueueAssumption DEF QueueInv, TypeInv, Placed
    <3> QED BY <1>3, <3>1, ClaimsAreKept
  <2> QED BY <1>1, <1>3, <2>1 DEF Attempted
<1>4. ASSUME NEW t \in Tokens, exec[t].job = j, exec[t].attempt = a
      PROVE  \/ AttemptsOf(j)'[a] = AttemptsOf(j)[a]
             \/ AttemptsOf(j)[a] = "alive" /\ AttemptsOf(j)'[a] = "over"
  <2>1. exec[t].pc # "unused"
    BY <1>4, QueueAssumption DEF QueueInv, TypeInv, Placed
  <2>2. exec'[t].job = j /\ exec'[t].attempt = a
    BY <1>4, <2>1, ClaimsAreKept
  <2>3. Alive(t)' => Alive(t)
    BY <2>1, AliveBefore
  <2>4. AttemptsOf(j)[a] = IF Alive(t) THEN "alive" ELSE "over"
    BY <1>1, <1>4 DEF Attempted
  <2>5. AttemptsOf(j)'[a] = IF Alive(t)' THEN "alive" ELSE "over"
    BY <1>1, <2>2 DEF Attempted
  <2> QED BY <2>3, <2>4, <2>5
<1> QED BY <1>3, <1>4

(* The row as the lease sees it.                                           *)
LEMMA LeaseKept ==
    ASSUME QueueInv, [Next]_vars, NEW j \in JobIds,
           job'[j].status = job[j].status \/ {job[j].status, job'[j].status} = {"absent", "queued"},
           job'[j].attempts = job[j].attempts, job'[j].owner = job[j].owner,
           job'[j].lease = "valid" <=> job[j].lease = "valid"
    PROVE  LeaseOf(j)' = LeaseOf(j)
<1>1. AttemptOf(job[j].owner)' = AttemptOf(job[j].owner)
  <2>1. CASE job[j].owner = None
    BY <2>1 DEF AttemptOf
  <2>2. CASE job[j].owner # None
    <3>1. PICK t \in Tokens : t = job[j].owner
      BY <2>2, StepFacts DEF Row
    <3>2. exec[t].pc # "unused"
      BY <3>1, StepFacts DEF QueueInv, Backed, Placed
    <3> QED BY <2>2, <3>1, <3>2, ClaimsAreKept DEF AttemptOf
  <2> QED BY <2>1, <2>2
<1> QED BY <1>1 DEF LeaseOf

(* Whatever the executions do, short of a claim, they end.                 *)
LEMMA QuietStep ==
    ASSUME QueueInv, [Next]_vars, NEW j \in JobIds, ~RowLeased(j), LeaseOf(j)' = LeaseOf(j)
    PROVE  LeaseStep(j)
<1> DEFINE S == {a \in 1 .. MaxAttempts : AttemptsOf(j)[a] = "alive" /\ AttemptsOf(j)'[a] = "over"}
<1>1. \A a \in 1 .. MaxAttempts :
         \/ AttemptsOf(j)'[a] = AttemptsOf(j)[a]
         \/ AttemptsOf(j)[a] = "alive" /\ AttemptsOf(j)'[a] = "over"
  BY AttemptsEnd
<1>2. AttemptsOf(j)' = [a \in 1 .. MaxAttempts |-> AttemptsOf(j)'[a]]
  BY DEF AttemptsOf
<1>3. AttemptsOf(j)' = [a \in 1 .. MaxAttempts |-> IF a \in S THEN "over" ELSE AttemptsOf(j)[a]]
  BY <1>1, <1>2
<1>4. S \in SUBSET (1 .. MaxAttempts) /\ \A a \in S : AttemptsOf(j)[a] = "alive"
  OBVIOUS
<1> HIDE DEF S
<1>5. L(j)!EndOf(S)
  BY <1>3, <1>4 DEF L!EndOf
<1> QED BY <1>4, <1>5 DEF LeaseStep, L!LNext

(* A claim gives the lease to the next attempt.                            *)
LEMMA LeasedStep ==
    ASSUME QueueInv, [Next]_vars, NEW j \in JobIds, RowLeased(j)
    PROVE  LeaseStep(j)
<1> DEFINE t == NewToken
           b == job[j].attempts + 1
<1>1. /\ t \in Tokens /\ exec[t].pc = "unused" /\ Claimable(j)
      /\ job'[j] = Leased(job[j], t) /\ exec'[t].job = j /\ exec'[t].attempt = b
  BY DEF RowLeased
<1>2. /\ None \notin Tokens /\ None \notin JobIds /\ job[j] \in Row /\ SoundRow(job[j])
      /\ exec[t].job = None
  BY <1>1, StepFacts DEF QueueInv, Placed
<1>3. job[j].attempts \in Nat /\ b \in 1 .. MaxAttempts
  BY <1>1, <1>2, QueueAssumption DEF Claimable, Row
<1> HIDE DEF t
<1>4. /\ job'[j].status = "running" /\ job'[j].owner = t /\ job'[j].lease = "valid"
      /\ job'[j].attempts = b
  BY <1>1, <1>2, LeasedRow
<1> HIDE DEF b
<1>5. LeaseOf(j)' = [status |-> "running", attempts |-> b, owner |-> b, valid |-> TRUE]
  BY <1>1, <1>2, <1>4 DEF LeaseOf, AttemptOf
<1>6. OnlyMoves(t)
  <2>1. job' # job /\ exec' # exec
    BY <1>1, <1>2, <1>3, <1>4 DEF b
  <2>2. PICK u \in Tokens : OnlyMoves(u)
    BY <2>1, Mover
  <2>3. exec'[t] # exec[t]
    BY <1>1, <1>2
  <2> QED BY <1>1, <2>2, <2>3 DEF OnlyMoves
<1>7. Attempted(j) /\ Attempted(j)'
  BY InvariantInductive, AttemptsAre, AttemptsWillBe DEF AllAttempted
<1>8. AttemptsOf(j)[b] = "ahead"
  <2>1. \A u \in Tokens : exec[u].job = j => exec[u].attempt # b
    BY <1>2, <1>3, <1>7 DEF Attempted, b
  <2> QED BY <1>3, <1>7, <2>1 DEF Attempted
<1>9. AttemptsOf(j)'[b] \in {"alive", "over"}
  BY <1>1, <1>7 DEF Attempted
<1>10. ASSUME NEW a \in 1 .. MaxAttempts, a # b PROVE AttemptsOf(j)'[a] = AttemptsOf(j)[a]
  <2>1. \A u \in Tokens : exec'[u].job = j /\ exec'[u].attempt = a
                            <=> exec[u].job = j /\ exec[u].attempt = a
    BY <1>1, <1>2, <1>6, <1>10 DEF OnlyMoves
  <2>2. \A u \in Tokens : exec[u].job = j => exec'[u] = exec[u]
    BY <1>2, <1>6 DEF OnlyMoves
  <2>3. CASE \A u \in Tokens : exec[u].job = j => exec[u].attempt # a
    <3>1. \A u \in Tokens : exec'[u].job = j => exec'[u].attempt # a
      BY <2>1, <2>3
    <3> QED BY <1>7, <2>3, <3>1 DEF Attempted
  <2>4. ASSUME NEW u \in Tokens, exec[u].job = j, exec[u].attempt = a
        PROVE  AttemptsOf(j)'[a] = AttemptsOf(j)[a]
    <3>1. exec'[u] = exec[u]
      BY <2>2, <2>4
    <3>2. Alive(u)' <=> Alive(u)
      BY <3>1 DEF Alive
    <3> QED BY <1>7, <2>4, <3>1, <3>2 DEF Attempted
  <2> QED BY <2>3, <2>4
<1>11. \E place \in {"alive", "over"} : AttemptsOf(j)' = [AttemptsOf(j) EXCEPT ![b] = place]
  <2>1. /\ AttemptsOf(j)' = [a \in 1 .. MaxAttempts |-> AttemptsOf(j)'[a]]
        /\ AttemptsOf(j) = [a \in 1 .. MaxAttempts |-> AttemptsOf(j)[a]]
    BY DEF AttemptsOf
  <2>2. AttemptsOf(j)' = [AttemptsOf(j) EXCEPT ![b] = AttemptsOf(j)'[b]]
    BY <1>3, <1>10, <2>1
  <2> QED BY <1>9, <2>2
<1>12. LeaseOf(j).status = "queued" \/ (LeaseOf(j).status = "running" /\ ~LeaseOf(j).valid)
  BY <1>1 DEF Claimable, Stale, LeaseOf
<1>13. LeaseOf(j).attempts = job[j].attempts
  BY DEF LeaseOf
<1>14. L(j)!Lease(b)
  BY <1>5, <1>8, <1>11, <1>12, <1>13 DEF L!Lease, L!Columns, b
<1> QED BY <1>3, <1>14 DEF LeaseStep, L!LNext

(* An execution requeues or concludes its job while it holds the lease.    *)
LEMMA SettledStep ==
    ASSUME QueueInv, [Next]_vars, NEW j \in JobIds, RowSettled(j)
    PROVE  LeaseStep(j)
<1>1. PICK t \in Tokens : /\ JobOf(t) = j /\ Owns(t)
                          /\ RowRequeued(j, t) \/ RowDone(j, t) \/ RowFailed(j, t)
  BY DEF RowSettled
<1>2. /\ job[j] \in Row /\ exec[t].job = j /\ exec[t].pc \in {"requeue", "finish"}
      /\ exec'[t].pc # exec[t].pc
      /\ job[j].status = "running" /\ job[j].owner = t /\ job[j].lease = "valid"
      /\ Backed(j) /\ None \notin Tokens
  BY <1>1, StepFacts DEF JobOf, Owns, RowRequeued, RowDone, RowFailed, QueueInv
<1>3. PICK a : a = exec[t].attempt
  OBVIOUS
<1>4. PICK outcome \in {"queued", "done", "failed"} : outcome = job'[j].status
  BY <1>1, <1>2, RequeuedRow, DoneRow, FailedRow DEF RowRequeued, RowDone, RowFailed
<1>5. /\ job'[j].owner = None /\ job'[j].lease = "none" /\ job'[j].attempts = job[j].attempts
      /\ outcome = "queued" => a < MaxAttempts
  BY <1>1, <1>2, <1>3, <1>4, RequeuedRow, DoneRow, FailedRow DEF RowRequeued, RowDone, RowFailed
<1>6. a = job[j].attempts
  BY <1>2, <1>3 DEF Backed
<1>7. LeaseOf(j) = [status |-> "running", attempts |-> a, owner |-> a, valid |-> TRUE]
  BY <1>2, <1>3, <1>6 DEF LeaseOf, AttemptOf
<1>8. LeaseOf(j)' = [status |-> outcome, attempts |-> a, owner |-> 0, valid |-> FALSE]
  BY <1>4, <1>5, <1>6 DEF LeaseOf, AttemptOf
<1>9. OnlyMoves(t)
  <2>1. job' # job /\ exec' # exec
    BY <1>2, <1>4
  <2>2. PICK u \in Tokens : OnlyMoves(u)
    BY <2>1, Mover
  <2> QED BY <1>2, <2>2 DEF OnlyMoves
<1>10. Attempted(j) /\ Attempted(j)'
  BY InvariantInductive, AttemptsAre, AttemptsWillBe DEF AllAttempted
<1>11. a \in 1 .. MaxAttempts /\ AttemptsOf(j)[a] = "alive"
  BY <1>2, <1>3, <1>10 DEF Attempted, Alive
<1>12. AttemptsOf(j)'[a] \in {"alive", "over"}
  <2>1. exec'[t].job = j /\ exec'[t].attempt = a
    BY <1>2, <1>3, ClaimsAreKept
  <2> QED BY <1>10, <2>1 DEF Attempted
<1>13. ASSUME NEW c \in 1 .. MaxAttempts, c # a PROVE AttemptsOf(j)'[c] = AttemptsOf(j)[c]
  <2>1. \A u \in Tokens : exec'[u].job = j /\ exec'[u].attempt = c
                            <=> exec[u].job = j /\ exec[u].attempt = c
    BY <1>2, <1>3, <1>9, <1>13, ClaimsAreKept DEF OnlyMoves
  <2>2. CASE \A u \in Tokens : exec[u].job = j => exec[u].attempt # c
    <3>1. \A u \in Tokens : exec'[u].job = j => exec'[u].attempt # c
      BY <2>1, <2>2
    <3> QED BY <1>10, <2>2, <3>1 DEF Attempted
  <2>3. ASSUME NEW u \in Tokens, exec[u].job = j, exec[u].attempt = c
        PROVE  AttemptsOf(j)'[c] = AttemptsOf(j)[c]
    <3>1. exec'[u] = exec[u]
      BY <1>3, <1>9, <1>13, <2>3 DEF OnlyMoves
    <3>2. Alive(u)' <=> Alive(u)
      BY <3>1 DEF Alive
    <3> QED BY <1>10, <2>3, <3>1, <3>2 DEF Attempted
  <2> QED BY <2>2, <2>3
<1>14. \E place \in {"alive", "over"} : AttemptsOf(j)' = [AttemptsOf(j) EXCEPT ![a] = place]
  <2>1. /\ AttemptsOf(j)' = [c \in 1 .. MaxAttempts |-> AttemptsOf(j)'[c]]
        /\ AttemptsOf(j) = [c \in 1 .. MaxAttempts |-> AttemptsOf(j)[c]]
    BY DEF AttemptsOf
  <2>2. AttemptsOf(j)' = [AttemptsOf(j) EXCEPT ![a] = AttemptsOf(j)'[a]]
    BY <1>11, <1>13, <2>1
  <2> QED BY <1>12, <2>2
<1>15. /\ LeaseOf(j).status = "running" /\ LeaseOf(j).owner = a /\ LeaseOf(j).valid
       /\ LeaseOf(j).attempts = a
  BY <1>7
<1>16. L(j)!Settle(a, outcome)
  BY <1>5, <1>8, <1>11, <1>14, <1>15 DEF L!Settle, L!Columns
<1> QED BY <1>11, <1>16 DEF LeaseStep, L!LNext

LEMMA GivenUpLeased ==
    ASSUME QueueInv, [Next]_vars, NEW j \in JobIds, RowGivenUp(j)
    PROVE  LeaseStep(j)
<1>1. job[j] \in Row /\ SoundRow(job[j]) /\ MaxAttempts \in Nat
  BY StepFacts DEF QueueInv
<1>2. /\ job[j].status = "running" /\ job[j].lease = "expired"
      /\ job[j].attempts = MaxAttempts
  BY <1>1 DEF RowGivenUp, Exhausted, Stale, SoundRow, Row
<1>3. /\ job'[j].status = "failed" /\ job'[j].owner = None /\ job'[j].lease = "none"
      /\ job'[j].attempts = job[j].attempts
  BY <1>1, GivenUpRow DEF RowGivenUp
<1>4. AttemptsOf(j)' = AttemptsOf(j)
  BY StillExecutions, AttemptsKept
<1>5. LeaseOf(j)' = [status |-> "failed", attempts |-> MaxAttempts, owner |-> 0, valid |-> FALSE]
  BY <1>2, <1>3 DEF LeaseOf, AttemptOf
<1>6. L(j)!GiveUp
  BY <1>2, <1>4, <1>5 DEF L!GiveUp, L!Columns, LeaseOf
<1> QED BY <1>6 DEF LeaseStep, L!LNext

LEMMA ExpiredStep ==
    ASSUME QueueInv, [Next]_vars, NEW j \in JobIds, RowTouched(j),
           job[j].lease = "valid", job'[j].lease = "expired"
    PROVE  LeaseStep(j)
<1>1. job[j].status = "running"
  BY DEF QueueInv, SoundRow
<1>2. AttemptsOf(j)' = AttemptsOf(j) /\ UNCHANGED exec
  BY StillExecutions, AttemptsKept
<1>3. /\ job'[j].status = "running" /\ job'[j].attempts = job[j].attempts
      /\ job'[j].owner = job[j].owner /\ exec' = exec
  BY <1>1, <1>2 DEF RowTouched, SameBut
<1>4. AttemptOf(job[j].owner)' = AttemptOf(job[j].owner)
  BY <1>3 DEF AttemptOf
<1>5. LeaseOf(j)' = [status |-> "running", attempts |-> job[j].attempts,
                     owner |-> AttemptOf(job[j].owner), valid |-> FALSE]
  BY <1>3, <1>4 DEF LeaseOf
<1>6. L(j)!Expire
  BY <1>1, <1>2, <1>5 DEF L!Expire, L!Columns, LeaseOf
<1> QED BY <1>6 DEF LeaseStep, L!LNext

LEMMA NextLeased ==
    ASSUME QueueInv, [Next]_vars, NEW j \in JobIds
    PROVE  LeaseStep(j)
<1>1. RowStep(j) /\ job[j] \in Row /\ SoundRow(job[j])
  BY StepFacts DEF QueueInv
<1>2. CASE RowLeased(j)
  BY <1>2, LeasedStep
<1>3. CASE RowSettled(j)
  BY <1>3, SettledStep
<1>4. CASE RowGivenUp(j)
  BY <1>4, GivenUpLeased
<1>5. CASE RowTouched(j) /\ job[j].lease = "valid" /\ job'[j].lease = "expired"
  BY <1>5, ExpiredStep
<1>6. CASE ~RowLeased(j) /\ (job'[j] = job[j] \/ (RowTouched(j) /\ job'[j].lease = job[j].lease))
  BY <1>6, LeaseKept, QuietStep DEF RowTouched, SameBut
<1>7. CASE ~RowLeased(j) /\ RowInserted(j)
  <2>1. PICK i \in Identities \cup {None} : job'[j] = NewRow(i)
    BY <1>7 DEF RowInserted
  <2>2. /\ job'[j].status = "queued" /\ job'[j].owner = None /\ job'[j].lease = "none"
        /\ job'[j].attempts = 0
    BY <2>1, NewRowFields
  <2>3. /\ job[j].status = "absent" /\ job[j].owner = None /\ job[j].lease # "valid"
        /\ job[j].attempts = 0
    BY <1>1, <1>7 DEF RowInserted, SoundRow
  <2>4. LeaseOf(j)' = LeaseOf(j)
    BY <2>2, <2>3, LeaseKept
  <2> QED BY <1>7, <2>4, QuietStep
<1> QED BY <1>1, <1>2, <1>3, <1>4, <1>5, <1>6, <1>7 DEF RowStep, RowTouched, SameBut

LEMMA InitLeased ==
    ASSUME Init, NEW j \in JobIds
    PROVE  L(j)!LInit
<1>1. job[j] = NoRow /\ \A t \in Tokens : exec[t].job = None
  BY DEF Init, NoExecution
<1>2. LeaseOf(j) = [status |-> "queued", attempts |-> 0, owner |-> 0, valid |-> FALSE]
  <2>1. /\ job[j].status = "absent" /\ job[j].attempts = 0 /\ job[j].owner = None
        /\ job[j].lease = "none"
    BY <1>1 DEF NoRow
  <2> QED BY <2>1 DEF LeaseOf, AttemptOf
<1>3. None \notin JobIds
  BY QueueAssumption
<1>4. \A a \in 1 .. MaxAttempts : {t \in Tokens : exec[t].job = j /\ exec[t].attempt = a} = {}
  BY <1>1, <1>3
<1>5. AttemptsOf(j) = [a \in 1 .. MaxAttempts |-> "ahead"]
  BY <1>4 DEF AttemptsOf
<1> QED BY <1>2, <1>5 DEF L!LInit, L!Columns

(* Every job by itself implements LeasedJob: whatever replicas, sweeps,    *)
(* claims, lost replies and crashes do, its row is only settled by the     *)
(* attempt that holds a valid lease, and an attempt that has lost it, or   *)
(* was given up, ends without a trace.                                     *)
THEOREM JobsKeepTheLease == Spec => JobsAreLeased
<1>1. Init => \A j \in JobIds : L(j)!LInit
  BY InitLeased
<1>2. QueueInv /\ [Next]_vars => [\A j \in JobIds : [L(j)!LNext]_(L(j)!leaseVars)]_vars
  BY NextLeased DEF LeaseStep
<1> QED BY <1>1, <1>2, AlwaysQueueInv, PTL DEF Spec, JobsAreLeased

(* The same for one job, as an implementation of LeasedJob.                *)
THEOREM EachJobIsLeased ==
    ASSUME NEW j \in JobIds
    PROVE  Spec => L(j)!LSpec
<1>1. Init => L(j)!LInit
  BY InitLeased
<1>2. QueueInv /\ [Next]_vars => [L(j)!LNext]_(L(j)!leaseVars)
  BY NextLeased DEF LeaseStep
<1> QED BY <1>1, <1>2, AlwaysQueueInv, PTL DEF Spec, L!LSpec

-----------------------------------------------------------------------------
(* Permits and the process-local maps.                                     *)

(* A live execution was live before the step, with the same job on the     *)
(* same replica, or is the one a Claim has just spawned.                   *)
Survives(t) ==
    /\ Live(t) /\ exec'[t].replica = exec[t].replica /\ exec'[t].job = exec[t].job
    /\ exec'[t].pc = "claimed" => exec[t].pc = "claimed"
Spawned(t, r) ==
    /\ Claim(r) /\ t = NewToken
    /\ exec[t].pc = "unused" /\ exec'[t].replica = r /\ exec'[t].pc = "claimed"

LEMMA LeaseSpawns ==
    ASSUME TypeInv, NEW k \in JobIds, NEW q, NEW pc, TakeLease(k, q, pc)
    PROVE  /\ NewToken \in Tokens /\ exec[NewToken].pc = "unused"
           /\ exec'[NewToken].replica = q /\ exec'[NewToken].pc = pc
           /\ \A t \in Tokens \ {NewToken} : exec'[t] = exec[t]
<1>1. NewToken \in Tokens /\ exec[NewToken].pc = "unused"
  BY NewTokenIsFresh DEF TakeLease
<1> QED BY <1>1 DEF TakeLease, TypeInv, TypeOK

LEMMA LiveStays ==
    ASSUME TypeInv, [Next]_vars, NEW t \in Tokens, Live(t)'
    PROVE  Survives(t) \/ \E r \in Replicas : Spawned(t, r)
<1>1. exec'[t] = exec[t] => Survives(t)
  BY DEF Survives, Live
<1>2. exec \in [Tokens -> Execution] /\ exec[t] \in Execution
  BY DEF TypeInv, TypeOK
<1>3. ASSUME NEW r \in Replicas, LoopStep(r)
      PROVE  Survives(t) \/ \E q \in Replicas : Spawned(t, q)
  <2>1. CASE Claim(r)
    <3>1. PICK k \in JobIds : TakeLease(k, r, "claimed")
      BY <2>1 DEF Claim
    <3> QED BY <1>1, <2>1, <3>1, LeaseSpawns DEF Spawned
  <2>2. CASE \E k \in JobIds : TakeLease(k, None, "gone")
    <3>1. exec'[NewToken].pc = "gone" /\ \A u \in Tokens \ {NewToken} : exec'[u] = exec[u]
      BY <2>2, LeaseSpawns
    <3>2. t # NewToken
      BY <3>1 DEF Live
    <3> QED BY <1>1, <3>1, <3>2
  <2> QED BY <1>1, <1>3, <2>1, <2>2 DEF LoopStep, Sweep, SweepError, ClaimNothing, ClaimError
<1>4. ASSUME NEW u \in Tokens, ExecutionStep(u) PROVE Survives(t)
  <2>1. CASE exec'[t] # exec[t]
    <3>1. t = u
      BY <1>2, <1>4, <2>1
         DEF ExecutionStep, Start, ReportProgress, OperationEnds, TickMeetsLockWait, Heartbeat,
             HeartbeatRefused, HeartbeatError, Requeue, Finish, FinishWithout, Cleanup,
             StopWith, Move
    <3>2. Live(t)
      BY <1>4, <2>1, <3>1
         DEF ExecutionStep, Start, ReportProgress, OperationEnds, TickMeetsLockWait, Heartbeat,
             HeartbeatRefused, HeartbeatError, Requeue, Finish, FinishWithout, Cleanup, Live
    <3>3. CASE Cleanup(u)
      <4>1. exec'[t].pc = "gone"
        BY <1>2, <3>1, <3>3 DEF Cleanup, Gone, Execution
      <4> QED BY <4>1 DEF Live
    <3>4. ASSUME NEW result, StopWith(u, result) PROVE Survives(t)
      <4>1. exec'[t] = Stopped(exec[t], result)
        BY <1>2, <3>1, <3>4 DEF StopWith
      <4>2. /\ exec'[t].replica = exec[t].replica /\ exec'[t].job = exec[t].job
            /\ exec'[t].pc \in {"requeue", "finish"}
        BY <1>2, <4>1 DEF Stopped, Execution
      <4> QED BY <3>2, <4>2 DEF Survives
    <3>5. ASSUME NEW pc \in {"running", "wedged", "finish", "cleanup"}, Move(u, pc) PROVE Survives(t)
      <4>1. exec'[t] = [exec[t] EXCEPT !.pc = pc]
        BY <1>2, <3>1, <3>5 DEF Move
      <4>2. exec'[t].replica = exec[t].replica /\ exec'[t].job = exec[t].job /\ exec'[t].pc = pc
        BY <1>2, <4>1 DEF Execution
      <4> QED BY <3>2, <4>2 DEF Survives
    <3>6. Start(u) => Move(u, "running")
      BY DEF Start, Move
    <3>7. \/ Cleanup(u)
          \/ \E result \in {"report", "retryable", "pipeline", "lease_lost", "heartbeat_failed"} :
                StopWith(u, result)
          \/ \E pc \in {"running", "wedged", "finish", "cleanup"} : Move(u, pc)
      BY <1>4, <2>1, <3>1, <3>6
         DEF ExecutionStep, ReportProgress, OperationEnds, TickMeetsLockWait, Heartbeat,
             HeartbeatRefused, HeartbeatError, Requeue, Finish, FinishWithout
    <3> QED BY <3>3, <3>4, <3>5, <3>7
  <2> QED BY <1>1, <2>1
<1>5. ASSUME NEW r \in Crashing, Crash(r) PROVE Survives(t)
  <2>1. exec'[t] = IF t \in LiveOn(r) THEN Gone(exec[t]) ELSE exec[t]
    BY <1>5 DEF Crash
  <2>2. Gone(exec[t]).pc = "gone"
    BY <1>2 DEF Gone, Execution
  <2>3. exec'[t].pc # "gone"
    BY DEF Live
  <2>4. t \notin LiveOn(r)
    BY <2>1, <2>2, <2>3
  <2> QED BY <1>1, <2>1, <2>4
<1>6. CASE UNCHANGED exec
  BY <1>1, <1>6
<1>7. CASE Next
  BY <1>3, <1>4, <1>5, <1>6, <1>7
     DEF Next, AdmissionStep, FindActive, Insert, Lookup, RequestError, LeaseExpires, BackoffElapses
<1> QED BY <1>6, <1>7 DEF vars

(* A loop that holds a permit has just swept, or held it before.           *)
LEMMA LoopHolds ==
    ASSUME TypeInv, [Next]_vars, NEW r \in Replicas
    PROVE  /\ loop'[r] # "sweep" => loop[r] # "sweep" \/ Sweep(r)
           /\ Claim(r) => loop[r] # "sweep" /\ loop'[r] = "sweep"
<1>1. loop \in [Replicas -> {"sweep", "claim"}]
  BY DEF TypeInv, TypeOK
<1>2. Claim(r) => loop[r] # "sweep" /\ loop'[r] = "sweep"
  BY <1>1 DEF Claim
<1>3. ASSUME NEW q \in Replicas, LoopStep(q)
      PROVE  loop'[r] # "sweep" => loop[r] # "sweep" \/ Sweep(r)
  BY <1>1, <1>3 DEF LoopStep, Sweep, SweepError, Claim, ClaimNothing, ClaimError
<1>4. ASSUME NEW q \in Crashing, Crash(q)
      PROVE  loop'[r] # "sweep" => loop[r] # "sweep"
  BY <1>1, <1>4 DEF Crash
<1>5. ASSUME NEW t \in Tokens, ExecutionStep(t) PROVE UNCHANGED loop
  BY <1>5 DEF ExecutionStep, Start, ReportProgress, OperationEnds, TickMeetsLockWait, Heartbeat,
              HeartbeatRefused, HeartbeatError, Requeue, Finish, FinishWithout, Cleanup
<1>6. CASE Next
  BY <1>2, <1>3, <1>4, <1>5, <1>6
     DEF Next, AdmissionStep, FindActive, Insert, Lookup, RequestError, LeaseExpires, BackoffElapses
<1> QED BY <1>2, <1>6 DEF vars

Held(r) == IF loop[r] = "sweep" THEN 0 ELSE 1
PermitInv ==
    /\ TypeInv
    /\ \A r \in Replicas : /\ IsFiniteSet(LiveOn(r))
                           /\ Cardinality(LiveOn(r)) + Held(r) <= Workers

LEMMA OneMoreCounted ==
    ASSUME NEW S, NEW x, IsFiniteSet(S)
    PROVE  IsFiniteSet(S \cup {x}) /\ Cardinality(S \cup {x}) <= Cardinality(S) + 1
<1>1. IsFiniteSet(S \cup {x}) /\ Cardinality(S \cup {x}) \in {Cardinality(S), Cardinality(S) + 1}
  BY FS_AddElement
<1>2. Cardinality(S) \in Nat
  BY FS_CardinalityType
<1> QED BY <1>1, <1>2

LEMMA PermitInductive == PermitInv /\ [Next]_vars => PermitInv'
<1> SUFFICES ASSUME PermitInv, [Next]_vars, NEW r \in Replicas
             PROVE  /\ IsFiniteSet(LiveOn(r)')
                    /\ Cardinality(LiveOn(r)') + Held(r)' <= Workers
  BY NextType DEF PermitInv, Held
<1>1. /\ TypeInv /\ IsFiniteSet(LiveOn(r)) /\ Cardinality(LiveOn(r)) + Held(r) <= Workers
      /\ Workers \in Nat
  BY QueueAssumption DEF PermitInv, QueueAssumption
<1>2. Cardinality(LiveOn(r)) \in Nat
  BY <1>1, FS_CardinalityType
<1>3. CASE Claim(r)
  <2>1. LiveOn(r)' \subseteq LiveOn(r) \cup {NewToken}
    BY <1>1, LiveStays DEF LiveOn, Survives, Spawned
  <2>2. /\ IsFiniteSet(LiveOn(r) \cup {NewToken})
        /\ Cardinality(LiveOn(r) \cup {NewToken}) <= Cardinality(LiveOn(r)) + 1
    <3>1. IsFiniteSet(LiveOn(r))
      BY <1>1
    <3> QED BY <3>1, OneMoreCounted
  <2>3. /\ IsFiniteSet(LiveOn(r)')
        /\ Cardinality(LiveOn(r)') <= Cardinality(LiveOn(r) \cup {NewToken})
    BY <2>1, <2>2, FS_Subset
  <2>4. Held(r) = 1 /\ Held(r)' = 0
    BY <1>1, <1>3, LoopHolds DEF Held
  <2>5. Cardinality(LiveOn(r)') \in Nat /\ Cardinality(LiveOn(r) \cup {NewToken}) \in Nat
    BY <2>2, <2>3, FS_CardinalityType
  <2> QED BY <1>1, <1>2, <2>2, <2>3, <2>4, <2>5
<1>4. CASE ~Claim(r)
  <2>1. LiveOn(r)' \subseteq LiveOn(r)
    BY <1>1, <1>4, LiveStays DEF LiveOn, Survives, Spawned
  <2>2. IsFiniteSet(LiveOn(r)') /\ Cardinality(LiveOn(r)') <= Cardinality(LiveOn(r))
    BY <1>1, <2>1, FS_Subset
  <2>3. Cardinality(LiveOn(r)') \in Nat
    BY <2>2, FS_CardinalityType
  <2>4. CASE Sweep(r)
    <3>1. Cardinality(LiveOn(r)) < Workers
      BY <2>4 DEF Sweep, PermitFree
    <3> QED BY <1>1, <1>2, <2>2, <2>3, <3>1 DEF Held
  <2>5. CASE ~Sweep(r)
    <3>1. Held(r)' <= Held(r) /\ Held(r) \in Nat /\ Held(r)' \in Nat
      BY <1>1, <2>5, LoopHolds DEF Held
    <3> QED BY <1>1, <1>2, <2>2, <2>3, <3>1
  <2> QED BY <2>4, <2>5
<1> QED BY <1>3, <1>4

LEMMA AlwaysPermitInv == Spec => []PermitInv
<1>1. Init => PermitInv
  <2> SUFFICES ASSUME Init PROVE PermitInv
    OBVIOUS
  <2>1. ASSUME NEW r \in Replicas PROVE LiveOn(r) = {} /\ Held(r) = 0
    BY DEF Init, LiveOn, Live, NoExecution, Held
  <2>2. Workers \in Nat
    BY QueueAssumption DEF QueueAssumption
  <2> QED BY <2>1, <2>2, InitType, FS_EmptySet DEF PermitInv
<1> QED BY <1>1, PermitInductive, PTL DEF Spec

(* A replica never runs more executions than it has permits, a polling     *)
(* loop that is about to claim holding one.                                *)
THEOREM PermitsAreRespected == Spec => []PermitsRespected
<1>1. PermitInv => PermitsRespected
  BY DEF PermitInv, PermitsRespected, Held
<1> QED BY <1>1, AlwaysPermitInv, PTL

(* An entry of a replica's map was written by a live execution of that job *)
(* on that replica: entries go with their execution or their process.      *)
Entry(r, j) ==
    local[r][j] # None => local[r][j] \in LiveOn(r) /\ JobOf(local[r][j]) = j
LocalInv == TypeInv /\ \A r \in Replicas, j \in JobIds : Entry(r, j)

LEMMA LiveLeaves ==
    ASSUME TypeInv, [Next]_vars, NEW t \in Tokens, Live(t)
    PROVE  \/ Live(t)' /\ exec'[t].replica = exec[t].replica /\ exec'[t].job = exec[t].job
           \/ Cleanup(t)
           \/ \E r \in Crashing : Crash(r) /\ exec[t].replica = r
<1> DEFINE Kept == Live(t)' /\ exec'[t].replica = exec[t].replica /\ exec'[t].job = exec[t].job
<1>1. exec'[t] = exec[t] => Kept
  BY DEF Live
<1>2. /\ exec \in [Tokens -> Execution] /\ exec[t] \in Execution /\ Placed(exec[t])
      /\ exec[t].pc # "unused"
  BY DEF TypeInv, TypeOK, Live
<1>3. ASSUME NEW r \in Replicas, LoopStep(r) PROVE exec'[t] = exec[t]
  BY <1>2, <1>3, LeaseSpawns
     DEF LoopStep, Sweep, SweepError, Claim, ClaimNothing, ClaimError
<1>4. ASSUME NEW u \in Tokens, ExecutionStep(u) PROVE Kept \/ Cleanup(t)
  <2>1. CASE t # u
    <3>1. exec'[t] = exec[t]
      BY <1>2, <1>4, <2>1
         DEF ExecutionStep, Start, ReportProgress, OperationEnds, TickMeetsLockWait, Heartbeat,
             HeartbeatRefused, HeartbeatError, Requeue, Finish, FinishWithout, Cleanup,
             StopWith, Move
    <3> QED BY <1>1, <3>1
  <2>2. ASSUME NEW result, StopWith(u, result), t = u PROVE Kept
    <3>1. exec'[t] = Stopped(exec[t], result)
      BY <1>2, <2>2 DEF StopWith
    <3> QED BY <1>2, <3>1 DEF Live, Stopped, Execution
  <2>3. ASSUME NEW pc \in {"running", "wedged", "finish", "cleanup"}, Move(u, pc), t = u PROVE Kept
    <3>1. exec'[t] = [exec[t] EXCEPT !.pc = pc]
      BY <1>2, <2>3 DEF Move
    <3> QED BY <1>2, <3>1 DEF Live, Execution
  <2>4. CASE UNCHANGED exec
    BY <1>1, <2>4
  <2>5. Start(u) => Move(u, "running")
    BY DEF Start, Move
  <2>6. \/ Cleanup(u) \/ UNCHANGED exec
        \/ \E result \in {"report", "retryable", "pipeline", "lease_lost", "heartbeat_failed"} :
              StopWith(u, result)
        \/ \E pc \in {"running", "wedged", "finish", "cleanup"} : Move(u, pc)
    BY <1>4, <2>5
       DEF ExecutionStep, ReportProgress, OperationEnds, TickMeetsLockWait, Heartbeat,
           HeartbeatRefused, HeartbeatError, Requeue, Finish, FinishWithout
  <2> QED BY <2>1, <2>2, <2>3, <2>4, <2>6
<1>5. ASSUME NEW r \in Crashing, Crash(r), exec[t].replica # r PROVE exec'[t] = exec[t]
  BY <1>5 DEF Crash, LiveOn
<1>6. CASE UNCHANGED exec
  BY <1>1, <1>6
<1>7. CASE Next
  BY <1>1, <1>3, <1>4, <1>5, <1>6, <1>7
     DEF Next, AdmissionStep, FindActive, Insert, Lookup, RequestError, LeaseExpires, BackoffElapses
<1> QED BY <1>6, <1>7 DEF vars

(* What happens to an entry, apart from what happens to its execution.     *)
LEMMA EntryMoves ==
    ASSUME TypeInv, [Next]_vars, NEW r \in Replicas, NEW j \in JobIds, local'[r][j] # None
    PROVE  \/ /\ local'[r][j] = local[r][j]
              /\ \A t \in Tokens : Cleanup(t) => exec[t].replica # r \/ JobOf(t) # j
              /\ ~Crash(r)
           \/ \E t \in Tokens : /\ local'[r][j] = t /\ exec[t].replica = r /\ JobOf(t) = j
                                /\ Live(t) /\ ~Cleanup(t) /\ ~Crash(r)
<1>1. local \in [Replicas -> [JobIds -> Tokens \cup {None}]] /\ exec \in [Tokens -> Execution]
  BY DEF TypeInv, TypeOK
<1>2. ASSUME NEW t \in Tokens, Cleanup(t) PROVE exec[t].replica # r \/ JobOf(t) # j
  <2>1. local' = [local EXCEPT ![exec[t].replica][JobOf(t)] = None]
    BY <1>2 DEF Cleanup
  <2> QED BY <1>1, <2>1
<1>3. ~Crash(r)
  BY <1>1 DEF Crash
<1>4. CASE local'[r][j] = local[r][j]
  BY <1>2, <1>3, <1>4
<1>5. CASE local'[r][j] # local[r][j]
  <2>1. ASSUME NEW q \in Crashing, Crash(q) PROVE FALSE
    <3>1. r # q
      BY <1>3, <2>1
    <3> QED BY <1>1, <1>5, <2>1, <3>1 DEF Crash
  <2>2. PICK t \in Tokens : ExecutionStep(t)
    BY <1>5, <2>1
       DEF Next, AdmissionStep, FindActive, Insert, Lookup, RequestError, LeaseExpires,
           BackoffElapses, LoopStep, Sweep, SweepError, Claim, ClaimNothing, ClaimError, vars
  <2>3. ~Cleanup(t)
    BY <1>1, <1>5 DEF Cleanup
  <2>4. /\ exec[t].pc \in {"claimed", "running"}
        /\ local' = [local EXCEPT ![exec[t].replica][JobOf(t)] = t]
    BY <1>5, <2>2, <2>3
       DEF ExecutionStep, Start, ReportProgress, OperationEnds, TickMeetsLockWait, Heartbeat,
           HeartbeatRefused, HeartbeatError, Requeue, Finish, FinishWithout
  <2>5. local'[r][j] = t /\ exec[t].replica = r /\ JobOf(t) = j
    BY <1>1, <1>5, <2>4
  <2> QED BY <1>3, <2>3, <2>4, <2>5 DEF Live
<1> QED BY <1>4, <1>5

LEMMA LocalInductive == LocalInv /\ [Next]_vars => LocalInv'
<1> SUFFICES ASSUME LocalInv, [Next]_vars, NEW r \in Replicas, NEW j \in JobIds,
                    local'[r][j] # None
             PROVE  local'[r][j] \in LiveOn(r)' /\ exec'[local'[r][j]].job = j
  BY NextType DEF LocalInv, Entry, JobOf
<1>1. /\ TypeInv /\ TypeInv' /\ None \notin Tokens /\ Crashing \subseteq Replicas
  BY NextType, QueueAssumption DEF LocalInv, QueueAssumption
<1>2. PICK t \in Tokens : t = local'[r][j]
  BY <1>1 DEF TypeInv, TypeOK
<1>3. /\ t \in LiveOn(r) /\ JobOf(t) = j /\ ~Cleanup(t) /\ ~Crash(r)
  BY <1>1, <1>2, EntryMoves DEF LocalInv, Entry, LiveOn
<1>4. Live(t)' /\ exec'[t].replica = exec[t].replica /\ exec'[t].job = exec[t].job
  BY <1>1, <1>3, LiveLeaves DEF LiveOn
<1> QED BY <1>2, <1>3, <1>4 DEF LiveOn, Live, JobOf

-----------------------------------------------------------------------------
(* The stored progress.                                                    *)

(* A row that is running keeps the progress of its lease, is leased anew   *)
(* without one, or is given the local entry of an execution that owns it.  *)
LEMMA ProgressMoves ==
    ASSUME TypeInv, [Next]_vars, NEW j \in JobIds, job'[j].status = "running"
    PROVE  \/ job'[j].progress = None
           \/ /\ job[j].status = "running" /\ job'[j].owner = job[j].owner
              /\ \/ job'[j].progress = job[j].progress
                 \/ \E t \in Tokens : /\ exec[t].pc = "running" /\ Owns(t) /\ JobOf(t) = j
                                      /\ job'[j].progress = LocalEntry(t)
<1>1. /\ RowStep(j) /\ job \in [JobIds -> Row] /\ job[j] \in Row /\ NoRow.status = "absent"
  BY RowSteps DEF TypeInv, TypeOK, NoRow
<1>2. CASE job'[j] = job[j]
  BY <1>2
<1>3. CASE RowLeased(j)
  BY <1>1, <1>3, LeasedRow DEF RowLeased
<1>4. CASE RowInserted(j)
  BY <1>4, NewRowFields DEF RowInserted
<1>5. CASE RowGivenUp(j)
  BY <1>1, <1>5, GivenUpRow DEF RowGivenUp
<1>6. CASE RowSettled(j)
  BY <1>1, <1>6, RequeuedRow, DoneRow, FailedRow
     DEF RowSettled, RowRequeued, RowDone, RowFailed
<1>7. CASE RowTouched(j) /\ job'[j].progress # job[j].progress /\ ~RowLeased(j)
  <2>1. job[j].status = "running" /\ job'[j].owner = job[j].owner
    BY <1>7 DEF RowTouched, SameBut
  <2>2. ASSUME NEW c \in Requests, AdmissionStep(c) PROVE FALSE
    <3>1. InsertRow(c) \/ UNCHANGED job
      BY <2>2 DEF AdmissionStep, FindActive, Insert, InsertConflict, Lookup, RequestError
    <3>2. NewJob # j \/ ~InsertRow(c)
      BY <2>1, NewJobIsFresh DEF InsertRow
    <3> QED BY <1>1, <1>7, <3>1, <3>2 DEF InsertRow
  <2>3. ASSUME NEW r \in Replicas, LoopStep(r) PROVE FALSE
    <3>1. ~ExhaustStale
      <4>1. \A row \in Row : GivenUp(row).progress = row.progress
        BY DEF GivenUp, Row
      <4>2. ExhaustStale => job'[j] = IF Exhausted(j) THEN GivenUp(job[j]) ELSE job[j]
        BY DEF ExhaustStale
      <4> QED BY <1>1, <1>7, <4>1, <4>2
    <3>2. ASSUME NEW k \in JobIds, NEW q, NEW pc, TakeLease(k, q, pc), Claimable(k)
          PROVE  FALSE
      <4>1. /\ NewToken \in Tokens /\ exec[NewToken].pc = "unused"
            /\ job' = [job EXCEPT ![k] = Leased(job[k], NewToken)]
            /\ exec'[NewToken].job = k /\ exec'[NewToken].attempt = job[k].attempts + 1
        BY <3>2, NewTokenIsFresh DEF TakeLease, TypeInv, TypeOK
      <4>2. k = j
        BY <1>1, <1>7, <4>1
      <4> QED BY <1>1, <1>7, <3>2, <4>1, <4>2 DEF RowLeased
    <3> QED BY <1>7, <2>3, <3>1, <3>2
            DEF LoopStep, Sweep, SweepError, Claim, ClaimNothing, ClaimError, NextInLine
  <2>4. ASSUME NEW k \in JobIds, LeaseExpires(k) \/ BackoffElapses(k) PROVE FALSE
    BY <1>1, <1>7, <2>4 DEF LeaseExpires, BackoffElapses, Row
  <2>5. PICK t \in Tokens : ExecutionStep(t)
    BY <1>7, <2>2, <2>3, <2>4 DEF Next, Crash, vars
  <2>6. exec[t] \in Execution /\ Placed(exec[t]) /\ None \notin JobIds
    BY QueueAssumption DEF TypeInv, TypeOK, QueueAssumption
  <2>7. CASE exec[t].pc = "running" /\ Owns(t) /\ SaveProgress(t)
    <3>1. JobOf(t) \in JobIds
      BY <2>6, <2>7 DEF JobOf, Execution, Placed
    <3>2. JobOf(t) = j /\ job'[j].progress = LocalEntry(t)
      BY <1>1, <1>7, <2>7, <3>1 DEF SaveProgress, Row
    <3> QED BY <2>1, <2>7, <3>2
  <2>8. CASE ~SaveProgress(t) \/ exec[t].pc # "running"
    <3>1. \/ exec[t].pc = "requeue" /\ BackInQueue(t)
          \/ exec[t].pc = "finish" /\ Conclude(t)
      BY <1>7, <2>5, <2>8
         DEF ExecutionStep, Start, ReportProgress, OperationEnds, TickMeetsLockWait, Heartbeat,
             HeartbeatRefused, HeartbeatError, Requeue, Finish, FinishWithout, Cleanup
    <3>2. JobOf(t) = j
      BY <1>1, <1>7, <3>1 DEF BackInQueue, Conclude
    <3>3. exec[t].result # "report" /\ exec[t].pc = "finish" => exec[t].result \in Failure
      BY <2>6 DEF Execution, Result, Failure, Placed
    <3>4. job'[j].status # "running"
      <4>1. CASE BackInQueue(t)
        <5>1. job'[j] = Requeued(job[j])
          BY <1>1, <3>2, <4>1 DEF BackInQueue
        <5> QED BY <1>1, <5>1, RequeuedRow
      <4>2. CASE exec[t].pc = "finish" /\ Conclude(t)
        <5>1. job'[j] = IF exec[t].result = "report" THEN Done(job[j], t)
                        ELSE Failed(job[j], exec[t].result)
          BY <1>1, <3>2, <4>2 DEF Conclude
        <5> QED BY <1>1, <3>3, <4>2, <5>1, DoneRow, FailedRow
      <4> QED BY <3>1, <4>1, <4>2
    <3> QED BY <3>4
  <2>9. Owns(t) \/ exec[t].pc # "running" \/ ~SaveProgress(t) \/ UNCHANGED job
    BY <2>5 DEF ExecutionStep, Start, ReportProgress, OperationEnds, TickMeetsLockWait,
                Heartbeat, HeartbeatRefused, HeartbeatError, Requeue, Finish, FinishWithout,
                Cleanup
  <2> QED BY <1>7, <2>7, <2>8, <2>9
<1>8. CASE RowTouched(j) /\ job'[j].progress = job[j].progress
  BY <1>8 DEF RowTouched, SameBut
<1> QED BY <1>1, <1>2, <1>3, <1>4, <1>5, <1>6, <1>7, <1>8 DEF RowStep

ProgressInv == PermitInv /\ LocalInv /\ StoredProgressIsOwners

LEMMA ProgressInductive ==
    ASSUME Workers = 1
    PROVE  ProgressInv /\ [Next]_vars => ProgressInv'
<1> SUFFICES ASSUME ProgressInv, [Next]_vars, NEW j \in JobIds, job'[j].status = "running"
             PROVE  job'[j].progress \in {job'[j].owner, None}
  BY PermitInductive, LocalInductive DEF ProgressInv, StoredProgressIsOwners
<1>1. TypeInv /\ None \notin JobIds
  BY QueueAssumption DEF ProgressInv, PermitInv, QueueAssumption
<1>2. CASE \E t \in Tokens : /\ exec[t].pc = "running" /\ Owns(t) /\ JobOf(t) = j
                             /\ job'[j].progress = LocalEntry(t)
                             /\ job'[j].owner = job[j].owner
  <2>1. PICK t \in Tokens : /\ exec[t].pc = "running" /\ Owns(t) /\ JobOf(t) = j
                            /\ job'[j].progress = LocalEntry(t)
                            /\ job'[j].owner = job[j].owner
    BY <1>2
  <2>2. PICK r \in Replicas : r = exec[t].replica
    BY <1>1, <2>1 DEF TypeInv, TypeOK, Placed
  <2>3. t \in LiveOn(r) /\ job'[j].owner = t /\ LocalEntry(t) = local[r][j]
    BY <2>1, <2>2 DEF LiveOn, Live, Owns, LocalEntry
  <2>4. local[r][j] # None => local[r][j] \in LiveOn(r)
    BY DEF ProgressInv, LocalInv, Entry
  <2>5. IsFiniteSet(LiveOn(r)) /\ Cardinality(LiveOn(r)) <= 1
    <3>1. IsFiniteSet(LiveOn(r)) /\ Cardinality(LiveOn(r)) + Held(r) <= 1
      BY DEF ProgressInv, PermitInv
    <3>2. Cardinality(LiveOn(r)) \in Nat /\ Held(r) \in Nat
      BY <3>1, FS_CardinalityType DEF Held
    <3> QED BY <3>1, <3>2
  <2>6. Cardinality({t}) = 1 /\ {t} \in SUBSET LiveOn(r)
    BY <2>3, FS_Singleton
  <2>7. LiveOn(r) = {t}
    <3>1. Cardinality({t}) <= Cardinality(LiveOn(r)) /\ Cardinality(LiveOn(r)) \in Nat
      BY <2>5, <2>6, FS_Subset, FS_CardinalityType
    <3>2. Cardinality(LiveOn(r)) = Cardinality({t})
      BY <2>5, <2>6, <3>1
    <3> QED BY <2>5, <2>6, <3>2, FS_Subset
  <2> QED BY <2>1, <2>3, <2>4, <2>7
<1>3. CASE job'[j].progress = None
  BY <1>3
<1>4. CASE /\ job[j].status = "running" /\ job'[j].owner = job[j].owner
           /\ job'[j].progress = job[j].progress
  BY <1>4 DEF ProgressInv, StoredProgressIsOwners
<1> QED BY <1>1, <1>2, <1>3, <1>4, ProgressMoves

(* With one permit per replica, the progress stored for a running job is   *)
(* that of the execution that owns it, or the default.                     *)
THEOREM ProgressIsTheOwners ==
    ASSUME Workers = 1
    PROVE  Spec => []StoredProgressIsOwners
<1>1. Init => ProgressInv
  <2> SUFFICES ASSUME Init PROVE ProgressInv
    OBVIOUS
  <2>1. TypeInv
    BY InitType
  <2>2. \A r \in Replicas, j \in JobIds : local[r][j] = None
    BY DEF Init
  <2>3. \A j \in JobIds : job[j].status = "absent"
    BY DEF Init, NoRow
  <2>4. ASSUME NEW r \in Replicas PROVE LiveOn(r) = {} /\ Held(r) = 0
    BY DEF Init, LiveOn, Live, NoExecution, Held
  <2> QED BY <2>1, <2>2, <2>3, <2>4, FS_EmptySet
          DEF ProgressInv, PermitInv, LocalInv, Entry, StoredProgressIsOwners
<1>2. ProgressInv /\ [Next]_vars => ProgressInv'
  BY ProgressInductive
<1>3. ProgressInv => StoredProgressIsOwners
  BY DEF ProgressInv
<1> QED BY <1>1, <1>2, <1>3, PTL DEF Spec
=============================================================================
