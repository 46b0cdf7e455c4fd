----------------------------- MODULE LeasedJob -----------------------------
(***************************************************************************)
(* What a leased job is to the attempts that work on it.  IngestQueue has  *)
(* replicas, tokens and statements and no pipeline; CorpusIngest has the   *)
(* pipeline of one job and only the columns of the queue that fence its    *)
(* statements.  Both are shown to implement this specification, each for   *)
(* the job it sees: it is what they mean to each other.                    *)
(***************************************************************************)
EXTENDS Naturals

CONSTANT MaxAttempts

VARIABLES
    row,    \* status, number of attempts, the attempt that owns it (0: none), lease
    at      \* at[a]: whether attempt a is still to come, alive or over
leaseVars == <<row, at>>

Columns(status, attempts, owner, valid) ==
    [status |-> status, attempts |-> attempts, owner |-> owner, valid |-> valid]

LInit ==
    /\ row = Columns("queued", 0, 0, FALSE)
    /\ at = [a \in 1 .. MaxAttempts |-> "ahead"]

(* The next attempt gets the lease.  It may never learn of it: the reply   *)
(* of the statement is lost.                                               *)
Lease(a) ==
    /\ row.status = "queued" \/ (row.status = "running" /\ ~row.valid)
    /\ a = row.attempts + 1 /\ at[a] = "ahead"
    /\ row' = Columns("running", a, a, TRUE)
    /\ \E place \in {"alive", "over"} : at' = [at EXCEPT ![a] = place]

Expire ==
    /\ row.status = "running" /\ row.valid
    /\ row' = Columns("running", row.attempts, row.owner, FALSE)
    /\ UNCHANGED at

(* The lease of the last attempt has expired.                              *)
GiveUp ==
    /\ row.status = "running" /\ ~row.valid /\ row.attempts = MaxAttempts
    /\ row' = Columns("failed", MaxAttempts, 0, FALSE)
    /\ UNCHANGED at

(* Attempt a puts the job back, if an attempt is left, or concludes it:    *)
(* only with a valid lease of its own, and while it is alive.              *)
Settle(a, outcome) ==
    /\ at[a] = "alive"
    /\ row.status = "running" /\ row.owner = a /\ row.valid
    /\ outcome = "queued" => a < MaxAttempts
    /\ row' = Columns(outcome, row.attempts, 0, FALSE)
    /\ \E place \in {"alive", "over"} : at' = [at EXCEPT ![a] = place]

(* Attempts end, of themselves or with their process, and leave the row as *)
(* it is.                                                                  *)
EndOf(S) ==
    /\ \A a \in S : at[a] = "alive"
    /\ at' = [a \in 1 .. MaxAttempts |-> IF a \in S THEN "over" ELSE at[a]]
    /\ UNCHANGED row

LNext ==
    \/ \E a \in 1 .. MaxAttempts : Lease(a)
    \/ Expire \/ GiveUp
    \/ \E a \in 1 .. MaxAttempts, outcome \in {"queued", "done", "failed"} : Settle(a, outcome)
    \/ \E S \in SUBSET (1 .. MaxAttempts) : EndOf(S)

LSpec == LInit /\ [][LNext]_leaseVars
=============================================================================
