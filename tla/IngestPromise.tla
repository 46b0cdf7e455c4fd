--------------------------- MODULE IngestPromise ---------------------------
(***************************************************************************)
(* What the durable queue promises to the user of the ingestion API: a     *)
(* submission is tried at most MaxAttempts times, one submission per lane  *)
(* and identity is under way at any moment, and each ends, once, done or   *)
(* failed.  Leases, tokens, replicas and requests are not visible here:    *)
(* IngestQueue is shown to implement this specification.                   *)
(***************************************************************************)
EXTENDS Naturals

CONSTANTS JobIds, Identities, MaxAttempts, None

VARIABLES
    phase,  \* phase[j]: how far submission j is
    tries,  \* tries[j]: how often its work was started
    whose   \* whose[j]: the lane and identity it is for
pvars == <<phase, tries, whose>>

Pending(j) == phase[j] \in {"queued", "running"}

PInit ==
    /\ phase = [j \in JobIds |-> "absent"]
    /\ tries = [j \in JobIds |-> 0]
    /\ whose = [j \in JobIds |-> None]

Submit(j, i) ==
    /\ phase[j] = "absent"
    /\ \A k \in JobIds : Pending(k) => whose[k] # i
    /\ phase' = [phase EXCEPT ![j] = "queued"]
    /\ whose' = [whose EXCEPT ![j] = i]
    /\ UNCHANGED tries

(* The work is started, for the first time or again.                       *)
Try(j) ==
    /\ Pending(j)
    /\ tries[j] < MaxAttempts
    /\ phase' = [phase EXCEPT ![j] = "running"]
    /\ tries' = [tries EXCEPT ![j] = @ + 1]
    /\ UNCHANGED whose

(* The work is postponed; a further try must be left.                      *)
Postpone(j) ==
    /\ phase[j] = "running"
    /\ tries[j] < MaxAttempts
    /\ phase' = [phase EXCEPT ![j] = "queued"]
    /\ UNCHANGED <<tries, whose>>

End(j, outcome) ==
    /\ phase[j] = "running"
    /\ phase' = [phase EXCEPT ![j] = outcome]
    /\ UNCHANGED <<tries, whose>>

(* Submissions whose last try has vanished are given up together.          *)
GiveUp(S) ==
    /\ \A j \in S : phase[j] = "running" /\ tries[j] = MaxAttempts
    /\ phase' = [j \in JobIds |-> IF j \in S THEN "failed" ELSE phase[j]]
    /\ UNCHANGED <<tries, whose>>

Settle(j) ==
    \/ Try(j) \/ Postpone(j) \/ End(j, "done") \/ End(j, "failed")
    \/ \E S \in SUBSET JobIds : j \in S /\ GiveUp(S)

PNext ==
    \/ \E j \in JobIds, i \in Identities : Submit(j, i)
    \/ \E j \in JobIds : Settle(j)

PSafe == PInit /\ [][PNext]_pvars
Promise == PSafe /\ \A j \in JobIds : WF_pvars(Settle(j))
=============================================================================
