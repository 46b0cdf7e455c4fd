------------------------ MODULE IntuitionPublication ------------------------
(***************************************************************************)
(* Publication of situated debates on the Intuition chain:                 *)
(* `intuition-publish` runs (talaria-api/src/intuition.rs) over the table  *)
(* intuition_publications and its term bindings                            *)
(* (talaria-store/src/intuition.rs), each run spawning a sidecar           *)
(* (sidecar/intuition/publisher.ts) that pins, then creates on the chain   *)
(* the terms that do not exist yet.                                        *)
(*                                                                         *)
(* A run and its sidecar are two processes: when the run dies the sidecar  *)
(* goes on, and what it sends to the chain may be mined later than anyone  *)
(* waits for.  Runs of one subject may overlap.                            *)
(***************************************************************************)
EXTENDS Naturals, Sequences, FiniteSets

CONSTANTS
    Facts,          \* bundle fingerprints: one row each
    Terms,          \* term ids on the chain
    Plan,           \* [Facts -> Seq(Terms)]: what the sidecar ensures, in order
    Vote,           \* [Facts -> Terms]: the triple question_has_proposition
    Collections,    \* what collect_facts can return
    Runs,           \* invocations of intuition-publish, intuition-export or -plan
    NoTerm          \* SQL NULL

ASSUME PublicationAssumption ==
    /\ Plan \in [Facts -> Seq(Terms)]
    /\ Vote \in [Facts -> Terms]
    /\ \A f \in Facts : \E k \in 1 .. Len(Plan[f]) : Plan[f][k] = Vote[f]
    /\ Collections \subseteq Seq(Facts)
    /\ NoTerm \notin Terms

VARIABLES
    row,        \* intuition_publications by fingerprint: status, triple_term_id
    bound,      \* intuition_term_bindings: the terms bound to a publication
    run,        \* locals of run_intuition_publish
    sidecar,    \* the child process of each run
    chain,      \* external: the terms that exist
    sent        \* external: create transactions, by run, fact and term

pubVars == <<row, bound, run, sidecar, chain, sent>>

Statuses == {"absent", "pending", "pin_failed", "failed", "published"}
Answers == {"published", "pin_failed", "failed"}
Stages == {"none", "pin", "resolve", "send", "wait", "verify", "answered"}

RunPlaces == {"idle", "persist", "publish", "await", "bind", "done", "dead"}

(* Where a run is, the facts it collected, the index of the current one,   *)
(* that of the binding to write, and the results it will print.            *)
RunStates ==
    [at : RunPlaces,
     live : BOOLEAN, facts : Collections \cup {<<>>}, k : Nat, b : Nat,
     results : SUBSET (Facts \X Answers)]

(* The sidecar's position in publishDebate: the fact, the index of the     *)
(* term that it ensures, and its answer.                                   *)
Sidecars == [at : Stages, fact : Facts \cup {NoTerm}, k : Nat,
             answer : Answers \cup {"none"}]

PubRows == [status : Statuses, triple : Terms \cup {NoTerm}]

PubTypeOK ==
    /\ row \in [Facts -> PubRows]
    /\ bound \in [Facts -> SUBSET Terms]
    /\ run \in [Runs -> RunStates]
    /\ sidecar \in [Runs -> Sidecars]
    /\ chain \subseteq Terms
    /\ sent \in [Runs \X Facts \X Terms -> {"none", "pending", "mined", "reverted"}]
    /\ \A r \in Runs : run[r].at \in {"publish", "await", "bind"} =>
                            run[r].k \in 1 .. Len(run[r].facts)

IdleRun == [at |-> "idle", live |-> FALSE, facts |-> <<>>, k |-> 0, b |-> 0,
            results |-> {}]
NoSidecar == [at |-> "none", fact |-> NoTerm, k |-> 0, answer |-> "none"]

PubInit ==
    /\ row = [f \in Facts |-> [status |-> "absent", triple |-> NoTerm]]
    /\ bound = [f \in Facts |-> {}]
    /\ run = [r \in Runs |-> IdleRun]
    /\ sidecar = [r \in Runs |-> NoSidecar]
    /\ chain = {}
    /\ sent = [x \in Runs \X Facts \X Terms |-> "none"]

Current(r) == run[r].facts[run[r].k]

(* A run that is over: of its locals only the results are kept, as history.*)
Over(r, place, results) == [IdleRun EXCEPT !.at = place, !.results = results]

-----------------------------------------------------------------------------
(* The run: persist_pending for every fact, then one sidecar per fact.     *)

(* The guard of --live, the subject, collect_facts and the sidecar's       *)
(* `model` of every fact come before the first write.                      *)
StartRun(r, facts, live) ==
    /\ run[r].at = "idle"
    /\ run' = [run EXCEPT ![r] = [@ EXCEPT !.at = "persist", !.live = live,
                                           !.facts = facts, !.k = 1]]
    /\ UNCHANGED <<row, bound, sidecar, chain, sent>>

\* Mutant of Upserted: the CASE on the status column is forgotten.
UpsertedAnyway(old) == [old EXCEPT !.status = "pending"]
(* The status an upsert with status `pending` leaves: a published row      *)
(* keeps everything.                                                       *)
Upserted(old) == IF old.status = "published" THEN old
                                             ELSE [old EXCEPT !.status = "pending"]

PersistPending(r) ==
    /\ run[r].at = "persist"
    /\ run[r].k <= Len(run[r].facts)
    /\ row' = [row EXCEPT ![Current(r)] = Upserted(@)]
    /\ run' = [run EXCEPT ![r].k = @ + 1]
    /\ UNCHANGED <<bound, sidecar, chain, sent>>

(* A dry run, a plan or an export ends here with its report.               *)
AllPersisted(r) ==
    /\ run[r].at = "persist"
    /\ run[r].k > Len(run[r].facts)
    /\ run' = [run EXCEPT ![r] = IF @.live /\ @.facts # <<>>
                                 THEN [@ EXCEPT !.at = "publish", !.k = 1]
                                 ELSE Over(r, "done", {})]
    /\ UNCHANGED <<row, bound, sidecar, chain, sent>>

SpawnSidecar(r) ==
    /\ run[r].at = "publish"
    /\ run' = [run EXCEPT ![r].at = "await"]
    /\ sidecar' = [sidecar EXCEPT ![r] = [at |-> "pin", fact |-> Current(r), k |-> 1,
                                          answer |-> "none"]]
    /\ UNCHANGED <<row, bound, chain, sent>>

(* The result of the current fact is printed; the loop goes on.            *)
Reported(r, answer) ==
    LET results == run[r].results \cup {<<Current(r), answer>>}
    IN  IF run[r].k = Len(run[r].facts) THEN Over(r, "done", results)
        ELSE [run[r] EXCEPT !.at = "publish", !.k = @ + 1, !.results = results]

Answered(r) == run[r].at = "await" /\ sidecar[r].at = "answered"

\* Mutant of Retryable: the condition on the status is forgotten.
RetryableAnyway(old, answer) == [old EXCEPT !.status = answer]
(* mark_intuition_pin_failed, mark_intuition_failed: not on a row that is  *)
(* published.                                                              *)
Retryable(old, answer) == IF old.status = "published" THEN old
                                                      ELSE [old EXCEPT !.status = answer]

MarkRetryable(r) ==
    /\ Answered(r)
    /\ sidecar[r].answer # "published"
    /\ row' = [row EXCEPT ![Current(r)] = Retryable(@, sidecar[r].answer)]
    /\ run' = [run EXCEPT ![r] = Reported(r, sidecar[r].answer)]
    /\ sidecar' = [sidecar EXCEPT ![r] = NoSidecar]
    /\ UNCHANGED <<bound, chain, sent>>

(* mark_intuition_published: only a row that is not published takes the    *)
(* vote triple.                                                            *)
MarkPublished(r) ==
    /\ Answered(r)
    /\ sidecar[r].answer = "published"
    /\ row' = [row EXCEPT ![Current(r)] =
                    IF @.status = "published" THEN @
                    ELSE [status |-> "published", triple |-> Vote[Current(r)]]]
    /\ run' = [run EXCEPT ![r] = [@ EXCEPT !.at = "bind", !.b = 1]]
    /\ sidecar' = [sidecar EXCEPT ![r] = NoSidecar]
    /\ UNCHANGED <<bound, chain, sent>>

(* upsert_intuition_term_binding, one statement per term; after the last   *)
(* one the fact is reported as published.                                  *)
BindTerm(r) ==
    /\ run[r].at = "bind"
    /\ LET terms == Plan[Current(r)]
       IN  /\ bound' = [bound EXCEPT ![Current(r)] = @ \cup {terms[run[r].b]}]
           /\ run' = [run EXCEPT ![r] = IF run[r].b = Len(terms) THEN Reported(r, "published")
                                        ELSE [run[r] EXCEPT !.b = run[r].b + 1]]
    /\ UNCHANGED <<row, sidecar, chain, sent>>

(* Any statement or the spawn fails (`?`), or the process dies.  The       *)
(* sidecar is not stopped.                                                 *)
RunDies(r) ==
    /\ run[r].at \in {"persist", "publish", "await", "bind"}
    /\ run' = [run EXCEPT ![r] = Over(r, "dead", @.results)]
    /\ UNCHANGED <<row, bound, sidecar, chain, sent>>

-----------------------------------------------------------------------------
(* The sidecar: publishDebate, ensureAtomFromData and ensureTriple.        *)

Working(r) == sidecar[r].at \in {"pin", "resolve", "send", "wait", "verify"}
Ensured(r) == Plan[sidecar[r].fact][sidecar[r].k]
Creation(r) == <<r, sidecar[r].fact, Ensured(r)>>
Answering(r, answer) == [sidecar[r] EXCEPT !.at = "answered", !.answer = answer]

(* The term exists: go on with the next one, or answer `published`.        *)
NextTerm(r) ==
    IF sidecar[r].k = Len(Plan[sidecar[r].fact]) THEN Answering(r, "published")
    ELSE [sidecar[r] EXCEPT !.at = "resolve", !.k = @ + 1]

PinAtoms(r) ==
    /\ sidecar[r].at = "pin"
    /\ sidecar' = [sidecar EXCEPT ![r] = [@ EXCEPT !.at = "resolve"]]
    /\ UNCHANGED <<row, bound, run, chain, sent>>

PinFails(r) ==
    /\ sidecar[r].at = "pin"
    /\ sidecar' = [sidecar EXCEPT ![r] = Answering(r, "pin_failed")]
    /\ UNCHANGED <<row, bound, run, chain, sent>>

(* No key, no usable RPC, a failed call, a refused simulation, no receipt  *)
(* within 120 s: caught, and answered `failed`.  What was sent stays sent. *)
SidecarFails(r) ==
    /\ sidecar[r].at \in {"resolve", "send", "wait", "verify"}
    /\ sidecar' = [sidecar EXCEPT ![r] = Answering(r, "failed")]
    /\ UNCHANGED <<row, bound, run, chain, sent>>

(* multiVaultIsTermCreated, before anything is paid.                       *)
CheckTerm(r) ==
    /\ sidecar[r].at = "resolve"
    /\ sidecar' = [sidecar EXCEPT ![r] = IF Ensured(r) \in chain THEN NextTerm(r)
                                         ELSE [@ EXCEPT !.at = "send"]]
    /\ UNCHANGED <<row, bound, run, chain, sent>>

SendCreate(r) ==
    /\ sidecar[r].at = "send"
    /\ sent' = [sent EXCEPT ![Creation(r)] = "pending"]
    /\ sidecar' = [sidecar EXCEPT ![r].at = "wait"]
    /\ UNCHANGED <<row, bound, run, chain>>

(* waitForTransactionReceipt returns for a reverted transaction as well.   *)
ReceiptArrives(r) ==
    /\ sidecar[r].at = "wait"
    /\ sent[Creation(r)] # "pending"
    /\ sidecar' = [sidecar EXCEPT ![r].at = "verify"]
    /\ UNCHANGED <<row, bound, run, chain, sent>>

\* Mutant of VerifyTerm: a receipt is taken for a creation.
VerifyNothing(r) ==
    /\ sidecar[r].at = "verify"
    /\ sidecar' = [sidecar EXCEPT ![r] = NextTerm(r)]
    /\ UNCHANGED <<row, bound, run, chain, sent>>
(* The second multiVaultIsTermCreated; a missing term throws.              *)
VerifyTerm(r) ==
    /\ sidecar[r].at = "verify"
    /\ sidecar' = [sidecar EXCEPT ![r] = IF Ensured(r) \in chain THEN NextTerm(r)
                                         ELSE Answering(r, "failed")]
    /\ UNCHANGED <<row, bound, run, chain, sent>>

(* The child is killed or prints something else: its run, if it is still   *)
(* there, ends with an error.                                              *)
SidecarDies(r) ==
    /\ Working(r)
    /\ sidecar' = [sidecar EXCEPT ![r] = NoSidecar]
    /\ run' = [run EXCEPT ![r] = Over(r, "dead", @.results)]
    /\ UNCHANGED <<row, bound, chain, sent>>

(* External: a transaction is mined, and creates its term or reverts; it   *)
(* reverts when the term exists.                                           *)
Mined(x, outcome) ==
    /\ sent[x] = "pending"
    /\ outcome = "mined" => x[3] \notin chain
    /\ sent' = [sent EXCEPT ![x] = outcome]
    /\ chain' = IF outcome = "mined" THEN chain \cup {x[3]} ELSE chain
    /\ UNCHANGED <<row, bound, run, sidecar>>

SidecarStep(r) ==
    \/ PinAtoms(r) \/ PinFails(r) \/ SidecarFails(r) \/ CheckTerm(r)
    \/ SendCreate(r) \/ ReceiptArrives(r) \/ VerifyTerm(r) \/ SidecarDies(r)

RunStep(r) ==
    \/ \E facts \in Collections, live \in BOOLEAN : StartRun(r, facts, live)
    \/ PersistPending(r) \/ AllPersisted(r) \/ SpawnSidecar(r)
    \/ MarkRetryable(r) \/ MarkPublished(r) \/ BindTerm(r) \/ RunDies(r)

PubNext ==
    \/ \E r \in Runs : RunStep(r)
    \/ \E r \in Runs : SidecarStep(r)
    \/ \E x \in Runs \X Facts \X Terms, outcome \in {"mined", "reverted"} :
            Mined(x, outcome)

PubSpec == PubInit /\ [][PubNext]_pubVars

-----------------------------------------------------------------------------
(* A row that says `published` names the vote triple, and that triple and  *)
(* every bound term exist on the chain, whatever failed, reverted or died. *)
PublishedIsOnChain ==
    /\ \A f \in Facts : row[f].status = "published" =>
            row[f].triple = Vote[f] /\ Vote[f] \in chain
    /\ \A f \in Facts : bound[f] \subseteq chain

(* Once published, a row stays as it is: neither the failure nor the       *)
(* upsert of another run, that read its state before, undoes it.           *)
PublishedIsFinal ==
    [][\A f \in Facts : row[f].status = "published" => row'[f] = row[f]]_pubVars

(* What a run reports as published is published, with all its terms bound, *)
(* when it is reported and ever after.                                     *)
ReportIsBacked ==
    \A r \in Runs : \A f \in Facts : <<f, "published">> \in run[r].results =>
        /\ row[f].status = "published"
        /\ \A k \in 1 .. Len(Plan[f]) : Plan[f][k] \in bound[f]
=============================================================================
