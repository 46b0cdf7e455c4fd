--------------------------- MODULE QualityPipeline ---------------------------
(***************************************************************************)
(* The quality commands (talaria-api/src/quality.rs over                   *)
(* talaria-store/src/quality.rs): a text gives event candidates, which     *)
(* gates judge and which are assembled into events of one subject; a       *)
(* correction supersedes the subject's death.  One action is one SQL       *)
(* statement.                                                              *)
(*                                                                         *)
(* No transaction holds the statements together: what a run that died left *)
(* is taken up by the next run of the text, as talaria-quality/src/        *)
(* resume.rs says.  Runs may overlap.                                      *)
(***************************************************************************)
EXTENDS Naturals, Sequences, FiniteSets

CONSTANTS
    Candidates,     \* candidate fingerprints: one row each
    Correction,     \* the one that a correction of the death inserts
    Deaths,         \* the candidates that are deaths
    Stem,           \* occurrence_stem_for_event: the occurrence but for the place
    PlaceOf,        \* normalized place label
    Inputs,         \* what a text yields, in order, and whether to assemble it
    QualityRuns,    \* invocations of run_quality_fixture
    MaxQualityEvents, \* bound on the events inserted
    NoPlace         \* a candidate without place

ASSUME QualityAssumption ==
    /\ Correction \in Deaths /\ Deaths \subseteq Candidates
    /\ DOMAIN Stem = Candidates /\ DOMAIN PlaceOf = Candidates
    /\ Inputs \subseteq [text : Seq(Candidates \ {Correction}), assemble : BOOLEAN]
    /\ MaxQualityEvents \in Nat

VARIABLES
    status,         \* event_candidates.status
    event,          \* canonical_events, in the order of insertion
    quality,        \* locals of the runs
    correcting,     \* locals of run_quality_supersede_death
    raced           \* history: candidates that two runs had in hand at a time

qualityVars == <<status, event, quality, correcting, raced>>

CandidateStatuses == {"absent", "pending", "needs_review", "accepted", "rejected", "assembled"}

(* from: the candidate of the event; count: source_count; sources: history,*)
(* the candidates counted; next: superseded_by, or 0.                      *)
EventRows == [from : Candidates, active : BOOLEAN, count : Nat,
              sources : SUBSET Candidates, next : Nat]

QualityPlaces == {"idle", "upsert", "resume", "lifespan", "judge", "rivals", "review", "find",
                  "reinforce", "single", "reject", "insert", "mark", "done"}
QualityLocals == [at : QualityPlaces, text : {<<>>} \cup {i.text : i \in Inputs}, k : Nat, assemble : BOOLEAN,
                  fresh : BOOLEAN, dead : BOOLEAN, event : Nat]
NoLocals == [at |-> "done", text |-> <<>>, k |-> 1, assemble |-> FALSE, fresh |-> FALSE,
             dead |-> FALSE, event |-> 0]
CorrectionPlaces == {"upsert", "deactivate", "insert", "link", "mark", "idle"}
NoCorrection == [at |-> "idle", old |-> 0, new |-> 0]

QualityTypeOK ==
    /\ status \in [Candidates -> CandidateStatuses]
    /\ event \in Seq(EventRows)
    /\ Len(event) <= MaxQualityEvents
    /\ quality \in [QualityRuns -> QualityLocals]
    /\ correcting \in [at : CorrectionPlaces, old : Nat, new : Nat]
    /\ raced \subseteq Candidates
    /\ \A r \in QualityRuns : quality[r].at \notin {"idle", "done"} =>
                                  quality[r].k \in 1 .. Len(quality[r].text)

QualityInit ==
    /\ status = [c \in Candidates |-> "absent"]
    /\ event = <<>>
    /\ quality = [r \in QualityRuns |-> [NoLocals EXCEPT !.at = "idle"]]
    /\ correcting = NoCorrection
    /\ raced = {}

-----------------------------------------------------------------------------
InHand(r) == quality[r].text[quality[r].k]
Underway(r) == quality[r].at \notin {"idle", "done"}
Occurrence(c) == <<Stem[c], PlaceOf[c]>>

Active(e) == event[e].active
ActiveOccurrence(c) ==
    {e \in DOMAIN event : Active(e) /\ Occurrence(event[e].from) = Occurrence(c)}
ActiveDeath == {e \in DOMAIN event : Active(e) /\ event[e].from \in Deaths}

(* The unique indexes of migration 027: an active event for each           *)
(* occurrence, and one active death.                                       *)
Refused(c) == ActiveOccurrence(c) # {} \/ (c \in Deaths /\ ActiveDeath # {})

ToPlace(r, place) == [quality EXCEPT ![r].at = place]
(* The next candidate of the text, or the end of the run.                  *)
Proceeds(r) ==
    [quality EXCEPT ![r] =
        IF @.k = Len(@.text) THEN NoLocals
        ELSE [NoLocals EXCEPT !.at = "upsert", !.k = quality[r].k + 1,
                              !.text = quality[r].text, !.assemble = quality[r].assemble]]
Dead(r) == [quality EXCEPT ![r] = NoLocals]

StartText(r, input) ==
    /\ quality[r].at = "idle"
    /\ input.text # <<>>
    /\ quality' = [quality EXCEPT ![r] = [@ EXCEPT !.at = "upsert", !.text = input.text,
                                                   !.assemble = input.assemble]]
    /\ UNCHANGED <<status, event, correcting, raced>>

(* upsert_event_candidate.                                                 *)
UpsertCandidate(r) ==
    /\ quality[r].at = "upsert"
    /\ LET c == InHand(r)
           fresh == status[c] = "absent"
       IN  /\ status' = [status EXCEPT ![c] = IF fresh THEN "pending" ELSE @]
           /\ quality' = [quality EXCEPT ![r] =
                    [@ EXCEPT !.at = IF fresh THEN "lifespan" ELSE "resume",
                              !.fresh = fresh]]
           /\ raced' = IF \E o \in QualityRuns \ {r} : Underway(o) /\ InHand(o) = c
                       THEN raced \cup {c} ELSE raced
    /\ UNCHANGED <<event, correcting>>

\* Mutant of Resumption: an accepted candidate goes through the gates again.
ResumptionByGates(s, assemble) ==
    IF s \in {"assembled", "rejected"} THEN "skip" ELSE "lifespan"
(* existing_candidate_action: where an existing candidate is taken up.     *)
Resumption(s, assemble) ==
    IF s \in {"assembled", "rejected"} THEN "skip"
    ELSE IF s # "accepted" THEN "lifespan"
    ELSE IF assemble THEN "rivals" ELSE "skip"

ResumeCandidate(r) ==
    /\ quality[r].at = "resume"
    /\ LET place == Resumption(status[InHand(r)], quality[r].assemble)
       IN  quality' = IF place = "skip" THEN Proceeds(r) ELSE ToPlace(r, place)
    /\ UNCHANGED <<status, event, correcting, raced>>

(* quality_lifespan_years: whether there is an active death.               *)
ReadLifespan(r) ==
    /\ quality[r].at = "lifespan"
    /\ quality' = [quality EXCEPT ![r] = [@ EXCEPT !.at = "judge",
                                                   !.dead = ActiveDeath # {}]]
    /\ UNCHANGED <<status, event, correcting, raced>>

(* apply_gates, and update_event_candidate_judgment: any verdict, but that *)
(* a second death is rejected.                                             *)
Judge(r, verdict) ==
    /\ quality[r].at = "judge"
    /\ InHand(r) \in Deaths /\ quality[r].dead => verdict = "rejected"
    /\ status' = [status EXCEPT ![InHand(r)] = verdict]
    /\ quality' = IF quality[r].assemble /\ verdict = "accepted" THEN ToPlace(r, "rivals")
                                                                 ELSE Proceeds(r)
    /\ UNCHANGED <<event, correcting, raced>>

(* abstain_if_competing_place: other places known for the occurrence, from *)
(* active events, or from the claims of Lot E, which are not modelled: they*)
(* may hold any place.  Nor are the marks that this leaves on both.        *)
Rivals(c) ==
    {PlaceOf[event[e].from] : e \in {d \in DOMAIN event :
        Active(d) /\ Stem[event[d].from] = Stem[c]}} \ {PlaceOf[c], NoPlace}

LookForRivals(r) ==
    /\ quality[r].at = "rivals"
    /\ \E place \in {"find", "review"} :
            /\ place = "find" => PlaceOf[InHand(r)] = NoPlace \/ Rivals(InHand(r)) = {}
            /\ place = "review" => PlaceOf[InHand(r)] # NoPlace
            /\ quality' = ToPlace(r, place)
    /\ UNCHANGED <<status, event, correcting, raced>>

Abstain(r) ==
    /\ quality[r].at = "review"
    /\ status' = [status EXCEPT ![InHand(r)] = "needs_review"]
    /\ quality' = Proceeds(r)
    /\ UNCHANGED <<event, correcting, raced>>

\* Mutant of Reinforces: a candidate is counted whenever it meets its event.
ReinforcesAlways(fresh) == TRUE
(* should_reinforce_existing_event.                                        *)
Reinforces(fresh) == fresh

(* find_active_quality_event_by_occurrence_key.                            *)
FindOccurrence(r) ==
    /\ quality[r].at = "find"
    /\ \/ ActiveOccurrence(InHand(r)) = {} /\ quality' = ToPlace(r, "single")
       \/ \E e \in ActiveOccurrence(InHand(r)) :
            quality' = [quality EXCEPT ![r] = [@ EXCEPT !.event = e,
                    !.at = IF Reinforces(quality[r].fresh) THEN "reinforce" ELSE "mark"]]
    /\ UNCHANGED <<status, event, correcting, raced>>

(* reinforce_quality_event.                                                *)
ReinforceEvent(r) ==
    /\ quality[r].at = "reinforce"
    /\ LET e == quality[r].event
       IN  event' = [event EXCEPT ![e] = [event[e] EXCEPT
                        !.count = @ + 1, !.sources = @ \cup {InHand(r)}]]
    /\ quality' = ToPlace(r, "mark")
    /\ UNCHANGED <<status, correcting, raced>>

(* reject_if_singleton_exists: a query, then the rejection.                *)
FindSingleton(r) ==
    /\ quality[r].at = "single"
    /\ quality' = ToPlace(r, IF InHand(r) \in Deaths /\ ActiveDeath # {} THEN "reject"
                                                                         ELSE "insert")
    /\ UNCHANGED <<status, event, correcting, raced>>

RejectSingleton(r) ==
    /\ quality[r].at = "reject"
    /\ status' = [status EXCEPT ![InHand(r)] = "rejected"]
    /\ quality' = Proceeds(r)
    /\ UNCHANGED <<event, correcting, raced>>

NewEvent(c) ==
    Append(event, [from |-> c, active |-> TRUE, count |-> 1, sources |-> {c}, next |-> 0])

(* insert_quality_canonical_event, which an index may refuse: the run ends.*)
InsertEvent(r) ==
    /\ quality[r].at = "insert"
    /\ Len(event) < MaxQualityEvents
    /\ ~Refused(InHand(r))
    /\ event' = NewEvent(InHand(r))
    /\ quality' = [quality EXCEPT ![r] = [@ EXCEPT !.at = "mark", !.event = Len(event) + 1]]
    /\ UNCHANGED <<status, correcting, raced>>

InsertRefusedByIndex(r) ==
    /\ quality[r].at = "insert"
    /\ Refused(InHand(r))
    /\ quality' = Dead(r)
    /\ UNCHANGED <<status, event, correcting, raced>>

(* mark_candidate_assembled.                                               *)
MarkAssembled(r) ==
    /\ quality[r].at = "mark"
    /\ status' = [status EXCEPT ![InHand(r)] = "assembled"]
    /\ quality' = Proceeds(r)
    /\ UNCHANGED <<event, correcting, raced>>

(* A statement fails, or the process dies: only the rows remain.           *)
QualityDies(r) ==
    /\ Underway(r)
    /\ quality' = Dead(r)
    /\ UNCHANGED <<status, event, correcting, raced>>

-----------------------------------------------------------------------------
(* run_quality_supersede_death, statement by statement.                    *)

Corrects(place) == correcting' = [correcting EXCEPT !.at = place]

FindOldDeath ==
    /\ correcting.at = "idle"
    /\ Len(event) < MaxQualityEvents
    /\ \/ ActiveDeath = {} /\ correcting' = [at |-> "upsert", old |-> 0, new |-> 0]
       \/ \E e \in ActiveDeath :
            correcting' = [at |-> "upsert", old |-> e, new |-> 0]
    /\ UNCHANGED <<status, event, quality, raced>>

UpsertCorrection ==
    /\ correcting.at = "upsert"
    /\ status' = [status EXCEPT ![Correction] = IF @ = "absent" THEN "accepted" ELSE @]
    /\ Corrects(IF correcting.old = 0 THEN "insert" ELSE "deactivate")
    /\ UNCHANGED <<event, quality, raced>>

DeactivateOld ==
    /\ correcting.at = "deactivate"
    /\ event' = [event EXCEPT ![correcting.old].active = FALSE]
    /\ Corrects("insert")
    /\ UNCHANGED <<status, quality, raced>>

InsertCorrection ==
    /\ correcting.at = "insert"
    /\ Len(event) < MaxQualityEvents
    /\ ~Refused(Correction)
    /\ event' = NewEvent(Correction)
    /\ correcting' = [correcting EXCEPT !.new = Len(event) + 1,
                            !.at = IF correcting.old = 0 THEN "mark" ELSE "link"]
    /\ UNCHANGED <<status, quality, raced>>

LinkOld ==
    /\ correcting.at = "link"
    /\ event' = [event EXCEPT ![correcting.old].next = correcting.new]
    /\ Corrects("mark")
    /\ UNCHANGED <<status, quality, raced>>

MarkCorrection ==
    /\ correcting.at = "mark"
    /\ status' = [status EXCEPT ![Correction] = "assembled"]
    /\ correcting' = NoCorrection
    /\ UNCHANGED <<event, quality, raced>>

CorrectionDies ==
    /\ correcting.at # "idle"
    /\ correcting' = NoCorrection
    /\ UNCHANGED <<status, event, quality, raced>>

QualityStep(r) ==
    \/ \E input \in Inputs : StartText(r, input)
    \/ UpsertCandidate(r) \/ ResumeCandidate(r) \/ ReadLifespan(r)
    \/ \E verdict \in {"accepted", "rejected", "needs_review"} : Judge(r, verdict)
    \/ LookForRivals(r) \/ Abstain(r) \/ FindOccurrence(r) \/ ReinforceEvent(r)
    \/ FindSingleton(r) \/ RejectSingleton(r)
    \/ InsertEvent(r) \/ InsertRefusedByIndex(r) \/ MarkAssembled(r) \/ QualityDies(r)

CorrectionStep ==
    \/ FindOldDeath \/ UpsertCorrection \/ DeactivateOld \/ InsertCorrection \/ LinkOld
    \/ MarkCorrection \/ CorrectionDies

QualityNext ==
    \/ \E r \in QualityRuns : QualityStep(r)
    \/ CorrectionStep

QualitySpec == QualityInit /\ [][QualityNext]_qualityVars

-----------------------------------------------------------------------------
(* However often runs die and are repeated, an event counts each candidate *)
(* once; only two runs that have one candidate in hand at the same time    *)
(* can count it twice.                                                     *)
RetriesNeverRecount ==
    \A e \in DOMAIN event :
        event[e].count > Cardinality(event[e].sources) => event[e].sources \cap raced # {}

(* An accepted candidate whose event was inserted by a run that died is    *)
(* not rejected as a second death because of its own event.  (Only while   *)
(* it is accepted: the run that resumes it may abstain, and the run after  *)
(* that judges it again, next to its own event.)                           *)
OwnEventNeverRejects ==
    [][\A c \in Candidates \ raced :
            /\ status[c] = "accepted"
            /\ \E e \in DOMAIN event : Active(e) /\ event[e].from = c
            => status'[c] # "rejected"]_qualityVars
=============================================================================
