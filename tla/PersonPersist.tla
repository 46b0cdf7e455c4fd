---------------------------- MODULE PersonPersist ----------------------------
(***************************************************************************)
(* The persistence of a person's facts: every extracted item becomes a     *)
(* candidate, and an accepted one is attached to the canonical event of    *)
(* its occurrence, which is inserted if there is none.  Each item takes    *)
(* several statements and no transaction.                                  *)
(*                                                                         *)
(* Several executions may work on one person at the same time: the writes  *)
(* of an explorer job are not fenced, so that one that lost its lease goes *)
(* on next to its replacement until its next heartbeat, and the command    *)
(* line runs the same code.  Operators may deactivate events in between.   *)
(* The events, candidates and items are those of one person.               *)
(***************************************************************************)
EXTENDS Naturals

CONSTANTS
    Items,         \* what the extractors find
    Extracts,      \* bound of the model: what a run of the extractors may produce
    Kind,          \* Kind[i]: the event type
    Occurrence,    \* Occurrence[i]: the occurrence key
    Title,         \* Title[i]: the explorer headline
    Place,         \* Place[i]: the label of a plausible place, or None
    Given,         \* Given[i]: the coordinates its source gives, or None
    Document,      \* Document[i]: the raw document it was extracted from
    Fingerprint,   \* Fingerprint[i]: the fingerprint of its candidate
    Attribution,   \* Attribution[i]: "auto", "coreference" or "unattributed"
    Verdicts,      \* Verdicts[i]: what the other gates may decide of it
    Followed,      \* the documents that are followed pages
    Executions,    \* executions of the pipeline, each of which starts once
    MaxEvents,     \* bound of the model: canonical events ever inserted
    None

Events == 1 .. MaxEvents
LifeSingletons == {"birth", "death"}
VisitOnly == {"museum", "memorial", "statue", "street_naming", "commemoration"}
MapLocus ==
    {"birth", "death", "residence", "arrival", "departure", "passage", "meeting", "exile",
     "battle", "siege", "education", "office", "marriage", "divorce", "travel", "imprisonment",
     "diplomatic", "employment", "work", "burial", "treaty", "health_event", "trial",
     "legal_event", "political_event"}
Kinds == {Kind[i] : i \in Items} \cup {None}
Occurrences == {Occurrence[i] : i \in Items} \cup {None}
Titles == {Title[i] : i \in Items} \cup {None}
Places == {Place[i] : i \in Items} \cup {None}
Coordinates == Places \cup {Given[i] : i \in Items}  \* of a place, by its label

ASSUME PersonAssumption ==
    /\ MaxEvents \in Nat /\ Extracts \subseteq SUBSET Items
    /\ DOMAIN Kind = Items /\ DOMAIN Occurrence = Items /\ DOMAIN Title = Items
    /\ DOMAIN Place = Items /\ DOMAIN Given = Items /\ DOMAIN Document = Items
    /\ DOMAIN Fingerprint = Items
    /\ Attribution \in [Items -> {"auto", "coreference", "unattributed"}]
    /\ Verdicts \in [Items -> SUBSET {"accepted", "needs_review", "rejected"}]
    /\ None \notin Items

VARIABLES
    event,      \* canonical_events of pipeline 'person'
    candidate,  \* event_candidates, by fingerprint
    evidence,   \* event_evidence: pairs of an event and the item that is quoted
    execution   \* execution[w]: the local state of an execution
vars == <<event, candidate, evidence, execution>>

Decisions == {"accepted", "needs_review", "rejected"}
EventRow == [state : {"absent", "active", "inactive"},
             kind : Kinds, occurrence : Occurrences, title : Titles, place : Places,
             geom : Coordinates, pinned : BOOLEAN,  \* pinned: map_eligible
             by : Executions \cup {None}]           \* history: who inserted it
NoEvent == [state |-> "absent", kind |-> None, occurrence |-> None, title |-> None,
            place |-> None, geom |-> None, pinned |-> FALSE, by |-> None]
Candidate == [status : {"absent", "assembled"} \cup Decisions, event : Events \cup {0}]

Working == {"next", "singleton", "occurrence", "title", "nearby", "insert", "again", "enrich",
            "evidence", "assemble"}
Execution == [pc : {"idle", "ground", "done", "gone"} \cup Working,
              todo : SUBSET Items, item : Items \cup {None}, coords : Coordinates,
              accepted : BOOLEAN, target : Events \cup {0},
              toGround : SUBSET Events,     \* what backfill_person_geocodes still has to do
              has : SUBSET LifeSingletons,  \* GateContext: has_active_birth, has_active_death
              tally : SUBSET Items,         \* facts inserted or reinforced
              base : SUBSET Events]         \* history: the events there were when it started

TypeOK ==
    /\ event \in [Events -> EventRow]
    /\ candidate \in [{Fingerprint[i] : i \in Items} -> Candidate]
    /\ evidence \subseteq Events \X Items
    /\ execution \in [Executions -> Execution]

Idle == [pc |-> "idle", todo |-> {}, item |-> None, coords |-> None, accepted |-> FALSE,
         target |-> 0, toGround |-> {}, has |-> {}, tally |-> {}, base |-> {}]

Init ==
    /\ event = [e \in Events |-> NoEvent]
    /\ candidate = [f \in {Fingerprint[i] : i \in Items} |-> [status |-> "absent", event |-> 0]]
    /\ evidence = {}
    /\ execution = [w \in Executions |-> Idle]

Stored == {e \in Events : event[e].state # "absent"}
Active == {e \in Events : event[e].state = "active"}
ActiveOfKind(kind) == {e \in Active : event[e].kind = kind}

-----------------------------------------------------------------------------
(* The run of an execution.                                                *)

(* quality_lifespan_years, before the first item; what the extractors then *)
(* produce is not the same every time.                                     *)
Start(w) ==
    /\ execution[w].pc = "idle"
    /\ \E extracted \in Extracts :
         execution' = [execution EXCEPT
                         ![w].pc = "next", ![w].todo = extracted, ![w].base = Stored,
                         ![w].has = {k \in LifeSingletons : ActiveOfKind(k) # {}}]
    /\ UNCHANGED <<event, candidate, evidence>>

Ended(x, pc) == [Idle EXCEPT !.pc = pc, !.base = x.base]

(* backfill_person_geocodes, after the last item: the events with a place, *)
(* of this or an earlier execution and of every kind, are located one by   *)
(* one.  A label that is there does not change.                            *)
Ground(w) ==
    LET x == execution[w] IN
    /\ x.pc = "next" /\ x.todo = {}
    /\ execution' = [execution EXCEPT ![w].pc = "ground",
                                      ![w].toGround = {e \in Active : event[e].place # None}]
    /\ UNCHANGED <<event, candidate, evidence>>

Located(row) == [row EXCEPT !.geom = row.place, !.pinned = row.kind \in MapLocus]

GroundEvent(w) ==
    LET x == execution[w] IN
    /\ x.pc = "ground"
    /\ \E e \in x.toGround :
         /\ \/ UNCHANGED event  \* no coordinates found
            \/ e \in Active /\ event' = [event EXCEPT ![e] = Located(@)]
         /\ execution' = [execution EXCEPT ![w].toGround = @ \ {e}]
    /\ UNCHANGED <<candidate, evidence>>

(* The report, with its counts.                                            *)
Finish(w) ==
    LET x == execution[w] IN
    /\ x.pc = "ground" /\ x.toGround = {}
    /\ execution' = [execution EXCEPT ![w] = [Ended(x, "done") EXCEPT !.tally = x.tally]]
    /\ UNCHANGED <<event, candidate, evidence>>

ItemDone(x) == [x EXCEPT !.pc = "next", !.todo = @ \ {x.item}, !.item = None,
                         !.coords = None, !.accepted = FALSE, !.target = 0]

(* An error ends the execution, unless it occurs on a followed page, whose *)
(* remaining items are then skipped and whose counts are lost.             *)
Erred(x) ==
    LET elsewhere(items) == {i \in items : Document[i] # Document[x.item]} IN
    IF Document[x.item] \in Followed
    THEN [ItemDone(x) EXCEPT !.todo = elsewhere(x.todo), !.tally = elsewhere(x.tally)]
    ELSE Ended(x, "gone")

Attach(x, e) == [x EXCEPT !.target = e, !.pc = "enrich"]

-----------------------------------------------------------------------------
(* The gates and the candidate.                                            *)

(* judge_item: the verdict of the other gates, which depend on what this   *)
(* execution knows of the lifespan, merged with the singleton gate and the *)
(* attribution.                                                            *)
Decision(i, has, verdict) ==
    IF verdict = "rejected" \/ Kind[i] \in has \/ Attribution[i] = "unattributed"
    THEN "rejected"
    ELSE IF verdict = "needs_review" \/ Attribution[i] = "coreference"
    THEN "needs_review" ELSE "accepted"

(* Mutant of Quarantined: the row of an item that was seen before is       *)
(* written over.                                                           *)
QuarantinedAgain(f, decision) == [status |-> decision, event |-> 0]

(* insert_person_candidate: ON CONFLICT (fingerprint) DO NOTHING.          *)
Quarantined(f, decision) ==
    IF candidate[f].status = "absent" THEN [status |-> decision, event |-> 0] ELSE candidate[f]

(* ground_place_full: the coordinates that are given come first; those of  *)
(* the label are looked up, and may not be found.                          *)
CoordsOf(i) == IF Given[i] # None THEN {Given[i]} ELSE {None, Place[i]}

(* Items in any order, whichever document they are from.                   *)
Judge(w) ==
    LET x == execution[w] IN
    /\ x.pc = "next"
    /\ \E i \in x.todo : \E verdict \in Verdicts[i], coords \in CoordsOf(i) :
         LET decision == Decision(i, x.has, verdict)
             accepted == decision = "accepted"
             y == [x EXCEPT !.item = i, !.coords = coords, !.accepted = accepted]
         IN /\ candidate' = [candidate EXCEPT ![Fingerprint[i]] =
                               Quarantined(Fingerprint[i], decision)]
            /\ execution' = [execution EXCEPT ![w] =
                 IF Kind[i] \in LifeSingletons /\ (accepted \/ Kind[i] \in x.has)
                 THEN [y EXCEPT !.pc = "singleton"]
                 ELSE IF accepted THEN [y EXCEPT !.pc = "occurrence"] ELSE ItemDone(y)]
    /\ UNCHANGED <<event, evidence>>

-----------------------------------------------------------------------------
(* The lookups, in their order; any row that matches may be returned.      *)

Lookup(w, pc, matching, otherwise) ==
    LET x == execution[w] IN
    /\ x.pc = pc
    /\ \/ \E e \in matching : execution' = [execution EXCEPT ![w] = Attach(x, e)]
       \/ /\ matching = {}
          /\ execution' = [execution EXCEPT ![w] = otherwise]
    /\ UNCHANGED <<event, candidate, evidence>>

(* Mutant of FindSingleton: an accepted item is taken to be the first.     *)
FindSingletonRejected(w) ==
    LET x == execution[w] IN
    Lookup(w, "singleton", IF x.accepted THEN {} ELSE ActiveOfKind(Kind[x.item]),
           IF x.accepted THEN [x EXCEPT !.pc = "occurrence"] ELSE ItemDone(x))

(* find_active_person_singleton_event, also for a rejected item if the     *)
(* rejection names the singleton.                                          *)
FindSingleton(w) ==
    LET x == execution[w] IN
    Lookup(w, "singleton", ActiveOfKind(Kind[x.item]),
           IF x.accepted THEN [x EXCEPT !.pc = "occurrence"] ELSE ItemDone(x))

OfOccurrence(i) == {e \in Active : event[e].occurrence = Occurrence[i]}

(* By occurrence key, then by the fingerprint, which is the key again.     *)
FindOccurrence(w) ==
    LET x == execution[w] IN
    Lookup(w, "occurrence", OfOccurrence(x.item), [x EXCEPT !.pc = "title"])

(* Mutant of OfTitle: the title is compared within an event type.          *)
OfTitleAndKind(i) == {e \in Active : event[e].title = Title[i] /\ event[e].kind = Kind[i]}

OfTitle(i) == {e \in Active : event[e].title = Title[i]}

FindTitle(w) ==
    LET x == execution[w] IN
    Lookup(w, "title", OfTitle(x.item),
           [x EXCEPT !.pc = IF Kind[x.item] \in VisitOnly /\ x.coords # None
                            THEN "nearby" ELSE "insert"])

(* find_nearby_visit_heritage: the same kind, located within 80 m.         *)
FindNearby(w) ==
    LET x == execution[w] IN
    Lookup(w, "nearby", {e \in ActiveOfKind(Kind[x.item]) : event[e].geom = x.coords},
           [x EXCEPT !.pc = "insert"])

-----------------------------------------------------------------------------
(* The writes.                                                             *)

(* The partial unique indexes that an insert of item i would violate.      *)
Violated(i) ==
    {index \in {"occurrence", "singleton"} :
       IF index = "occurrence" THEN OfOccurrence(i) # {}
       ELSE Kind[i] \in LifeSingletons /\ ActiveOfKind(Kind[i]) # {}}

(* The row of insert_person_event: coordinates only for a kind that makes  *)
(* a map pin; a museum stays without until an execution grounds it.        *)
NewEvent(x, w) ==
    LET i == x.item
        locus == Kind[i] \in MapLocus
    IN [state |-> "active", kind |-> Kind[i], occurrence |-> Occurrence[i],
        title |-> Title[i], place |-> Place[i], geom |-> IF locus THEN x.coords ELSE None,
        pinned |-> locus /\ x.coords # None, by |-> w]

(* insert_person_event.  A violation of the singleton index sends a life   *)
(* event back to its lookup; of any other index it is an error.  Which one *)
(* is reported, if there are two, is left open.                            *)
Insert(w) ==
    LET x == execution[w]
        i == x.item
    IN
    /\ x.pc = "insert"
    /\ \/ /\ Violated(i) = {}
          /\ \E e \in Events \ Stored :
               /\ \A f \in Events : f < e => f \in Stored
               /\ event' = [event EXCEPT ![e] = NewEvent(x, w)]
               /\ execution' = [execution EXCEPT ![w].target = e, ![w].pc = "evidence"]
       \/ \E index \in Violated(i) :
            /\ execution' = [execution EXCEPT ![w] =
                 IF index = "singleton" THEN [x EXCEPT !.pc = "again"] ELSE Erred(x)]
            /\ UNCHANGED event
    /\ UNCHANGED <<candidate, evidence>>

(* Mutant of FindAgain: the row is taken to be there still.                *)
FindAgainUnchecked(w) ==
    LET x == execution[w] IN
    Lookup(w, "again", ActiveOfKind(Kind[x.item]), [x EXCEPT !.pc = "evidence"])

FindAgain(w) ==
    LET x == execution[w] IN
    Lookup(w, "again", ActiveOfKind(Kind[x.item]), Erred(x))

(* enrich_person_event_place_if_empty: an active event without a place     *)
(* takes the item's, and whether it is a pin from the item's kind.         *)
Enriched(row, x) ==
    IF x.coords = None THEN [row EXCEPT !.place = Place[x.item]]
    ELSE [row EXCEPT !.place = Place[x.item], !.geom = x.coords,
                     !.pinned = Kind[x.item] \in MapLocus]

Enrich(w) ==
    LET x == execution[w] IN
    /\ x.pc = "enrich"
    /\ event' = IF Place[x.item] # None /\ x.target \in Active /\ event[x.target].place = None
                THEN [event EXCEPT ![x.target] = Enriched(@, x)] ELSE event
    /\ execution' = [execution EXCEPT ![w].pc = "evidence"]
    /\ UNCHANGED <<candidate, evidence>>

(* Mutant of InsertEvidence: an event that was found has its evidence.     *)
InsertEvidenceOfNew(w) ==
    LET x == execution[w] IN
    /\ x.pc = "evidence"
    /\ evidence' = IF \E i \in Items : <<x.target, i>> \in evidence THEN evidence
                   ELSE evidence \cup {<<x.target, x.item>>}
    /\ execution' = [execution EXCEPT ![w].pc = "assemble"]
    /\ UNCHANGED <<event, candidate>>

(* insert_person_quote_evidence: at most once.                             *)
InsertEvidence(w) ==
    LET x == execution[w] IN
    /\ x.pc = "evidence"
    /\ evidence' = evidence \cup {<<x.target, x.item>>}
    /\ execution' = [execution EXCEPT ![w].pc = "assemble"]
    /\ UNCHANGED <<event, candidate>>

(* mark_candidate_assembled, and what the execution learns.                *)
Assemble(w) ==
    LET x == execution[w] IN
    /\ x.pc = "assemble"
    /\ candidate' = [candidate EXCEPT ![Fingerprint[x.item]] =
                       [status |-> "assembled", event |-> x.target]]
    /\ execution' = [execution EXCEPT ![w] =
                       [ItemDone(x) EXCEPT !.has = @ \cup ({Kind[x.item]} \cap LifeSingletons),
                                           !.tally = @ \cup {x.item}]]
    /\ UNCHANGED <<event, evidence>>

-----------------------------------------------------------------------------
(* What goes wrong.                                                        *)

StatementFails(w) ==
    /\ execution[w].pc \in Working \ {"next"}
    /\ execution' = [execution EXCEPT ![w] = Erred(@)]
    /\ UNCHANGED <<event, candidate, evidence>>

(* The process dies, or a statement that is not an item's fails.           *)
Crash(w) ==
    /\ execution[w].pc \in Working \cup {"ground"}
    /\ execution' = [execution EXCEPT ![w] = Ended(@, "gone")]
    /\ UNCHANGED <<event, candidate, evidence>>

(* deactivate_canonical_event and the clean-up commands.                   *)
Deactivate(e) ==
    /\ e \in Active
    /\ event' = [event EXCEPT ![e].state = "inactive"]
    /\ UNCHANGED <<candidate, evidence, execution>>

Next ==
    \/ \E w \in Executions :
         \/ Start(w) \/ Judge(w) \/ FindSingleton(w) \/ FindOccurrence(w) \/ FindTitle(w)
         \/ FindNearby(w) \/ Insert(w) \/ FindAgain(w) \/ Enrich(w) \/ InsertEvidence(w)
         \/ Assemble(w) \/ Ground(w) \/ GroundEvent(w) \/ Finish(w)
         \/ StatementFails(w) \/ Crash(w)
    \/ \E e \in Events : Deactivate(e)

Spec == Init /\ [][Next]_vars

-----------------------------------------------------------------------------
(* Properties.                                                             *)

(* A candidate that is assembled names an event that carries evidence of   *)
(* an item of that candidate: whoever reads the quarantine table can       *)
(* follow an assembled row to its quote, after any crash or error.         *)
AssembledIsBacked ==
    \A f \in DOMAIN candidate :
        candidate[f].status = "assembled" =>
            \E i \in Items : Fingerprint[i] = f /\ <<candidate[f].event, i>> \in evidence

(* "Facts inserted" and "facts reinforced" tell the truth: each item that  *)
(* an execution has counted has evidence on some event, and its candidate  *)
(* is assembled and stays so when the same item is extracted again.        *)
TallyIsBacked ==
    \A w \in Executions : \A i \in execution[w].tally :
        /\ candidate[Fingerprint[i]].status = "assembled"
        /\ \E e \in Stored : <<e, i>> \in evidence

(* "Extra sources do not invent duplicate map points": two active events   *)
(* with one headline come from different executions that overlapped.  An   *)
(* execution neither adds a second point to those it has found nor to      *)
(* those it has made.                                                      *)
DuplicatesNeedARace ==
    \A e, f \in Active :
        e # f /\ event[e].title = event[f].title =>
            /\ event[e].by # event[f].by
            /\ e \notin execution[event[f].by].base

(* The lookups cover the unique indexes: an insert is refused only because *)
(* another execution has inserted the occurrence or the life event since   *)
(* this one started.  Ingesting a person again, alone, meets no index.     *)
RefusalNeedsARace ==
    \A w \in Executions : execution[w].pc = "insert" =>
        \A e \in Active :
            \/ event[e].occurrence = Occurrence[execution[w].item]
            \/ Kind[execution[w].item] \in LifeSingletons
               /\ event[e].kind = Kind[execution[w].item]
            => event[e].by # w /\ e \notin execution[w].base

(* README: "Only Accept materializes a canonical_event. NeedsReview /      *)
(* Reject never appear on timeline or map."  The place of a pin is one     *)
(* that an item attributed to the person gives.                            *)
UnattributedStaysOffTheMap ==
    \A e \in Active :
        event[e].pinned =>
            \E i \in Items : Attribution[i] = "auto" /\ event[e].geom \in {Place[i], Given[i]}
=============================================================================
