----------------------- MODULE QualityPipelineProofs -----------------------
(***************************************************************************)
(* What is proved of QualityPipeline for any candidates, texts and runs.   *)
(*                                                                         *)
(* A step of a run writes only for the candidate that it has in hand; two  *)
(* runs that have gone into one candidate have raced for it.  So what a run*)
(* has read of a candidate nobody raced for still holds when it writes.    *)
(***************************************************************************)
EXTENDS QualityPipeline, FiniteSetTheorems, TLAPS

InsideOf(x) == x.at \notin {"idle", "done", "upsert"}
Hand(x) == x.text[x.k]

(* The locals of a run, when n events were inserted.                       *)
LocalsOK(x, n) ==
    /\ x \in QualityLocals
    /\ x.at \notin {"idle", "done"} => x.k \in 1 .. Len(x.text)
    /\ x.at = "idle" => x.k = 1
    /\ x.at = "reinforce" => x.fresh /\ x.event \in 1 .. n

TypeInv ==
    /\ QualityTypeOK
    /\ \A r \in QualityRuns : LocalsOK(quality[r], Len(event))
    /\ correcting.old <= Len(event)
    /\ correcting.at \in {"deactivate", "link"} => correcting.old # 0

-----------------------------------------------------------------------------
(* The data.                                                               *)

LEMMA SequenceFacts ==
    ASSUME NEW S, NEW s \in Seq(S)
    PROVE  Len(s) \in Nat /\ DOMAIN s = 1 .. Len(s) /\ \A k \in 1 .. Len(s) : s[k] \in S
OBVIOUS

LEMMA AppendFacts ==
    ASSUME NEW S, NEW s \in Seq(S), NEW v \in S
    PROVE  /\ Append(s, v) \in Seq(S) /\ Len(Append(s, v)) = Len(s) + 1
           /\ DOMAIN Append(s, v) = 1 .. Len(s) + 1
           /\ Append(s, v)[Len(s) + 1] = v
           /\ \A k \in 1 .. Len(s) : Append(s, v)[k] = s[k]
OBVIOUS

LEMMA ReplaceFacts ==
    ASSUME NEW S, NEW s \in Seq(S), NEW n \in DOMAIN s, NEW v \in S
    PROVE  /\ [s EXCEPT ![n] = v] \in Seq(S) /\ Len([s EXCEPT ![n] = v]) = Len(s)
           /\ DOMAIN [s EXCEPT ![n] = v] = DOMAIN s
           /\ [s EXCEPT ![n] = v][n] = v
           /\ \A k \in DOMAIN s : k # n => [s EXCEPT ![n] = v][k] = s[k]
OBVIOUS

LEMMA TextFacts ==
    ASSUME NEW x \in QualityLocals
    PROVE  /\ x.text \in Seq(Candidates \ {Correction})
           /\ Len(x.text) \in Nat
           /\ x.k \in 1 .. Len(x.text) => Hand(x) \in Candidates \ {Correction}
<1>1. <<>> \in Seq(Candidates \ {Correction})
  OBVIOUS
<1>2. x.text \in {<<>>} \cup {i.text : i \in Inputs}
  BY DEF QualityLocals
<1>3. x.text \in Seq(Candidates \ {Correction})
  BY <1>1, <1>2, QualityAssumption DEF QualityAssumption
<1> QED BY <1>3, SequenceFacts DEF Hand

LEMMA EventFacts ==
    ASSUME QualityTypeOK
    PROVE  /\ Len(event) \in Nat /\ DOMAIN event = 1 .. Len(event)
           /\ \A e \in DOMAIN event : event[e] \in EventRows
BY SequenceFacts DEF QualityTypeOK

NewRow(c) == [from |-> c, active |-> TRUE, count |-> 1, sources |-> {c}, next |-> 0]

LEMMA NewEventFacts ==
    ASSUME QualityTypeOK, NEW c \in Candidates
    PROVE  /\ NewEvent(c) \in Seq(EventRows) /\ Len(NewEvent(c)) = Len(event) + 1
           /\ DOMAIN NewEvent(c) = 1 .. Len(event) + 1
           /\ NewEvent(c)[Len(event) + 1] = NewRow(c)
           /\ \A e \in DOMAIN event : NewEvent(c)[e] = event[e]
<1>1. NewRow(c) \in EventRows
  BY DEF NewRow, EventRows
<1>2. NewEvent(c) = Append(event, NewRow(c)) /\ event \in Seq(EventRows)
  BY DEF NewEvent, NewRow, QualityTypeOK
<1> QED BY <1>1, <1>2, AppendFacts, EventFacts

LEMMA NextLocals ==
    ASSUME NEW x \in QualityLocals, NEW y,
           y = [NoLocals EXCEPT !.at = "upsert", !.k = x.k + 1, !.text = x.text,
                                !.assemble = x.assemble]
    PROVE  y \in QualityLocals /\ y.at = "upsert" /\ y.k = x.k + 1 /\ y.text = x.text
<1>1. NoLocals \in QualityLocals
  BY DEF NoLocals, QualityLocals, QualityPlaces
<1>2. /\ x.text \in {<<>>} \cup {i.text : i \in Inputs} /\ x.assemble \in BOOLEAN /\ x.k + 1 \in Nat
      /\ "upsert" \in QualityPlaces
  BY DEF QualityLocals, QualityPlaces
<1> QED BY <1>1, <1>2 DEF QualityLocals

(* A run that is through with its candidate.                               *)
LEMMA ProceedsFacts ==
    ASSUME TypeInv, NEW r \in QualityRuns, Underway(r), NEW n
    PROVE  \E y : /\ Proceeds(r) = [quality EXCEPT ![r] = y]
                  /\ LocalsOK(y, n) /\ ~InsideOf(y)
<1> DEFINE x == quality[r]
           z == [NoLocals EXCEPT !.at = "upsert", !.k = x.k + 1, !.text = x.text, !.assemble = x.assemble]
<1>1. /\ x \in QualityLocals /\ x.k \in 1 .. Len(x.text) /\ Len(x.text) \in Nat
      /\ quality \in [QualityRuns -> QualityLocals]
  BY TextFacts DEF TypeInv, LocalsOK, Underway, QualityTypeOK
<1>2. Proceeds(r) = [quality EXCEPT ![r] = IF x.k = Len(x.text) THEN NoLocals ELSE z]
  BY <1>1 DEF Proceeds
<1>3. LocalsOK(NoLocals, n) /\ ~InsideOf(NoLocals)
  BY DEF NoLocals, LocalsOK, InsideOf, QualityLocals, QualityPlaces
<1>4. x.k # Len(x.text) => LocalsOK(z, n) /\ ~InsideOf(z)
  <2>1. z \in QualityLocals /\ z.at = "upsert" /\ z.k = x.k + 1 /\ z.text = x.text
    BY <1>1, NextLocals
  <2> QED BY <1>1, <2>1 DEF LocalsOK, InsideOf
<1> HIDE DEF z
<1> QED BY <1>2, <1>3, <1>4

-----------------------------------------------------------------------------
(* The invariant.                                                          *)

(* What a run relies on of the candidate that it has in hand.              *)
HandOK(x, st, ev, ra) ==
    InsideOf(x) =>
        /\ st[Hand(x)] # "absent"
        /\ Hand(x) \notin ra =>
              /\ x.at \in {"lifespan", "judge"} => st[Hand(x)] \in {"pending", "needs_review"}
              /\ x.at \in {"single", "reject", "insert"} =>
                    \A e \in DOMAIN ev : ~(ev[e].active /\ ev[e].from = Hand(x))
              /\ x.fresh /\ x.at # "mark" =>
                    \A e \in DOMAIN ev : Hand(x) \notin ev[e].sources

(* An event counts no candidate twice that was not raced for.              *)
RowOK(row, st, ra) ==
    /\ IsFiniteSet(row.sources)
    /\ \A c \in row.sources : st[c] # "absent"
    /\ row.sources \cap ra = {} => row.count <= Cardinality(row.sources)

QualityInv ==
    /\ TypeInv
    /\ \A r \in QualityRuns : HandOK(quality[r], status, event, raced)
    /\ \A r, o \in QualityRuns :
          r # o /\ InsideOf(quality[r]) /\ InsideOf(quality[o]) /\ Hand(quality[r]) = Hand(quality[o])
          => Hand(quality[r]) \in raced
    /\ correcting.at \in {"deactivate", "insert", "link", "mark"} => status[Correction] # "absent"
    /\ \A e \in DOMAIN event : RowOK(event[e], status, raced)

(* Nothing is written but for candidate c.                                 *)
Writes(c) ==
    /\ DOMAIN event \subseteq DOMAIN event'
    /\ \A d \in Candidates : status[d] # "absent" => status'[d] # "absent"
    /\ \A d \in Candidates \ {c} :
          /\ status'[d] = status[d]
          /\ \A e \in DOMAIN event' :
                /\ d \in event'[e].sources => e \in DOMAIN event /\ d \in event[e].sources
                /\ event'[e].active /\ event'[e].from = d =>
                      e \in DOMAIN event /\ event[e].active /\ event[e].from = d

LEMMA HandStays ==
    ASSUME NEW x, NEW c, HandOK(x, status, event, raced), Writes(c), raced \subseteq raced',
           InsideOf(x) => Hand(x) \in Candidates,
           InsideOf(x) /\ Hand(x) = c => c \in raced'
    PROVE  HandOK(x, status', event', raced')
BY DEF HandOK, Writes

LEMMA RunStepKeeps ==
    ASSUME QualityInv, NEW r \in QualityRuns, NEW y, NEW c,
           quality' = [quality EXCEPT ![r] = y], correcting' = correcting,
           status' \in [Candidates -> CandidateStatuses], event' \in Seq(EventRows),
           Len(event) <= Len(event'), Len(event') <= MaxQualityEvents,
           raced' \subseteq Candidates, raced \subseteq raced', LocalsOK(y, Len(event')),
           Writes(c), InsideOf(y) => Hand(y) = c,
           \/ \A o \in QualityRuns \ {r} :
                 InsideOf(quality[o]) /\ Hand(quality[o]) = c => c \in raced'
           \/ ~InsideOf(y) /\ status' = status /\ event' = event,
           HandOK(y, status', event', raced'),
           \A e \in DOMAIN event' : RowOK(event'[e], status', raced')
    PROVE  QualityInv'
<1>0. /\ quality \in [QualityRuns -> QualityLocals] /\ y \in QualityLocals
      /\ quality'[r] = y /\ \A o \in QualityRuns \ {r} : quality'[o] = quality[o]
      /\ Len(event) \in Nat /\ Len(event') \in Nat
      /\ correcting \in [at : CorrectionPlaces, old : Nat, new : Nat]
  BY EventFacts, SequenceFacts DEF QualityInv, TypeInv, QualityTypeOK, LocalsOK
<1>1. TypeInv'
  <2>1. \A o \in QualityRuns : LocalsOK(quality'[o], Len(event'))
    <3> SUFFICES ASSUME NEW o \in QualityRuns PROVE LocalsOK(quality'[o], Len(event'))
      OBVIOUS
    <3>1. CASE o = r
      BY <3>1, <1>0
    <3>2. CASE o # r
      BY <3>2, <1>0 DEF QualityInv, TypeInv, LocalsOK, QualityLocals
    <3> QED BY <3>1, <3>2
  <2>2. quality' \in [QualityRuns -> QualityLocals]
    BY <1>0
  <2>3. \A o \in QualityRuns : quality'[o].at \notin {"idle", "done"} =>
                                  quality'[o].k \in 1 .. Len(quality'[o].text)
    BY <2>1 DEF LocalsOK
  <2>4. QualityTypeOK'
    BY <2>2, <2>3, <1>0 DEF QualityTypeOK
  <2>5. correcting.old <= Len(event') /\ (correcting.at \in {"deactivate", "link"} => correcting.old # 0)
    BY <1>0 DEF QualityInv, TypeInv
  <2> QED BY <2>1, <2>4, <2>5 DEF TypeInv
<1>h. ASSUME NEW o \in QualityRuns, InsideOf(quality[o])
      PROVE  Hand(quality[o]) \in Candidates \ {Correction}
  BY <1>h, <1>0, TextFacts DEF QualityInv, TypeInv, LocalsOK, InsideOf
<1>2. ASSUME NEW o \in QualityRuns PROVE HandOK(quality'[o], status', event', raced')
  <2>1. CASE o = r
    BY <2>1, <1>0
  <2>2. CASE o # r
    <3>1. quality'[o] = quality[o] /\ HandOK(quality[o], status, event, raced)
      BY <2>2, <1>0 DEF QualityInv
    <3>2. CASE status' = status /\ event' = event
      BY <3>1, <3>2 DEF HandOK
    <3>3. CASE InsideOf(quality[o]) /\ Hand(quality[o]) = c => c \in raced'
      BY <3>1, <3>3, <1>h, HandStays
    <3> QED BY <3>2, <3>3, <2>2
  <2> QED BY <2>1, <2>2
<1>3. ASSUME NEW p \in QualityRuns, NEW o \in QualityRuns, p # o, InsideOf(quality'[p]),
             InsideOf(quality'[o]), Hand(quality'[p]) = Hand(quality'[o])
      PROVE  Hand(quality'[p]) \in raced'
  <2>1. CASE p # r /\ o # r
    BY <2>1, <1>0, <1>3 DEF QualityInv
  <2>2. CASE p = r \/ o = r
    BY <2>2, <1>0, <1>3
  <2> QED BY <2>1, <2>2
<1>4. correcting'.at \in {"deactivate", "insert", "link", "mark"} => status'[Correction] # "absent"
  BY QualityAssumption DEF QualityAssumption, QualityInv, Writes
<1> QED BY <1>1, <1>2, <1>3, <1>4 DEF QualityInv

(* What a step may do to the rows.                                         *)
LEMMA NothingWritten ==
    ASSUME QualityInv, status' = status, event' = event, raced \subseteq raced', NEW c
    PROVE  Writes(c) /\ \A e \in DOMAIN event' : RowOK(event'[e], status', raced')
BY DEF QualityInv, Writes, RowOK

LEMMA StatusWritten ==
    ASSUME QualityInv, NEW c \in Candidates, NEW s \in CandidateStatuses \ {"absent"},
           status' = [status EXCEPT ![c] = s], event' = event, raced \subseteq raced'
    PROVE  /\ status' \in [Candidates -> CandidateStatuses] /\ status'[c] = s /\ Writes(c)
           /\ \A e \in DOMAIN event' : RowOK(event'[e], status', raced')
<1>1. status \in [Candidates -> CandidateStatuses]
  BY DEF QualityInv, TypeInv, QualityTypeOK
<1>2. \A d \in Candidates : status[d] # "absent" => status'[d] # "absent"
  BY <1>1
<1>3. \A e \in DOMAIN event : RowOK(event[e], status', raced')
  <2>1. \A e \in DOMAIN event : event[e].sources \subseteq Candidates
    BY EventFacts DEF QualityInv, TypeInv, EventRows
  <2> QED BY <2>1, <1>2 DEF QualityInv, RowOK
<1> QED BY <1>1, <1>2, <1>3 DEF Writes

LEMMA EventInserted ==
    ASSUME QualityInv, NEW c \in Candidates, event' = NewEvent(c), Len(event) < MaxQualityEvents,
           status' = status, raced' = raced, status[c] # "absent"
    PROVE  /\ event' \in Seq(EventRows) /\ Len(event') = Len(event) + 1
           /\ Len(event') <= MaxQualityEvents /\ Len(event) \in Nat
           /\ Writes(c) /\ \A e \in DOMAIN event' : RowOK(event'[e], status', raced')
<1>1. /\ event' \in Seq(EventRows) /\ Len(event') = Len(event) + 1
      /\ DOMAIN event' = 1 .. Len(event) + 1 /\ DOMAIN event = 1 .. Len(event)
      /\ event'[Len(event) + 1] = NewRow(c) /\ \A e \in DOMAIN event : event'[e] = event[e]
      /\ Len(event) \in Nat
  BY NewEventFacts, EventFacts DEF QualityInv, TypeInv
<1>2. MaxQualityEvents \in Nat
  BY QualityAssumption DEF QualityAssumption
<1>3. NewRow(c).sources = {c} /\ NewRow(c).from = c /\ NewRow(c).count = 1
  BY DEF NewRow
<1>4. IsFiniteSet({c}) /\ Cardinality({c}) = 1
  BY FS_Singleton
<1>5. \A e \in DOMAIN event' : e \in DOMAIN event \/ event'[e] = NewRow(c)
  BY <1>1
<1>6. RowOK(NewRow(c), status, raced)
  BY <1>3, <1>4 DEF RowOK
<1>7. \A e \in DOMAIN event' : RowOK(event'[e], status', raced')
  BY <1>1, <1>5, <1>6 DEF QualityInv
<1>8. Writes(c)
  BY <1>1, <1>3, <1>5 DEF Writes
<1> QED BY <1>1, <1>2, <1>7, <1>8

LEMMA EventReinforced ==
    ASSUME QualityInv, NEW c \in Candidates, NEW e \in DOMAIN event,
           event' = [event EXCEPT ![e] = [event[e] EXCEPT !.count = @ + 1, !.sources = @ \cup {c}]],
           status' = status, raced' = raced, status[c] # "absent",
           c \notin raced => c \notin event[e].sources
    PROVE  /\ event' \in Seq(EventRows) /\ Len(event') = Len(event)
           /\ Writes(c) /\ \A f \in DOMAIN event' : RowOK(event'[f], status', raced')
<1>1. event[e] \in EventRows /\ RowOK(event[e], status, raced) /\ event \in Seq(EventRows)
  BY EventFacts DEF QualityInv, TypeInv, QualityTypeOK
<1>3. PICK row, v : row = event[e] /\ v = [row EXCEPT !.count = @ + 1, !.sources = @ \cup {c}]
  OBVIOUS
<1>2. /\ v \in EventRows /\ v.sources = event[e].sources \cup {c} /\ v.count = event[e].count + 1
      /\ v.active = event[e].active /\ v.from = event[e].from
      /\ event[e].count \in Nat /\ event' = [event EXCEPT ![e] = v]
  <2>1. row \in EventRows
    BY <1>1, <1>3
  <2>2. /\ v \in EventRows /\ v.sources = row.sources \cup {c} /\ v.count = row.count + 1
        /\ v.active = row.active /\ v.from = row.from /\ row.count \in Nat
    <3>1. row.count + 1 \in Nat /\ row.sources \cup {c} \in SUBSET Candidates /\ row.count \in Nat
      BY <2>1 DEF EventRows
    <3>2. PICK n \in Nat, S \in SUBSET Candidates : n = row.count + 1 /\ S = row.sources \cup {c}
      BY <3>1
    <3>3. v = [row EXCEPT !.count = n, !.sources = S]
      BY <1>3, <3>2
    <3> QED BY <2>1, <3>1, <3>2, <3>3 DEF EventRows
  <2>3. event' = [event EXCEPT ![e] = v]
    BY <1>3
  <2> QED BY <1>3, <2>2, <2>3
<1>4. /\ event' \in Seq(EventRows) /\ Len(event') = Len(event) /\ DOMAIN event' = DOMAIN event
      /\ event'[e] = v /\ \A f \in DOMAIN event : f # e => event'[f] = event[f]
  BY <1>1, <1>2, ReplaceFacts
<1>5. RowOK(v, status, raced)
  <2>1. PICK S : S = event[e].sources
    OBVIOUS
  <2>2. IsFiniteSet(S)
    BY <1>1, <2>1 DEF RowOK
  <2>3. /\ IsFiniteSet(S \cup {c}) /\ Cardinality(S) \in Nat
        /\ c \notin S => Cardinality(S \cup {c}) = Cardinality(S) + 1
    BY <2>2, FS_AddElement, FS_CardinalityType
  <2>4. v.sources \cap raced = {} => event[e].sources \cap raced = {} /\ c \notin S
    BY <1>2, <2>1
  <2> QED BY <1>1, <1>2, <2>1, <2>3, <2>4 DEF RowOK
<1>6. \A f \in DOMAIN event' : RowOK(event'[f], status', raced')
  BY <1>4, <1>5 DEF QualityInv
<1>7. Writes(c)
  BY <1>2, <1>4 DEF Writes
<1> QED BY <1>4, <1>6, <1>7

(* An event is deactivated, or linked to the one that supersedes it.       *)
LEMMA EventSuperseded ==
    ASSUME QualityInv, NEW c, NEW e \in DOMAIN event, NEW v \in EventRows,
           event' = [event EXCEPT ![e] = v], v.sources = event[e].sources, v.count = event[e].count,
           v.from = event[e].from, v.active => event[e].active,
           status' = status, raced' = raced
    PROVE  /\ event' \in Seq(EventRows) /\ Len(event') = Len(event)
           /\ Writes(c) /\ \A f \in DOMAIN event' : RowOK(event'[f], status', raced')
<1>1. event \in Seq(EventRows) /\ RowOK(event[e], status, raced)
  BY DEF QualityInv, TypeInv, QualityTypeOK
<1>2. /\ event' \in Seq(EventRows) /\ Len(event') = Len(event) /\ DOMAIN event' = DOMAIN event
      /\ event'[e] = v /\ \A f \in DOMAIN event : f # e => event'[f] = event[f]
  BY <1>1, ReplaceFacts
<1>3. \A f \in DOMAIN event' : RowOK(event'[f], status', raced')
  BY <1>1, <1>2 DEF QualityInv, RowOK
<1>4. Writes(c)
  BY <1>2 DEF Writes
<1> QED BY <1>2, <1>3, <1>4

LEMMA QualityInitOK == QualityInit => QualityInv
<1> SUFFICES ASSUME QualityInit PROVE QualityInv
  OBVIOUS
<1>1. PICK x : x = [NoLocals EXCEPT !.at = "idle"]
  OBVIOUS
<1>2. LocalsOK(x, 0) /\ x \in QualityLocals /\ x.at = "idle"
  BY <1>1 DEF NoLocals, LocalsOK, QualityLocals, QualityPlaces
<1>3. quality = [r \in QualityRuns |-> x] /\ event = <<>> /\ Len(event) = 0 /\ DOMAIN event = {}
  BY <1>1 DEF QualityInit
<1>4. event \in Seq(EventRows) /\ Len(event) <= MaxQualityEvents
  BY <1>3, QualityAssumption DEF QualityAssumption
<1>5. /\ status \in [Candidates -> CandidateStatuses] /\ raced \subseteq Candidates
      /\ correcting = NoCorrection /\ correcting \in [at : CorrectionPlaces, old : Nat, new : Nat]
  BY DEF QualityInit, CandidateStatuses, NoCorrection, CorrectionPlaces
<1>6. TypeInv
  BY <1>2, <1>3, <1>4, <1>5 DEF TypeInv, QualityTypeOK, NoCorrection
<1>7. \A r \in QualityRuns : ~InsideOf(quality[r])
  BY <1>2, <1>3 DEF InsideOf
<1> QED BY <1>3, <1>5, <1>6, <1>7 DEF QualityInv, HandOK, NoCorrection

-----------------------------------------------------------------------------
(* Steps of the runs.                                                      *)

LEMMA HandFacts ==
    ASSUME QualityInv, NEW r \in QualityRuns, Underway(r)
    PROVE  /\ InHand(r) \in Candidates \ {Correction} /\ InHand(r) = Hand(quality[r])
           /\ quality[r].k \in 1 .. Len(quality[r].text) /\ quality[r] \in QualityLocals
           /\ quality \in [QualityRuns -> QualityLocals]
           /\ InsideOf(quality[r]) =>
                 /\ status[InHand(r)] # "absent"
                 /\ \A o \in QualityRuns \ {r} :
                       InsideOf(quality[o]) /\ Hand(quality[o]) = InHand(r) => InHand(r) \in raced
           /\ status \in [Candidates -> CandidateStatuses] /\ event \in Seq(EventRows)
           /\ Len(event) \in Nat /\ Len(event) <= MaxQualityEvents /\ raced \subseteq Candidates
<1>1. /\ quality[r] \in QualityLocals /\ quality[r].k \in 1 .. Len(quality[r].text)
      /\ quality \in [QualityRuns -> QualityLocals]
  BY DEF QualityInv, TypeInv, QualityTypeOK, LocalsOK, Underway
<1>2. InHand(r) = Hand(quality[r]) /\ InHand(r) \in Candidates \ {Correction}
  BY <1>1, TextFacts DEF InHand, Hand
<1>3. InsideOf(quality[r]) =>
                 /\ status[InHand(r)] # "absent"
                 /\ \A o \in QualityRuns \ {r} :
                       InsideOf(quality[o]) /\ Hand(quality[o]) = InHand(r) => InHand(r) \in raced
  BY <1>2 DEF QualityInv, HandOK
<1> QED BY <1>1, <1>2, <1>3, EventFacts DEF QualityInv, TypeInv, QualityTypeOK

(* A step that writes no event.                                            *)
LEMMA StatusStep ==
    ASSUME QualityInv, NEW r \in QualityRuns, NEW y, NEW c,
           quality' = [quality EXCEPT ![r] = y], correcting' = correcting, event' = event,
           status' \in [Candidates -> CandidateStatuses],
           raced' \subseteq Candidates, raced \subseteq raced', LocalsOK(y, Len(event)),
           Writes(c), InsideOf(y) => Hand(y) = c,
           \/ \A o \in QualityRuns \ {r} :
                 InsideOf(quality[o]) /\ Hand(quality[o]) = c => c \in raced'
           \/ ~InsideOf(y) /\ status' = status,
           HandOK(y, status', event, raced'),
           \A e \in DOMAIN event' : RowOK(event'[e], status', raced')
    PROVE  QualityInv'
<1>1. /\ event \in Seq(EventRows) /\ Len(event) \in Nat /\ Len(event) <= MaxQualityEvents
  BY EventFacts DEF QualityInv, TypeInv, QualityTypeOK
<1>2. /\ event' \in Seq(EventRows) /\ Len(event) <= Len(event') /\ Len(event') <= MaxQualityEvents
      /\ LocalsOK(y, Len(event')) /\ HandOK(y, status', event', raced')
  BY <1>1
<1>3. \/ \A o \in QualityRuns \ {r} :
            InsideOf(quality[o]) /\ Hand(quality[o]) = c => c \in raced'
      \/ ~InsideOf(y) /\ status' = status /\ event' = event
  OBVIOUS
<1> QED BY <1>2, <1>3, RunStepKeeps

(* The run goes on with its candidate, and writes nothing.                 *)
LEMMA GoesOn ==
    ASSUME QualityInv, NEW r \in QualityRuns, NEW y, Underway(r), InsideOf(quality[r]),
           quality' = [quality EXCEPT ![r] = y], UNCHANGED <<status, event, correcting, raced>>,
           y \in QualityLocals, y.text = quality[r].text, y.k = quality[r].k, InsideOf(y),
           y.at = "reinforce" => y.fresh /\ y.event \in DOMAIN event,
           HandOK(y, status, event, raced)
    PROVE  QualityInv'
<1>1. LocalsOK(y, Len(event)) /\ Hand(y) = InHand(r)
  BY HandFacts, EventFacts DEF LocalsOK, InsideOf, Hand, QualityInv, TypeInv
<1>2. Writes(InHand(r)) /\ \A e \in DOMAIN event' : RowOK(event'[e], status', raced')
  BY NothingWritten
<1>3. PICK c : c = InHand(r)
  OBVIOUS
<1>4. Writes(c) /\ Hand(y) = c
  BY <1>1, <1>2, <1>3
<1>5. \A o \in QualityRuns \ {r} :
         InsideOf(quality[o]) /\ Hand(quality[o]) = c => c \in raced'
  BY <1>3, HandFacts
<1>6. status' \in [Candidates -> CandidateStatuses] /\ raced' \subseteq Candidates
  BY HandFacts
<1>7. HandOK(y, status', event, raced') /\ raced \subseteq raced'
  OBVIOUS
<1> QED BY <1>1, <1>2, <1>4, <1>5, <1>6, <1>7, StatusStep

(* It is through with the candidate: nothing is written, or its status.    *)
LEMMA IsThrough ==
    ASSUME QualityInv, NEW r \in QualityRuns, Underway(r),
           quality' = Proceeds(r) \/ quality' = Dead(r), UNCHANGED <<event, correcting, raced>>,
           \/ status' = status
           \/ InsideOf(quality[r]) /\ \E s \in CandidateStatuses \ {"absent"} :
                                          status' = [status EXCEPT ![InHand(r)] = s]
    PROVE  QualityInv'
<1>1. PICK y : quality' = [quality EXCEPT ![r] = y] /\ LocalsOK(y, Len(event)) /\ ~InsideOf(y)
  <2>1. CASE quality' = Proceeds(r)
    BY <2>1, ProceedsFacts DEF QualityInv
  <2>2. CASE quality' = Dead(r)
    <3>1. LocalsOK(NoLocals, Len(event)) /\ ~InsideOf(NoLocals)
      BY DEF NoLocals, LocalsOK, InsideOf, QualityLocals, QualityPlaces
    <3> QED BY <2>2, <3>1 DEF Dead
  <2> QED BY <2>1, <2>2
<1>2. PICK c : c = InHand(r)
  OBVIOUS
<1>3. c \in Candidates
  BY <1>2, HandFacts
<1>4. /\ Writes(c) /\ status' \in [Candidates -> CandidateStatuses]
      /\ \A e \in DOMAIN event' : RowOK(event'[e], status', raced')
  <2>1. CASE status' = status
    BY <2>1, NothingWritten, HandFacts
  <2>2. CASE \E s \in CandidateStatuses \ {"absent"} : status' = [status EXCEPT ![InHand(r)] = s]
    <3>1. PICK s \in CandidateStatuses \ {"absent"} : status' = [status EXCEPT ![c] = s]
      BY <2>2, <1>2
    <3> QED BY <3>1, <1>3, StatusWritten
  <2> QED BY <2>1, <2>2
<1>5. \/ \A o \in QualityRuns \ {r} :
            InsideOf(quality[o]) /\ Hand(quality[o]) = c => c \in raced'
      \/ ~InsideOf(y) /\ status' = status
  BY <1>1, <1>2, HandFacts
<1>6. HandOK(y, status', event, raced')
  BY <1>1 DEF HandOK
<1>7. raced' \subseteq Candidates /\ raced \subseteq raced'
  BY HandFacts
<1> QED BY <1>1, <1>4, <1>5, <1>6, <1>7, StatusStep

LEMMA QualityRunStep ==
    ASSUME QualityInv, NEW r \in QualityRuns, QualityStep(r)
    PROVE  QualityInv'
<1> DEFINE x == quality[r]
           c == InHand(r)
<1>0. Underway(r) => x \in QualityLocals /\ c = Hand(x) /\ HandOK(x, status, event, raced)
  BY HandFacts DEF QualityInv
<1>1. ASSUME NEW input \in Inputs, StartText(r, input) PROVE QualityInv'
  <2>0. x \in QualityLocals /\ LocalsOK(x, Len(event)) /\ quality \in [QualityRuns -> QualityLocals]
    BY DEF QualityInv, TypeInv, QualityTypeOK
  <2>1. PICK y : y = [x EXCEPT !.at = "upsert", !.text = input.text, !.assemble = input.assemble]
    OBVIOUS
  <2>2. y \in QualityLocals /\ y.at = "upsert" /\ y.k = x.k /\ y.text = input.text
    <3>1. input.text \in {<<>>} \cup {i.text : i \in Inputs} /\ input.assemble \in BOOLEAN
      BY QualityAssumption DEF QualityAssumption
    <3> QED BY <3>1, <2>0, <2>1 DEF QualityLocals, QualityPlaces
  <2>3. quality' = [quality EXCEPT ![r] = y]
    BY <1>1, <2>0, <2>1 DEF StartText
  <2>4. 1 \in 1 .. Len(y.text) /\ x.k = 1
    <3>1. y.text \in Seq(Candidates \ {Correction}) /\ y.text # <<>> /\ x.at = "idle"
      BY <1>1, <2>2, TextFacts DEF StartText
    <3> QED BY <3>1, <2>0 DEF LocalsOK
  <2>5. LocalsOK(y, Len(event)) /\ ~InsideOf(y)
    BY <2>2, <2>4 DEF LocalsOK, InsideOf
  <2>6. UNCHANGED <<status, event, correcting, raced>>
    BY <1>1 DEF StartText
  <2>7. /\ status \in [Candidates -> CandidateStatuses] /\ event \in Seq(EventRows)
        /\ Len(event) \in Nat /\ Len(event) <= MaxQualityEvents /\ raced \subseteq Candidates
    BY EventFacts DEF QualityInv, TypeInv, QualityTypeOK
  <2>8. Writes(0) /\ \A e \in DOMAIN event' : RowOK(event'[e], status', raced')
    BY <2>6, NothingWritten
  <2>9. HandOK(y, status', event, raced')
    BY <2>5 DEF HandOK
  <2> HIDE DEF x
  <2> QED BY <2>3, <2>5, <2>6, <2>7, <2>8, <2>9, StatusStep
<1>2. CASE UpsertCandidate(r)
  <2>0. x.at = "upsert" /\ Underway(r)
    BY <1>2 DEF UpsertCandidate, Underway
  <2>1. /\ c \in Candidates \ {Correction} /\ x \in QualityLocals /\ c = Hand(x)
        /\ quality \in [QualityRuns -> QualityLocals] /\ x.k \in 1 .. Len(x.text)
        /\ status \in [Candidates -> CandidateStatuses]
    BY <2>0, HandFacts
  <2>2. PICK f \in BOOLEAN : f = (status[c] = "absent")
    OBVIOUS
  <2>3. PICK y : y = [x EXCEPT !.at = IF f THEN "lifespan" ELSE "resume", !.fresh = f]
    OBVIOUS
  <2>4. /\ quality' = [quality EXCEPT ![r] = y] /\ y \in QualityLocals /\ y.fresh = f
        /\ y.at = (IF f THEN "lifespan" ELSE "resume") /\ y.k = x.k /\ y.text = x.text
    BY <1>2, <2>1, <2>2, <2>3 DEF UpsertCandidate, QualityLocals, QualityPlaces
  <2>5. /\ LocalsOK(y, Len(event)) /\ InsideOf(y) /\ Hand(y) = c
    BY <2>1, <2>4 DEF LocalsOK, InsideOf, Hand
  <2>6. /\ event' = event /\ correcting' = correcting /\ raced \subseteq raced' /\ raced' \subseteq raced \cup {c}
        /\ status' = [status EXCEPT ![c] = IF f THEN "pending" ELSE status[c]]
    BY <1>2, <2>1, <2>2 DEF UpsertCandidate
  <2>7. \A o \in QualityRuns \ {r} : InsideOf(quality[o]) /\ Hand(quality[o]) = c => c \in raced'
    BY <1>2 DEF UpsertCandidate, Underway, InsideOf, Hand, InHand
  <2>8. PICK d : d = c
    OBVIOUS
  <2>9. /\ Writes(d) /\ status' \in [Candidates -> CandidateStatuses]
        /\ \A e \in DOMAIN event' : RowOK(event'[e], status', raced')
        /\ status'[c] # "absent" /\ (f => status'[c] = "pending")
    <3>1. (IF f THEN "pending" ELSE status[c]) \in CandidateStatuses \ {"absent"}
      BY <2>1, <2>2 DEF CandidateStatuses
    <3>2. PICK s \in CandidateStatuses \ {"absent"} : s = IF f THEN "pending" ELSE status[c]
      BY <3>1
    <3>3. d \in Candidates /\ status' = [status EXCEPT ![d] = s]
      BY <2>1, <2>6, <2>8, <3>2
    <3> QED BY <2>6, <2>8, <3>2, <3>3, StatusWritten
  <2>10. f => \A e \in DOMAIN event' : c \notin event'[e].sources
    BY <2>2, <2>6 DEF QualityInv, RowOK
  <2>11. HandOK(y, status', event, raced')
    BY <2>4, <2>5, <2>6, <2>9, <2>10 DEF HandOK
  <2>13. /\ InsideOf(y) => Hand(y) = d
         /\ \A o \in QualityRuns \ {r} : InsideOf(quality[o]) /\ Hand(quality[o]) = d => d \in raced'
    BY <2>5, <2>7, <2>8
  <2> HIDE DEF c, x
  <2>12. raced' \subseteq Candidates /\ Len(event) \in Nat /\ Len(event) <= MaxQualityEvents
         /\ event \in Seq(EventRows)
    BY <2>0, <2>1, <2>6, HandFacts
  <2> QED BY <2>4, <2>5, <2>6, <2>9, <2>11, <2>12, <2>13, StatusStep
<1>3. CASE ResumeCandidate(r)
  <2>0. x.at = "resume" /\ Underway(r) /\ InsideOf(x)
    BY <1>3 DEF ResumeCandidate, Underway, InsideOf
  <2>1. PICK p : p = Resumption(status[c], x.assemble)
    OBVIOUS
  <2>2. CASE p = "skip"
    BY <1>3, <2>0, <2>1, <2>2, IsThrough DEF ResumeCandidate
  <2>3. CASE p # "skip"
    <3>1. PICK y : y = [x EXCEPT !.at = p]
      OBVIOUS
    <3>2. p \in {"lifespan", "rivals"} /\ (p = "lifespan" => status[c] \notin {"assembled", "rejected", "accepted"})
      BY <2>1, <2>3 DEF Resumption
    <3>3. quality' = [quality EXCEPT ![r] = y] /\ UNCHANGED <<status, event, correcting, raced>>
      BY <1>3, <2>1, <2>3, <3>1, <2>0, HandFacts DEF ResumeCandidate, ToPlace
    <3>4. /\ y \in QualityLocals /\ y.at = p /\ y.text = x.text /\ y.k = x.k /\ y.fresh = x.fresh
          /\ InsideOf(y) /\ Hand(y) = c
      BY <2>0, <1>0, <3>1, <3>2 DEF QualityLocals, QualityPlaces, InsideOf, Hand
    <3>5. status[c] \in CandidateStatuses
      BY <2>0, HandFacts
    <3>6. HandOK(y, status, event, raced)
      BY <1>0, <2>0, <3>2, <3>4, <3>5 DEF HandOK, CandidateStatuses
    <3> QED BY <2>0, <3>2, <3>3, <3>4, <3>6, GoesOn
  <2> QED BY <2>2, <2>3
(* The run goes from a place in its candidate to another.                  *)
<1>g. ASSUME NEW p \in QualityPlaces \ {"reinforce"}, InsideOf(x), Underway(r), quality' = ToPlace(r, p),
             p \notin {"idle", "done", "upsert", "lifespan", "judge", "reinforce"},
             UNCHANGED <<status, event, correcting, raced>>,
             c \notin raced => 
                /\ p \in {"single", "reject", "insert"} =>
                      \A e \in DOMAIN event : ~(event[e].active /\ event[e].from = c)
                /\ x.fresh /\ p # "mark" => \A e \in DOMAIN event : c \notin event[e].sources
      PROVE  QualityInv'
  <2>1. PICK y : y = [x EXCEPT !.at = p]
    OBVIOUS
  <2>2. quality' = [quality EXCEPT ![r] = y]
    BY <1>g, <2>1, HandFacts DEF ToPlace
  <2>3. /\ y \in QualityLocals /\ y.at = p /\ y.text = x.text /\ y.k = x.k /\ y.fresh = x.fresh
        /\ InsideOf(y) /\ Hand(y) = c
    BY <1>g, <1>0, <2>1 DEF QualityLocals, QualityPlaces, InsideOf, Hand
  <2>4. HandOK(y, status, event, raced)
    BY <1>g, <1>0, <2>3 DEF HandOK
  <2> QED BY <1>g, <2>2, <2>3, <2>4, GoesOn
<1>k. ASSUME InsideOf(x), Underway(r), x.at # "mark", c \notin raced, x.fresh
      PROVE  \A e \in DOMAIN event : c \notin event[e].sources
  BY <1>k, <1>0 DEF HandOK
<1>4. CASE ReadLifespan(r)
  <2>0. x.at = "lifespan" /\ Underway(r) /\ InsideOf(x)
    BY <1>4 DEF ReadLifespan, Underway, InsideOf
  <2>1. PICK b \in BOOLEAN : b = (ActiveDeath # {})
    OBVIOUS
  <2>2. PICK y : y = [x EXCEPT !.at = "judge", !.dead = b]
    OBVIOUS
  <2>3. quality' = [quality EXCEPT ![r] = y] /\ UNCHANGED <<status, event, correcting, raced>>
    BY <1>4, <2>0, <2>1, <2>2, HandFacts DEF ReadLifespan
  <2>4. /\ y \in QualityLocals /\ y.at = "judge" /\ y.text = x.text /\ y.k = x.k /\ y.fresh = x.fresh
        /\ InsideOf(y) /\ Hand(y) = c
    BY <2>0, <1>0, <2>2 DEF QualityLocals, QualityPlaces, InsideOf, Hand
  <2>5. HandOK(y, status, event, raced)
    BY <2>0, <1>0, <2>4 DEF HandOK
  <2> QED BY <2>0, <2>3, <2>4, <2>5, GoesOn
<1>5. ASSUME NEW verdict \in {"accepted", "rejected", "needs_review"}, Judge(r, verdict)
      PROVE  QualityInv'
  <2>0. x.at = "judge" /\ Underway(r) /\ InsideOf(x)
    BY <1>5 DEF Judge, Underway, InsideOf
  <2>1. /\ status' = [status EXCEPT ![c] = verdict] /\ UNCHANGED <<event, correcting, raced>>
        /\ verdict \in CandidateStatuses \ {"absent"}
    BY <1>5 DEF Judge, CandidateStatuses
  <2>2. CASE quality' = Proceeds(r)
    BY <2>0, <2>1, <2>2, IsThrough
  <2>3. CASE quality' = ToPlace(r, "rivals")
    <3>1. PICK y : y = [x EXCEPT !.at = "rivals"]
      OBVIOUS
    <3>2. quality' = [quality EXCEPT ![r] = y]
      BY <2>0, <2>3, <3>1, HandFacts DEF ToPlace
    <3>3. /\ y \in QualityLocals /\ y.at = "rivals" /\ y.text = x.text /\ y.k = x.k /\ y.fresh = x.fresh
          /\ InsideOf(y) /\ Hand(y) = c
      BY <2>0, <1>0, <3>1 DEF QualityLocals, QualityPlaces, InsideOf, Hand
    <3>4. PICK d : d = c
      OBVIOUS
    <3>5. /\ d \in Candidates /\ d = Hand(y) /\ status' = [status EXCEPT ![d] = verdict]
      BY <2>0, <2>1, <3>3, <3>4, HandFacts
    <3>6. /\ status' \in [Candidates -> CandidateStatuses] /\ status'[d] = verdict /\ Writes(d)
          /\ \A e \in DOMAIN event' : RowOK(event'[e], status', raced')
      BY <2>1, <3>5, StatusWritten
    <3>7. LocalsOK(y, Len(event))
      BY <2>0, <3>3, HandFacts DEF LocalsOK
    <3>8. HandOK(y, status', event, raced')
      BY <2>0, <1>k, <2>1, <3>3, <3>4, <3>5, <3>6 DEF HandOK
    <3>9. \A o \in QualityRuns \ {r} : InsideOf(quality[o]) /\ Hand(quality[o]) = d => d \in raced'
      BY <2>0, <2>1, <3>4, HandFacts
    <3>10. raced' \subseteq Candidates /\ Len(event) \in Nat /\ Len(event) <= MaxQualityEvents
         /\ event \in Seq(EventRows)
      BY <2>0, <2>1, HandFacts
    <3> HIDE DEF c, x
    <3> QED BY <2>1, <3>2, <3>5, <3>6, <3>7, <3>8, <3>9, <3>10, StatusStep
  <2> QED BY <1>5, <2>2, <2>3 DEF Judge
<1>6. CASE LookForRivals(r)
  <2>0. x.at = "rivals" /\ Underway(r) /\ InsideOf(x) /\ UNCHANGED <<status, event, correcting, raced>>
    BY <1>6 DEF LookForRivals, Underway, InsideOf
  <2>1. PICK p \in {"find", "review"} : quality' = ToPlace(r, p)
    BY <1>6 DEF LookForRivals
  <2> QED BY <2>0, <2>1, <1>g, <1>k DEF QualityPlaces
<1>7. CASE Abstain(r)
  <2>0. /\ x.at = "review" /\ Underway(r) /\ InsideOf(x) /\ UNCHANGED <<event, correcting, raced>>
        /\ quality' = Proceeds(r) /\ status' = [status EXCEPT ![InHand(r)] = "needs_review"]
        /\ "needs_review" \in CandidateStatuses \ {"absent"}
    BY <1>7 DEF Abstain, Underway, InsideOf, CandidateStatuses
  <2> QED BY <2>0, IsThrough
<1>8. CASE FindOccurrence(r)
  <2>0. x.at = "find" /\ Underway(r) /\ InsideOf(x) /\ UNCHANGED <<status, event, correcting, raced>>
    BY <1>8 DEF FindOccurrence, Underway, InsideOf
  <2>1. CASE ActiveOccurrence(c) = {} /\ quality' = ToPlace(r, "single")
    <3>1. \A e \in DOMAIN event : ~(event[e].active /\ event[e].from = c)
      BY <2>1 DEF ActiveOccurrence, Active
    <3> QED BY <2>0, <2>1, <3>1, <1>g, <1>k DEF QualityPlaces
  <2>2. ASSUME NEW e \in ActiveOccurrence(c), quality' = [quality EXCEPT ![r] = [@ EXCEPT !.event = e,
                    !.at = IF Reinforces(x.fresh) THEN "reinforce" ELSE "mark"]]
        PROVE  QualityInv'
    <3>1. e \in DOMAIN event /\ e \in Nat
      BY EventFacts DEF ActiveOccurrence, QualityInv, TypeInv
    <3>2. PICK y : y = [x EXCEPT !.event = e, !.at = IF x.fresh THEN "reinforce" ELSE "mark"]
      OBVIOUS
    <3>3. quality' = [quality EXCEPT ![r] = y]
      BY <2>0, <2>2, <3>2, HandFacts DEF Reinforces
    <3>4. /\ y \in QualityLocals /\ y.at = (IF x.fresh THEN "reinforce" ELSE "mark") /\ y.event = e
          /\ y.text = x.text /\ y.k = x.k /\ y.fresh = x.fresh
          /\ InsideOf(y) /\ Hand(y) = c
      BY <2>0, <1>0, <3>1, <3>2 DEF QualityLocals, QualityPlaces, InsideOf, Hand
    <3>5. HandOK(y, status, event, raced)
      BY <2>0, <1>0, <1>k, <3>4 DEF HandOK
    <3> QED BY <2>0, <3>1, <3>3, <3>4, <3>5, GoesOn
  <2> QED BY <1>8, <2>1, <2>2 DEF FindOccurrence
<1>9. CASE FindSingleton(r)
  <2>0. x.at = "single" /\ Underway(r) /\ InsideOf(x) /\ UNCHANGED <<status, event, correcting, raced>>
    BY <1>9 DEF FindSingleton, Underway, InsideOf
  <2>1. PICK p \in {"reject", "insert"} : quality' = ToPlace(r, p)
    BY <1>9 DEF FindSingleton
  <2>2. c \notin raced => \A e \in DOMAIN event : ~(event[e].active /\ event[e].from = c)
    BY <2>0, <1>0 DEF HandOK
  <2> QED BY <2>0, <2>1, <2>2, <1>g, <1>k DEF QualityPlaces
<1>10. CASE RejectSingleton(r)
  <2>0. /\ x.at = "reject" /\ Underway(r) /\ InsideOf(x) /\ UNCHANGED <<event, correcting, raced>>
        /\ quality' = Proceeds(r) /\ status' = [status EXCEPT ![InHand(r)] = "rejected"]
        /\ "rejected" \in CandidateStatuses \ {"absent"}
    BY <1>10 DEF RejectSingleton, Underway, InsideOf, CandidateStatuses
  <2> QED BY <2>0, IsThrough
<1>11. CASE InsertRefusedByIndex(r)
  BY <1>11, IsThrough DEF InsertRefusedByIndex, Underway
<1>12. CASE MarkAssembled(r)
  <2>0. /\ x.at = "mark" /\ Underway(r) /\ InsideOf(x) /\ UNCHANGED <<event, correcting, raced>>
        /\ quality' = Proceeds(r) /\ status' = [status EXCEPT ![InHand(r)] = "assembled"]
        /\ "assembled" \in CandidateStatuses \ {"absent"}
    BY <1>12 DEF MarkAssembled, Underway, InsideOf, CandidateStatuses
  <2> QED BY <2>0, IsThrough
<1>13. CASE QualityDies(r)
  BY <1>13, IsThrough DEF QualityDies
(* The two steps that write an event: the run goes on to mark.             *)
<1>w. ASSUME InsideOf(x), Underway(r), NEW y, quality' = [quality EXCEPT ![r] = y],
             y \in QualityLocals, y.at = "mark", y.text = x.text, y.k = x.k,
             status' = status, correcting' = correcting, raced' = raced,
             event' \in Seq(EventRows), Len(event) <= Len(event'), Len(event') <= MaxQualityEvents,
             Writes(c), \A e \in DOMAIN event' : RowOK(event'[e], status', raced')
      PROVE  QualityInv'
  <2>1. LocalsOK(y, Len(event')) /\ Hand(y) = c
    BY <1>w, HandFacts DEF LocalsOK, Hand
  <2>2. HandOK(y, status', event', raced')
    BY <1>w, <2>1, HandFacts DEF HandOK
  <2>3. PICK d : d = c
    OBVIOUS
  <2>4. /\ Writes(d) /\ Hand(y) = d
        /\ \A o \in QualityRuns \ {r} : InsideOf(quality[o]) /\ Hand(quality[o]) = d => d \in raced'
    BY <1>w, <2>1, <2>3, HandFacts
  <2>5. raced' \subseteq Candidates /\ status' \in [Candidates -> CandidateStatuses]
    BY <1>w, HandFacts
  <2> HIDE DEF c, x
  <2> QED BY <1>w, <2>1, <2>2, <2>4, <2>5, RunStepKeeps
<1>14. CASE ReinforceEvent(r)
  <2>0. x.at = "reinforce" /\ Underway(r) /\ InsideOf(x) /\ x.fresh /\ x.event \in DOMAIN event
    BY <1>14, EventFacts DEF ReinforceEvent, Underway, InsideOf, QualityInv, TypeInv, LocalsOK
  <2>1. PICK d, e : d = c /\ e = x.event
    OBVIOUS
  <2>2. /\ d \in Candidates /\ status[d] # "absent" /\ e \in DOMAIN event
        /\ (d \notin raced => d \notin event[e].sources)
    BY <2>0, <2>1, <1>k, HandFacts
  <2>3. /\ event' = [event EXCEPT ![e] = [event[e] EXCEPT !.count = @ + 1, !.sources = @ \cup {d}]]
        /\ UNCHANGED <<status, correcting, raced>> /\ quality' = ToPlace(r, "mark")
    BY <1>14, <2>1 DEF ReinforceEvent
  <2>4. /\ event' \in Seq(EventRows) /\ Len(event') = Len(event)
        /\ Writes(d) /\ \A f \in DOMAIN event' : RowOK(event'[f], status', raced')
    BY <2>2, <2>3, EventReinforced
  <2>5. PICK y : y = [x EXCEPT !.at = "mark"]
    OBVIOUS
  <2>6. quality' = [quality EXCEPT ![r] = y]
    BY <2>0, <2>3, <2>5, HandFacts DEF ToPlace
  <2>7. y \in QualityLocals /\ y.at = "mark" /\ y.text = x.text /\ y.k = x.k
    BY <2>0, <1>0, <2>5 DEF QualityLocals, QualityPlaces
  <2>8. Len(event) <= Len(event') /\ Len(event') <= MaxQualityEvents /\ Writes(c)
    BY <2>0, <2>1, <2>4, HandFacts
  <2> QED BY <2>0, <2>3, <2>4, <2>6, <2>7, <2>8, <1>w
<1>15. CASE InsertEvent(r)
  <2>0. x.at = "insert" /\ Underway(r) /\ InsideOf(x)
    BY <1>15 DEF InsertEvent, Underway, InsideOf
  <2>1. PICK d : d = c
    OBVIOUS
  <2>2. d \in Candidates /\ status[d] # "absent"
    BY <2>0, <2>1, HandFacts
  <2>3. /\ event' = NewEvent(d) /\ Len(event) < MaxQualityEvents /\ UNCHANGED <<status, correcting, raced>>
        /\ quality' = [quality EXCEPT ![r] = [@ EXCEPT !.at = "mark", !.event = Len(event) + 1]]
    BY <1>15, <2>1 DEF InsertEvent
  <2>4. /\ event' \in Seq(EventRows) /\ Len(event') = Len(event) + 1
        /\ Len(event') <= MaxQualityEvents /\ Len(event) \in Nat
        /\ Writes(d) /\ \A e \in DOMAIN event' : RowOK(event'[e], status', raced')
    BY <2>2, <2>3, EventInserted
  <2>a. Len(event) + 1 \in Nat
    BY <2>4
  <2>b. PICK n \in Nat : n = Len(event) + 1
    BY <2>a
  <2>5. PICK y : y = [x EXCEPT !.at = "mark", !.event = n]
    OBVIOUS
  <2>6. quality' = [quality EXCEPT ![r] = y]
    BY <2>0, <2>3, <2>b, <2>5, HandFacts
  <2>7. y \in QualityLocals /\ y.at = "mark" /\ y.text = x.text /\ y.k = x.k
    BY <2>0, <1>0, <2>5 DEF QualityLocals, QualityPlaces
  <2>8. Len(event) <= Len(event') /\ Writes(c)
    BY <2>1, <2>4
  <2> QED BY <2>0, <2>3, <2>4, <2>6, <2>7, <2>8, <1>w
<1> QED
  BY <1>1, <1>2, <1>3, <1>4, <1>5, <1>6, <1>7, <1>8, <1>9, <1>10, <1>11, <1>12, <1>13,
     <1>14, <1>15 DEF QualityStep

-----------------------------------------------------------------------------
(* The correction of a death; no text yields its candidate.                *)

LEMMA CorrectionKeeps ==
    ASSUME QualityInv, quality' = quality, raced' = raced,
           status' \in [Candidates -> CandidateStatuses], event' \in Seq(EventRows),
           Len(event) <= Len(event'), Len(event') <= MaxQualityEvents, Writes(Correction),
           \A e \in DOMAIN event' : RowOK(event'[e], status', raced'),
           correcting' \in [at : CorrectionPlaces, old : Nat, new : Nat],
           correcting'.old <= Len(event'),
           correcting'.at \in {"deactivate", "link"} => correcting'.old # 0,
           correcting'.at \in {"deactivate", "insert", "link", "mark"} =>
              status'[Correction] # "absent"
    PROVE  QualityInv'
<1>0. Len(event) \in Nat /\ Len(event') \in Nat
  BY EventFacts, SequenceFacts DEF QualityInv, TypeInv
<1>1. \A r \in QualityRuns : LocalsOK(quality[r], Len(event'))
  <2> SUFFICES ASSUME NEW r \in QualityRuns PROVE LocalsOK(quality[r], Len(event'))
    OBVIOUS
  <2>1. LocalsOK(quality[r], Len(event)) /\ quality[r].event \in Nat
    BY DEF QualityInv, TypeInv, LocalsOK, QualityLocals
  <2> QED BY <2>1, <1>0 DEF LocalsOK
<1>2. TypeInv'
  BY <1>1 DEF QualityInv, TypeInv, QualityTypeOK
<1>3. ASSUME NEW r \in QualityRuns PROVE HandOK(quality[r], status', event', raced')
  <2>1. InsideOf(quality[r]) => Hand(quality[r]) \in Candidates \ {Correction}
    BY TextFacts DEF QualityInv, TypeInv, LocalsOK, InsideOf
  <2>2. HandOK(quality[r], status, event, raced)
    BY DEF QualityInv
  <2> QED BY <2>1, <2>2, HandStays
<1> QED BY <1>2, <1>3 DEF QualityInv

LEMMA CorrectionStatus ==
    ASSUME QualityInv, UNCHANGED <<event, quality, raced>>,
           NEW s \in CandidateStatuses \ {"absent"}, status' = [status EXCEPT ![Correction] = s],
           correcting' \in [at : CorrectionPlaces, old : Nat, new : Nat],
           correcting'.old <= Len(event),
           correcting'.at \in {"deactivate", "link"} => correcting'.old # 0
    PROVE  QualityInv'
<1>0. /\ status \in [Candidates -> CandidateStatuses] /\ event \in Seq(EventRows)
      /\ Len(event) \in Nat /\ Len(event) <= MaxQualityEvents /\ Correction \in Candidates
  BY EventFacts, QualityAssumption DEF QualityInv, TypeInv, QualityTypeOK, QualityAssumption
<1>1. /\ status' \in [Candidates -> CandidateStatuses] /\ status'[Correction] = s /\ Writes(Correction)
      /\ \A e \in DOMAIN event' : RowOK(event'[e], status', raced')
  BY <1>0, StatusWritten
<1>2. event' = event /\ quality' = quality /\ raced' = raced /\ s # "absent"
  OBVIOUS
<1>3. event' \in Seq(EventRows) /\ Len(event) <= Len(event') /\ Len(event') <= MaxQualityEvents
      /\ correcting'.old <= Len(event') /\ status'[Correction] # "absent"
  BY <1>0, <1>1, <1>2
<1> QED BY <1>1, <1>2, <1>3, CorrectionKeeps

LEMMA CorrectionStepKeeps ==
    ASSUME QualityInv, CorrectionStep
    PROVE  QualityInv'
<1>0. /\ status \in [Candidates -> CandidateStatuses] /\ event \in Seq(EventRows)
      /\ Len(event) \in Nat /\ DOMAIN event = 1 .. Len(event) /\ Len(event) <= MaxQualityEvents
      /\ \A e \in DOMAIN event : event[e] \in EventRows
      /\ correcting \in [at : CorrectionPlaces, old : Nat, new : Nat] /\ correcting.old <= Len(event)
      /\ Correction \in Candidates /\ raced \subseteq Candidates
      /\ correcting.at \in {"deactivate", "link"} => correcting.old \in DOMAIN event
      /\ correcting.at \in {"deactivate", "insert", "link", "mark"} => status[Correction] # "absent"
  BY EventFacts, QualityAssumption
     DEF QualityInv, TypeInv, QualityTypeOK, QualityAssumption
(* Only the locals change.                                                 *)
<1>l. ASSUME UNCHANGED <<status, event, quality, raced>>,
             correcting' \in [at : CorrectionPlaces, old : Nat, new : Nat],
             correcting'.old <= Len(event), correcting'.at \in {"upsert", "idle"}
      PROVE  QualityInv'
  <2>1. Writes(Correction) /\ \A e \in DOMAIN event' : RowOK(event'[e], status', raced')
    BY <1>l, NothingWritten
  <2> QED BY <2>1, <1>0, <1>l, CorrectionKeeps
<1>n. NoCorrection \in [at : CorrectionPlaces, old : Nat, new : Nat] /\ NoCorrection.old = 0
      /\ NoCorrection.at = "idle"
  BY DEF NoCorrection, CorrectionPlaces
<1>1. CASE FindOldDeath
  <2>1. PICK e \in {0} \cup ActiveDeath : correcting' = [at |-> "upsert", old |-> e, new |-> 0]
    BY <1>1 DEF FindOldDeath
  <2>2. e \in Nat /\ e <= Len(event)
    BY <1>0 DEF ActiveDeath
  <2>3. /\ correcting' \in [at : CorrectionPlaces, old : Nat, new : Nat]
        /\ correcting'.old <= Len(event) /\ correcting'.at = "upsert"
    BY <2>1, <2>2 DEF CorrectionPlaces
  <2> QED BY <2>3, <1>1, <1>l DEF FindOldDeath
<1>2. CASE UpsertCorrection
  <2>1. PICK s \in CandidateStatuses \ {"absent"} : status' = [status EXCEPT ![Correction] = s]
    <3>1. (IF status[Correction] = "absent" THEN "accepted" ELSE status[Correction])
             \in CandidateStatuses \ {"absent"}
      BY <1>0 DEF CandidateStatuses
    <3> QED BY <3>1, <1>2 DEF UpsertCorrection
  <2>2. UNCHANGED <<event, quality, raced>>
    BY <1>2 DEF UpsertCorrection
  <2>4. /\ correcting' \in [at : CorrectionPlaces, old : Nat, new : Nat] /\ correcting'.old = correcting.old
        /\ correcting'.at = IF correcting.old = 0 THEN "insert" ELSE "deactivate"
    BY <1>2, <1>0 DEF UpsertCorrection, Corrects, CorrectionPlaces
  <2>5. correcting'.old <= Len(event)
        /\ (correcting'.at \in {"deactivate", "link"} => correcting'.old # 0)
    BY <2>4, <1>0
  <2> QED BY <2>1, <2>2, <2>4, <2>5, CorrectionStatus
(* A row of the old event is written.                                      *)
<1>o. ASSUME NEW e \in DOMAIN event, NEW v \in EventRows, event' = [event EXCEPT ![e] = v],
             v.sources = event[e].sources, v.count = event[e].count,
             v.from = event[e].from, v.active => event[e].active,
             UNCHANGED <<status, quality, raced>>, status[Correction] # "absent",
             correcting' \in [at : CorrectionPlaces, old : Nat, new : Nat],
             correcting'.old = correcting.old, correcting'.at \in {"insert", "mark"}
      PROVE  QualityInv'
  <2>1. /\ event' \in Seq(EventRows) /\ Len(event') = Len(event) /\ Writes(Correction)
        /\ \A f \in DOMAIN event' : RowOK(event'[f], status', raced')
    BY <1>o, EventSuperseded
  <2> QED BY <2>1, <1>0, <1>o, CorrectionKeeps
<1>3. CASE DeactivateOld
  <2>1. PICK e \in DOMAIN event : e = correcting.old
    BY <1>0, <1>3 DEF DeactivateOld
  <2>2. PICK v : v = [event[e] EXCEPT !.active = FALSE]
    OBVIOUS
  <2>3. /\ v \in EventRows /\ v.sources = event[e].sources /\ v.count = event[e].count
        /\ v.from = event[e].from /\ ~v.active
    BY <1>0, <2>2 DEF EventRows
  <2>4. event' = [event EXCEPT ![e] = v] /\ UNCHANGED <<status, quality, raced>>
    BY <1>3, <2>1, <2>2 DEF DeactivateOld
  <2>5. /\ correcting' \in [at : CorrectionPlaces, old : Nat, new : Nat]
        /\ correcting'.old = correcting.old /\ correcting'.at = "insert"
    BY <1>3, <1>0 DEF DeactivateOld, Corrects, CorrectionPlaces
  <2> QED BY <1>3, <1>0, <2>3, <2>4, <2>5, <1>o DEF DeactivateOld
<1>4. CASE InsertCorrection
  <2>1. /\ event' = NewEvent(Correction) /\ Len(event) < MaxQualityEvents
        /\ UNCHANGED <<status, quality, raced>> /\ status[Correction] # "absent"
    BY <1>4, <1>0 DEF InsertCorrection
  <2>2. /\ event' \in Seq(EventRows) /\ Len(event') = Len(event) + 1
        /\ Len(event') <= MaxQualityEvents
        /\ Writes(Correction) /\ \A e \in DOMAIN event' : RowOK(event'[e], status', raced')
    BY <2>1, <1>0, EventInserted
  <2>3. /\ correcting' \in [at : CorrectionPlaces, old : Nat, new : Nat]
        /\ correcting'.old = correcting.old
        /\ correcting'.at = IF correcting.old = 0 THEN "mark" ELSE "link"
    <3>1. PICK n \in Nat : n = Len(event) + 1
      BY <1>0
    <3>2. PICK place \in {"mark", "link"} : place = IF correcting.old = 0 THEN "mark" ELSE "link"
      OBVIOUS
    <3>3. correcting' = [correcting EXCEPT !.new = n, !.at = place]
      BY <1>4, <3>1, <3>2 DEF InsertCorrection
    <3> QED BY <3>2, <3>3, <1>0 DEF CorrectionPlaces
  <2>4. Len(event) <= Len(event') /\ correcting'.old <= Len(event')
    BY <2>2, <2>3, <1>0
  <2> QED BY <2>1, <2>2, <2>3, <2>4, <1>0, CorrectionKeeps
<1>5. CASE LinkOld
  <2>1. PICK e \in DOMAIN event : e = correcting.old
    BY <1>0, <1>5 DEF LinkOld
  <2>2. PICK v : v = [event[e] EXCEPT !.next = correcting.new]
    OBVIOUS
  <2>3. /\ v \in EventRows /\ v.sources = event[e].sources /\ v.count = event[e].count
        /\ v.from = event[e].from /\ (v.active => event[e].active)
    BY <1>0, <2>2 DEF EventRows
  <2>4. event' = [event EXCEPT ![e] = v] /\ UNCHANGED <<status, quality, raced>>
    BY <1>5, <2>1, <2>2 DEF LinkOld
  <2>5. /\ correcting' \in [at : CorrectionPlaces, old : Nat, new : Nat]
        /\ correcting'.old = correcting.old /\ correcting'.at = "mark"
    BY <1>5, <1>0 DEF LinkOld, Corrects, CorrectionPlaces
  <2> QED BY <1>5, <1>0, <2>3, <2>4, <2>5, <1>o DEF LinkOld
<1>6. CASE MarkCorrection
  <2>1. /\ status' = [status EXCEPT ![Correction] = "assembled"] /\ correcting' = NoCorrection
        /\ UNCHANGED <<event, quality, raced>> /\ "assembled" \in CandidateStatuses \ {"absent"}
    BY <1>6 DEF MarkCorrection, CandidateStatuses
  <2>2. correcting' \in [at : CorrectionPlaces, old : Nat, new : Nat] /\ correcting'.old <= Len(event)
        /\ (correcting'.at \in {"deactivate", "link"} => correcting'.old # 0)
    BY <2>1, <1>0, <1>n
  <2> QED BY <2>1, <2>2, CorrectionStatus
<1>7. CASE CorrectionDies
  BY <1>7, <1>0, <1>l, <1>n DEF CorrectionDies
<1> QED
  BY <1>1, <1>2, <1>3, <1>4, <1>5, <1>6, <1>7 DEF CorrectionStep

-----------------------------------------------------------------------------
LEMMA QualityInductive == QualityInv /\ [QualityNext]_qualityVars => QualityInv'
<1> SUFFICES ASSUME QualityInv, [QualityNext]_qualityVars PROVE QualityInv'
  OBVIOUS
<1>1. CASE UNCHANGED qualityVars
  BY <1>1 DEF qualityVars, QualityInv, TypeInv, QualityTypeOK
<1>2. CASE QualityNext
  BY <1>2, QualityRunStep, CorrectionStepKeeps DEF QualityNext
<1> QED BY <1>1, <1>2

(* The rows and the locals of the quality commands are typed, and a run    *)
(* that is under way has a candidate of its text in hand.                  *)
THEOREM QualityTypes == QualitySpec => []QualityTypeOK
<1>1. QualityInv => QualityTypeOK
  BY DEF QualityInv, TypeInv
<1> QED BY <1>1, QualityInitOK, QualityInductive, PTL DEF QualitySpec

(* However often runs die and are repeated, an event counts no candidate   *)
(* twice but one that two runs had in hand at the same time.               *)
THEOREM RetriesCountOnce == QualitySpec => []RetriesNeverRecount
<1>1. ASSUME QualityInv PROVE RetriesNeverRecount
  <2> SUFFICES ASSUME NEW e \in DOMAIN event, event[e].count > Cardinality(event[e].sources)
               PROVE  event[e].sources \cap raced # {}
    BY DEF RetriesNeverRecount
  <2>1. RowOK(event[e], status, raced) /\ event[e].count \in Nat
    BY <1>1, EventFacts DEF QualityInv, TypeInv, EventRows
  <2>2. Cardinality(event[e].sources) \in Nat
    BY <2>1, FS_CardinalityType DEF RowOK
  <2> QED BY <2>1, <2>2 DEF RowOK
<1> QED BY <1>1, QualityInitOK, QualityInductive, PTL DEF QualitySpec

(* What a step of a run may write of the status of a candidate.            *)
LEMMA OnlyOthersReject ==
    ASSUME QualityInv, NEW r \in QualityRuns, QualityStep(r), NEW c \in Candidates \ raced,
           status[c] = "accepted", NEW e \in DOMAIN event, event[e].active, event[e].from = c
    PROVE  status'[c] # "rejected"
<1>0. /\ Underway(r) => HandOK(quality[r], status, event, raced) /\ InHand(r) = Hand(quality[r])
      /\ status \in [Candidates -> CandidateStatuses]
  BY HandFacts DEF QualityInv, TypeInv, QualityTypeOK
<1>1. ASSUME NEW verdict \in {"accepted", "rejected", "needs_review"}, Judge(r, verdict)
      PROVE  status'[c] # "rejected"
  <2>1. InHand(r) # c
    BY <1>1, <1>0 DEF Judge, Underway, InsideOf, HandOK
  <2> QED BY <2>1, <1>1, <1>0 DEF Judge
<1>2. CASE RejectSingleton(r)
  <2>1. InHand(r) # c
    BY <1>2, <1>0 DEF RejectSingleton, Underway, InsideOf, HandOK
  <2> QED BY <2>1, <1>2, <1>0 DEF RejectSingleton
<1>3. CASE UpsertCandidate(r)
  BY <1>3, <1>0 DEF UpsertCandidate
<1>4. CASE Abstain(r) \/ MarkAssembled(r)
  BY <1>4, <1>0 DEF Abstain, MarkAssembled
<1>5. CASE status' = status
  BY <1>5
<1> QED
  BY <1>1, <1>2, <1>3, <1>4, <1>5 DEF QualityStep, StartText, ResumeCandidate, ReadLifespan,
     LookForRivals, FindOccurrence, ReinforceEvent, FindSingleton, InsertEvent,
     InsertRefusedByIndex, QualityDies

(* An accepted candidate whose event a run inserted before it died is not  *)
(* rejected as a second event because of it.                               *)
THEOREM OwnEventIsNoRival == QualitySpec => OwnEventNeverRejects
<1> DEFINE Step == \A c \in Candidates \ raced :
            /\ status[c] = "accepted"
            /\ \E e \in DOMAIN event : Active(e) /\ event[e].from = c
            => status'[c] # "rejected"
<1>1. ASSUME QualityInv, [QualityNext]_qualityVars PROVE [Step]_qualityVars
  <2> SUFFICES ASSUME QualityNext, NEW c \in Candidates \ raced, status[c] = "accepted",
                      NEW e \in DOMAIN event, Active(e), event[e].from = c
               PROVE  status'[c] # "rejected"
    BY <1>1
  <2>1. CASE \E r \in QualityRuns : QualityStep(r)
    BY <2>1, <1>1, OnlyOthersReject DEF Active
  <2>2. CASE CorrectionStep
    <3>1. status \in [Candidates -> CandidateStatuses]
      BY <1>1 DEF QualityInv, TypeInv, QualityTypeOK
    <3> QED
      BY <2>2, <3>1 DEF CorrectionStep, FindOldDeath, UpsertCorrection, DeactivateOld,
         InsertCorrection, LinkOld, MarkCorrection, CorrectionDies
  <2> QED BY <2>1, <2>2 DEF QualityNext
<1>2. QualitySpec => [][Step]_qualityVars
  <2> HIDE DEF Step
  <2> QED BY <1>1, QualityInitOK, QualityInductive, PTL DEF QualitySpec
<1> QED BY <1>2 DEF OwnEventNeverRejects
=============================================================================
