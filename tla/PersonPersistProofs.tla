------------------------ MODULE PersonPersistProofs ------------------------
(* What is proved of PersonPersist for every value of its constants: any   *)
(* items, any number of overlapping executions, any crashes and errors.    *)
EXTENDS PersonPersist, TLAPS

(* An execution that works on an item has one, and a target when it needs  *)
(* it.                                                                     *)
Placed(x) ==
    /\ x.pc \in Working \ {"next"} => x.item \in Items
    /\ x.pc \in {"enrich", "evidence", "assemble"} => x.target \in Events

(* The events that were there when an execution started still are.         *)
Based(w) == execution[w].base \subseteq Stored

(* What is quoted is stored, and what is assembled or counted is quoted.   *)
Quoted ==
    /\ \A e \in Events, i \in Items : <<e, i>> \in evidence => e \in Stored
    /\ \A w \in Executions :
         execution[w].pc \in {"enrich", "evidence", "assemble"} => execution[w].target \in Stored
    /\ \A w \in Executions :
         execution[w].pc = "assemble" => <<execution[w].target, execution[w].item>> \in evidence

(* Event e was inserted by another execution, after w started.             *)
Unseen(w, e) == event[e].by # w /\ e \notin execution[w].base

(* Whoever inserted an event has started.                                  *)
Authored == \A e \in Stored :
    event[e].by \in Executions /\ execution[event[e].by].pc # "idle"

(* What a lookup did not find can only have come from another execution    *)
(* since.                                                                  *)
LookedUp(w) ==
    LET x == execution[w] IN
    /\ x.pc \in {"occurrence", "title", "nearby", "insert"} /\ Kind[x.item] \in LifeSingletons =>
         \A e \in ActiveOfKind(Kind[x.item]) : Unseen(w, e)
    /\ x.pc \in {"title", "nearby", "insert"} => \A e \in OfOccurrence(x.item) : Unseen(w, e)
    /\ x.pc \in {"nearby", "insert"} => \A e \in OfTitle(x.item) : Unseen(w, e)

TypeInv == TypeOK /\ \A w \in Executions : Placed(execution[w])

PersonInv ==
    /\ TypeInv
    /\ \A w \in Executions : Based(w) /\ LookedUp(w)
    /\ Authored /\ Quoted /\ AssembledIsBacked /\ TallyIsBacked /\ DuplicatesNeedARace

-----------------------------------------------------------------------------
(* The local updates keep their type.                                      *)
LEMMA EndedExecution ==
    ASSUME NEW x \in Execution, NEW pc \in {"done", "gone"}
    PROVE  /\ Ended(x, pc) \in Execution /\ Ended(x, pc).pc = pc
           /\ Ended(x, pc).base = x.base /\ Ended(x, pc).tally = {}
           /\ [Ended(x, pc) EXCEPT !.tally = x.tally] \in Execution
           /\ [Ended(x, pc) EXCEPT !.tally = x.tally].pc = pc
           /\ [Ended(x, pc) EXCEPT !.tally = x.tally].base = x.base
           /\ [Ended(x, pc) EXCEPT !.tally = x.tally].tally = x.tally
BY DEF Ended, Idle, Execution, Working, Coordinates, Places

LEMMA DoneItem ==
    ASSUME NEW x \in Execution
    PROVE  /\ ItemDone(x) \in Execution /\ ItemDone(x).pc = "next"
           /\ ItemDone(x).base = x.base /\ ItemDone(x).tally = x.tally
           /\ ItemDone(x).has = x.has
BY DEF ItemDone, Execution, Working, Coordinates, Places

LEMMA ErredExecution ==
    ASSUME NEW x \in Execution
    PROVE  /\ Erred(x) \in Execution /\ Erred(x).pc \in {"next", "gone"}
           /\ Erred(x).base = x.base /\ Erred(x).tally \subseteq x.tally
<1>1. CASE Document[x.item] \in Followed
  <2> DEFINE rest == {i \in x.todo : Document[i] # Document[x.item]}
             counted == {i \in x.tally : Document[i] # Document[x.item]}
  <2>1. Erred(x) = [ItemDone(x) EXCEPT !.todo = rest, !.tally = counted]
    BY <1>1 DEF Erred
  <2>2. rest \in SUBSET Items /\ counted \in SUBSET Items /\ counted \subseteq x.tally
    BY DEF Execution
  <2> HIDE DEF rest, counted
  <2> DEFINE d == ItemDone(x)
  <2>3. d \in Execution /\ d.pc = "next" /\ d.base = x.base
    BY DoneItem
  <2> HIDE DEF d
  <2>4. Erred(x) = [d EXCEPT !.todo = rest, !.tally = counted]
    BY <2>1 DEF d
  <2> QED BY <2>2, <2>3, <2>4 DEF Execution
<1>2. CASE Document[x.item] \notin Followed
  BY <1>2, EndedExecution DEF Erred
<1> QED BY <1>1, <1>2

LEMMA AttachedExecution ==
    ASSUME NEW x \in Execution, NEW e \in Events
    PROVE  /\ Attach(x, e) \in Execution /\ Attach(x, e).pc = "enrich"
           /\ Attach(x, e).target = e /\ Attach(x, e).item = x.item
           /\ Attach(x, e).base = x.base /\ Attach(x, e).tally = x.tally
BY DEF Attach, Execution, Working

LEMMA MovedExecution ==
    ASSUME NEW x \in Execution, NEW pc \in Working
    PROVE  /\ [x EXCEPT !.pc = pc] \in Execution
           /\ [x EXCEPT !.pc = pc].pc = pc /\ [x EXCEPT !.pc = pc].item = x.item
           /\ [x EXCEPT !.pc = pc].target = x.target
           /\ [x EXCEPT !.pc = pc].base = x.base /\ [x EXCEPT !.pc = pc].tally = x.tally
BY DEF Execution, Working

(* How an action may change the execution that takes it, apart from Start: *)
(* nothing is added to what it has counted, except by Assemble.            *)
Moved(x, y) ==
    /\ y \in Execution /\ Placed(y) /\ y.pc # "idle"
    /\ y.base = x.base /\ y.tally \subseteq x.tally

(* A lookup either finds an event that matches, or goes on.                *)
LEMMA LookupStep ==
    ASSUME TypeInv, NEW w \in Executions, NEW pc \in Working \ {"next"},
           NEW matching, matching \subseteq Active,
           NEW otherwise, Moved(execution[w], otherwise),
           Lookup(w, pc, matching, otherwise)
    PROVE  /\ execution[w].pc = pc
           /\ execution' = [execution EXCEPT ![w] = execution'[w]]
           /\ Moved(execution[w], execution'[w])
           /\ \/ /\ execution'[w].pc = "enrich" /\ execution'[w].target \in Active
              \/ /\ matching = {} /\ execution'[w] = otherwise
           /\ UNCHANGED <<event, candidate, evidence>>
<1> DEFINE x == execution[w]
<1>1. x \in Execution /\ x.pc = pc /\ x.item \in Items
  BY DEF TypeInv, TypeOK, Lookup, Placed
<1>2. ASSUME NEW e \in matching, execution' = [execution EXCEPT ![w] = Attach(x, e)]
      PROVE  Moved(x, execution'[w]) /\ execution'[w].pc = "enrich"
             /\ execution'[w].target \in Active
  <2>1. e \in Events /\ e \in Active
    BY <1>2 DEF Active
  <2>2. execution'[w] = Attach(x, e)
    BY <1>2 DEF TypeInv, TypeOK
  <2> QED BY <1>1, <2>1, <2>2, AttachedExecution DEF Moved, Placed
<1>3. ASSUME execution' = [execution EXCEPT ![w] = otherwise]
      PROVE  execution'[w] = otherwise
  BY <1>3 DEF TypeInv, TypeOK
<1>4. execution' = [execution EXCEPT ![w] = execution'[w]]
  <2>1. CASE \E e \in matching : execution' = [execution EXCEPT ![w] = Attach(x, e)]
    BY <2>1 DEF TypeInv, TypeOK
  <2>2. CASE execution' = [execution EXCEPT ![w] = otherwise]
    BY <2>2 DEF TypeInv, TypeOK
  <2> QED BY <2>1, <2>2 DEF Lookup
<1> QED BY <1>1, <1>2, <1>3, <1>4 DEF Lookup

-----------------------------------------------------------------------------
(* What a step does to the events: it keeps one, but for its place and     *)
(* whether it is active, or it is the insert of execution w.               *)
EventKept(e) ==
    /\ event'[e].kind = event[e].kind /\ event'[e].occurrence = event[e].occurrence
    /\ event'[e].title = event[e].title /\ event'[e].by = event[e].by
    /\ e \in Stored' <=> e \in Stored
    /\ e \in Active' => e \in Active

EventInserted(w, e) ==
    /\ execution[w].pc = "insert"
    /\ e \notin Stored /\ e \in Stored' /\ e \in Active'
    /\ event'[e].by = w /\ event'[e].title = Title[execution[w].item]
    /\ execution'[w].base = execution[w].base

(* What is common to the actions of an execution.                          *)
Acted(w) ==
    /\ TypeOK'
    /\ \A v \in Executions : v # w => execution'[v] = execution[v]
    /\ Placed(execution'[w]) /\ execution'[w].pc # "idle"
    /\ \/ execution'[w].base = execution[w].base
       \/ execution[w].pc = "idle" /\ execution'[w].base = Stored
    /\ \/ \A e \in Events : EventKept(e)
       \/ \E n \in Events : EventInserted(w, n) /\ \A e \in Events \ {n} : EventKept(e)

(* An action that leaves the three tables as they are.                     *)
LEMMA LocalAction ==
    ASSUME TypeInv, NEW w \in Executions, NEW y, Moved(execution[w], y),
           execution' = [execution EXCEPT ![w] = y], UNCHANGED <<event, candidate, evidence>>
    PROVE  Acted(w) /\ execution'[w] = y
<1>1. execution'[w] = y
  BY DEF TypeInv, TypeOK
<1>2. TypeOK'
  BY DEF TypeInv, TypeOK, Moved
<1>3. \A e \in Events : EventKept(e)
  BY DEF EventKept, Stored, Active
<1>4. \A v \in Executions : v # w => execution'[v] = execution[v]
  BY DEF TypeInv, TypeOK
<1> QED BY <1>1, <1>2, <1>3, <1>4 DEF Acted, Moved

LEMMA ErredAction ==
    ASSUME TypeInv, NEW w \in Executions
    PROVE  Moved(execution[w], Erred(execution[w]))
<1>1. execution[w] \in Execution
  BY DEF TypeInv, TypeOK
<1> QED BY <1>1, ErredExecution DEF Moved, Placed, Working

LEMMA PcAction ==
    ASSUME TypeInv, NEW w \in Executions, NEW pc \in Working,
           execution[w].pc \in Working \ {"next"},
           pc \in {"enrich", "evidence", "assemble"} => execution[w].target \in Events
    PROVE  Moved(execution[w], [execution[w] EXCEPT !.pc = pc])
<1>1. execution[w] \in Execution /\ execution[w].item \in Items
  BY DEF TypeInv, TypeOK, Placed
<1> DEFINE x == execution[w]
           y == [x EXCEPT !.pc = pc]
<1>2. /\ y \in Execution /\ y.pc = pc /\ y.item = x.item /\ y.target = x.target
      /\ y.base = x.base /\ y.tally = x.tally
  BY <1>1, MovedExecution
<1>3. pc # "idle"
  BY DEF Working
<1> HIDE DEF y
<1>4. Moved(x, y)
  BY <1>1, <1>2, <1>3 DEF Moved, Placed
<1> QED BY <1>4 DEF y

LEMMA ItemDoneAction ==
    ASSUME TypeInv, NEW w \in Executions
    PROVE  Moved(execution[w], ItemDone(execution[w]))
<1>1. execution[w] \in Execution
  BY DEF TypeInv, TypeOK
<1> QED BY <1>1, DoneItem DEF Moved, Placed, Working

LEMMA EndedAction ==
    ASSUME TypeInv, NEW w \in Executions
    PROVE  Moved(execution[w], Ended(execution[w], "gone"))
<1>1. execution[w] \in Execution
  BY DEF TypeInv, TypeOK
<1> QED BY <1>1, EndedExecution DEF Moved, Placed, Working

-----------------------------------------------------------------------------
(* One lemma per action, or per kind of action.                            *)
LEMMA StartStep ==
    ASSUME TypeInv, NEW w \in Executions, Start(w)
    PROVE  /\ Acted(w) /\ execution'[w].pc = "next" /\ execution'[w].tally = execution[w].tally
           /\ UNCHANGED <<event, candidate, evidence>>
<1> DEFINE x == execution[w]
           has == {k \in LifeSingletons : ActiveOfKind(k) # {}}
<1>1. x \in Execution /\ x.pc = "idle" /\ UNCHANGED <<event, candidate, evidence>>
  BY DEF TypeInv, TypeOK, Start
<1>2. PICK extracted \in Extracts :
        execution' = [execution EXCEPT ![w].pc = "next", ![w].todo = extracted,
                                       ![w].base = Stored, ![w].has = has]
  BY DEF Start
<1>3. has \in SUBSET LifeSingletons /\ Stored \in SUBSET Events /\ extracted \in SUBSET Items
  BY PersonAssumption DEF Stored
<1> HIDE DEF has
<1> DEFINE y == [x EXCEPT !.pc = "next", !.todo = extracted, !.base = Stored, !.has = has]
<1>4. execution' = [execution EXCEPT ![w] = y]
  BY <1>2
<1>5. y \in Execution /\ y.pc = "next" /\ y.base = Stored /\ y.tally = x.tally
  BY <1>1, <1>3 DEF Execution, Working
<1>6. execution'[w] = y /\ \A v \in Executions : v # w => execution'[v] = execution[v]
  BY <1>4 DEF TypeInv, TypeOK
<1>7. TypeOK'
  BY <1>1, <1>4, <1>5 DEF TypeInv, TypeOK
<1>8. \A e \in Events : EventKept(e)
  BY <1>1 DEF EventKept, Stored, Active
<1> QED BY <1>1, <1>5, <1>6, <1>7, <1>8 DEF Acted, Placed

(* The actions that change the execution alone.                            *)
LEMMA FinishStep ==
    ASSUME TypeInv, NEW w \in Executions, Finish(w)
    PROVE  /\ Acted(w) /\ execution'[w].pc = "done" /\ execution'[w].tally = execution[w].tally
           /\ UNCHANGED <<event, candidate, evidence>>
<1> DEFINE x == execution[w]
           y == [Ended(x, "done") EXCEPT !.tally = x.tally]
<1>1. x \in Execution
  BY DEF TypeInv, TypeOK
<1>2. Moved(x, y) /\ y.pc = "done" /\ y.tally = x.tally
  BY <1>1, EndedExecution DEF Moved, Placed, Working
<1>3. execution' = [execution EXCEPT ![w] = y] /\ UNCHANGED <<event, candidate, evidence>>
  BY DEF Finish
<1> HIDE DEF y
<1> QED BY <1>2, <1>3, LocalAction

LEMMA StopStep ==
    ASSUME TypeInv, NEW w \in Executions, StatementFails(w) \/ Crash(w)
    PROVE  /\ Acted(w) /\ execution'[w].pc \in {"next", "gone"}
           /\ execution'[w].tally \subseteq execution[w].tally
           /\ UNCHANGED <<event, candidate, evidence>>
<1> DEFINE x == execution[w]
<1>1. x \in Execution
  BY DEF TypeInv, TypeOK
<1>2. CASE StatementFails(w)
  <2>1. execution' = [execution EXCEPT ![w] = Erred(x)] /\ UNCHANGED <<event, candidate, evidence>>
    BY <1>2 DEF StatementFails
  <2>2. Acted(w) /\ execution'[w] = Erred(x)
    BY <2>1, ErredAction, LocalAction
  <2> QED BY <1>1, <2>1, <2>2, ErredExecution
<1>3. CASE Crash(w)
  <2>1. execution' = [execution EXCEPT ![w] = Ended(x, "gone")]
        /\ UNCHANGED <<event, candidate, evidence>>
    BY <1>3 DEF Crash
  <2> QED BY <1>1, <2>1, EndedAction, EndedExecution, LocalAction DEF Moved
<1> QED BY <1>2, <1>3

(* What the lookups have in common: the execution goes on to the next      *)
(* lookup with the same item only if the one before has found nothing.     *)
Searched(w) ==
    LET x == execution[w]
        y == execution'[w]
    IN
    /\ Acted(w) /\ UNCHANGED <<event, candidate, evidence>> /\ y.tally \subseteq x.tally
    /\ y.pc \in {"enrich", "next", "gone", "occurrence", "title", "nearby", "insert"}
    /\ y.pc = "enrich" => y.target \in Stored
    /\ y.pc \in {"occurrence", "title", "nearby", "insert"} => y.item = x.item
    /\ y.pc = "occurrence" => x.pc = "singleton" /\ ActiveOfKind(Kind[x.item]) = {}
    /\ y.pc = "title" => x.pc = "occurrence" /\ OfOccurrence(x.item) = {}
    /\ y.pc = "nearby" => x.pc = "title" /\ OfTitle(x.item) = {}
    /\ y.pc = "insert" => x.pc = "nearby" \/ (x.pc = "title" /\ OfTitle(x.item) = {})

LEMMA SearchStep ==
    ASSUME TypeInv, NEW w \in Executions, NEW pc \in Working \ {"next"},
           NEW matching, matching \subseteq Active,
           NEW y, Moved(execution[w], y), Lookup(w, pc, matching, y),
           y.pc \in {"next", "gone", "occurrence", "title", "nearby", "insert"},
           matching = {} =>
             LET x == execution[w] IN
             /\ y.pc \in {"occurrence", "title", "nearby", "insert"} => y.item = x.item
             /\ y.pc = "occurrence" => x.pc = "singleton" /\ ActiveOfKind(Kind[x.item]) = {}
             /\ y.pc = "title" => x.pc = "occurrence" /\ OfOccurrence(x.item) = {}
             /\ y.pc = "nearby" => x.pc = "title" /\ OfTitle(x.item) = {}
             /\ y.pc = "insert" => x.pc = "nearby" \/ (x.pc = "title" /\ OfTitle(x.item) = {})
    PROVE  Searched(w)
<1> DEFINE x == execution[w]
           z == execution'[w]
<1>1. /\ execution' = [execution EXCEPT ![w] = z] /\ Moved(x, z)
      /\ UNCHANGED <<event, candidate, evidence>>
      /\ \/ z.pc = "enrich" /\ z.target \in Active
         \/ matching = {} /\ z = y
  BY LookupStep
<1> HIDE DEF z
<1>2. Acted(w)
  BY <1>1, LocalAction
<1>3. z.tally \subseteq x.tally /\ Active \subseteq Stored
  BY <1>1 DEF Moved, Active, Stored
<1>4. CASE z.pc = "enrich" /\ z.target \in Active
  BY <1>1, <1>2, <1>3, <1>4 DEF Searched, z
<1>5. CASE matching = {} /\ z = y
  BY <1>1, <1>2, <1>3, <1>5 DEF Searched, z
<1> QED BY <1>1, <1>4, <1>5

LEMMA FindSingletonStep ==
    ASSUME TypeInv, NEW w \in Executions, FindSingleton(w)
    PROVE  Searched(w)
<1> DEFINE x == execution[w]
           matching == ActiveOfKind(Kind[x.item])
<1>1. /\ x \in Execution /\ x.pc = "singleton" /\ x.pc \in Working \ {"next"}
      /\ x.item \in Items /\ matching \subseteq Active
  BY DEF TypeInv, TypeOK, Placed, FindSingleton, Lookup, Working, ActiveOfKind
<1>2. CASE x.accepted
  <2> DEFINE y == [x EXCEPT !.pc = "occurrence"]
  <2>1. Lookup(w, "singleton", matching, y)
    BY <1>2 DEF FindSingleton
  <2>2. Moved(x, y) /\ y.item = x.item /\ y.pc = "occurrence"
    <3>1. "occurrence" \in Working /\ "occurrence" \notin {"enrich", "evidence", "assemble"}
      BY DEF Working
    <3> QED BY <1>1, <3>1, PcAction, MovedExecution
  <2> HIDE DEF y
  <2> QED BY <1>1, <2>1, <2>2, SearchStep
<1>3. CASE ~x.accepted
  <2> DEFINE y == ItemDone(x)
  <2>1. Lookup(w, "singleton", matching, y)
    BY <1>3 DEF FindSingleton
  <2>2. Moved(x, y) /\ y.pc = "next"
    BY <1>1, ItemDoneAction, DoneItem
  <2> HIDE DEF y
  <2> QED BY <1>1, <2>1, <2>2, SearchStep
<1> QED BY <1>2, <1>3

LEMMA FindOccurrenceStep ==
    ASSUME TypeInv, NEW w \in Executions, FindOccurrence(w)
    PROVE  Searched(w)
<1> DEFINE x == execution[w]
           matching == OfOccurrence(x.item)
<1>1. /\ x \in Execution /\ x.pc = "occurrence" /\ x.pc \in Working \ {"next"}
      /\ x.item \in Items /\ matching \subseteq Active
  BY DEF TypeInv, TypeOK, Placed, FindOccurrence, Lookup, Working, OfOccurrence
<1> DEFINE y == [x EXCEPT !.pc = "title"]
<1>2. Lookup(w, "occurrence", matching, y)
  BY DEF FindOccurrence
<1>3. Moved(x, y) /\ y.item = x.item /\ y.pc = "title"
  <2>1. "title" \in Working /\ "title" \notin {"enrich", "evidence", "assemble"}
    BY DEF Working
  <2> QED BY <1>1, <2>1, PcAction, MovedExecution
<1> HIDE DEF y
<1> QED BY <1>1, <1>2, <1>3, SearchStep

LEMMA FindTitleStep ==
    ASSUME TypeInv, NEW w \in Executions, FindTitle(w)
    PROVE  Searched(w)
<1> DEFINE x == execution[w]
           matching == OfTitle(x.item)
<1>1. /\ x \in Execution /\ x.pc = "title" /\ x.pc \in Working \ {"next"}
      /\ x.item \in Items /\ matching \subseteq Active
  BY DEF TypeInv, TypeOK, Placed, FindTitle, Lookup, Working, OfTitle
<1>2. CASE Kind[x.item] \in VisitOnly /\ x.coords # None
  <2> DEFINE y == [x EXCEPT !.pc = "nearby"]
  <2>1. Lookup(w, "title", matching, y)
    BY <1>2 DEF FindTitle
  <2>2. Moved(x, y) /\ y.item = x.item /\ y.pc = "nearby"
    <3>1. "nearby" \in Working /\ "nearby" \notin {"enrich", "evidence", "assemble"}
      BY DEF Working
    <3> QED BY <1>1, <3>1, PcAction, MovedExecution
  <2> HIDE DEF y
  <2> QED BY <1>1, <2>1, <2>2, SearchStep
<1>3. CASE ~(Kind[x.item] \in VisitOnly /\ x.coords # None)
  <2> DEFINE y == [x EXCEPT !.pc = "insert"]
  <2>1. Lookup(w, "title", matching, y)
    BY <1>3 DEF FindTitle
  <2>2. Moved(x, y) /\ y.item = x.item /\ y.pc = "insert"
    <3>1. "insert" \in Working /\ "insert" \notin {"enrich", "evidence", "assemble"}
      BY DEF Working
    <3> QED BY <1>1, <3>1, PcAction, MovedExecution
  <2> HIDE DEF y
  <2> QED BY <1>1, <2>1, <2>2, SearchStep
<1> QED BY <1>2, <1>3

LEMMA FindNearbyStep ==
    ASSUME TypeInv, NEW w \in Executions, FindNearby(w)
    PROVE  Searched(w)
<1> DEFINE x == execution[w]
           matching == {e \in ActiveOfKind(Kind[x.item]) : event[e].geom = x.coords}
<1>1. /\ x \in Execution /\ x.pc = "nearby" /\ x.pc \in Working \ {"next"}
      /\ x.item \in Items /\ matching \subseteq Active
  BY DEF TypeInv, TypeOK, Placed, FindNearby, Lookup, Working, ActiveOfKind
<1> DEFINE y == [x EXCEPT !.pc = "insert"]
<1>2. Lookup(w, "nearby", matching, y)
  BY DEF FindNearby
<1>3. Moved(x, y) /\ y.item = x.item /\ y.pc = "insert"
  <2>1. "insert" \in Working /\ "insert" \notin {"enrich", "evidence", "assemble"}
    BY DEF Working
  <2> QED BY <1>1, <2>1, PcAction, MovedExecution
<1> HIDE DEF y, matching
<1> QED BY <1>1, <1>2, <1>3, SearchStep

LEMMA FindAgainStep ==
    ASSUME TypeInv, NEW w \in Executions, FindAgain(w)
    PROVE  Searched(w)
<1> DEFINE x == execution[w]
           matching == ActiveOfKind(Kind[x.item])
<1>1. /\ x \in Execution /\ x.pc = "again" /\ x.pc \in Working \ {"next"}
      /\ x.item \in Items /\ matching \subseteq Active
  BY DEF TypeInv, TypeOK, Placed, FindAgain, Lookup, Working, ActiveOfKind
<1> DEFINE y == Erred(x)
<1>2. Lookup(w, "again", matching, y)
  BY DEF FindAgain
<1>3. Moved(x, y) /\ y.pc \in {"next", "gone"}
  BY <1>1, ErredAction, ErredExecution
<1> HIDE DEF y, matching
<1> QED BY <1>1, <1>2, <1>3, SearchStep

(* A decision is recorded unless there is a row already.                   *)
Decided ==
    \A f \in DOMAIN candidate :
        \/ candidate'[f] = candidate[f]
        \/ candidate[f].status = "absent" /\ candidate'[f].status \in Decisions

LEMMA DecisionType ==
    ASSUME NEW i, NEW has, NEW verdict
    PROVE  Decision(i, has, verdict) \in Decisions
BY DEF Decision, Decisions

LEMMA JudgeStep ==
    ASSUME TypeInv, NEW w \in Executions, Judge(w)
    PROVE  /\ Acted(w) /\ Decided /\ UNCHANGED <<event, evidence>>
           /\ execution'[w].tally \subseteq execution[w].tally
           /\ execution'[w].pc \in {"next", "singleton", "occurrence"}
           /\ execution'[w].pc = "occurrence" => Kind[execution'[w].item] \notin LifeSingletons
<1> DEFINE x == execution[w]
<1>1. x \in Execution /\ x.pc = "next" /\ UNCHANGED <<event, evidence>>
  BY DEF TypeInv, TypeOK, Judge
<1>2. PICK i \in x.todo : \E verdict \in Verdicts[i], coords \in CoordsOf(i) :
        LET decision == Decision(i, x.has, verdict)
            accepted == decision = "accepted"
            y == [x EXCEPT !.item = i, !.coords = coords, !.accepted = accepted]
        IN /\ candidate' = [candidate EXCEPT ![Fingerprint[i]] =
                              Quarantined(Fingerprint[i], decision)]
           /\ execution' = [execution EXCEPT ![w] =
                IF Kind[i] \in LifeSingletons /\ (accepted \/ Kind[i] \in x.has)
                THEN [y EXCEPT !.pc = "singleton"]
                ELSE IF accepted THEN [y EXCEPT !.pc = "occurrence"] ELSE ItemDone(y)]
  BY DEF Judge
<1> PICK verdict \in Verdicts[i], coords \in CoordsOf(i) :
        LET decision == Decision(i, x.has, verdict)
            accepted == decision = "accepted"
            y == [x EXCEPT !.item = i, !.coords = coords, !.accepted = accepted]
        IN /\ candidate' = [candidate EXCEPT ![Fingerprint[i]] =
                              Quarantined(Fingerprint[i], decision)]
           /\ execution' = [execution EXCEPT ![w] =
                IF Kind[i] \in LifeSingletons /\ (accepted \/ Kind[i] \in x.has)
                THEN [y EXCEPT !.pc = "singleton"]
                ELSE IF accepted THEN [y EXCEPT !.pc = "occurrence"] ELSE ItemDone(y)]
  BY <1>2
<1> DEFINE decision == Decision(i, x.has, verdict)
           accepted == decision = "accepted"
           y == [x EXCEPT !.item = i, !.coords = coords, !.accepted = accepted]
           z == IF Kind[i] \in LifeSingletons /\ (accepted \/ Kind[i] \in x.has)
                THEN [y EXCEPT !.pc = "singleton"]
                ELSE IF accepted THEN [y EXCEPT !.pc = "occurrence"] ELSE ItemDone(y)
<1>3. /\ candidate' = [candidate EXCEPT ![Fingerprint[i]] = Quarantined(Fingerprint[i], decision)]
      /\ execution' = [execution EXCEPT ![w] = z]
  BY <1>2
<1>4. i \in Items /\ decision \in Decisions /\ accepted \in BOOLEAN /\ coords \in Coordinates
  BY <1>1, DecisionType DEF Execution, CoordsOf, Coordinates, Places
<1> HIDE DEF decision, accepted
<1>5. y \in Execution /\ y.item = i /\ y.base = x.base /\ y.tally = x.tally
  BY <1>1, <1>4 DEF Execution
<1> HIDE DEF y
<1>6. /\ Moved(x, z) /\ z.pc \in {"next", "singleton", "occurrence"}
      /\ z.pc = "occurrence" => Kind[z.item] \notin LifeSingletons
  <2>1. CASE Kind[i] \in LifeSingletons /\ (accepted \/ Kind[i] \in x.has)
    <3>1. z = [y EXCEPT !.pc = "singleton"]
      BY <2>1
    <3>2. z \in Execution /\ z.pc = "singleton" /\ z.item = i /\ z.base = x.base /\ z.tally = x.tally
      BY <1>5, <3>1 DEF Execution, Working
    <3> QED BY <1>4, <3>2 DEF Moved, Placed
  <2>2. CASE ~(Kind[i] \in LifeSingletons /\ (accepted \/ Kind[i] \in x.has)) /\ accepted
    <3>1. z = [y EXCEPT !.pc = "occurrence"] /\ Kind[i] \notin LifeSingletons
      BY <2>2
    <3>2. /\ z \in Execution /\ z.pc = "occurrence" /\ z.item = i
          /\ z.base = x.base /\ z.tally = x.tally
      BY <1>5, <3>1 DEF Execution, Working
    <3> QED BY <1>4, <3>1, <3>2 DEF Moved, Placed
  <2>3. CASE ~(Kind[i] \in LifeSingletons /\ (accepted \/ Kind[i] \in x.has)) /\ ~accepted
    <3>1. z = ItemDone(y)
      BY <2>3
    <3>2. z \in Execution /\ z.pc = "next" /\ z.base = x.base /\ z.tally = x.tally
      BY <1>5, <3>1, DoneItem
    <3> QED BY <3>2 DEF Moved, Placed, Working
  <2> QED BY <2>1, <2>2, <2>3
<1> HIDE DEF z
<1>7. execution'[w] = z /\ \A v \in Executions : v # w => execution'[v] = execution[v]
  BY <1>3 DEF TypeInv, TypeOK
<1>8. candidate' \in [{Fingerprint[j] : j \in Items} -> Candidate] /\ Decided
  <2>1. candidate \in [{Fingerprint[j] : j \in Items} -> Candidate]
    BY DEF TypeInv, TypeOK
  <2>2. Fingerprint[i] \in {Fingerprint[j] : j \in Items}
    BY <1>4
  <2>3. \/ Quarantined(Fingerprint[i], decision) = candidate[Fingerprint[i]]
        \/ /\ candidate[Fingerprint[i]].status = "absent"
           /\ Quarantined(Fingerprint[i], decision) = [status |-> decision, event |-> 0]
    BY DEF Quarantined
  <2>4. Quarantined(Fingerprint[i], decision) \in Candidate
    BY <1>4, <2>1, <2>2, <2>3 DEF Candidate
  <2> QED BY <1>3, <1>4, <2>1, <2>2, <2>3, <2>4 DEF Decided
<1>9. TypeOK'
  BY <1>1, <1>3, <1>6, <1>8 DEF TypeInv, TypeOK, Moved
<1>10. \A e \in Events : EventKept(e)
  BY <1>1 DEF EventKept, Stored, Active
<1> QED BY <1>1, <1>6, <1>7, <1>8, <1>9, <1>10 DEF Acted, Moved

(* What is written over an event, or added.                                *)
LEMMA NewEventRow ==
    ASSUME NEW w \in Executions, NEW x \in Execution, x.item \in Items
    PROVE  /\ NewEvent(x, w) \in EventRow
           /\ NewEvent(x, w).state = "active" /\ NewEvent(x, w).by = w
           /\ NewEvent(x, w).title = Title[x.item]
<1> DEFINE locus == Kind[x.item] \in MapLocus
           geom == IF locus THEN x.coords ELSE None
           pinned == locus /\ x.coords # None
<1>1. NewEvent(x, w) = [state |-> "active", kind |-> Kind[x.item],
                        occurrence |-> Occurrence[x.item], title |-> Title[x.item],
                        place |-> Place[x.item], geom |-> geom, pinned |-> pinned, by |-> w]
  BY DEF NewEvent
<1>2. geom \in Coordinates
  BY DEF Execution, Coordinates, Places
<1>3. pinned \in BOOLEAN
  OBVIOUS
<1> HIDE DEF geom, pinned
<1> QED BY <1>1, <1>2, <1>3 DEF EventRow, Kinds, Occurrences, Titles, Places

(* A row that is moved on the map, otherwise as it was.                    *)
Placement(row, new) ==
    /\ new \in EventRow
    /\ new.kind = row.kind /\ new.occurrence = row.occurrence /\ new.title = row.title
    /\ new.by = row.by /\ new.state = row.state

LEMMA EnrichedRow ==
    ASSUME NEW row \in EventRow, NEW x \in Execution, x.item \in Items
    PROVE  Placement(row, Enriched(row, x))
<1> DEFINE pin == Kind[x.item] \in MapLocus
<1>1. Place[x.item] \in Places /\ x.coords \in Coordinates /\ pin \in BOOLEAN
  BY DEF Places, Execution
<1>2. CASE x.coords = None
  BY <1>1, <1>2 DEF Enriched, Placement, EventRow
<1>3. CASE x.coords # None
  <2>1. Enriched(row, x) =
          [row EXCEPT !.place = Place[x.item], !.geom = x.coords, !.pinned = pin]
    BY <1>3 DEF Enriched
  <2> HIDE DEF pin
  <2> QED BY <1>1, <2>1 DEF Placement, EventRow
<1> QED BY <1>2, <1>3

LEMMA LocatedRow ==
    ASSUME NEW row \in EventRow
    PROVE  Placement(row, Located(row))
<1> DEFINE pin == row.kind \in MapLocus
<1>1. row.place \in Coordinates /\ pin \in BOOLEAN
  BY DEF EventRow, Coordinates
<1>2. Located(row) = [row EXCEPT !.geom = row.place, !.pinned = pin]
  BY DEF Located
<1> HIDE DEF pin
<1> QED BY <1>1, <1>2 DEF Placement, EventRow

LEMMA PlacementStep ==
    ASSUME TypeInv, NEW e \in Events, NEW new, Placement(event[e], new),
           event' = [event EXCEPT ![e] = new]
    PROVE  /\ event' \in [Events -> EventRow] /\ Stored' = Stored
           /\ \A f \in Events : EventKept(f)
<1>1. event \in [Events -> EventRow] /\ event' \in [Events -> EventRow]
  BY DEF TypeInv, TypeOK, Placement
<1>2. \A f \in Events :
        /\ event'[f].kind = event[f].kind /\ event'[f].occurrence = event[f].occurrence
        /\ event'[f].title = event[f].title /\ event'[f].by = event[f].by
        /\ event'[f].state = event[f].state
  BY <1>1 DEF Placement
<1> QED BY <1>1, <1>2 DEF EventKept, Stored, Active

LEMMA InsertStep ==
    ASSUME TypeInv, NEW w \in Executions, Insert(w)
    PROVE  /\ Acted(w) /\ UNCHANGED <<candidate, evidence>> /\ execution[w].pc = "insert"
           /\ execution'[w].tally \subseteq execution[w].tally
           /\ execution'[w].pc \in {"again", "next", "gone", "evidence"}
           /\ execution'[w].pc = "evidence" => execution'[w].target \in Stored'
<1> DEFINE x == execution[w]
           i == x.item
<1>1. /\ x \in Execution /\ x.pc = "insert" /\ i \in Items /\ UNCHANGED <<candidate, evidence>>
      /\ x.pc \in Working \ {"next"}
  BY DEF TypeInv, TypeOK, Insert, Placed, Working
<1>2. CASE Violated(i) = {} /\ \E e \in Events \ Stored :
               /\ event' = [event EXCEPT ![e] = NewEvent(x, w)]
               /\ execution' = [execution EXCEPT ![w].target = e, ![w].pc = "evidence"]
  <2> DEFINE row == NewEvent(x, w)
  <2>1. PICK e \in Events \ Stored :
          /\ event' = [event EXCEPT ![e] = row]
          /\ execution' = [execution EXCEPT ![w].target = e, ![w].pc = "evidence"]
    BY <1>2
  <2> DEFINE y == [x EXCEPT !.target = e, !.pc = "evidence"]
  <2>2. execution' = [execution EXCEPT ![w] = y]
    BY <2>1
  <2>3. /\ y \in Execution /\ y.pc = "evidence" /\ y.target = e /\ y.item = x.item
        /\ y.base = x.base /\ y.tally = x.tally
    BY <1>1, <2>1 DEF Execution, Working
  <2> HIDE DEF y
  <2>4. execution'[w] = y /\ \A v \in Executions : v # w => execution'[v] = execution[v]
    BY <2>2 DEF TypeInv, TypeOK
  <2>5. row \in EventRow /\ row.state = "active" /\ row.by = w /\ row.title = Title[i]
    BY <1>1, NewEventRow
  <2> HIDE DEF row
  <2>6. event'[e] = row /\ \A f \in Events \ {e} : event'[f] = event[f]
    BY <2>1 DEF TypeInv, TypeOK
  <2>7. TypeOK'
    <3>1. event' \in [Events -> EventRow]
      BY <2>1, <2>5 DEF TypeInv, TypeOK
    <3>2. execution' \in [Executions -> Execution]
      BY <2>2, <2>3 DEF TypeInv, TypeOK
    <3> QED BY <1>1, <3>1, <3>2 DEF TypeInv, TypeOK
  <2>8. EventInserted(w, e)
    BY <1>1, <2>1, <2>3, <2>4, <2>5, <2>6 DEF EventInserted, Stored, Active
  <2>9. \A f \in Events \ {e} : EventKept(f)
    BY <2>6 DEF EventKept, Stored, Active
  <2>10. Placed(y) /\ y.pc # "idle"
    BY <1>1, <2>1, <2>3 DEF Placed
  <2> QED BY <1>1, <2>1, <2>3, <2>4, <2>7, <2>8, <2>9, <2>10 DEF Acted, EventInserted
<1>3. CASE \E index \in Violated(i) :
            /\ execution' = [execution EXCEPT ![w] =
                 IF index = "singleton" THEN [x EXCEPT !.pc = "again"] ELSE Erred(x)]
            /\ UNCHANGED event
  <2> DEFINE y == execution'[w]
  <2>1. UNCHANGED <<event, candidate, evidence>>
    BY <1>1, <1>3
  <2>2. CASE execution' = [execution EXCEPT ![w] = [x EXCEPT !.pc = "again"]]
    <3>1. Moved(x, [x EXCEPT !.pc = "again"]) /\ [x EXCEPT !.pc = "again"].pc = "again"
      BY <1>1, PcAction, MovedExecution DEF Working
    <3>2. Acted(w) /\ execution'[w] = [x EXCEPT !.pc = "again"]
      BY <2>1, <2>2, <3>1, LocalAction
    <3> QED BY <1>1, <3>1, <3>2 DEF Moved
  <2>3. CASE execution' = [execution EXCEPT ![w] = Erred(x)]
    <3>1. Acted(w) /\ execution'[w] = Erred(x)
      BY <2>1, <2>3, ErredAction, LocalAction
    <3> QED BY <1>1, <3>1, ErredExecution
  <2> QED BY <1>3, <2>2, <2>3
<1> QED BY <1>2, <1>3 DEF Insert

LEMMA EnrichStep ==
    ASSUME TypeInv, NEW w \in Executions, Enrich(w)
    PROVE  /\ Acted(w) /\ UNCHANGED <<candidate, evidence>> /\ Stored' = Stored
           /\ execution[w].pc = "enrich" /\ execution'[w].pc = "evidence"
           /\ execution'[w].target = execution[w].target
           /\ execution'[w].tally \subseteq execution[w].tally
<1> DEFINE x == execution[w]
           y == [x EXCEPT !.pc = "evidence"]
<1>1. /\ x \in Execution /\ x.pc = "enrich" /\ x.item \in Items /\ x.target \in Events
      /\ x.pc \in Working \ {"next"} /\ UNCHANGED <<candidate, evidence>>
      /\ execution' = [execution EXCEPT ![w] = y]
  BY DEF TypeInv, TypeOK, Enrich, Placed, Working
<1>2. y \in Execution /\ y.pc = "evidence" /\ y.target = x.target /\ Moved(x, y)
  BY <1>1, PcAction, MovedExecution DEF Working
<1> HIDE DEF y
<1>3. execution'[w] = y /\ \A v \in Executions : v # w => execution'[v] = execution[v]
  BY <1>1 DEF TypeInv, TypeOK
<1>4. event' \in [Events -> EventRow] /\ Stored' = Stored /\ \A e \in Events : EventKept(e)
  <2>1. CASE event' = event
    BY <2>1 DEF TypeInv, TypeOK, EventKept, Stored, Active
  <2>2. CASE event' = [event EXCEPT ![x.target] = Enriched(@, x)]
    <3>1. Placement(event[x.target], Enriched(event[x.target], x))
      BY <1>1, EnrichedRow DEF TypeInv, TypeOK
    <3> QED BY <1>1, <2>2, <3>1, PlacementStep
  <2> QED BY <2>1, <2>2 DEF Enrich
<1>5. TypeOK'
  BY <1>1, <1>2, <1>4 DEF TypeInv, TypeOK
<1> QED BY <1>1, <1>2, <1>3, <1>4, <1>5 DEF Acted, Moved

LEMMA GroundStep ==
    ASSUME TypeInv, NEW w \in Executions, Ground(w) \/ GroundEvent(w)
    PROVE  /\ Acted(w) /\ UNCHANGED <<candidate, evidence>> /\ execution'[w].pc = "ground"
           /\ execution'[w].tally \subseteq execution[w].tally
<1> DEFINE x == execution[w]
<1>1. x \in Execution /\ UNCHANGED <<candidate, evidence>>
  BY DEF TypeInv, TypeOK, Ground, GroundEvent
<1>2. \E left \in SUBSET Events :
        execution' = [execution EXCEPT ![w] = [x EXCEPT !.pc = "ground", !.toGround = left]]
  <2>1. CASE Ground(w)
    <3> DEFINE left == {e \in Active : event[e].place # None}
    <3>1. left \in SUBSET Events
      BY DEF Active
    <3>2. execution' = [execution EXCEPT ![w] = [x EXCEPT !.pc = "ground", !.toGround = left]]
      BY <2>1 DEF Ground
    <3> QED BY <3>1, <3>2
  <2>2. CASE GroundEvent(w)
    <3>1. PICK e \in x.toGround : execution' = [execution EXCEPT ![w].toGround = @ \ {e}]
      BY <2>2 DEF GroundEvent
    <3> DEFINE left == x.toGround \ {e}
    <3>2. left \in SUBSET Events /\ x.pc = "ground"
      BY <1>1, <2>2 DEF Execution, GroundEvent
    <3>3. [x EXCEPT !.pc = "ground", !.toGround = left] = [x EXCEPT !.toGround = left]
      BY <1>1, <3>2 DEF Execution
    <3>4. execution' = [execution EXCEPT ![w] = [x EXCEPT !.toGround = left]]
      BY <3>1
    <3> QED BY <3>2, <3>3, <3>4
  <2> QED BY <2>1, <2>2
<1>3. PICK left \in SUBSET Events :
        execution' = [execution EXCEPT ![w] = [x EXCEPT !.pc = "ground", !.toGround = left]]
  BY <1>2
<1> DEFINE y == [x EXCEPT !.pc = "ground", !.toGround = left]
<1>4. y \in Execution /\ y.pc = "ground" /\ y.base = x.base /\ y.tally = x.tally
  BY <1>1 DEF Execution
<1>5. execution' = [execution EXCEPT ![w] = y]
  BY <1>3
<1> HIDE DEF y
<1>6. execution'[w] = y /\ \A v \in Executions : v # w => execution'[v] = execution[v]
  BY <1>5 DEF TypeInv, TypeOK
<1>7. event' \in [Events -> EventRow] /\ \A e \in Events : EventKept(e)
  <2>1. CASE event' = event
    BY <2>1 DEF TypeInv, TypeOK, EventKept, Stored, Active
  <2>2. ASSUME NEW e \in Events, event' = [event EXCEPT ![e] = Located(@)]
        PROVE  event' \in [Events -> EventRow] /\ \A f \in Events : EventKept(f)
    <3>1. Placement(event[e], Located(event[e]))
      BY LocatedRow DEF TypeInv, TypeOK
    <3> QED BY <2>2, <3>1, PlacementStep
  <2> QED BY <1>1, <2>1, <2>2 DEF Ground, GroundEvent, Active
<1>8. TypeOK'
  BY <1>1, <1>4, <1>5, <1>7 DEF TypeInv, TypeOK
<1> QED BY <1>1, <1>4, <1>6, <1>7, <1>8 DEF Acted, Placed, Working

LEMMA InsertEvidenceStep ==
    ASSUME TypeInv, NEW w \in Executions, InsertEvidence(w)
    PROVE  LET x == execution[w]
               y == execution'[w]
           IN  /\ Acted(w) /\ UNCHANGED <<event, candidate>> /\ x.pc = "evidence"
               /\ y.pc = "assemble" /\ y.target = x.target /\ y.item = x.item
               /\ y.tally \subseteq x.tally /\ evidence' = evidence \cup {<<x.target, x.item>>}
<1> DEFINE x == execution[w]
           y == [x EXCEPT !.pc = "assemble"]
<1>1. /\ x \in Execution /\ x.pc = "evidence" /\ x.item \in Items /\ x.target \in Events
      /\ x.pc \in Working \ {"next"} /\ UNCHANGED <<event, candidate>>
      /\ execution' = [execution EXCEPT ![w] = y]
      /\ evidence' = evidence \cup {<<x.target, x.item>>}
  BY DEF TypeInv, TypeOK, InsertEvidence, Placed, Working
<1>2. y \in Execution /\ y.pc = "assemble" /\ y.target = x.target /\ y.item = x.item /\ Moved(x, y)
  BY <1>1, PcAction, MovedExecution DEF Working
<1> HIDE DEF y
<1>3. execution'[w] = y /\ \A v \in Executions : v # w => execution'[v] = execution[v]
  BY <1>1 DEF TypeInv, TypeOK
<1>4. TypeOK'
  BY <1>1, <1>2 DEF TypeInv, TypeOK
<1>5. \A e \in Events : EventKept(e)
  BY <1>1 DEF EventKept, Stored, Active
<1> QED BY <1>1, <1>2, <1>3, <1>4, <1>5 DEF Acted, Moved

LEMMA AssembleStep ==
    ASSUME TypeInv, NEW w \in Executions, Assemble(w)
    PROVE  LET x == execution[w]
               y == execution'[w]
           IN  /\ Acted(w) /\ UNCHANGED <<event, evidence>> /\ x.pc = "assemble"
               /\ x.item \in Items /\ y.pc = "next" /\ y.tally \subseteq x.tally \cup {x.item}
               /\ candidate' = [candidate EXCEPT ![Fingerprint[x.item]] =
                                  [status |-> "assembled", event |-> x.target]]
<1> DEFINE x == execution[w]
           learnt == ItemDone(x).has \cup ({Kind[x.item]} \cap LifeSingletons)
           counted == ItemDone(x).tally \cup {x.item}
           y == [ItemDone(x) EXCEPT !.has = learnt, !.tally = counted]
<1>1. /\ x \in Execution /\ x.pc = "assemble" /\ x.item \in Items /\ x.target \in Events
      /\ UNCHANGED <<event, evidence>>
      /\ execution' = [execution EXCEPT ![w] = y]
      /\ candidate' = [candidate EXCEPT ![Fingerprint[x.item]] =
                          [status |-> "assembled", event |-> x.target]]
  BY DEF TypeInv, TypeOK, Assemble, Placed, Working
<1>2. learnt \in SUBSET LifeSingletons /\ counted \in SUBSET Items
      /\ counted = x.tally \cup {x.item}
  <2>1. ItemDone(x) \in Execution /\ ItemDone(x).tally = x.tally
    BY <1>1, DoneItem
  <2> QED BY <1>1, <2>1 DEF Execution
<1> HIDE DEF learnt, counted
<1>3. y \in Execution /\ y.pc = "next" /\ y.base = x.base /\ y.tally = counted
  <2>1. ItemDone(x) \in Execution /\ ItemDone(x).pc = "next" /\ ItemDone(x).base = x.base
    BY <1>1, DoneItem
  <2> DEFINE d == ItemDone(x)
  <2> HIDE DEF d
  <2>2. d \in Execution /\ d.pc = "next" /\ d.base = x.base
    BY <2>1 DEF d
  <2>3. y = [d EXCEPT !.has = learnt, !.tally = counted]
    BY DEF d
  <2> QED BY <1>2, <2>2, <2>3 DEF Execution
<1> HIDE DEF y
<1>4. execution'[w] = y /\ \A v \in Executions : v # w => execution'[v] = execution[v]
  BY <1>1 DEF TypeInv, TypeOK
<1>5. TypeOK'
  <2>1. candidate' \in [{Fingerprint[j] : j \in Items} -> Candidate]
    BY <1>1 DEF TypeInv, TypeOK, Candidate
  <2> QED BY <1>1, <1>3, <2>1 DEF TypeInv, TypeOK
<1>6. \A e \in Events : EventKept(e)
  BY <1>1 DEF EventKept, Stored, Active
<1> QED BY <1>1, <1>2, <1>3, <1>4, <1>5, <1>6 DEF Acted, Placed

LEMMA DeactivateStep ==
    ASSUME TypeInv, NEW e \in Events, Deactivate(e)
    PROVE  /\ TypeInv' /\ UNCHANGED <<candidate, evidence, execution>> /\ Stored' = Stored
           /\ \A f \in Events : EventKept(f)
<1>1. /\ event \in [Events -> EventRow] /\ event[e].state = "active"
      /\ event' = [event EXCEPT ![e].state = "inactive"]
      /\ UNCHANGED <<candidate, evidence, execution>>
  BY DEF TypeInv, TypeOK, Deactivate, Active
<1>2. event' \in [Events -> EventRow]
  BY <1>1 DEF EventRow
<1>3. \A f \in Events :
        /\ event'[f].kind = event[f].kind /\ event'[f].occurrence = event[f].occurrence
        /\ event'[f].title = event[f].title /\ event'[f].by = event[f].by
        /\ f # e => event'[f].state = event[f].state
        /\ f = e => event'[f].state = "inactive"
  BY <1>1 DEF EventRow
<1>4. \A f \in Events : EventKept(f)
  BY <1>1, <1>3 DEF EventKept, Stored, Active
<1>5. Stored' = Stored
  BY <1>1, <1>3 DEF Stored
<1>6. TypeInv'
  BY <1>1, <1>2 DEF TypeInv, TypeOK, Placed
<1> QED BY <1>1, <1>4, <1>5, <1>6

-----------------------------------------------------------------------------
(* The disjuncts of an execution.                                          *)
Act(w) ==
    \/ Start(w) \/ Judge(w) \/ FindSingleton(w) \/ FindOccurrence(w) \/ FindTitle(w)
    \/ FindNearby(w) \/ Insert(w) \/ FindAgain(w) \/ Enrich(w) \/ InsertEvidence(w)
    \/ Assemble(w) \/ Ground(w) \/ GroundEvent(w) \/ Finish(w)
    \/ StatementFails(w) \/ Crash(w)

LEMMA SearchedStep ==
    ASSUME TypeInv, NEW w \in Executions,
           \/ FindSingleton(w) \/ FindOccurrence(w) \/ FindTitle(w) \/ FindNearby(w)
           \/ FindAgain(w)
    PROVE  Searched(w)
BY FindSingletonStep, FindOccurrenceStep, FindTitleStep, FindNearbyStep, FindAgainStep

LEMMA ActStep ==
    ASSUME TypeInv, NEW w \in Executions, Act(w)
    PROVE  Acted(w)
<1>1. CASE \/ Start(w) \/ Ground(w) \/ GroundEvent(w) \/ Finish(w)
           \/ StatementFails(w) \/ Crash(w)
  BY <1>1, StartStep, GroundStep, FinishStep, StopStep
<1>2. CASE \/ FindSingleton(w) \/ FindOccurrence(w) \/ FindTitle(w) \/ FindNearby(w)
           \/ FindAgain(w)
  BY <1>2, SearchedStep DEF Searched
<1>3. CASE Judge(w) \/ Insert(w) \/ Enrich(w)
  BY <1>3, JudgeStep, InsertStep, EnrichStep
<1>4. CASE InsertEvidence(w) \/ Assemble(w)
  BY <1>4, InsertEvidenceStep, AssembleStep
<1> QED BY <1>1, <1>2, <1>3, <1>4 DEF Act

(* The type is kept.                                                       *)
LEMMA TypeStep ==
    ASSUME TypeInv, [Next]_vars
    PROVE  TypeInv'
<1>1. ASSUME NEW w \in Executions, Act(w) PROVE TypeInv'
  BY <1>1, ActStep DEF Acted, TypeInv, Placed
<1>2. ASSUME NEW e \in Events, Deactivate(e) PROVE TypeInv'
  BY <1>2, DeactivateStep
<1>3. CASE UNCHANGED vars
  BY <1>3 DEF vars, TypeInv, TypeOK, Placed
<1> QED BY <1>1, <1>2, <1>3 DEF Next, Act

LEMMA TypeInit == Init => TypeInv
<1> SUFFICES ASSUME Init PROVE TypeInv
  OBVIOUS
<1>1. NoEvent \in EventRow
  BY DEF NoEvent, EventRow, Kinds, Occurrences, Titles, Places, Coordinates
<1>2. Idle \in Execution /\ Placed(Idle)
  BY DEF Idle, Execution, Placed, Working, Coordinates, Places
<1>3. [status |-> "absent", event |-> 0] \in Candidate
  BY DEF Candidate
<1> QED BY <1>1, <1>2, <1>3 DEF Init, TypeInv, TypeOK

(* The tables and the executions keep their type, whatever is extracted    *)
(* and however many executions overlap, fail and crash.                    *)
THEOREM TypeCorrect == Spec => []TypeOK
<1>1. TypeInv => TypeOK
  BY DEF TypeInv
<1> QED BY <1>1, TypeInit, TypeStep, PTL DEF Spec

-----------------------------------------------------------------------------
(* What an action does to the events, in the form the conjuncts need it.   *)
LEMMA EventStep ==
    ASSUME NEW w \in Executions, Acted(w), NEW e \in Events
    PROVE  /\ e \in Stored => e \in Stored'
           /\ EventKept(e) \/ EventInserted(w, e)
           /\ \A f \in Events : EventInserted(w, e) /\ f # e => EventKept(f)
<1>1. CASE \A f \in Events : EventKept(f)
  <2>1. ASSUME NEW f \in Events PROVE ~EventInserted(w, f)
    BY <1>1, <2>1 DEF EventKept, EventInserted
  <2> QED BY <1>1, <2>1 DEF EventKept
<1>2. CASE \E n \in Events : EventInserted(w, n) /\ \A f \in Events \ {n} : EventKept(f)
  <2>1. PICK n \in Events : EventInserted(w, n) /\ \A f \in Events \ {n} : EventKept(f)
    BY <1>2
  <2>2. e # n => ~EventInserted(w, e)
    BY <2>1 DEF EventKept, EventInserted
  <2> QED BY <2>1, <2>2 DEF EventKept, EventInserted
<1> QED BY <1>1, <1>2 DEF Acted

LEMMA BasedStep ==
    ASSUME TypeInv, NEW w \in Executions, Acted(w), \A v \in Executions : Based(v)
    PROVE  \A v \in Executions : Based(v)'
<1> SUFFICES ASSUME NEW v \in Executions PROVE Based(v)'
  OBVIOUS
<1>1. Stored \subseteq Stored'
  BY EventStep DEF Stored
<1>2. execution'[v].base \subseteq Stored
  BY DEF Acted, Based
<1> QED BY <1>1, <1>2 DEF Based

LEMMA AuthoredStep ==
    ASSUME TypeInv, NEW w \in Executions, Acted(w), Authored
    PROVE  Authored'
<1> SUFFICES ASSUME NEW e \in Stored'
             PROVE  event'[e].by \in Executions /\ execution'[event'[e].by].pc # "idle"
  BY DEF Authored
<1>1. e \in Events
  BY DEF Stored
<1>2. CASE EventKept(e)
  BY <1>1, <1>2 DEF EventKept, Authored, Acted
<1>3. CASE EventInserted(w, e)
  BY <1>3 DEF EventInserted, Acted
<1> QED BY <1>1, <1>2, <1>3, EventStep

(* What the step inserts is not by v, and v has not started with it.       *)
OthersInsert(v) == \A e \in Events : EventKept(e) \/ (event'[e].by # v /\ e \notin Stored)

(* The execution that is not acting: what others insert is unseen by it.   *)
LEMMA LookedUpOther ==
    ASSUME TypeInv, NEW v \in Executions, Based(v), LookedUp(v),
           execution'[v] = execution[v],
           OthersInsert(v)
    PROVE  LookedUp(v)'
<1> DEFINE x == execution[v]
<1>1. ASSUME NEW e \in Events, EventKept(e), Unseen(v, e)
      PROVE  Unseen(v, e)'
  BY <1>1 DEF EventKept, Unseen
<1>2. ASSUME NEW e \in Events, ~EventKept(e)
      PROVE  Unseen(v, e)'
  BY <1>2 DEF Unseen, Based, OthersInsert
<1>3. ASSUME NEW e \in Events, EventKept(e)
      PROVE  /\ \A kind : e \in ActiveOfKind(kind)' => e \in ActiveOfKind(kind)
             /\ \A i : e \in OfOccurrence(i)' => e \in OfOccurrence(i)
             /\ \A i : e \in OfTitle(i)' => e \in OfTitle(i)
  BY <1>3 DEF EventKept, ActiveOfKind, OfOccurrence, OfTitle
<1>4. /\ \A kind : ActiveOfKind(kind)' \subseteq Events
      /\ \A i : OfOccurrence(i)' \subseteq Events /\ OfTitle(i)' \subseteq Events
  BY DEF ActiveOfKind, OfOccurrence, OfTitle, Active
<1>5. x.pc \in {"occurrence", "title", "nearby", "insert"} /\ Kind[x.item] \in LifeSingletons =>
        \A e \in ActiveOfKind(Kind[x.item])' : Unseen(v, e)'
  BY <1>1, <1>2, <1>3, <1>4 DEF LookedUp
<1>6. x.pc \in {"title", "nearby", "insert"} => \A e \in OfOccurrence(x.item)' : Unseen(v, e)'
  BY <1>1, <1>2, <1>3, <1>4 DEF LookedUp
<1>7. x.pc \in {"nearby", "insert"} => \A e \in OfTitle(x.item)' : Unseen(v, e)'
  BY <1>1, <1>2, <1>3, <1>4 DEF LookedUp
<1> QED BY <1>5, <1>6, <1>7 DEF LookedUp

(* The execution that is looking up.                                       *)
LEMMA LookedUpSearch ==
    ASSUME TypeInv, NEW w \in Executions, LookedUp(w), Searched(w)
    PROVE  LookedUp(w)'
<1> DEFINE x == execution[w]
           y == execution'[w]
<1>1. CASE y.pc \in {"enrich", "next", "gone"}
  BY <1>1 DEF LookedUp
<1>2. CASE y.pc \in {"occurrence", "title", "nearby", "insert"}
  <2>1. y.item = x.item /\ y.base = x.base
    BY <1>2 DEF Searched, Acted, TypeInv, TypeOK, Working
  <2>2. /\ \A kind : ActiveOfKind(kind)' = ActiveOfKind(kind)
        /\ \A i : OfOccurrence(i)' = OfOccurrence(i) /\ OfTitle(i)' = OfTitle(i)
        /\ \A e : Unseen(w, e)' <=> Unseen(w, e)
    BY <2>1 DEF Searched, ActiveOfKind, OfOccurrence, OfTitle, Active, Unseen
  <2>3. Kind[x.item] \in LifeSingletons => \A e \in ActiveOfKind(Kind[x.item]) : Unseen(w, e)
    BY <1>2 DEF LookedUp, Searched
  <2>4. y.pc \in {"title", "nearby", "insert"} => \A e \in OfOccurrence(x.item) : Unseen(w, e)
    BY <1>2 DEF LookedUp, Searched
  <2>5. y.pc \in {"nearby", "insert"} => \A e \in OfTitle(x.item) : Unseen(w, e)
    BY <1>2 DEF LookedUp, Searched
  <2> QED BY <2>1, <2>2, <2>3, <2>4, <2>5 DEF LookedUp
<1> QED BY <1>1, <1>2 DEF Searched

LEMMA LookedUpStep ==
    ASSUME TypeInv, NEW w \in Executions, Act(w),
           \A v \in Executions : Based(v) /\ LookedUp(v)
    PROVE  \A v \in Executions : LookedUp(v)'
<1> SUFFICES ASSUME NEW v \in Executions PROVE LookedUp(v)'
  OBVIOUS
<1>1. Acted(w)
  BY ActStep
<1>2. CASE v # w
  <2>1. execution'[v] = execution[v]
    BY <1>1, <1>2 DEF Acted
  <2>2. OthersInsert(v)
    BY <1>1, <1>2, EventStep DEF EventInserted, OthersInsert
  <2> QED BY <2>1, <2>2, LookedUpOther
<1>3. CASE v = w
  <2>1. CASE \/ FindSingleton(w) \/ FindOccurrence(w) \/ FindTitle(w) \/ FindNearby(w)
             \/ FindAgain(w)
    BY <1>3, <2>1, SearchedStep, LookedUpSearch
  <2>2. CASE Judge(w)
    <3>1. /\ execution'[w].pc \in {"next", "singleton", "occurrence"}
          /\ execution'[w].pc = "occurrence" => Kind[execution'[w].item] \notin LifeSingletons
      BY <2>2, JudgeStep
    <3> QED BY <1>3, <3>1 DEF LookedUp
  <2>3. ASSUME execution'[w].pc \notin {"occurrence", "title", "nearby", "insert"}
        PROVE  LookedUp(w)'
    BY <2>3 DEF LookedUp
  <2>4. CASE \/ Start(w) \/ Ground(w) \/ GroundEvent(w) \/ Finish(w)
             \/ StatementFails(w) \/ Crash(w)
    BY <1>3, <2>3, <2>4, StartStep, GroundStep, FinishStep, StopStep
  <2>5. CASE Insert(w) \/ Enrich(w)
    BY <1>3, <2>3, <2>5, InsertStep, EnrichStep
  <2>6. CASE InsertEvidence(w) \/ Assemble(w)
    BY <1>3, <2>3, <2>6, InsertEvidenceStep, AssembleStep
  <2> QED BY <2>1, <2>2, <2>4, <2>5, <2>6 DEF Act
<1> QED BY <1>2, <1>3

(* Two active events with one headline.  If neither is new, they were so   *)
(* before; if one is, its execution has looked for the other and has not   *)
(* found it.                                                               *)
LEMMA DuplicatesStep ==
    ASSUME TypeInv, NEW w \in Executions, Acted(w), Authored,
           \A v \in Executions : Based(v) /\ LookedUp(v), DuplicatesNeedARace
    PROVE  DuplicatesNeedARace'
<1> SUFFICES ASSUME NEW e \in Active', NEW f \in Active', e # f, event'[e].title = event'[f].title
             PROVE  event'[e].by # event'[f].by /\ e \notin execution'[event'[f].by].base
  BY DEF DuplicatesNeedARace
<1>1. e \in Events /\ f \in Events /\ Active \subseteq Stored
  BY DEF Active, Stored
<1>2. CASE EventKept(e) /\ EventKept(f)
  <2>1. e \in Active /\ f \in Active /\ event[e].title = event[f].title
        /\ event'[e].by = event[e].by /\ event'[f].by = event[f].by
    BY <1>2 DEF EventKept
  <2>2. event[e].by # event[f].by /\ e \notin execution[event[f].by].base
    BY <2>1 DEF DuplicatesNeedARace
  <2>3. event[f].by \in Executions /\ execution[event[f].by].pc # "idle"
    BY <1>1, <2>1 DEF Authored
  <2>4. execution'[event[f].by].base = execution[event[f].by].base
    BY <2>3 DEF Acted
  <2> QED BY <2>1, <2>2, <2>4
<1>3. CASE EventInserted(w, e) /\ EventKept(f)
  <2>1. f \in OfTitle(execution[w].item)
    BY <1>3 DEF EventInserted, EventKept, OfTitle
  <2>2. event[f].by # w
    BY <1>3, <2>1 DEF LookedUp, EventInserted, Unseen
  <2>3. event[f].by \in Executions /\ f \in Active
    BY <1>1, <1>3 DEF Authored, EventKept
  <2>4. execution'[event[f].by] = execution[event[f].by]
    BY <2>2, <2>3 DEF Acted
  <2>5. e \notin execution[event[f].by].base
    BY <1>3, <2>3 DEF Based, EventInserted
  <2> QED BY <1>3, <2>2, <2>4, <2>5 DEF EventInserted, EventKept
<1>4. CASE EventKept(e) /\ EventInserted(w, f)
  <2>1. e \in OfTitle(execution[w].item)
    BY <1>4 DEF EventInserted, EventKept, OfTitle
  <2>2. Unseen(w, e)
    BY <1>4, <2>1 DEF LookedUp, EventInserted
  <2> QED BY <1>4, <2>2 DEF EventInserted, EventKept, Unseen
<1>5. ~(EventInserted(w, e) /\ EventInserted(w, f))
  BY <1>1, EventStep DEF EventInserted, EventKept
<1> QED BY <1>1, <1>2, <1>3, <1>4, <1>5, EventStep

(* An event is stored before it is a target, and quoted before it is       *)
(* assembled.                                                              *)
LEMMA QuotedStep ==
    ASSUME TypeInv, NEW w \in Executions, Act(w), Quoted
    PROVE  Quoted'
<1>1. Acted(w)
  BY ActStep
<1>2. Stored \subseteq Stored' /\ Active \subseteq Stored
  BY <1>1, EventStep DEF Stored, Active
<1>3. \/ evidence' = evidence
      \/ /\ execution[w].pc = "evidence"
         /\ evidence' = evidence \cup {<<execution[w].target, execution[w].item>>}
  <2>1. CASE \/ Start(w) \/ Ground(w) \/ GroundEvent(w) \/ Finish(w)
             \/ StatementFails(w) \/ Crash(w)
    BY <2>1, StartStep, GroundStep, FinishStep, StopStep
  <2>2. CASE \/ FindSingleton(w) \/ FindOccurrence(w) \/ FindTitle(w) \/ FindNearby(w)
             \/ FindAgain(w)
    BY <2>2, SearchedStep DEF Searched
  <2>3. CASE Judge(w) \/ Insert(w) \/ Enrich(w)
    BY <2>3, JudgeStep, InsertStep, EnrichStep
  <2>4. CASE InsertEvidence(w) \/ Assemble(w)
    BY <2>4, InsertEvidenceStep, AssembleStep
  <2> QED BY <2>1, <2>2, <2>3, <2>4 DEF Act
<1>4. evidence \subseteq evidence'
  BY <1>3
<1>5. \A e \in Events, i \in Items : <<e, i>> \in evidence' => e \in Stored'
  BY <1>2, <1>3 DEF Quoted
<1>6. execution'[w].pc \in {"enrich", "evidence", "assemble"} => execution'[w].target \in Stored'
  <2>1. CASE \/ Start(w) \/ Ground(w) \/ GroundEvent(w) \/ Finish(w)
             \/ StatementFails(w) \/ Crash(w)
    BY <2>1, StartStep, GroundStep, FinishStep, StopStep
  <2>2. CASE \/ FindSingleton(w) \/ FindOccurrence(w) \/ FindTitle(w) \/ FindNearby(w)
             \/ FindAgain(w)
    BY <1>2, <2>2, SearchedStep DEF Searched
  <2>3. CASE Judge(w) \/ Insert(w)
    BY <2>3, JudgeStep, InsertStep
  <2>4. CASE Enrich(w)
    BY <1>2, <2>4, EnrichStep DEF Quoted
  <2>5. CASE InsertEvidence(w)
    BY <1>2, <2>5, InsertEvidenceStep DEF Quoted
  <2>6. CASE Assemble(w)
    BY <2>6, AssembleStep
  <2> QED BY <2>1, <2>2, <2>3, <2>4, <2>5, <2>6 DEF Act
<1>7. execution'[w].pc = "assemble" =>
        <<execution'[w].target, execution'[w].item>> \in evidence'
  <2>1. CASE \/ Start(w) \/ Ground(w) \/ GroundEvent(w) \/ Finish(w)
             \/ StatementFails(w) \/ Crash(w)
    BY <2>1, StartStep, GroundStep, FinishStep, StopStep
  <2>2. CASE \/ FindSingleton(w) \/ FindOccurrence(w) \/ FindTitle(w) \/ FindNearby(w)
             \/ FindAgain(w)
    BY <2>2, SearchedStep DEF Searched
  <2>3. CASE Judge(w) \/ Insert(w) \/ Enrich(w)
    BY <2>3, JudgeStep, InsertStep, EnrichStep
  <2>4. CASE InsertEvidence(w)
    BY <2>4, InsertEvidenceStep
  <2>5. CASE Assemble(w)
    BY <2>5, AssembleStep
  <2> QED BY <2>1, <2>2, <2>3, <2>4, <2>5 DEF Act
<1>8. \A v \in Executions : v # w => execution'[v] = execution[v]
  BY <1>1 DEF Acted
<1>9. \A v \in Executions :
        execution'[v].pc \in {"enrich", "evidence", "assemble"} => execution'[v].target \in Stored'
  BY <1>2, <1>6, <1>8 DEF Quoted
<1>10. \A v \in Executions :
         execution'[v].pc = "assemble" => <<execution'[v].target, execution'[v].item>> \in evidence'
  BY <1>4, <1>7, <1>8 DEF Quoted
<1> QED BY <1>5, <1>9, <1>10 DEF Quoted

(* A candidate is assembled, and its item counted, after it was quoted.    *)
Assembled(w) ==
    LET x == execution[w] IN
    /\ x.pc = "assemble" /\ x.item \in Items
    /\ execution'[w].tally \subseteq x.tally \cup {x.item}
    /\ candidate' = [candidate EXCEPT ![Fingerprint[x.item]] =
                       [status |-> "assembled", event |-> x.target]]

LEMMA CandidateStep ==
    ASSUME TypeInv, NEW w \in Executions, Act(w)
    PROVE  /\ evidence \subseteq evidence'
           /\ \/ Decided /\ execution'[w].tally \subseteq execution[w].tally
              \/ Assembled(w)
<1>1. candidate' = candidate => Decided
  BY DEF Decided
<1>2. CASE \/ Start(w) \/ Ground(w) \/ GroundEvent(w) \/ Finish(w)
           \/ StatementFails(w) \/ Crash(w)
  BY <1>1, <1>2, StartStep, GroundStep, FinishStep, StopStep
<1>3. CASE \/ FindSingleton(w) \/ FindOccurrence(w) \/ FindTitle(w) \/ FindNearby(w)
           \/ FindAgain(w)
  BY <1>1, <1>3, SearchedStep DEF Searched
<1>4. CASE Judge(w) \/ Insert(w) \/ Enrich(w)
  BY <1>1, <1>4, JudgeStep, InsertStep, EnrichStep
<1>5. CASE InsertEvidence(w)
  BY <1>1, <1>5, InsertEvidenceStep
<1>6. CASE Assemble(w)
  BY <1>6, AssembleStep DEF Assembled
<1> QED BY <1>2, <1>3, <1>4, <1>5, <1>6 DEF Act

LEMMA AssembledStep ==
    ASSUME TypeInv, NEW w \in Executions, Act(w), Quoted, AssembledIsBacked
    PROVE  AssembledIsBacked'
<1> DEFINE D == {Fingerprint[i] : i \in Items}
           x == execution[w]
<1>1. candidate \in [D -> Candidate] /\ candidate' \in [D -> Candidate]
  BY TypeStep, ActStep DEF TypeInv, TypeOK, Acted
<1>2. evidence \subseteq evidence'
  BY CandidateStep
<1> SUFFICES ASSUME NEW f \in D, candidate'[f].status = "assembled"
             PROVE  \E i \in Items : Fingerprint[i] = f /\ <<candidate'[f].event, i>> \in evidence'
  BY <1>1 DEF AssembledIsBacked
<1>3. CASE candidate'[f] = candidate[f]
  BY <1>1, <1>2, <1>3 DEF AssembledIsBacked
<1>4. CASE Decided
  BY <1>1, <1>3, <1>4 DEF Decided, Decisions
<1>5. CASE Assembled(w) /\ f = Fingerprint[x.item]
  <2>1. candidate'[f].event = x.target /\ x.item \in Items
    BY <1>1, <1>5 DEF Assembled
  <2>2. <<x.target, x.item>> \in evidence
    BY <1>5 DEF Assembled, Quoted
  <2> QED BY <1>2, <1>5, <2>1, <2>2
<1>6. CASE Assembled(w) /\ f # Fingerprint[x.item]
  BY <1>1, <1>3, <1>6 DEF Assembled
<1> QED BY <1>4, <1>5, <1>6, CandidateStep

LEMMA TallyStep ==
    ASSUME TypeInv, NEW w \in Executions, Act(w), Quoted, TallyIsBacked
    PROVE  TallyIsBacked'
<1> DEFINE D == {Fingerprint[i] : i \in Items}
           x == execution[w]
<1>1. /\ candidate \in [D -> Candidate]
      /\ \A v \in Executions : execution[v].tally \subseteq Items
  BY DEF TypeInv, TypeOK, Execution
<1>2. Acted(w) /\ evidence \subseteq evidence' /\ Stored \subseteq Stored'
  BY ActStep, CandidateStep, EventStep DEF Stored
<1>3. ASSUME NEW i \in Items, candidate[Fingerprint[i]].status = "assembled"
      PROVE  candidate'[Fingerprint[i]].status = "assembled"
  <2>1. Fingerprint[i] \in D
    OBVIOUS
  <2>2. CASE Decided
    BY <1>1, <1>3, <2>1, <2>2 DEF Decided
  <2>3. CASE Assembled(w)
    BY <1>1, <1>3, <2>1, <2>3 DEF Assembled
  <2> QED BY <2>2, <2>3, CandidateStep
<1>4. ASSUME NEW v \in Executions, NEW i \in execution[v].tally
      PROVE  /\ candidate'[Fingerprint[i]].status = "assembled"
             /\ \E e \in Stored' : <<e, i>> \in evidence'
  BY <1>1, <1>2, <1>3 DEF TallyIsBacked
<1>5. ASSUME Assembled(w)
      PROVE  /\ candidate'[Fingerprint[x.item]].status = "assembled"
             /\ \E e \in Stored' : <<e, x.item>> \in evidence'
  <2>1. <<x.target, x.item>> \in evidence /\ x.target \in Stored
    BY <1>5 DEF Assembled, Quoted
  <2> QED BY <1>1, <1>2, <1>5, <2>1 DEF Assembled
<1> SUFFICES ASSUME NEW v \in Executions, NEW i \in execution'[v].tally
             PROVE  /\ candidate'[Fingerprint[i]].status = "assembled"
                    /\ \E e \in Stored' : <<e, i>> \in evidence'
  BY DEF TallyIsBacked
<1>6. i \in execution[v].tally \/ (Assembled(w) /\ i = x.item)
  BY <1>2, CandidateStep DEF Acted, Assembled
<1> QED BY <1>4, <1>5, <1>6

-----------------------------------------------------------------------------
(* The invariant.                                                          *)
LEMMA PersonInit == Init => PersonInv
<1> SUFFICES ASSUME Init PROVE PersonInv
  OBVIOUS
<1>1. /\ \A e \in Events : event[e].state = "absent"
      /\ \A f \in DOMAIN candidate : candidate[f].status = "absent"
      /\ \A w \in Executions :
           execution[w].pc = "idle" /\ execution[w].tally = {} /\ execution[w].base = {}
  BY DEF Init, NoEvent, Idle
<1>2. Stored = {} /\ Active = {} /\ evidence = {}
  BY <1>1 DEF Stored, Active, Init
<1>3. \A w \in Executions : Based(w) /\ LookedUp(w)
  BY <1>1 DEF Based, LookedUp
<1>4. Authored /\ Quoted /\ DuplicatesNeedARace
  BY <1>1, <1>2 DEF Authored, Quoted, DuplicatesNeedARace
<1>5. AssembledIsBacked /\ TallyIsBacked
  BY <1>1 DEF AssembledIsBacked, TallyIsBacked
<1> QED BY <1>3, <1>4, <1>5, TypeInit DEF PersonInv

LEMMA PersonDeactivate ==
    ASSUME PersonInv, NEW d \in Events, Deactivate(d)
    PROVE  PersonInv'
<1>1. /\ TypeInv' /\ UNCHANGED <<candidate, evidence, execution>> /\ Stored' = Stored
      /\ \A e \in Events : EventKept(e)
  BY DeactivateStep DEF PersonInv
<1>2. \A v \in Executions : Based(v)'
  BY <1>1 DEF PersonInv, Based
<1>3. ASSUME NEW v \in Executions PROVE LookedUp(v)'
  <2>1. OthersInsert(v) /\ execution'[v] = execution[v]
    BY <1>1 DEF OthersInsert
  <2>2. TypeInv /\ Based(v) /\ LookedUp(v)
    BY DEF PersonInv
  <2> QED BY <2>1, <2>2, LookedUpOther
<1>4. Authored'
  BY <1>1 DEF PersonInv, Authored, EventKept, Stored
<1>5. Quoted' /\ AssembledIsBacked' /\ TallyIsBacked'
  BY <1>1 DEF PersonInv, Quoted, AssembledIsBacked, TallyIsBacked
<1>6. DuplicatesNeedARace'
  BY <1>1 DEF PersonInv, DuplicatesNeedARace, EventKept, Active
<1> QED BY <1>1, <1>2, <1>3, <1>4, <1>5, <1>6 DEF PersonInv

LEMMA PersonStep ==
    ASSUME PersonInv, [Next]_vars
    PROVE  PersonInv'
<1>1. TypeInv'
  BY TypeStep DEF PersonInv
<1>2. ASSUME NEW w \in Executions, Act(w) PROVE PersonInv'
  <2>1. TypeInv /\ Acted(w)
    BY <1>2, ActStep DEF PersonInv
  <2>2. \A v \in Executions : Based(v)'
    BY <2>1, BasedStep DEF PersonInv
  <2>3. \A v \in Executions : LookedUp(v)'
    BY <1>2, <2>1, LookedUpStep DEF PersonInv
  <2>4. Authored'
    BY <2>1, AuthoredStep DEF PersonInv
  <2>5. Quoted'
    BY <1>2, <2>1, QuotedStep DEF PersonInv
  <2>6. AssembledIsBacked' /\ TallyIsBacked'
    BY <1>2, <2>1, AssembledStep, TallyStep DEF PersonInv
  <2>7. DuplicatesNeedARace'
    BY <2>1, DuplicatesStep DEF PersonInv
  <2> QED BY <1>1, <2>2, <2>3, <2>4, <2>5, <2>6, <2>7 DEF PersonInv
<1>3. ASSUME NEW d \in Events, Deactivate(d) PROVE PersonInv'
  BY <1>3, PersonDeactivate
<1>4. CASE UNCHANGED vars
  <2>1. UNCHANGED <<event, candidate, evidence, execution>>
    BY <1>4 DEF vars
  <2>2. UNCHANGED Stored /\ UNCHANGED Active
    BY <2>1 DEF Stored, Active
  <2>3. \A v \in Executions : Based(v)' /\ LookedUp(v)'
    BY <2>1, <2>2 DEF PersonInv, Based, LookedUp, Unseen, ActiveOfKind, OfOccurrence, OfTitle
  <2>4. Authored' /\ Quoted'
    BY <2>1, <2>2 DEF PersonInv, Authored, Quoted
  <2>5. AssembledIsBacked' /\ TallyIsBacked' /\ DuplicatesNeedARace'
    BY <2>1, <2>2 DEF PersonInv, AssembledIsBacked, TallyIsBacked, DuplicatesNeedARace
  <2> QED BY <1>1, <2>3, <2>4, <2>5 DEF PersonInv
<1> QED BY <1>2, <1>3, <1>4 DEF Next, Act

(* The inductive invariant of the persistence.                             *)
THEOREM PersonInvariant == Spec => []PersonInv
BY PersonInit, PersonStep, PTL DEF Spec

(* An assembled candidate can be followed to a quote, although the         *)
(* statements of an item are not one transaction.                          *)
THEOREM AssembledCandidatesAreBacked == Spec => []AssembledIsBacked
<1>1. PersonInv => AssembledIsBacked
  BY DEF PersonInv
<1> QED BY <1>1, PersonInvariant, PTL

(* What a report counts is on some event and stays assembled.              *)
THEOREM TalliesAreBacked == Spec => []TallyIsBacked
<1>1. PersonInv => TallyIsBacked
  BY DEF PersonInv
<1> QED BY <1>1, PersonInvariant, PTL

(* Two active events share a headline only if the executions that inserted *)
(* them overlapped.                                                        *)
THEOREM DuplicatesComeOfRaces == Spec => []DuplicatesNeedARace
<1>1. PersonInv => DuplicatesNeedARace
  BY DEF PersonInv
<1> QED BY <1>1, PersonInvariant, PTL

(* A unique index refuses an insert only because of an execution that      *)
(* overlaps.                                                               *)
THEOREM RefusalsComeOfRaces == Spec => []RefusalNeedsARace
<1>1. PersonInv => RefusalNeedsARace
  <2> SUFFICES ASSUME PersonInv, NEW w \in Executions, execution[w].pc = "insert", NEW e \in Active,
                      \/ event[e].occurrence = Occurrence[execution[w].item]
                      \/ /\ Kind[execution[w].item] \in LifeSingletons
                         /\ event[e].kind = Kind[execution[w].item]
               PROVE  Unseen(w, e)
    BY DEF RefusalNeedsARace, Unseen
  <2>1. CASE event[e].occurrence = Occurrence[execution[w].item]
    BY <2>1 DEF PersonInv, LookedUp, OfOccurrence
  <2>2. CASE /\ Kind[execution[w].item] \in LifeSingletons
             /\ event[e].kind = Kind[execution[w].item]
    BY <2>2 DEF PersonInv, LookedUp, ActiveOfKind
  <2> QED BY <2>1, <2>2
<1> QED BY <1>1, PersonInvariant, PTL
=============================================================================
