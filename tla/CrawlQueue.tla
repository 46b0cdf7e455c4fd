----------------------------- MODULE CrawlQueue -----------------------------
(***************************************************************************)
(* The crawl queue of the person pipeline                                  *)
(* (talaria-api/src/person_ingest/crawl_queue.rs) and the part of          *)
(* run_person_ingest_inner that fills, sorts and empties it.               *)
(*                                                                         *)
(* A title stands for its lower-case key.  What a page links to, which     *)
(* events Wikidata knows and what the seed list holds are inputs.  Nothing *)
(* runs concurrently: what is hard is what the order of discovery, the     *)
(* tiers, the budget and pages that cannot be read make of each other.     *)
(***************************************************************************)
EXTENDS Naturals, Sequences, FiniteSets, SequencesExt, TLC

CONSTANTS
    Titles,
    Tier,           \* [Titles -> Low..Core]: classify_link_priority by the title alone
    Followable,     \* is_followable_map_title
    Overviews,      \* is_overview_title
    Languages,      \* how many Wikipedias are asked for the subject
    FollowCap,      \* follow_cap
    LinkLists,      \* the links of a page, the events, the seeds: sequences of titles
    EventLists,
    SeedLists

Core == 0
High == 1
Medium == 2
Low == 3

ASSUME CrawlAssumption ==
    /\ Tier \in [Titles -> {Core, High, Medium, Low}]
    /\ Followable \subseteq Titles /\ Overviews \subseteq Titles
    /\ Languages \in Nat /\ FollowCap \in Nat
    /\ LinkLists \cup EventLists \cup SeedLists \subseteq Seq(Titles)

VARIABLES
    phase,          \* where run_person_ingest_inner is
    language,       \* how many languages have been asked
    items,          \* PriorityCrawlQueue.items; `rank` is history: the order of discovery
    seen,           \* PriorityCrawlQueue.seen, without the keys lang:title
    nextIndex,      \* PriorityCrawlQueue.next_index
    wikiPages,      \* wiki_pages at the end of the language loop
    followed,       \* followed
    readable,       \* external: the titles whose page can be read
    events          \* history: what the participation harvest offered

crawlVars == <<phase, language, items, seen, nextIndex, wikiPages, followed, events,
               readable>>

CrawlItems == [title : Titles, tier : {Core, High, Medium, Low}, rank : Nat]

CrawlTypeOK ==
    /\ phase \in {"languages", "seeds", "sort", "follow", "done"}
    /\ language \in 0 .. Languages
    /\ items \in Seq(CrawlItems)
    /\ seen \subseteq Titles
    /\ nextIndex \in 0 .. Len(items)
    /\ wikiPages \in 0 .. Languages
    /\ followed \in 0 .. Len(items)
    /\ events \subseteq Titles
    /\ readable \subseteq Titles
    /\ \A k \in 1 .. Len(items) : items[k].title \in seen

CrawlInit ==
    /\ phase = "languages"
    /\ language = 0
    /\ items = <<>>
    /\ seen = {}
    /\ nextIndex = 0
    /\ wikiPages = 0
    /\ followed = 0
    /\ events = {}
    /\ readable \in SUBSET Titles

-----------------------------------------------------------------------------
(* Filling.                                                                *)

(* crawl_items_from_page_links, crawl_items_from_wdqs: the first titles of *)
(* a list that may be followed, at most follow_cap, before any dedup.      *)
Offer(titles) ==
    FoldLeft(LAMBDA out, t : IF Len(out) < FollowCap /\ t \in Followable
                             THEN Append(out, t) ELSE out,
             <<>>, titles)

\* Mutant of Push: the title is not remembered.
PushForgetful(queue, title, tier) ==
    IF title \in queue.seen THEN queue
    ELSE [queue EXCEPT !.items = Append(@, [title |-> title, tier |-> tier,
                                            rank |-> Len(@) + 1])]
(* push: a title that has been seen keeps the place and tier it has.       *)
Push(queue, title, tier) ==
    IF title \in queue.seen THEN queue
    ELSE [items |-> Append(queue.items, [title |-> title, tier |-> tier,
                                         rank |-> Len(queue.items) + 1]),
          seen |-> queue.seen \cup {title}]

(* extend, with the tier that the source gives a title.                    *)
Extend(queue, titles, tier) ==
    FoldLeft(LAMBDA q, t : Push(q, t, tier[t]), queue, titles)

(* Links and seeds are classified by their titles.                         *)
ExtendLinks(queue, titles) == Extend(queue, titles, Tier)

(* Participation events are High, unless it is the subject.                *)
EventTier == [t \in Titles |-> IF Tier[t] = Core THEN Core ELSE High]
ExtendEvents(queue, titles) == Extend(queue, titles, EventTier)

TheQueue == [items |-> items, seen |-> seen]
Becomes(queue) == items' = queue.items /\ seen' = queue.seen

(* A subject page: its title is seen from now on, and its links are pushed.*)
(* The key lang:title is never there before: the languages differ.         *)
SubjectPage(title, links) ==
    /\ phase = "languages"
    /\ language < Languages
    /\ Becomes(ExtendLinks([TheQueue EXCEPT !.seen = @ \cup {title}], Offer(links)))
    /\ wikiPages' = wikiPages + 1
    /\ language' = language + 1
    /\ UNCHANGED <<phase, nextIndex, followed, events, readable>>

SubjectPageFails ==
    /\ phase = "languages"
    /\ language < Languages
    /\ language' = language + 1
    /\ UNCHANGED <<phase, items, seen, nextIndex, wikiPages, followed, events, readable>>

(* The harvest of participation events; a failure is only logged.          *)
Harvest(found) ==
    /\ phase = "languages"
    /\ language = Languages
    /\ Becomes(ExtendEvents(TheQueue, Offer(found)))
    /\ events' = events \cup ToSet(Offer(found))
    /\ phase' = "seeds"
    /\ UNCHANGED <<language, nextIndex, wikiPages, followed, readable>>

(* The seed list, without cap; there may be none.                          *)
LoadSeeds(titles) ==
    /\ phase = "seeds"
    /\ Becomes(ExtendLinks(TheQueue, titles))
    /\ phase' = "sort"
    /\ UNCHANGED <<language, nextIndex, wikiPages, followed, events, readable>>

(* sort_by_priority: by tier, stable; every item has depth 0.              *)
Before(a, b) == a.tier < b.tier \/ (a.tier = b.tier /\ a.rank < b.rank)
Sorts(p, s) ==
    \A j, k \in DOMAIN s : j < k => Before(s[p[j]], s[p[k]])
Sorted(s) ==
    LET p == CHOOSE p \in Bijection(DOMAIN s, DOMAIN s) : Sorts(p, s)
    IN  [k \in DOMAIN s |-> s[p[k]]]
\* Mutant of SortByPriority: the queue is left in the order of discovery.
SortNothing ==
    /\ phase = "sort"
    /\ phase' = "follow"
    /\ UNCHANGED <<language, items, seen, nextIndex, wikiPages, followed, events, readable>>
SortByPriority ==
    /\ phase = "sort"
    /\ items' = SubSeq(items, 1, nextIndex) \o Sorted(SubSeq(items, nextIndex + 1, Len(items)))
    /\ phase' = "follow"
    /\ UNCHANGED <<language, seen, nextIndex, wikiPages, followed, events, readable>>

-----------------------------------------------------------------------------
(* Emptying.                                                               *)

(* follow_cap.saturating_sub(wiki_pages), computed once before the loop.   *)
Extra == IF FollowCap > wikiPages THEN FollowCap - wikiPages ELSE 0

(* should_pin_follow_title.                                                *)
Pinned(title) == title \in Followable /\ title \notin Overviews

(* pop returns nothing, or an item although the budget is spent: that item *)
(* is dropped and the loop ends.                                           *)
FollowEnds ==
    /\ phase = "follow"
    /\ nextIndex = Len(items) \/ followed >= Extra
    /\ nextIndex' = IF nextIndex < Len(items) THEN nextIndex + 1 ELSE nextIndex
    /\ phase' = "done"
    /\ UNCHANGED <<language, items, seen, wikiPages, followed, events, readable>>

(* An item is popped within the budget; only a page that could be read     *)
(* counts.                                                                 *)
PopWithin ==
    /\ phase = "follow"
    /\ nextIndex < Len(items)
    /\ followed < Extra
    /\ nextIndex' = nextIndex + 1
    /\ UNCHANGED <<phase, language, items, seen, wikiPages, events, readable>>

Worth(title) == Pinned(title) /\ title \in readable
FollowPage == PopWithin /\ Worth(items[nextIndex + 1].title) /\ followed' = followed + 1

\* Mutant of SkipPage: a page that cannot be read is counted.
CountSkipped ==
    PopWithin /\ ~Worth(items[nextIndex + 1].title) /\ followed' = followed + 1
SkipPage ==
    PopWithin /\ ~Worth(items[nextIndex + 1].title) /\ followed' = followed

CrawlNext ==
    \/ \E title \in Titles, links \in LinkLists : SubjectPage(title, links)
    \/ SubjectPageFails
    \/ \E found \in EventLists : Harvest(found)
    \/ \E titles \in SeedLists : LoadSeeds(titles)
    \/ SortByPriority
    \/ FollowPage \/ SkipPage \/ FollowEnds

CrawlSpec == CrawlInit /\ [][CrawlNext]_crawlVars

-----------------------------------------------------------------------------
(* The queue is in the order of the tiers, and within a tier of discovery, *)
(* and holds no title twice.                                               *)
InOrder ==
    \A j, k \in 1 .. Len(items) : j < k =>
        Before(items[j], items[k]) /\ items[j].title # items[k].title

(* What cannot be read or pinned does not use the budget up: as many pages *)
(* were followed as the queue holds, or as the subject pages left.         *)
BudgetIsSpent ==
    LET worth == Cardinality({k \in 1 .. Len(items) : Worth(items[k].title)})
    IN  followed = IF worth < Extra THEN worth ELSE Extra

(* Whichever of the three sources found a title first, and however many    *)
(* pages cannot be read, the pages that are followed are the best ones     *)
(* within the budget.                                                      *)
FollowsTheBest ==
    /\ phase \in {"follow", "done"} => InOrder
    /\ phase = "done" => BudgetIsSpent

(* "WDQS events get High priority - direct subject participation".         *)
EventsAreHigh ==
    phase = "follow" =>
        \A k \in 1 .. Len(items) : items[k].title \in events => items[k].tier <= High
=============================================================================
