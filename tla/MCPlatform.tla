----------------------------- MODULE MCPlatform -----------------------------
(* One small instance of each component of the platform around the         *)
(* ingestion.  They do not touch each other's state, so their states are   *)
(* added and not multiplied: `part`, chosen at first, is the component     *)
(* that takes the steps.                                                   *)
EXTENDS IntuitionPublication, UserInteractions, WalletAuth, MCCrawlQueue, QualityPipeline

CONSTANTS f1, f2, vote, atom, alice, bob, claim, tx,
          d1, b1, b2, fix, helena, paris

VARIABLE part

(* Two debates about one proposition share their vote triple.              *)
MCPlan == f1 :> <<atom, vote>> @@ f2 :> <<vote>>
MCVote == f1 :> vote @@ f2 :> vote
MCCollections == {<<f2, f1>>}

MCDeposit == tx :> [receiver |-> alice, action |-> "support", claim |-> claim, ok |-> TRUE]

(* Two candidates for one battle; a death, and its correction.             *)
MCStem == [c \in Candidates |-> IF c \in {b1, b2} THEN "battle" ELSE "death"]
MCPlaceOf == [c \in Candidates |-> IF c = fix THEN helena ELSE paris]
MCInputs == {[text |-> <<b1, b2>>, assemble |-> TRUE],
             [text |-> <<d1>>, assemble |-> TRUE], [text |-> <<d1>>, assemble |-> FALSE]}

MCPermutations == Permutations(Posts) \cup Permutations(Runs)

vars == <<pubVars, actVars, authVars, crawlVars, qualityVars, part>>

Init ==
    /\ PubInit /\ ActInit /\ AuthInit /\ CrawlInit /\ QualityInit
    /\ part \in {"publication", "interactions", "auth", "crawl", "quality"}
    /\ part # "crawl" => readable = {}

Next ==
    /\ part' = part
    /\ \/ /\ part = "publication" /\ PubNext
          /\ UNCHANGED <<actVars, authVars, crawlVars, qualityVars>>
       \/ /\ part = "interactions" /\ ActNext
          /\ UNCHANGED <<pubVars, authVars, crawlVars, qualityVars>>
       \/ /\ part = "auth" /\ AuthNext
          /\ UNCHANGED <<pubVars, actVars, crawlVars, qualityVars>>
       \/ /\ part = "crawl" /\ CrawlNext
          /\ UNCHANGED <<pubVars, actVars, authVars, qualityVars>>
       \/ /\ part = "quality" /\ QualityNext
          /\ UNCHANGED <<pubVars, actVars, authVars, crawlVars>>

Spec == Init /\ [][Next]_vars

(* The type invariants of the five components.                             *)
PlatformTypeOK == PubTypeOK /\ ActTypeOK /\ AuthTypeOK /\ CrawlTypeOK /\ QualityTypeOK
=============================================================================
