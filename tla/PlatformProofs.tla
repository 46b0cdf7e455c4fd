--------------------------- MODULE PlatformProofs ---------------------------
(* The components of MCPlatform are added and not multiplied.  Whatever    *)
(* instance they have, an execution of the platform is one of each         *)
(* component, in which the steps of the others are stutters: what is proved*)
(* of a component by itself holds in the platform that is checked.         *)
EXTENDS MCPlatform, AccountProofs, CrawlQueueProofs, QualityPipelineProofs

(* A step of the platform is a step of each component, or leaves it alone. *)
LEMMA StepOfEach ==
    ASSUME [Next]_vars
    PROVE  /\ [PubNext]_pubVars
           /\ [ActNext]_actVars
           /\ [AuthNext]_authVars
           /\ [CrawlNext]_crawlVars
           /\ [QualityNext]_qualityVars
BY DEF Next, vars

(* An execution of the platform is an execution of each component.         *)
THEOREM PlatformIsItsParts ==
    Spec => PubSpec /\ ActSpec /\ AuthSpec /\ CrawlSpec /\ QualitySpec
<1>1. Init => PubInit /\ ActInit /\ AuthInit /\ CrawlInit /\ QualityInit
  BY DEF Init
<1> QED BY <1>1, StepOfEach, PTL DEF Spec, PubSpec, ActSpec, AuthSpec, CrawlSpec, QualitySpec

(* The variables of all the components keep their types.                   *)
THEOREM PlatformTypes == Spec => []PlatformTypeOK
BY PlatformIsItsParts, PublicationTypes, InteractionTypes, AuthTypes, CrawlTypes,
   QualityTypes, PTL DEF PlatformTypeOK

(* What the platform run checks on one instance of each component holds in *)
(* the composed specification for every instance.                          *)
THEOREM PlatformIsCorrect ==
    Spec => /\ [](/\ PublishedIsOnChain /\ ReportIsBacked
                  /\ DepositsAreTrue /\ ErrorNeedsARace
                  /\ OneUserPerWallet /\ ChallengeOpensOneSession
                  /\ FollowsTheBest
                  /\ RetriesNeverRecount)
            /\ PublishedIsFinal /\ StanceNeverLost /\ OwnEventNeverRejects
BY PlatformIsItsParts, ChainBacksRows, RowsBackReports, SignalsAreDeposits, ErrorsComeOfRaces,
   WalletHasOneUser, ChallengeIsSpentOnce, FollowingTheBest, RetriesCountOnce, PublishedStays,
   StanceIsKept, OwnEventIsNoRival, PTL
=============================================================================
