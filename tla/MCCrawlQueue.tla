---------------------------- MODULE MCCrawlQueue ----------------------------
(* One palace, that the subject's page links to and that is also one of    *)
(* the participation events; a house of the life trace; a seed.            *)
EXTENDS CrawlQueue

CONSTANTS self, house, wars, palace

MCTier == self :> Core @@ house :> High @@ palace :> Medium @@ wars :> Medium
MCLinks == {<<>>, <<palace, house>>, <<wars, palace, self>>}
MCEvents == {<<palace>>, <<wars, house>>}
MCSeeds == {<<>>, <<self, house, wars>>}
=============================================================================
