--------------------------- MODULE MCIngestQueue ---------------------------
(* IngestQueue with model values for its sets; each .cfg is one instance.  *)
EXTENDS IngestQueue, TLC

CONSTANTS i1, i2, r1, r2, c1, c2

(* Sound where all replicas may crash and no liveness is checked.          *)
MCReplicas == Permutations(Replicas)
=============================================================================
