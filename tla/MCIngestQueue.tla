--------------------------- MODULE MCIngestQueue ---------------------------
(* IngestQueue for TLC: the workers of an instance that have the same      *)
(* clients and can all be killed are interchangeable.                      *)
EXTENDS ShelfRefinement, TLC

WorkerSymmetry == Permutations(Workers)
=============================================================================
