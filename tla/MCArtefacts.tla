---------------------------- MODULE MCArtefacts ----------------------------
(* Artefacts for TLC: a worker on one machine, a rechunk on another.       *)
EXTENDS Artefacts, TLC

CONSTANTS f1, f2, u1, d1, w1, r1, server, laptop

MCHostOf == (w1 :> server) @@ (r1 :> laptop)
MCVersions == (f1 :> {u1, d1}) @@ (f2 :> {u1})
=============================================================================
