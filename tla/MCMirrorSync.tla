--------------------------- MODULE MCMirrorSync ----------------------------
(* MirrorSync for TLC: a library with one folder and one file, and syncs   *)
(* that nothing tells apart.                                               *)
EXTENDS MirrorSync, TLC

CONSTANTS s1, s2, lib, dir, pdf

SameSyncers == Permutations(Syncers)
=============================================================================
