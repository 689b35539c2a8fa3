--------------------------- MODULE MCApSleepQueue ---------------------------
(* ApSleepQueue with a small set of stations.                              *)
EXTENDS ApSleepQueue, TLC

Symmetry == Permutations(Stas)
=============================================================================
