----------------------------- MODULE MCMlmeJoin -----------------------------
(* Joining and scanning on a small instance.                               *)
EXTENDS MlmeJoin
=============================================================================
