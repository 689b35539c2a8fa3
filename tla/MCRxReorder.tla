----------------------------- MODULE MCRxReorder -----------------------------
(* The reorder buffer on a small instance.                                 *)
EXTENDS RxReorder
=============================================================================
