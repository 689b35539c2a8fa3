----------------------------- MODULE MCCmdQueue -----------------------------
(* CmdQueue with a command whose caller waits, and that the filter drops   *)
(* when the hardware is off, and one that is queued and forgotten and      *)
(* always passes.                                                          *)
EXTENDS CmdQueue

CONSTANTS c1, c2

MCWays == [c \in Cmds |-> {IF c = c1 THEN <<TRUE, FALSE>> ELSE <<FALSE, TRUE>>}]
=============================================================================
