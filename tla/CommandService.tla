--------------------------- MODULE CommandService ---------------------------
(***************************************************************************)
(* What the command queue promises those who post commands, whatever its   *)
(* thread, its semaphores and its restarts do: a command is taken up once  *)
(* and in the order of posting; a caller that waits is answered at most    *)
(* once, while its command is in work and while the caller is still there; *)
(* and no command is finished under a waiting caller that has no answer.   *)
(* Only a command that nobody took up yet may be discarded without one.    *)
(* What is said about answers ends when the lock between the thread and    *)
(* its callers failed (unguarded); what is said about the order does not.  *)
(* CmdQueue implements this specification.                                 *)
(***************************************************************************)
EXTENDS Sequences

CONSTANT Cmds              \* the commands ever posted

VARIABLES line,            \* the commands posted and not taken up
          phase,           \* how far a command has come
          waiting,         \* the commands whose caller waits for an answer
          answered,        \* the commands whose caller was given one
          unguarded        \* a lock that guards the answers was not obtained

vars == <<line, phase, waiting, answered, unguarded>>

Move(c, to) == phase' = [phase EXCEPT ![c] = to]

Init ==
    /\ line = <<>>
    /\ phase = [c \in Cmds |-> "none"]
    /\ waiting = {}
    /\ answered = {}
    /\ unguarded = FALSE

(* A command is made; its caller will wait for the answer or not.          *)
Ask(c) ==
    /\ phase[c] = "none"
    /\ Move(c, "alloc")
    /\ waiting' \in {waiting, waiting \cup {c}}
    /\ UNCHANGED <<line, answered, unguarded>>

Refuse(c) ==
    /\ phase[c] = "none"
    /\ Move(c, "over")
    /\ UNCHANGED <<line, waiting, answered, unguarded>>

Post(c) ==
    /\ phase[c] = "alloc"
    /\ Move(c, "queued")
    /\ line' = Append(line, c)
    /\ UNCHANGED <<waiting, answered, unguarded>>

(* The first in line is taken up, or discarded when the service ends.      *)
TakeFirst(to) ==
    /\ line # <<>>
    /\ phase[Head(line)] = "queued"
    /\ Move(Head(line), to)
    /\ line' = Tail(line)
    /\ UNCHANGED <<waiting, answered, unguarded>>

Answer(c) ==
    /\ phase[c] = "held"
    /\ c \in waiting \ answered \/ unguarded
    /\ answered' = answered \cup {c}
    /\ UNCHANGED <<line, phase, waiting, unguarded>>

Finish(c) ==
    /\ phase[c] = "held"
    /\ c \notin waiting \ answered \/ unguarded
    /\ Move(c, "over")
    /\ UNCHANGED <<line, waiting, answered, unguarded>>

(* The caller goes away, with its answer or after its timeout.             *)
Leave(c) ==
    /\ c \in waiting
    /\ waiting' = waiting \ {c}
    /\ UNCHANGED <<line, phase, answered, unguarded>>

(* A lock is not obtained, and not missed.                                 *)
Unguard ==
    /\ unguarded' = TRUE
    /\ UNCHANGED <<line, phase, waiting, answered>>

Next ==
    \/ Unguard
    \/ \E c \in Cmds : \/ Ask(c) \/ Refuse(c) \/ Post(c)
                       \/ Answer(c) \/ Finish(c) \/ Leave(c)
    \/ TakeFirst("held")
    \/ TakeFirst("over")

Spec == Init /\ [][Next]_vars
=============================================================================
