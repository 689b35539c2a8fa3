---------------------------- MODULE OrderedDelivery ----------------------------
(***************************************************************************)
(* What the receive path promises the network stack above it, whatever it  *)
(* does with windows, timers and locks: a frame goes up only after it came *)
(* from the peer, and while a block ack session is open frames go up in    *)
(* increasing order, so none goes up twice.  Frames may be dropped at any  *)
(* time, and outside of a session there is no promise about order.         *)
(* RxReorder implements this specification.                                *)
(***************************************************************************)
EXTENDS Integers

CONSTANT Frames            \* the frames of the peer, by index

None == -1

VARIABLES open,            \* a session that promises order is open
          held,            \* frames received and still with the driver
          last             \* the last frame that went up in this session

Init ==
    /\ open = FALSE
    /\ held = {}
    /\ last = None

Arrive(n) ==
    /\ held' = held \cup {n}
    /\ UNCHANGED <<open, last>>

(* The driver may let go of the frame in the same step or later.           *)
Deliver(n) ==
    /\ n \in held
    /\ open => n > last
    /\ last' = IF open THEN n ELSE last
    /\ held' \in {held, held \ {n}}
    /\ UNCHANGED open

Drop ==
    /\ held' \subseteq held
    /\ UNCHANGED <<open, last>>

(* A session begins or ends; frames of the one before may still be held.   *)
NewSession ==
    /\ open' \in BOOLEAN
    /\ last' = None
    /\ UNCHANGED held

Next ==
    \/ \E n \in Frames : Arrive(n) \/ Deliver(n)
    \/ Drop
    \/ NewSession

Spec == Init /\ [][Next]_<<open, held, last>>
=============================================================================
