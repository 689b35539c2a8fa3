----------------------------- MODULE StationLine -----------------------------
(***************************************************************************)
(* What an access point promises about the frames it is given for its      *)
(* stations, whether they doze or not: for each station and category a     *)
(* first-in first-out line.  A frame that was accepted is sent once and in *)
(* its turn; it is given up only when its station leaves, and then with    *)
(* everything else that waits for this station.  Where a frame waits, who  *)
(* moves it and when it is announced is not said.                          *)
(* ApSleepQueue implements this specification on one processor.            *)
(***************************************************************************)
EXTENDS Integers, Sequences

CONSTANTS Stas,        \* the stations
          Kinds        \* the categories, each with a line of its own

VARIABLES members,     \* the stations that are associated
          given,       \* the number of frames given so far, by which they are named
          line,        \* the frames that wait for a station, by category
          sent         \* the last frame sent to a station, by category

vars == <<members, given, line, sent>>

Lines == Stas \X Kinds

Init ==
    /\ members = {}
    /\ given = 0
    /\ line = [p \in Lines |-> <<>>]
    /\ sent = [p \in Lines |-> 0]

Join(s) == members' = members \cup {s} /\ UNCHANGED <<given, line, sent>>

Accept(p) ==
    /\ p[1] \in members
    /\ given' = given + 1
    /\ line' = [line EXCEPT ![p] = Append(@, given + 1)]
    /\ UNCHANGED <<members, sent>>

(* A frame for nobody in particular.                                       *)
AcceptGroup == given' = given + 1 /\ UNCHANGED <<members, line, sent>>

Deliver(p) ==
    /\ line[p] # <<>>
    /\ sent' = [sent EXCEPT ![p] = Head(line[p])]
    /\ line' = [line EXCEPT ![p] = Tail(@)]
    /\ UNCHANGED <<members, given>>

Remove(s) ==
    /\ s \in members
    /\ members' = members \ {s}
    /\ line' = [p \in Lines |-> IF p[1] = s THEN <<>> ELSE line[p]]
    /\ UNCHANGED <<given, sent>>

Next ==
    \/ \E s \in Stas : Join(s) \/ Remove(s)
    \/ \E p \in Lines : Accept(p) \/ Deliver(p)
    \/ AcceptGroup

Spec == Init /\ [][Next]_vars
=============================================================================
