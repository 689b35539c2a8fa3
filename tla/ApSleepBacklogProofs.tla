------------------------ MODULE ApSleepBacklogProofs ------------------------
(***************************************************************************)
(* What an access point holds for its stations, for every set of stations  *)
(* and every bound.                                                        *)
(*                                                                         *)
(* Typed is the type invariant with what it needs to be inductive.  Then   *)
(* MoveStep classifies every step by what it does to the queues of one     *)
(* receiver: a frame is buffered, passed on, taken by the tasklet; a PS-   *)
(* Poll, a trigger or a wake-up moves frames from the sleep queue to the   *)
(* pending ones, stop_sta_xmit moves them back, a free purges both.  The   *)
(* invariants below are shown against these ten moves and not against the  *)
(* steps, so that each of them treats a move once.                         *)
(*                                                                         *)
(* Bounded: no receiver has more frames waiting than rtw_xmit was handed,  *)
(* so sleepq_len cannot wrap.  LonerInv, for one processor: what rtw_xmit  *)
(* or a PS-Poll has seen outside the lock is still so when it is used.     *)
(* BacklogInv gets LenCounts from both.  OnlyAsked extends NoneToDozing to *)
(* dozing stations that are leaving.  Lined adds to OrderKept that a line  *)
(* ends below the frame rtw_xmit has in hand, if it has one, and the       *)
(* frames to come.  Under both, a step that takes no frame from rtw_xmit   *)
(* and transmits none leaves the numbers in every line alone (BacklogSame) *)
(* and the others are steps of StationLine.                                *)
(* TimInv, of which TimShown is a consequence, says that                   *)
(* a bitmap read in order to be written back is current, that the element  *)
(* shows every bit and is on the air or about to be, that nothing is held  *)
(* for a freed station, and which frames may be held behind a clear bit.   *)
(***************************************************************************)
EXTENDS ApSleepQueueProofs

-----------------------------------------------------------------------------
(* Types, on any number of processors.                                     *)

Pairs == Rcv \X ACs
Own(p) == {f \in Frame : f.ac \in {p[2]}}

(* The frames of a pending queue are of its category, rtw_xmit in its      *)
(* unlocked part has one frame in hand, and the command thread in its      *)
(* alive check has a station.                                              *)
Placed == \A p \in Pairs : pending[p] \in Seq(Own(p))
InHand == pc["tx"] = "pass" => hand \in Seq(Frame) /\ Len(hand) = 1 /\ arg["tx"] \in Rcv
Checked == pc["cmd"] \in {"check", "alive"} => arg["cmd"] \in Stas

Typed == TypeOK /\ Placed /\ InHand /\ Checked

(* The same, by what the steps leave alone together.                       *)
TypedBits == tim \in Bitmap /\ dz \in Bitmap
TypedAir ==
    tim_ie \in Bitmap /\ beacon \in Bitmap /\ cmds \in Seq({"beacon", "bmc", "hiq"})
TypedStations ==
    /\ linked \subseteq Stas /\ asleep \subseteq Stas /\ alive \subseteq Stas
    /\ uapsd \in [Stas -> SUBSET ACs]
    /\ changed \subseteq Stas
TypedSleep ==
    /\ sleep_q \in [Rcv -> Seq(Frame)]
    /\ len \in [Rcv -> 0..(LenMod - 1)]
    /\ ac_len \in [Rcv -> 0..(LenMod - 1)]
TypedPending == pending \in [Pairs -> Seq(Frame)] /\ Placed
TypedControl ==
    /\ pc \in [Contexts -> Labels]
    /\ arg \in [Contexts -> Rcv \cup {None}]
    /\ hand \in Seq(Frame)
    /\ snap \in [Contexts -> Bitmap \X Bitmap]
    /\ InHand /\ Checked
TypedSent == hiq \in BOOLEAN /\ last \in [Pairs -> 0..MaxFrames]
TypedGhosts ==
    /\ frames \in 0..MaxFrames /\ events \in 0..MaxEvents /\ faults \in 0..MaxFaults
    /\ service \in {"ended", "open"}

LEMMA TypedParts ==
    /\ Typed <=> /\ TypedBits /\ TypedAir /\ TypedStations /\ TypedSleep
                 /\ TypedPending /\ TypedControl /\ TypedSent /\ TypedGhosts
    /\ Typed' <=> /\ TypedBits' /\ TypedAir' /\ TypedStations' /\ TypedSleep'
                  /\ TypedPending' /\ TypedControl' /\ TypedSent' /\ TypedGhosts'
BY DEF Typed, TypeOK, Pairs, TypedBits, TypedAir, TypedStations, TypedSleep, TypedPending,
       TypedControl, TypedSent, TypedGhosts

(* What is left alone keeps its type.                                      *)
LEMMA TypedKeep ==
    ASSUME Typed
    PROVE  /\ UNCHANGED bits => TypedBits'
           /\ UNCHANGED air => TypedAir'
           /\ UNCHANGED <<stations, changed>> => TypedStations'
           /\ UNCHANGED <<sleep_q, len, ac_len>> => TypedSleep'
           /\ UNCHANGED pending => TypedPending'
           /\ UNCHANGED control => TypedControl'
           /\ UNCHANGED <<hiq, last>> => TypedSent'
           /\ UNCHANGED <<frames, events, faults, service>> => TypedGhosts'
<1>1. UNCHANGED bits => TypedBits'
  BY TypedParts DEF TypedBits, bits
<1>2. UNCHANGED air => TypedAir'
  BY TypedParts DEF TypedAir, air
<1>3. UNCHANGED <<stations, changed>> => TypedStations'
  BY TypedParts DEF TypedStations, stations
<1>4. UNCHANGED <<sleep_q, len, ac_len>> => TypedSleep'
  BY TypedParts DEF TypedSleep
<1>5. UNCHANGED pending => TypedPending'
  BY TypedParts DEF TypedPending, Placed
<1>6. UNCHANGED control => TypedControl'
  BY TypedParts DEF TypedControl, InHand, Checked, control
<1>7. UNCHANGED <<hiq, last>> => TypedSent'
  BY TypedParts DEF TypedSent
<1>8. UNCHANGED <<frames, events, faults, service>> => TypedGhosts'
  BY TypedParts DEF TypedGhosts
<1> QED BY <1>1, <1>2, <1>3, <1>4, <1>5, <1>6, <1>7, <1>8

(* A context goes on.                                                      *)
LEMMA TypedGoto ==
    ASSUME Typed, NEW c \in {"rx", "cmd", "free"}, NEW label \in Labels,
           NEW q \in Rcv \cup {None},
           Goto(c, label, q), label \in {"check", "alive"} => q \in Stas, hand' = hand,
           \/ snap' = snap
           \/ TypedBits /\ snap' = [snap EXCEPT ![c] = bits]
           \/ snap' = [snap EXCEPT ![c] = <<{}, {}>>]
    PROVE  TypedControl'
<1>1. TypedControl
  BY TypedParts
<1>2. /\ pc' \in [Contexts -> Labels] /\ arg' \in [Contexts -> Rcv \cup {None}]
      /\ pc'["tx"] = pc["tx"] /\ arg'["tx"] = arg["tx"]
      /\ c # "cmd" => pc'["cmd"] = pc["cmd"] /\ arg'["cmd"] = arg["cmd"]
      /\ c = "cmd" => pc'["cmd"] = label /\ arg'["cmd"] = q
  BY <1>1 DEF TypedControl, Goto, Contexts
<1>3. snap' \in [Contexts -> Bitmap \X Bitmap]
  BY <1>1 DEF TypedControl, TypedBits, Contexts, Bitmap, bits
<1>4. InHand' /\ Checked'
  BY <1>1, <1>2 DEF TypedControl, InHand, Checked
<1> QED BY <1>1, <1>2, <1>3, <1>4 DEF TypedControl

(* The element is written and a beacon asked for.                          *)
LEMMA TypedBeacon ==
    ASSUME Typed, UpdateBeacon(tim'), tim' \in Bitmap
    PROVE  TypedAir'
BY TypedParts DEF TypedAir, UpdateBeacon

LEMMA Modulo ==
    ASSUME ParamAssumption, NEW a \in Int, NEW k \in Int
    PROVE  Minus(a, k) \in 0..(LenMod - 1) /\ Plus(a, k) \in 0..(LenMod - 1)
BY DEF Minus, Plus, ParamAssumption

(* What the xmit queues of q hold after fs has been handed to the tasklet. *)
LEMMA QueuedPlaced ==
    ASSUME NEW old, \A p \in Pairs : old[p] \in Seq(Own(p)),
           NEW q, NEW fs \in Seq(Frame), NEW v \in {"new", "release"}
    PROVE  /\ DOMAIN Queued(old, q, fs, v) = Pairs
           /\ \A p \in Pairs :
                /\ Queued(old, q, fs, v)[p] \in Seq(Own(p))
                /\ p[1] # q => Queued(old, q, fs, v)[p] = old[p]
                /\ p[1] = q => Queued(old, q, fs, v)[p] = old[p] \o OfAC(Mark(fs, v), p[2])
           /\ \A ac \in ACs : OfAC(Mark(fs, v), ac) \in Seq({f \in Frame : f.via = v})
<1>1. Mark(fs, v) \in Seq(Frame)
  BY MarkType
<1>2. ASSUME NEW p \in Pairs PROVE OfAC(Mark(fs, v), p[2]) \in Seq(Own(p))
  BY <1>1, OfACsIn DEF OfAC, Own
<1>3. Queued(old, q, fs, v) =
        [p \in Pairs |-> IF p[1] = q THEN old[p] \o OfAC(Mark(fs, v), p[2]) ELSE old[p]]
  BY DEF Queued, Pairs
<1>4. ASSUME NEW p \in Pairs PROVE old[p] \o OfAC(Mark(fs, v), p[2]) \in Seq(Own(p))
  BY <1>2
<1>5. ASSUME NEW ac \in ACs PROVE OfAC(Mark(fs, v), ac) \in Seq({f \in Frame : f.via = v})
  <2> DEFINE E == {f \in Frame : f.via = v}
  <2>1. Mark(fs, v) \in Seq(E)
    <3>1. \A i \in 1..Len(Mark(fs, v)) : Mark(fs, v)[i] \in E
      BY <1>1, MarkType
    <3> QED BY <1>1, <3>1
  <2> HIDE DEF E
  <2>2. OfAC(Mark(fs, v), ac) \in Seq(E)
    BY <2>1, OfACsType DEF OfAC
  <2> QED BY <2>2 DEF E
<1> QED BY <1>2, <1>3, <1>4, <1>5

LEMMA QueuedTyped ==
    ASSUME TypedPending, NEW q, NEW fs \in Seq(Frame), NEW v \in {"new", "release"},
           pending' = Queued(pending, q, fs, v)
    PROVE  TypedPending'
<1>1. \A p \in Pairs : pending[p] \in Seq(Own(p))
  BY DEF TypedPending, Placed
<1>2. \A p \in Pairs : pending'[p] \in Seq(Own(p))
  <2>1. \A p \in Pairs : Queued(pending, q, fs, v)[p] \in Seq(Own(p))
    BY <1>1, QueuedPlaced
  <2> QED BY <2>1
<1>3. \A p \in Pairs : pending'[p] \in Seq(Frame)
  <2>1. \A p : Own(p) \subseteq Frame
    BY DEF Own
  <2> QED BY <1>2, <2>1
<1>4. pending' = [p \in Pairs |-> pending'[p]]
  BY DEF Queued, Pairs
<1> QED BY <1>2, <1>3, <1>4 DEF TypedPending, Placed

LEMMA TypedCmd ==
    ASSUME ParamAssumption, Typed, CmdSteps \/ RxSteps
    PROVE  Typed'
<1> USE DEF Labels
<1>0. /\ None \in Rcv \cup {None} /\ Bmc \in Rcv \cup {None} /\ TypedBits /\ TypedAir
      /\ TypedControl /\ TypedSleep /\ TypedPending
  BY TypedParts DEF Rcv
<1>1. ASSUME NEW c \in {"rx", "cmd"}, BeaconAfter(c) PROVE Typed'
  <2>1. TypedControl'
    BY <1>0, <1>1, TypedGoto DEF BeaconAfter
  <2>2. TypedAir'
    BY <1>0, <1>1, TypedBeacon DEF BeaconAfter, TypedBits, bits
  <2> QED BY <1>1, <2>1, <2>2, TypedKeep, TypedParts DEF BeaconAfter, queues, ghosts
<1>2. CASE CmdBeacon
  <2>1. TypedControl'
    BY <1>0, <1>2, TypedGoto DEF CmdBeacon
  <2>2. TypedAir'
    BY <1>0, <1>2 DEF CmdBeacon, Pops, TypedAir
  <2> QED BY <1>2, <2>1, <2>2, TypedKeep, TypedParts DEF CmdBeacon, queues, ghosts
<1>3. CASE CmdBeaconFails
  <2>1. TypedAir'
    BY <1>0, <1>3 DEF CmdBeaconFails, Pops, TypedAir
  <2>2. TypedGhosts'
    BY <1>3, TypedParts, ParamAssumption DEF CmdBeaconFails, TypedGhosts, ParamAssumption
  <2> QED BY <1>3, <2>1, <2>2, TypedKeep, TypedParts DEF CmdBeaconFails, queues, ghosts
<1>4. CASE CmdBmc
  <2>1. TypedControl'
    BY <1>0, <1>4, TypedGoto DEF CmdBmc
  <2>2. TypedAir'
    BY <1>0, <1>4 DEF CmdBmc, Pops, TypedAir
  <2> QED BY <1>4, <2>1, <2>2, TypedKeep, TypedParts DEF CmdBmc, queues, ghosts
<1>5. CASE CmdFlush
  <2>1. TypedControl'
    BY <1>0, <1>5, TypedGoto DEF CmdFlush
  <2>2. TypedAir'
    BY <1>0, <1>5 DEF CmdFlush, TypedAir
  <2>3. TypedPending'
    <3>1. PICK special : pending' = Queued(pending, Bmc, Raised(sleep_q[Bmc], special), "release")
      BY <1>5 DEF CmdFlush
    <3>2. sleep_q[Bmc] \in Seq(Frame)
      BY <1>0 DEF TypedSleep, Rcv
    <3>3. Raised(sleep_q[Bmc], special) \in Seq(Frame)
      BY <3>2, RaisedType
    <3> QED BY <1>0, <3>1, <3>3, QueuedTyped
  <2>4. TypedSleep'
    <3>1. Minus(len[Bmc], Len(sleep_q[Bmc])) \in 0..(LenMod - 1)
      BY <1>0, Modulo, ParamAssumption DEF TypedSleep, Rcv, ParamAssumption
    <3> QED BY <1>0, <1>5, <3>1 DEF CmdFlush, TypedSleep
  <2> QED BY <1>5, <2>1, <2>2, <2>3, <2>4, TypedKeep, TypedParts DEF CmdFlush, ghosts
<1>6. CASE CmdHiq
  <2>1. TypedControl'
    BY <1>0, <1>6, TypedGoto DEF CmdHiq
  <2>2. TypedAir'
    BY <1>0, <1>6 DEF CmdHiq, Pops, TypedAir
  <2> QED BY <1>6, <2>1, <2>2, TypedKeep, TypedParts DEF CmdHiq, queues, ghosts
<1>7. CASE HiqRead
  <2>1. TypedControl'
    BY <1>0, <1>7, TypedGoto DEF HiqRead
  <2> QED BY <1>7, <2>1, TypedKeep, TypedParts DEF HiqRead, queues, ghosts
<1>8. CASE HiqWrite
  <2>1. TypedControl'
    BY <1>0, <1>8, TypedGoto DEF HiqWrite
  <2>2. TypedBits'
    BY <1>0, <1>8 DEF HiqWrite, TypedBits, TypedControl, Torn, Contexts, Bitmap
  <2>3. TypedAir'
    BY <1>8, <2>2, TypedBeacon, TypedKeep DEF HiqWrite, TypedBits
  <2> QED BY <1>8, <2>1, <2>2, <2>3, TypedKeep, TypedParts DEF HiqWrite, queues, ghosts
<1>9. CASE ExpireWrite
  <2>1. TypedControl'
    BY <1>0, <1>9, TypedGoto DEF ExpireWrite
  <2>2. TypedBits'
    BY <1>0, <1>9 DEF ExpireWrite, At, TypedBits, TypedControl, Checked, Torn, Contexts,
                      Bitmap, Rcv
  <2>3. TypedAir'
    BY <1>9, <2>2, TypedBeacon DEF ExpireWrite, TypedBits
  <2> QED BY <1>9, <2>1, <2>2, <2>3, TypedKeep, TypedParts DEF ExpireWrite, queues, ghosts
<1>10. CASE PollTim
  <2>1. TypedControl'
    <3>1. arg["rx"] \in Rcv \cup {None}
      BY <1>0 DEF TypedControl, Contexts
    <3> QED BY <1>0, <1>10, <3>1, TypedGoto DEF PollTim
  <2>2. TypedSleep'
    <3>1. 0 \in 0..(LenMod - 1)
      BY ParamAssumption DEF ParamAssumption
    <3>2. len' = [len EXCEPT ![arg["rx"]] = 0] \/ len' = len
      BY <1>10 DEF PollTim
    <3> QED BY <1>0, <1>10, <3>1, <3>2 DEF PollTim, TypedSleep
  <2> QED BY <1>10, <2>1, <2>2, TypedKeep, TypedParts DEF PollTim, ghosts
<1>11. CASE PollClear
  <2>1. TypedControl'
    BY <1>0, <1>11, TypedGoto DEF PollClear
  <2>2. TypedBits'
    BY <1>0, <1>11 DEF PollClear, TypedBits, TypedControl, Torn, Contexts, Bitmap
  <2>3. TypedAir'
    BY <1>11, <2>2, TypedBeacon DEF PollClear, TypedBits
  <2> QED BY <1>11, <2>1, <2>2, <2>3, TypedKeep, TypedParts DEF PollClear, queues, ghosts
<1>12. CASE ExpireMark
  <2>1. arg["cmd"] \in Stas /\ arg["cmd"] \in Rcv \cup {None}
    BY <1>0, <1>12 DEF ExpireMark, At, TypedControl, Checked, Rcv
  <2>2. Goto("cmd", "alive", arg["cmd"]) /\ snap' = [snap EXCEPT !["cmd"] = bits]
        /\ hand' = hand
    BY <1>12 DEF ExpireMark
  <2>3. TypedControl'
    BY <1>0, <2>1, <2>2, TypedGoto
  <2>4. TypedStations'
    <3>1. asleep' \subseteq asleep \cup {arg["cmd"]} /\ alive' = alive \cup {arg["cmd"]}
          /\ UNCHANGED <<linked, uapsd, changed>>
      BY <1>12 DEF ExpireMark, ghosts
    <3> QED BY <2>1, <3>1, TypedParts DEF TypedStations
  <2> QED BY <1>12, <2>3, <2>4, TypedKeep, TypedParts DEF ExpireMark, queues, ghosts
<1> QED BY <1>1, <1>2, <1>3, <1>4, <1>5, <1>6, <1>7, <1>8, <1>9, <1>10, <1>11, <1>12
        DEF CmdSteps, RxSteps

LEMMA NewFrameType ==
    ASSUME ParamAssumption, Typed, frames < MaxFrames, NEW ac \in ACs
    PROVE  /\ NewFrame(ac) \in Frame /\ NewFrame(ac).ac = ac
           /\ NewFrame(ac).n = frames + 1 /\ NewFrame(ac).via = "new"
<1>1. frames + 1 \in 1..MaxFrames
  BY TypedParts, ParamAssumption DEF TypedGhosts, ParamAssumption
<1> QED BY <1>1 DEF NewFrame, Frame

LEMMA TypedTx ==
    ASSUME ParamAssumption, Typed, NEW q \in Rcv, NEW ac \in ACs,
           TxBuffer(q, ac) \/ TxDirect(q, ac) \/ TxPass
    PROVE  Typed'
<1>0. /\ TypedBits /\ TypedAir /\ TypedStations /\ TypedSleep
      /\ TypedPending /\ TypedControl /\ TypedSent /\ TypedGhosts
  BY TypedParts
<1>1. CASE TxBuffer(q, ac)
  <2>1. NewFrame(ac) \in Frame
    BY <1>1, NewFrameType DEF TxBuffer
  <2>2. TypedSleep'
    <3>1. sleep_q' \in [Rcv -> Seq(Frame)]
      BY <1>0, <1>1, <2>1 DEF TxBuffer, TypedSleep
    <3>2. len[q] \in Int /\ ac_len[q] \in Int
      BY <1>0, ParamAssumption DEF TypedSleep, ParamAssumption
    <3>3. Plus(len[q], 1) \in 0..(LenMod - 1) /\ Plus(ac_len[q], 1) \in 0..(LenMod - 1)
      <4>1. ASSUME NEW a \in Int PROVE Plus(a, 1) \in 0..(LenMod - 1)
        BY Modulo, ParamAssumption
      <4> QED BY <3>2, <4>1
    <3>4. len' = [len EXCEPT ![q] = Plus(@, 1)]
      BY <1>1 DEF TxBuffer
    <3>5. ac_len' = [ac_len EXCEPT ![q] = Plus(@, 1)] \/ ac_len' = ac_len
      BY <1>1 DEF TxBuffer
    <3> QED BY <1>0, <3>1, <3>3, <3>4, <3>5 DEF TypedSleep
  <2>3. TypedBits'
    <3>1. tim' \in {tim, tim \cup {q}} /\ dz' \in {dz, dz \cup {Bmc}}
      BY <1>1 DEF TxBuffer
    <3> QED BY <1>0, <3>1 DEF TypedBits, Bitmap, Rcv
  <2>4. TypedAir'
    <3>1. \/ UpdateBeacon(tim')
          \/ cmds' \in {Append(cmds, "bmc"), cmds} /\ UNCHANGED <<tim_ie, beacon>>
      BY <1>1 DEF TxBuffer
    <3>2. CASE UpdateBeacon(tim')
      BY <2>3, <3>2, TypedBeacon DEF TypedBits
    <3>3. CASE cmds' \in {Append(cmds, "bmc"), cmds} /\ UNCHANGED <<tim_ie, beacon>>
      BY <1>0, <3>3 DEF TypedAir
    <3> QED BY <3>1, <3>2, <3>3
  <2>5. TypedGhosts'
    BY <1>0, <1>1, ParamAssumption DEF TxBuffer, TypedGhosts, ParamAssumption
  <2> QED BY <1>1, <2>2, <2>3, <2>4, <2>5, TypedKeep, TypedParts DEF TxBuffer
<1>2. CASE TxDirect(q, ac)
  <2>1. NewFrame(ac) \in Frame
    BY <1>2, NewFrameType DEF TxDirect
  <2>2. TypedControl'
    <3>1. hand' \in Seq(Frame) /\ Len(hand') = 1 /\ snap' = snap
      BY <1>2, <2>1 DEF TxDirect
    <3>2. /\ pc' = [pc EXCEPT !["tx"] = "pass"] /\ arg' = [arg EXCEPT !["tx"] = q]
      BY <1>2 DEF TxDirect, Goto
    <3>3. pc' \in [Contexts -> Labels] /\ arg' \in [Contexts -> Rcv \cup {None}]
      BY <1>0, <3>2 DEF TypedControl, Labels
    <3>4. arg'["tx"] = q /\ pc'["cmd"] = pc["cmd"] /\ arg'["cmd"] = arg["cmd"]
      BY <1>0, <3>2 DEF TypedControl, Contexts
    <3> QED BY <1>0, <3>1, <3>3, <3>4 DEF TypedControl, InHand, Checked
  <2>3. TypedGhosts'
    BY <1>0, <1>2, ParamAssumption DEF TxDirect, TypedGhosts, ParamAssumption
  <2> QED BY <1>2, <2>2, <2>3, TypedKeep, TypedParts DEF TxDirect, queues
<1>3. CASE TxPass
  <2>1. hand[1] \in Frame /\ arg["tx"] \in Rcv
    <3>1. pc["tx"] = "pass"
      BY <1>3 DEF TxPass, At
    <3>2. hand \in Seq(Frame) /\ Len(hand) = 1 /\ arg["tx"] \in Rcv
      BY <1>0, <3>1 DEF TypedControl, InHand
    <3> QED BY <3>2
  <2>2. hand[1].ac \in ACs /\ hand[1].n \in 0..MaxFrames /\ hand[1].hi \in BOOLEAN
    BY <2>1, ParamAssumption DEF Frame, ParamAssumption
  <2> DEFINE p == <<arg["tx"], hand[1].ac>>
  <2>3. p \in Pairs /\ hand[1] \in Own(p)
    BY <2>1, <2>2 DEF Pairs, Own
  <2>4. \/ pending' = [pending EXCEPT ![p] = Append(@, hand[1])] /\ UNCHANGED <<last, hiq>>
        \/ Transmit(arg["tx"], hand[1]) /\ UNCHANGED pending
        \/ UNCHANGED <<pending, last, hiq>>
    BY <1>3 DEF TxPass
  <2>5. TypedPending'
    <3>1. CASE pending' = [pending EXCEPT ![p] = Append(@, hand[1])]
      <4> HIDE DEF p
      <4>1. pending' \in [Pairs -> Seq(Frame)]
        BY <1>0, <2>1, <2>3, <3>1 DEF TypedPending
      <4>2. \A r \in Pairs : pending'[r] \in Seq(Own(r))
        <5>1. Append(pending[p], hand[1]) \in Seq(Own(p))
          BY <1>0, <2>3 DEF TypedPending, Placed
        <5>2. \A r \in Pairs : pending'[r] = IF r = p THEN Append(pending[p], hand[1]) ELSE pending[r]
          BY <1>0, <3>1 DEF TypedPending
        <5> QED BY <1>0, <5>1, <5>2 DEF TypedPending, Placed
      <4> QED BY <4>1, <4>2 DEF TypedPending, Placed
    <3> QED BY <2>4, <3>1, TypedKeep
  <2>6. TypedSent'
    <3>1. CASE Transmit(arg["tx"], hand[1])
      BY <1>0, <2>2, <2>3, <3>1 DEF Transmit, TypedSent
    <3> QED BY <2>4, <3>1, TypedKeep
  <2>7. TypedControl'
    <3>1. /\ pc' = [pc EXCEPT !["tx"] = "idle"] /\ arg' = [arg EXCEPT !["tx"] = None]
          /\ hand' = <<>> /\ snap' = snap
      BY <1>3 DEF TxPass, Goto
    <3>2. pc' \in [Contexts -> Labels] /\ arg' \in [Contexts -> Rcv \cup {None}]
      BY <1>0, <3>1 DEF TypedControl, Labels
    <3>3. pc'["tx"] = "idle" /\ pc'["cmd"] = pc["cmd"] /\ arg'["cmd"] = arg["cmd"]
      BY <1>0, <3>1 DEF TypedControl, Contexts
    <3> QED BY <1>0, <3>1, <3>2, <3>3 DEF TypedControl, InHand, Checked
  <2> QED BY <1>3, <2>5, <2>6, <2>7, TypedKeep, TypedParts DEF TxPass
<1> QED BY <1>1, <1>2, <1>3

LEMMA TypedWake ==
    ASSUME ParamAssumption, Typed, NEW s \in Stas, NEW c \in {"rx", "cmd"}, Wake(c, s)
    PROVE  Typed'
<1>0. /\ TypedBits /\ TypedAir /\ TypedStations /\ TypedSleep
      /\ TypedPending /\ TypedControl /\ TypedSent /\ TypedGhosts
  BY TypedParts
<1>1. s \in Rcv /\ Bmc \in Rcv
  BY DEF Rcv
<1> DEFINE left  == Minus(len[s], Len(sleep_q[s]))
           woken == IF left = 0 THEN {s} ELSE {}
           empty == (dz \ woken) \ {Bmc} = {}
           bleft == Minus(len[Bmc], Len(sleep_q[Bmc]))
           off   == woken \cup (IF empty /\ bleft = 0 THEN {Bmc} ELSE {})
           mine  == Queued(pending, s, sleep_q[s], "release")
<1>2. /\ tim' = tim \ off /\ dz' = dz \ off
      /\ asleep' = asleep \ woken /\ alive' = alive \ woken
      /\ sleep_q' = [q \in Rcv |-> IF q = s \/ (q = Bmc /\ empty) THEN <<>> ELSE sleep_q[q]]
      /\ len' = [q \in Rcv |-> IF q = s THEN left
                               ELSE IF q = Bmc /\ empty THEN bleft ELSE len[q]]
      /\ ac_len' = [ac_len EXCEPT ![s] = Minus(@, Len(Deliveries(s, sleep_q[s])))]
      /\ pending' = IF empty THEN Queued(mine, Bmc, sleep_q[Bmc], "release") ELSE mine
      /\ IF tim' # tim THEN Goto(c, "update", s) ELSE UNCHANGED <<pc, arg>>
      /\ UNCHANGED <<air, linked, uapsd, hiq, hand, snap, ghosts>>
  BY DEF Wake
<1>3. /\ sleep_q[s] \in Seq(Frame) /\ sleep_q[Bmc] \in Seq(Frame)
      /\ len[s] \in Int /\ len[Bmc] \in Int /\ ac_len[s] \in Int
  BY <1>0, <1>1, ParamAssumption DEF TypedSleep, ParamAssumption
<1>4. left \in 0..(LenMod - 1) /\ bleft \in 0..(LenMod - 1)
  <2>1. Len(sleep_q[s]) \in Int /\ Len(sleep_q[Bmc]) \in Int
    BY <1>3
  <2>2. left \in 0..(LenMod - 1)
    BY <1>3, <2>1, Modulo, ParamAssumption
  <2>3. bleft \in 0..(LenMod - 1)
    BY <1>3, <2>1, Modulo, ParamAssumption
  <2> QED BY <2>2, <2>3
<1>5. Minus(ac_len[s], Len(Deliveries(s, sleep_q[s]))) \in 0..(LenMod - 1)
  <2>1. Len(Deliveries(s, sleep_q[s])) \in Int
    BY <1>3, OfACsType DEF Deliveries
  <2> QED BY <1>3, <2>1, Modulo, ParamAssumption
<1>6. TypedPending'
  <2>1. \A p \in Pairs : pending[p] \in Seq(Own(p))
    BY <1>0 DEF TypedPending, Placed
  <2>2. DOMAIN mine = Pairs /\ \A p \in Pairs : mine[p] \in Seq(Own(p))
    BY <1>3, <2>1, QueuedPlaced
  <2> HIDE DEF mine
  <2> DEFINE both == Queued(mine, Bmc, sleep_q[Bmc], "release")
  <2>3. DOMAIN both = Pairs /\ \A p \in Pairs : both[p] \in Seq(Own(p))
    BY <1>3, <2>2, QueuedPlaced
  <2>4. both = [p \in Pairs |-> both[p]] /\ mine = [p \in Pairs |-> mine[p]]
    BY DEF Queued, Pairs, mine
  <2> HIDE DEF both
  <2>5. pending' = both \/ pending' = mine
    BY <1>2 DEF both
  <2>6. \A p \in Pairs : Seq(Own(p)) \subseteq Seq(Frame)
    <3>1. \A p : Own(p) \subseteq Frame
      BY DEF Own
    <3> QED BY <3>1
  <2> QED BY <2>2, <2>3, <2>4, <2>5, <2>6 DEF TypedPending, Placed
<1> HIDE DEF left, bleft, empty, woken, off, mine
<1>7. TypedSleep'
  BY <1>0, <1>1, <1>2, <1>4, <1>5 DEF TypedSleep
<1>8. TypedBits'
  BY <1>0, <1>2 DEF TypedBits, Bitmap
<1>9. TypedStations'
  BY <1>0, <1>2 DEF TypedStations, ghosts
<1>10. TypedControl'
  <2>1. CASE Goto(c, "update", s)
    BY <1>1, <1>2, <2>1, TypedGoto DEF Labels
  <2>2. CASE UNCHANGED <<pc, arg>>
    BY <1>2, <2>2, TypedKeep DEF control
  <2> QED BY <1>2, <2>1, <2>2
<1> QED BY <1>2, <1>6, <1>7, <1>8, <1>9, <1>10, TypedKeep, TypedParts DEF ghosts

(* What stop_sta_xmit moves from the pending queues.                       *)
LEMMA MovedType ==
    ASSUME Typed, NEW s \in Stas
    PROVE  LET mine  == Mark(pending[<<s, "vo">>] \o pending[<<s, "be">>], "new")
               group == Mark(pending[<<Bmc, "be">>], "new")
           IN  /\ mine \in Seq(Frame) /\ group \in Seq(Frame)
               /\ pending[<<s, "vo">>] \in Seq(Frame) /\ pending[<<s, "be">>] \in Seq(Frame)
               /\ pending[<<Bmc, "be">>] \in Seq(Frame)
               /\ Len(mine) = Len(pending[<<s, "vo">>]) + Len(pending[<<s, "be">>])
               /\ Len(group) = Len(pending[<<Bmc, "be">>])
<1>1. <<s, "vo">> \in Pairs /\ <<s, "be">> \in Pairs /\ <<Bmc, "be">> \in Pairs
  BY DEF Pairs, Rcv, ACs
<1>2. /\ pending[<<s, "vo">>] \in Seq(Frame) /\ pending[<<s, "be">>] \in Seq(Frame)
      /\ pending[<<Bmc, "be">>] \in Seq(Frame)
  BY <1>1, TypedParts DEF TypedPending
<1>3. /\ pending[<<s, "vo">>] \o pending[<<s, "be">>] \in Seq(Frame)
      /\ Len(pending[<<s, "vo">>] \o pending[<<s, "be">>])
           = Len(pending[<<s, "vo">>]) + Len(pending[<<s, "be">>])
  BY <1>2
<1>4. /\ Mark(pending[<<Bmc, "be">>], "new") \in Seq(Frame)
      /\ Len(Mark(pending[<<Bmc, "be">>], "new")) = Len(pending[<<Bmc, "be">>])
  BY <1>2, MarkType
<1> DEFINE two == pending[<<s, "vo">>] \o pending[<<s, "be">>]
<1>5. Mark(two, "new") \in Seq(Frame) /\ Len(Mark(two, "new")) = Len(two)
  <2> HIDE DEF two
  <2>1. two \in Seq(Frame)
    BY <1>3 DEF two
  <2> QED BY <2>1, MarkType
<1> QED BY <1>2, <1>3, <1>4, <1>5

LEMMA TypedSleeps ==
    ASSUME ParamAssumption, Typed, NEW s \in Stas, Sleep(s)
    PROVE  Typed'
<1>0. /\ TypedBits /\ TypedAir /\ TypedStations /\ TypedSleep
      /\ TypedPending /\ TypedControl /\ TypedSent /\ TypedGhosts
  BY TypedParts
<1>1. s \in Rcv /\ Bmc \in Rcv
  BY DEF Rcv
<1> DEFINE mine  == Mark(pending[<<s, "vo">>] \o pending[<<s, "be">>], "new")
           group == Mark(pending[<<Bmc, "be">>], "new")
           shown == \E i \in 1..Len(mine) : ShownInTim(s, mine[i])
           more  == (IF shown THEN {s} ELSE {}) \cup (IF group # <<>> THEN {Bmc} ELSE {})
<1>2. /\ mine \in Seq(Frame) /\ group \in Seq(Frame)
      /\ Len(mine) \in Int /\ Len(group) \in Int
  <2>1. mine \in Seq(Frame) /\ group \in Seq(Frame)
    BY MovedType
  <2> HIDE DEF mine, group
  <2> QED BY <2>1
<1>3. /\ CountEvent
      /\ asleep' = asleep \cup {s}
      /\ dz' = dz \cup {s} \cup (more \cap {Bmc})
      /\ sleep_q' = [sleep_q EXCEPT ![s] = @ \o mine, ![Bmc] = @ \o group]
      /\ len' = [len EXCEPT ![s] = Plus(@, Len(mine)), ![Bmc] = Plus(@, Len(group))]
      /\ ac_len' = [ac_len EXCEPT ![s] = Plus(@, Len(Deliveries(s, mine)))]
      /\ pending' = [p \in Rcv \X ACs |->
                       IF p[1] = s \/ p = <<Bmc, "be">> THEN <<>> ELSE pending[p]]
      /\ tim' = tim \cup more
      /\ tim_ie' = IF tim' # tim THEN tim' ELSE tim_ie
      /\ cmds' = cmds \o (IF shown /\ s \notin tim THEN <<"beacon">> ELSE <<>>)
                      \o BmcCmds(Len(group))
      /\ UNCHANGED <<beacon, linked, alive, uapsd, hiq, control, frames, faults,
                     changed, last, service>>
  BY DEF Sleep
<1>4. more \subseteq Rcv
  BY <1>1
<1>5. BmcCmds(Len(group)) \in Seq({"beacon", "bmc", "hiq"})
  <2>1. Len(group) \in Nat
    BY <1>2
  <2> HIDE DEF group
  <2> QED BY <2>1 DEF BmcCmds
<1>6. Len(Deliveries(s, mine)) \in Int
  <2>1. Deliveries(s, mine) \in Seq(Frame)
    BY <1>2, OfACsType DEF Deliveries
  <2> HIDE DEF mine
  <2> QED BY <2>1
<1> HIDE DEF mine, group, shown, more
<1>7. TypedSleep'
  <2>1. sleep_q' \in [Rcv -> Seq(Frame)]
    <3>1. s # Bmc
      BY ParamAssumption DEF ParamAssumption
    <3>2. sleep_q[s] \o mine \in Seq(Frame) /\ sleep_q[Bmc] \o group \in Seq(Frame)
      BY <1>0, <1>1, <1>2 DEF TypedSleep
    <3>3. sleep_q' = [sleep_q EXCEPT ![s] = sleep_q[s] \o mine, ![Bmc] = sleep_q[Bmc] \o group]
      BY <1>3, <3>1
    <3> QED BY <1>0, <3>2, <3>3 DEF TypedSleep
  <2>2. ASSUME NEW a \in Int, NEW k \in Int PROVE Plus(a, k) \in 0..(LenMod - 1)
    BY Modulo, ParamAssumption
  <2>3. len[s] \in Int /\ len[Bmc] \in Int /\ ac_len[s] \in Int
    BY <1>0, <1>1, ParamAssumption DEF TypedSleep, ParamAssumption
  <2>4. s # Bmc
    BY ParamAssumption DEF ParamAssumption
  <2>5. /\ Plus(len[s], Len(mine)) \in 0..(LenMod - 1)
        /\ Plus(len[Bmc], Len(group)) \in 0..(LenMod - 1)
        /\ Plus(ac_len[s], Len(Deliveries(s, mine))) \in 0..(LenMod - 1)
    BY <1>2, <1>6, <2>2, <2>3
  <2>6. len' = [len EXCEPT ![s] = Plus(len[s], Len(mine)), ![Bmc] = Plus(len[Bmc], Len(group))]
    BY <1>3, <2>4
  <2> QED BY <1>0, <1>3, <2>1, <2>5, <2>6 DEF TypedSleep
<1>8. TypedBits'
  BY <1>0, <1>1, <1>3, <1>4 DEF TypedBits, Bitmap
<1>9. TypedAir'
  <2> DEFINE first == IF shown /\ s \notin tim THEN <<"beacon">> ELSE <<>>
  <2>1. first \in Seq({"beacon", "bmc", "hiq"})
    <3>1. <<"beacon">> \in Seq({"beacon", "bmc", "hiq"}) /\ <<>> \in Seq({"beacon", "bmc", "hiq"})
      OBVIOUS
    <3> QED BY <3>1
  <2> HIDE DEF first
  <2>2. cmds' = (cmds \o first) \o BmcCmds(Len(group))
    BY <1>3 DEF first
  <2>3. cmds' \in Seq({"beacon", "bmc", "hiq"})
    BY <1>0, <1>5, <2>1, <2>2 DEF TypedAir
  <2> QED BY <1>0, <1>3, <1>8, <2>3 DEF TypedAir, TypedBits
<1>10. TypedPending'
  <2>1. ASSUME NEW p \in Pairs
        PROVE  pending'[p] \in Seq(Own(p)) /\ pending'[p] \in Seq(Frame)
    <3>1. pending'[p] = <<>> \/ pending'[p] = pending[p]
      BY <1>3 DEF Pairs
    <3>2. pending[p] \in Seq(Own(p)) /\ pending[p] \in Seq(Frame)
      BY <1>0 DEF TypedPending, Placed
    <3>3. <<>> \in Seq(Own(p)) /\ <<>> \in Seq(Frame)
      OBVIOUS
    <3> QED BY <3>1, <3>2, <3>3
  <2>2. pending' = [p \in Pairs |-> pending'[p]]
    BY <1>3 DEF Pairs
  <2> QED BY <2>1, <2>2 DEF TypedPending, Placed
<1>11. TypedStations'
  BY <1>0, <1>3 DEF TypedStations
<1>12. TypedGhosts'
  BY <1>0, <1>3, ParamAssumption DEF TypedGhosts, CountEvent, ParamAssumption
<1> QED BY <1>3, <1>7, <1>8, <1>9, <1>10, <1>11, <1>12, TypedKeep, TypedParts

LEMMA TypedStation ==
    ASSUME ParamAssumption, Typed, NEW s \in Stas, Station(s)
    PROVE  Typed'
<1>0. /\ TypedBits /\ TypedAir /\ TypedStations /\ TypedSleep
      /\ TypedPending /\ TypedControl /\ TypedSent /\ TypedGhosts
  BY TypedParts
<1>1. s \in Rcv /\ sleep_q[s] \in Seq(Frame) /\ len[s] \in Int /\ ac_len[s] \in Int
  BY <1>0, ParamAssumption DEF Rcv, TypedSleep, ParamAssumption
<1>2. ASSUME NEW u \in SUBSET ACs, Assoc(s, u) PROVE Typed'
  <2>1. TypedStations'
    BY <1>0, <1>2 DEF Assoc, TypedStations
  <2>2. TypedGhosts'
    BY <1>0, <1>2, ParamAssumption DEF Assoc, CountEvent, TypedGhosts, ParamAssumption
  <2> QED BY <1>2, <2>1, <2>2, TypedKeep, TypedParts DEF Assoc, queues
<1>3. ASSUME NEW ac \in ACs, Poll(s, ac) PROVE Typed'
  <2> DEFINE left == Minus(len[s], 1)
  <2>1. left \in 0..(LenMod - 1)
    <3>1. ASSUME NEW a \in Int PROVE Minus(a, 1) \in 0..(LenMod - 1)
      BY Modulo, ParamAssumption
    <3> QED BY <1>1, <3>1
  <2>2. /\ sleep_q[s] # <<>>
        /\ alive' = alive \ {s}
        /\ sleep_q' = [sleep_q EXCEPT ![s] = Tail(@)]
        /\ len' = [len EXCEPT ![s] = left]
        /\ pending' = Queued(pending, s, <<Head(sleep_q[s])>>, "release")
        /\ tim' = IF left = 0 THEN tim \ {s} ELSE tim
        /\ IF left = 0 THEN UpdateBeacon(tim') ELSE UNCHANGED air
        /\ UNCHANGED <<dz, linked, asleep, uapsd, ac_len, hiq, control, ghosts>>
    BY <1>3 DEF Poll
  <2> HIDE DEF left
  <2>3. TypedSleep'
    BY <1>0, <1>1, <2>1, <2>2 DEF TypedSleep
  <2>4. TypedPending'
    <3>1. Head(sleep_q[s]) \in Frame
      BY <1>1, <2>2
    <3>2. <<Head(sleep_q[s])>> \in Seq(Frame)
      BY <3>1
    <3> QED BY <1>0, <2>2, <3>2, QueuedTyped
  <2>5. TypedBits'
    BY <1>0, <2>2 DEF TypedBits, Bitmap
  <2>6. TypedAir'
    BY <1>0, <2>2, <2>5, TypedBeacon, TypedKeep DEF TypedBits
  <2>7. TypedStations'
    BY <1>0, <2>2 DEF TypedStations, ghosts
  <2> QED BY <2>2, <2>3, <2>4, <2>5, <2>6, <2>7, TypedKeep, TypedParts DEF ghosts
<1>4. ASSUME NEW ac \in ACs, PollNone(s, ac) PROVE Typed'
  <2>1. TypedControl'
    <3>1. CASE Goto("rx", "poll", s)
      BY <1>1, <1>4, <3>1, TypedGoto DEF PollNone, Labels
    <3>2. CASE UNCHANGED <<pc, arg>>
      BY <1>4, <3>2, TypedKeep DEF PollNone, control
    <3> QED BY <1>4, <3>1, <3>2 DEF PollNone
  <2>2. TypedStations'
    BY <1>0, <1>4 DEF PollNone, TypedStations, ghosts
  <2> QED BY <1>4, <2>1, <2>2, TypedKeep, TypedParts DEF PollNone, queues, ghosts
<1>5. ASSUME NEW ac \in ACs, Trigger(s, ac) PROVE Typed'
  <2> DEFINE sent == Deliveries(s, sleep_q[s])
             k    == Len(sent)
             done == ac_len[s] \in 1..k /\ ~HasLegacy(s)
  <2>1. /\ \/ service' = "ended" /\ UNCHANGED <<bits, air, queues>>
           \/ /\ service' \in {"ended", "open"}
              /\ sleep_q' = [sleep_q EXCEPT ![s] = Legacies(s, @)]
              /\ len' = [len EXCEPT ![s] = Minus(@, k)]
              /\ ac_len' = [ac_len EXCEPT ![s] = Minus(@, k)]
              /\ pending' = Queued(pending, s, sent, "release")
              /\ tim' = IF done THEN tim \ {s} ELSE tim
              /\ IF done THEN UpdateBeacon(tim') ELSE UNCHANGED air
              /\ UNCHANGED dz
        /\ UNCHANGED <<stations, hiq, control, frames, events, faults, changed, last>>
    BY <1>5 DEF Trigger
  <2>2. /\ sent \in Seq(Frame) /\ Legacies(s, sleep_q[s]) \in Seq(Frame)
    BY <1>1, OfACsType DEF Deliveries, Legacies
  <2>3. k \in Int
    BY <2>2
  <2> HIDE DEF sent, k, done
  <2>4. Minus(len[s], k) \in 0..(LenMod - 1)
    BY <1>1, <2>3, Modulo, ParamAssumption
  <2>5. Minus(ac_len[s], k) \in 0..(LenMod - 1)
    BY <1>1, <2>3, Modulo, ParamAssumption
  <2>6. CASE UNCHANGED <<bits, air, queues>> /\ service' = "ended"
    <3>1. TypedGhosts'
      BY <1>0, <2>1, <2>6 DEF TypedGhosts
    <3> QED BY <2>1, <2>6, <3>1, TypedKeep, TypedParts DEF queues
  <2>7. CASE ~ (UNCHANGED <<bits, air, queues>> /\ service' = "ended")
    <3>1. TypedSleep'
      BY <1>0, <1>1, <2>1, <2>2, <2>4, <2>5, <2>7 DEF TypedSleep
    <3>2. TypedPending'
      BY <1>0, <2>1, <2>2, <2>7, QueuedTyped
    <3>3. TypedBits'
      BY <1>0, <2>1, <2>7 DEF TypedBits, Bitmap
    <3>4. TypedAir'
      BY <1>0, <2>1, <2>7, <3>3, TypedBeacon, TypedKeep DEF TypedBits
    <3>5. TypedGhosts'
      BY <1>0, <2>1, <2>7 DEF TypedGhosts
    <3> QED BY <2>1, <2>7, <3>1, <3>2, <3>3, <3>4, <3>5, TypedKeep, TypedParts
  <2> QED BY <2>6, <2>7
<1>6. CASE Sleep(s)
  BY <1>6, TypedSleeps, ParamAssumption
<1>7. CASE RxWake(s)
  BY <1>7, TypedWake, ParamAssumption DEF RxWake
<1> QED BY <1>2, <1>3, <1>4, <1>5, <1>6, <1>7 DEF Station

LEMMA TypedTasklet ==
    ASSUME ParamAssumption, Typed, NEW p \in Pairs, XmitTasklet(p)
    PROVE  Typed'
<1>0. TypedPending /\ TypedSent
  BY TypedParts
<1>1. /\ pending[p] \in Seq(Own(p)) /\ pending[p] \in Seq(Frame) /\ pending[p] # <<>>
      /\ pending' = [pending EXCEPT ![p] = Tail(@)]
  BY <1>0 DEF XmitTasklet, TypedPending, Placed
<1>2. Head(pending[p]) \in Own(p) /\ Tail(pending[p]) \in Seq(Own(p)) /\ Tail(pending[p]) \in Seq(Frame)
  BY <1>1
<1>3. TypedPending'
  <2>1. pending' \in [Pairs -> Seq(Frame)]
    BY <1>0, <1>1, <1>2 DEF TypedPending
  <2>2. \A r \in Pairs : pending'[r] = IF r = p THEN Tail(pending[p]) ELSE pending[r]
    BY <1>0, <1>1 DEF TypedPending
  <2>3. \A r \in Pairs : pending'[r] \in Seq(Own(r))
    BY <1>0, <1>2, <2>2 DEF TypedPending, Placed
  <2> QED BY <2>1, <2>3 DEF TypedPending, Placed
<1>4. TypedSent'
  <2>1. Head(pending[p]).n \in 0..MaxFrames /\ Head(pending[p]).hi \in BOOLEAN
    BY <1>2, ParamAssumption DEF Own, Frame, ParamAssumption
  <2>2. Transmit(p[1], Head(pending[p]))
    BY DEF XmitTasklet
  <2> QED BY <1>0, <2>1, <2>2 DEF Transmit, TypedSent
<1> QED BY <1>3, <1>4, TypedKeep, TypedParts DEF XmitTasklet

LEMMA TypedFree ==
    ASSUME ParamAssumption, Typed, FreeSteps \/ \E s \in Stas : FreePurge(s)
    PROVE  Typed'
<1>0. /\ TypedBits /\ TypedAir /\ TypedStations /\ TypedSleep
      /\ TypedPending /\ TypedControl /\ TypedSent /\ TypedGhosts
      /\ 0 \in 0..(LenMod - 1)
  BY TypedParts, ParamAssumption DEF ParamAssumption
<1>1. ASSUME NEW s \in Stas, FreePurge(s) PROVE Typed'
  <2>1. TypedControl'
    BY <1>0, <1>1, TypedGoto DEF FreePurge, Labels, Rcv
  <2>2. TypedPending'
    <3>0. pending' = [p \in Rcv \X ACs |-> IF p[1] = s THEN <<>> ELSE pending[p]]
      BY <1>1 DEF FreePurge
    <3>1. ASSUME NEW p \in Pairs
          PROVE  pending'[p] \in Seq(Own(p)) /\ pending'[p] \in Seq(Frame)
      <4>1. pending'[p] = <<>> \/ pending'[p] = pending[p]
        BY <3>0 DEF Pairs
      <4>2. pending[p] \in Seq(Own(p)) /\ pending[p] \in Seq(Frame)
        BY <1>0 DEF TypedPending, Placed
      <4>3. <<>> \in Seq(Own(p)) /\ <<>> \in Seq(Frame)
        OBVIOUS
      <4> QED BY <4>1, <4>2, <4>3
    <3>2. pending' = [p \in Pairs |-> pending'[p]]
      BY <3>0 DEF Pairs
    <3> QED BY <3>1, <3>2 DEF TypedPending, Placed
  <2>3. TypedSleep'
    <3>1. <<>> \in Seq(Frame)
      OBVIOUS
    <3> QED BY <1>0, <1>1, <3>1 DEF FreePurge, TypedSleep
  <2>4. TypedStations'
    BY <1>0, <1>1 DEF FreePurge, TypedStations
  <2>5. TypedGhosts'
    BY <1>0, <1>1, ParamAssumption DEF FreePurge, CountEvent, TypedGhosts, ParamAssumption
  <2> QED BY <1>1, <2>1, <2>2, <2>3, <2>4, <2>5, TypedKeep, TypedParts DEF FreePurge
<1>2. CASE FreeRead
  <2>1. arg["free"] \in Rcv \cup {None}
    BY <1>0 DEF TypedControl, Contexts
  <2>2. TypedControl'
    BY <1>0, <1>2, <2>1, TypedGoto DEF FreeRead, Labels
  <2> QED BY <1>2, <2>2, TypedKeep, TypedParts DEF FreeRead, queues, ghosts
<1>3. CASE FreeWrite
  <2>1. TypedControl'
    <3>1. None \in Rcv \cup {None} /\ "idle" \in Labels /\ "idle" # "alive"
      BY DEF Labels
    <3> QED BY <1>3, <3>1, TypedGoto DEF FreeWrite
  <2>2. TypedBits'
    BY <1>0, <1>3 DEF FreeWrite, TypedBits, TypedControl, Torn, Contexts, Bitmap
  <2>3. TypedSleep'
    BY <1>0, <1>3 DEF FreeWrite, TypedSleep
  <2>4. TypedStations'
    BY <1>0, <1>3 DEF FreeWrite, TypedStations
  <2> QED BY <1>3, <2>1, <2>2, <2>3, <2>4, TypedKeep, TypedParts DEF FreeWrite
<1> QED BY <1>1, <1>2, <1>3 DEF FreeSteps

LEMMA TypedStep == ASSUME ParamAssumption, Typed, [Next]_vars PROVE Typed'
<1>1. CASE \E q \in Stas, ac \in ACs : TxBuffer(q, ac) \/ TxDirect(q, ac)
  BY <1>1, TypedTx, ParamAssumption DEF Rcv
<1>2. CASE TxBuffer(Bmc, "be") \/ TxDirect(Bmc, "be") \/ TxPass
  BY <1>2, TypedTx, ParamAssumption DEF Rcv, ACs
<1>3. CASE TaskletSteps
  BY <1>3, TypedTasklet, ParamAssumption DEF TaskletSteps, Pairs
<1>4. CASE HiqDrains
  <2>1. TypedSent'
    BY <1>4, TypedParts DEF HiqDrains, TypedSent, ghosts
  <2> QED BY <1>4, <2>1, TypedKeep, TypedParts DEF HiqDrains, queues, ghosts
<1>5. CASE \E s \in Stas : Station(s)
  BY <1>5, TypedStation, ParamAssumption
<1>6. CASE RxSteps \/ CmdSteps
  BY <1>6, TypedCmd, ParamAssumption
<1>7. ASSUME NEW s \in Stas, ExpireRead(s) \/ ExpireWake(s) PROVE Typed'
  <2>1. CASE ExpireRead(s)
    <3>1. TypedControl'
      <4>1. s \in Rcv \cup {None} /\ "check" \in Labels
        BY DEF Rcv, Labels
      <4> QED BY <2>1, <4>1, TypedGoto DEF ExpireRead
    <3>3. TypedGhosts'
      BY <2>1, TypedParts, ParamAssumption DEF ExpireRead, CountEvent, TypedGhosts, ParamAssumption
    <3> QED BY <2>1, <3>1, <3>3, TypedKeep, TypedParts DEF ExpireRead, queues
  <2>2. CASE ExpireWake(s)
    BY <2>2, TypedWake, ParamAssumption DEF ExpireWake
  <2> QED BY <1>7, <2>1, <2>2
<1>8. CASE FreeSteps \/ \E s \in Stas : FreePurge(s)
  BY <1>8, TypedFree, ParamAssumption
<1>9. CASE UNCHANGED vars
  BY <1>9, TypedKeep, TypedParts DEF vars, queues, ghosts
<1> QED BY <1>1, <1>2, <1>3, <1>4, <1>5, <1>6, <1>7, <1>8, <1>9 DEF Next

LEMMA TypedInit == ASSUME ParamAssumption, Init PROVE Typed
<1>1. /\ 0 \in 0..(LenMod - 1) /\ 0 \in 0..MaxFrames /\ 0 \in 0..MaxEvents
      /\ 0 \in 0..MaxFaults
  BY ParamAssumption DEF ParamAssumption
<1>2. \A E : <<>> \in Seq(E)
  OBVIOUS
<1>3. TypedBits /\ TypedAir /\ TypedStations /\ TypedSleep
  BY <1>1, <1>2 DEF Init, TypedBits, TypedAir, TypedStations, TypedSleep, Bitmap
<1>4. TypedPending
  BY <1>2 DEF Init, TypedPending, Placed, Pairs
<1>5. TypedControl /\ TypedSent /\ TypedGhosts
  BY <1>1, <1>2 DEF Init, TypedControl, TypedSent, TypedGhosts, InHand, Checked, Contexts,
                    Labels, Bitmap, Pairs
<1> QED BY <1>3, <1>4, <1>5, TypedParts

(* Every variable of the access point keeps its type: the counters stay    *)
(* unsigned integers, the queues hold frames that rtw_xmit was handed, and *)
(* the bitmaps name receivers, whoever writes them back.                   *)
THEOREM TypesKept == Spec => []TypeOK
<1>1. Init => Typed
  BY TypedInit, ParamAssumption
<1>2. Typed /\ [Next]_vars => Typed'
  BY TypedStep, ParamAssumption
<1>3. Typed => TypeOK
  BY DEF Typed
<1> QED BY <1>1, <1>2, <1>3, PTL DEF Spec

-----------------------------------------------------------------------------
(* What a step may do to the queues of one receiver.                       *)

Hold(q) == IF pc["tx"] = "pass" /\ arg["tx"] = q THEN 1 ELSE 0

SamePending(q) == \A a \in ACs : pending'[<<q, a>>] = pending[<<q, a>>]
SameLast(q) == \A a \in ACs : last'[<<q, a>>] = last[<<q, a>>]
SameTx(q) == frames' = frames /\ Hold(q)' = Hold(q)

Untouched(q) ==
    /\ SamePending(q) /\ SameLast(q) /\ Hold(q)' = Hold(q)
    /\ sleep_q'[q] = sleep_q[q] /\ len'[q] = len[q]
    /\ frames' \in {frames, frames + 1}

(* PollTim.                                                                *)
Zeroed(q) ==
    /\ SamePending(q) /\ SameLast(q) /\ SameTx(q)
    /\ sleep_q'[q] = sleep_q[q] /\ len'[q] = 0
    /\ pc["rx"] = "poll" /\ arg["rx"] = q

(* TxBuffer, TxDirect and TxPass.                                          *)
Buffered(q) ==
    /\ SamePending(q) /\ SameLast(q) /\ frames' = frames + 1
    /\ Hold(q) = 0 /\ Hold(q)' = 0
    /\ frames < MaxFrames /\ Buffers(q)
    /\ \E ac \in ACs : sleep_q'[q] = Append(sleep_q[q], NewFrame(ac))
    /\ len'[q] = Plus(len[q], 1)

Taken(q) ==
    /\ SamePending(q) /\ SameLast(q) /\ frames' = frames + 1
    /\ Hold(q) = 0 /\ Hold(q)' = 1
    /\ sleep_q'[q] = sleep_q[q] /\ len'[q] = len[q]

Queues(q) ==
    /\ SameLast(q)
    /\ \A a \in ACs :
          pending'[<<q, a>>] = IF a = hand[1].ac THEN Append(pending[<<q, a>>], hand[1])
                                                ELSE pending[<<q, a>>]
Sends(q) ==
    /\ SamePending(q)
    /\ pending[<<q, hand[1].ac>>] = <<>>
    /\ \A a \in ACs :
          last'[<<q, a>>] = IF a = hand[1].ac THEN hand[1].n ELSE last[<<q, a>>]

PassedOn(q) ==
    /\ Hold(q) = 1 /\ Hold(q)' = 0 /\ frames' = frames
    /\ hand[1] \in Frame
    /\ pc["tx"] = "pass" /\ arg["tx"] = q
    /\ sleep_q'[q] = sleep_q[q] /\ len'[q] = len[q]
    /\ Queues(q) \/ Sends(q) \/ (SamePending(q) /\ SameLast(q))

(* XmitTasklet.                                                            *)
Drained(q) ==
    /\ SameTx(q)
    /\ sleep_q'[q] = sleep_q[q] /\ len'[q] = len[q]
    /\ \E ac \in ACs :
          /\ pending[<<q, ac>>] # <<>>
          /\ \A a \in ACs :
                /\ pending'[<<q, a>>] = IF a = ac THEN Tail(pending[<<q, a>>]) ELSE pending[<<q, a>>]
                /\ last'[<<q, a>>] = IF a = ac THEN Head(pending[<<q, a>>]).n ELSE last[<<q, a>>]

(* Poll, Trigger, Wake and CmdFlush: out is handed to the tasklet.         *)
Parts(q, out, rest) ==
    /\ out \in Seq(Frame) /\ rest \in Seq(Frame)
    /\ Len(out) + Len(rest) = Len(sleep_q[q])
    /\ q # Bmc => \A a \in ACs : OfAC(sleep_q[q], a) = OfAC(out, a) \o OfAC(rest, a)

HandedOver(q, out, rest) ==
    /\ sleep_q'[q] = rest
    /\ len'[q] = Minus(len[q], Len(out))
    /\ \A a \in ACs : pending'[<<q, a>>] = pending[<<q, a>>] \o OfAC(Mark(out, "release"), a)

Released(q) ==
    /\ SameLast(q) /\ SameTx(q)
    /\ \E out, rest : Parts(q, out, rest) /\ HandedOver(q, out, rest)

(* Sleep, for the station and for the group.                               *)
Stopped(q) ==
    LET mine == Mark(pending[<<q, "vo">>] \o pending[<<q, "be">>], "new")
    IN  /\ SameLast(q) /\ SameTx(q)
        /\ q \in Stas \ asleep /\ q \in linked
        /\ sleep_q'[q] = sleep_q[q] \o mine
        /\ len'[q] = Plus(len[q], Len(mine))
        /\ \A a \in ACs : pending'[<<q, a>>] = <<>>

Regrouped(q) ==
    LET group == Mark(pending[<<q, "be">>], "new")
    IN  /\ SameLast(q) /\ SameTx(q)
        /\ q = Bmc
        /\ sleep_q'[q] = sleep_q[q] \o group
        /\ len'[q] = Plus(len[q], Len(group))
        /\ \A a \in ACs : pending'[<<q, a>>] = IF a = "be" THEN <<>> ELSE pending[<<q, a>>]

(* FreePurge.                                                              *)
Purged(q) ==
    /\ q \in linked /\ q \notin linked'
    /\ SameLast(q) /\ SameTx(q)
    /\ sleep_q'[q] = <<>> /\ len'[q] = 0
    /\ \A a \in ACs : pending'[<<q, a>>] = <<>>

Move(q) ==
    \/ Untouched(q) \/ Zeroed(q)
    \/ Buffered(q) \/ Taken(q) \/ PassedOn(q) \/ Drained(q)
    \/ Released(q) \/ Stopped(q) \/ Regrouped(q) \/ Purged(q)

LEMMA PairIn == ASSUME NEW q \in Rcv, NEW a \in ACs PROVE <<q, a>> \in Pairs
BY DEF Pairs

LEMMA QueuedAt ==
    ASSUME NEW old, NEW r, NEW fs, NEW v, NEW q \in Rcv, NEW a \in ACs
    PROVE  Queued(old, r, fs, v)[<<q, a>>] =
             IF q = r THEN old[<<q, a>>] \o OfAC(Mark(fs, v), a) ELSE old[<<q, a>>]
<1>1. <<q, a>> \in Rcv \X ACs /\ <<q, a>>[1] = q /\ <<q, a>>[2] = a
  OBVIOUS
<1> QED BY <1>1 DEF Queued

(* Only tx changes what tx holds.                                          *)
LEMMA HoldKept ==
    ASSUME Typed, NEW q,
           \/ UNCHANGED control
           \/ UNCHANGED <<pc, arg>>
           \/ \E c \in {"rx", "cmd", "free"} : \E label, r : Goto(c, label, r)
    PROVE  Hold(q)' = Hold(q)
<1>1. CASE \E c \in {"rx", "cmd", "free"} : \E label, r : Goto(c, label, r)
  <2>1. PICK c \in {"rx", "cmd", "free"} : \E label, r : Goto(c, label, r)
    BY <1>1
  <2>2. pc'["tx"] = pc["tx"] /\ arg'["tx"] = arg["tx"]
    BY <2>1, TypedParts DEF TypedControl, Goto, Contexts
  <2> QED BY <2>2 DEF Hold
<1>2. CASE UNCHANGED <<pc, arg>>
  BY <1>2 DEF Hold
<1> QED BY <1>1, <1>2 DEF control

(* Steps that leave the queues, the transmit path and frames alone.        *)
LEMMA MoveQuiet ==
    ASSUME Typed, NEW q \in Rcv, UNCHANGED <<queues, last, frames>>,
           \/ UNCHANGED control
           \/ UNCHANGED <<pc, arg>>
           \/ \E c \in {"rx", "cmd", "free"} : \E label, r : Goto(c, label, r)
    PROVE  Untouched(q)
<1>1. Hold(q)' = Hold(q)
  BY HoldKept
<1> QED BY <1>1 DEF Untouched, SamePending, SameLast, queues

LEMMA MoveThreads ==
    ASSUME ParamAssumption, Typed, CmdSteps \/ RxSteps, NEW q \in Rcv
    PROVE  Move(q)
<1>1. ASSUME NEW c \in {"rx", "cmd"}, BeaconAfter(c) PROVE Move(q)
  BY <1>1, MoveQuiet DEF BeaconAfter, ghosts, Move
<1>2. CASE CmdBeacon
  BY <1>2, MoveQuiet DEF CmdBeacon, ghosts, Move
<1>3. CASE CmdBeaconFails
  BY <1>3, MoveQuiet DEF CmdBeaconFails, Move
<1>4. CASE CmdBmc
  BY <1>4, MoveQuiet DEF CmdBmc, ghosts, Move
<1>5. CASE CmdFlush
  <2>1. Hold(q)' = Hold(q) /\ SameLast(q) /\ frames' = frames
    <3>1. Goto("cmd", "idle", None) /\ UNCHANGED <<last, frames>>
      BY <1>5 DEF CmdFlush, ghosts
    <3> QED BY <3>1, HoldKept DEF SameLast
  <2>2. PICK special : pending' = Queued(pending, Bmc, Raised(sleep_q[Bmc], special), "release")
    BY <1>5 DEF CmdFlush
  <2> DEFINE out == Raised(sleep_q[Bmc], special)
  <2>3. sleep_q[Bmc] \in Seq(Frame) /\ DOMAIN sleep_q = Rcv /\ DOMAIN len = Rcv
    BY TypedParts DEF TypedSleep, Rcv
  <2>4. out \in Seq(Frame) /\ Len(out) = Len(sleep_q[Bmc])
    BY <2>3, RaisedType
  <2> HIDE DEF out
  <2>6. ASSUME NEW a \in ACs
        PROVE  pending'[<<q, a>>] = IF q = Bmc THEN pending[<<q, a>>] \o OfAC(Mark(out, "release"), a)
                                               ELSE pending[<<q, a>>]
    BY <2>2, QueuedAt DEF out
  <2>7. CASE q # Bmc
    <3>1. SamePending(q)
      BY <2>6, <2>7 DEF SamePending
    <3>2. sleep_q'[q] = sleep_q[q] /\ len'[q] = len[q]
      BY <1>5, <2>3, <2>7 DEF CmdFlush
    <3> QED BY <2>1, <3>1, <3>2 DEF Move, Untouched
  <2>8. CASE q = Bmc
    <3>1. \A a \in ACs : pending'[<<q, a>>] = pending[<<q, a>>] \o OfAC(Mark(out, "release"), a)
      BY <2>6, <2>8
    <3>2. sleep_q'[q] = <<>> /\ len'[q] = Minus(len[q], Len(out))
      BY <1>5, <2>3, <2>4, <2>8 DEF CmdFlush
    <3>3. Parts(q, out, <<>>)
      BY <2>3, <2>4, <2>8 DEF Parts
    <3>4. HandedOver(q, out, <<>>)
      BY <3>1, <3>2 DEF HandedOver
    <3> QED BY <2>1, <3>3, <3>4 DEF Move, Released, SameTx
  <2> QED BY <2>7, <2>8
<1>6. CASE CmdHiq
  BY <1>6, MoveQuiet DEF CmdHiq, ghosts, Move
<1>7. CASE HiqRead
  BY <1>7, MoveQuiet DEF HiqRead, ghosts, Move
<1>8. CASE HiqWrite
  BY <1>8, MoveQuiet DEF HiqWrite, ghosts, Move
<1>9. CASE ExpireWrite
  BY <1>9, MoveQuiet DEF ExpireWrite, ghosts, Move
<1>10. CASE PollTim
  <2>1. /\ UNCHANGED <<sleep_q, pending, frames, last>>
        /\ Goto("rx", "clear", arg["rx"]) \/ Goto("rx", "idle", None)
        /\ len' = len \/ len' = [len EXCEPT ![arg["rx"]] = 0]
        /\ pc["rx"] = "poll"
    BY <1>10 DEF PollTim, ghosts, At
  <2>2. Hold(q)' = Hold(q) /\ SamePending(q) /\ SameLast(q) /\ SameTx(q)
    BY <2>1, HoldKept DEF SamePending, SameLast, SameTx
  <2>3. DOMAIN len = Rcv
    BY TypedParts DEF TypedSleep
  <2>4. len'[q] = len[q] \/ (q = arg["rx"] /\ len'[q] = 0)
    BY <2>1, <2>3
  <2> QED BY <2>1, <2>2, <2>4 DEF Move, Untouched, Zeroed
<1>11. CASE PollClear
  BY <1>11, MoveQuiet DEF PollClear, ghosts, Move
<1>12. CASE ExpireMark
  BY <1>12, MoveQuiet DEF ExpireMark, ghosts, Move
<1> QED BY <1>1, <1>2, <1>3, <1>4, <1>5, <1>6, <1>7, <1>8, <1>9, <1>10, <1>11, <1>12
        DEF CmdSteps, RxSteps

LEMMA MoveTx ==
    ASSUME ParamAssumption, Typed, NEW q \in Rcv, NEW r \in Rcv, NEW ac \in ACs,
           TxBuffer(r, ac) \/ TxDirect(r, ac) \/ TxPass
    PROVE  Move(q)
<1>0. /\ TypedSleep /\ TypedPending /\ TypedControl /\ TypedSent
  BY TypedParts
<1>1. CASE TxBuffer(r, ac)
  <2>1. /\ pc["tx"] = "idle" /\ UNCHANGED <<pending, last, pc, arg>> /\ frames' = frames + 1
        /\ frames < MaxFrames /\ Buffers(r)
        /\ sleep_q' = [sleep_q EXCEPT ![r] = Append(@, NewFrame(ac))]
        /\ len' = [len EXCEPT ![r] = Plus(@, 1)]
    BY <1>1 DEF TxBuffer, At, control
  <2>2. SamePending(q) /\ SameLast(q) /\ Hold(q) = 0 /\ Hold(q)' = 0
    BY <2>1 DEF SamePending, SameLast, Hold
  <2>3. CASE q = r
    <3>1. sleep_q'[q] = Append(sleep_q[q], NewFrame(ac)) /\ len'[q] = Plus(len[q], 1)
      BY <1>0, <2>1, <2>3 DEF TypedSleep
    <3> QED BY <2>1, <2>2, <2>3, <3>1 DEF Move, Buffered
  <2>4. CASE q # r
    <3>1. sleep_q'[q] = sleep_q[q] /\ len'[q] = len[q]
      BY <1>0, <2>1, <2>4 DEF TypedSleep
    <3> QED BY <2>1, <2>2, <3>1 DEF Move, Untouched
  <2> QED BY <2>3, <2>4
<1>2. CASE TxDirect(r, ac)
  <2>1. /\ pc["tx"] = "idle" /\ UNCHANGED <<sleep_q, len, pending, last>> /\ frames' = frames + 1
        /\ pc' = [pc EXCEPT !["tx"] = "pass"] /\ arg' = [arg EXCEPT !["tx"] = r]
    BY <1>2 DEF TxDirect, At, Goto, queues
  <2>2. pc'["tx"] = "pass" /\ arg'["tx"] = r
    BY <1>0, <2>1 DEF TypedControl, Contexts
  <2>3. SamePending(q) /\ SameLast(q) /\ Hold(q) = 0 /\ Hold(q)' = IF q = r THEN 1 ELSE 0
    BY <2>1, <2>2 DEF SamePending, SameLast, Hold
  <2> QED BY <2>1, <2>3 DEF Move, Untouched, Taken
<1>3. CASE TxPass
  <2> DEFINE t == arg["tx"]
             f == hand[1]
             p == <<t, f.ac>>
  <2>1. pc["tx"] = "pass" /\ UNCHANGED <<sleep_q, len, frames>>
    BY <1>3 DEF TxPass, At
  <2>2. hand \in Seq(Frame) /\ Len(hand) = 1 /\ t \in Rcv
    BY <1>0, <2>1 DEF TypedControl, InHand
  <2>3. f \in Frame /\ f.ac \in ACs
    <3>0. hand \in Seq(Frame) /\ 1 \in 1..Len(hand)
      BY <2>2
    <3>1. hand[1] \in Frame
      BY <3>0
    <3> QED BY <3>1 DEF Frame
  <2>4. pc'["tx"] = "idle"
    BY <1>0, <1>3 DEF TxPass, Goto, TypedControl, Contexts
  <2>5. \/ pending' = [pending EXCEPT ![p] = Append(@, f)] /\ UNCHANGED last
        \/ pending[p] = <<>> /\ last' = [last EXCEPT ![p] = f.n] /\ UNCHANGED pending
        \/ UNCHANGED <<pending, last>>
    BY <1>3 DEF TxPass, Transmit
  <2> HIDE DEF f
  <2>6. CASE q # t
    <3>1. Hold(q) = 0 /\ Hold(q)' = 0
      BY <2>1, <2>4, <2>6 DEF Hold
    <3>2. ASSUME NEW a \in ACs
          PROVE  pending'[<<q, a>>] = pending[<<q, a>>] /\ last'[<<q, a>>] = last[<<q, a>>]
      <4>1. <<q, a>> \in Pairs /\ <<q, a>> # p
        BY <2>6, PairIn
      <4> HIDE DEF p
      <4> QED BY <1>0, <2>5, <4>1 DEF TypedPending, TypedSent
    <3> QED BY <2>1, <3>1, <3>2 DEF Move, Untouched, SamePending, SameLast
  <2>7. CASE q = t
    <3>1. Hold(q) = 1 /\ Hold(q)' = 0
      BY <2>1, <2>4, <2>7 DEF Hold
    <3>2. ASSUME NEW a \in ACs
          PROVE  /\ <<q, a>> \in Pairs
                 /\ <<q, a>> = p <=> a = f.ac
      BY <2>7, PairIn
    <3> HIDE DEF p
    <3>3. CASE pending' = [pending EXCEPT ![p] = Append(@, f)] /\ UNCHANGED last
      <4>1. ASSUME NEW a \in ACs
            PROVE  pending'[<<q, a>>] = IF a = f.ac THEN Append(pending[<<q, a>>], f)
                                                    ELSE pending[<<q, a>>]
        BY <1>0, <3>2, <3>3 DEF TypedPending
      <4>2. Queues(q)
        BY <3>3, <4>1 DEF Queues, SameLast, f
      <4> QED BY <2>1, <2>3, <2>7, <3>1, <4>2 DEF Move, PassedOn, f
    <3>4. CASE pending[p] = <<>> /\ last' = [last EXCEPT ![p] = f.n] /\ UNCHANGED pending
      <4>1. ASSUME NEW a \in ACs
            PROVE  last'[<<q, a>>] = IF a = f.ac THEN f.n ELSE last[<<q, a>>]
        BY <1>0, <3>2, <3>4 DEF TypedSent
      <4>2. pending[<<q, f.ac>>] = <<>>
        BY <2>7, <3>4 DEF p
      <4>3. Sends(q)
        BY <3>4, <4>1, <4>2 DEF Sends, SamePending, f
      <4> QED BY <2>1, <2>3, <2>7, <3>1, <4>3 DEF Move, PassedOn, f
    <3>5. CASE UNCHANGED <<pending, last>>
      BY <2>1, <2>3, <2>7, <3>1, <3>5 DEF Move, PassedOn, SamePending, SameLast, f
    <3> QED BY <2>5, <3>3, <3>4, <3>5
  <2> QED BY <2>6, <2>7
<1> QED BY <1>1, <1>2, <1>3

LEMMA MoveTasklet ==
    ASSUME Typed, NEW q \in Rcv, NEW p \in Pairs, XmitTasklet(p)
    PROVE  Move(q)
<1>0. TypedPending /\ TypedSent
  BY TypedParts
<1>1. /\ UNCHANGED <<sleep_q, len, pc, arg, frames>> /\ pending[p] # <<>>
      /\ last' = [last EXCEPT ![<<p[1], Head(pending[p]).ac>>] = Head(pending[p]).n]
      /\ pending' = [pending EXCEPT ![p] = Tail(@)]
  BY DEF XmitTasklet, Transmit, control
<1>2. Head(pending[p]).ac = p[2]
  <2>1. pending[p] \in Seq(Own(p))
    BY <1>0 DEF TypedPending, Placed
  <2>2. Head(pending[p]) \in Own(p)
    BY <1>1, <2>1
  <2> QED BY <2>2 DEF Own
<1>3. p = <<p[1], p[2]>> /\ p[2] \in ACs
  BY DEF Pairs
<1>4. last' = [last EXCEPT ![p] = Head(pending[p]).n]
  BY <1>1, <1>2, <1>3
<1>5. SameTx(q)
  BY <1>1 DEF SameTx, Hold
<1>6. ASSUME NEW a \in ACs
      PROVE  /\ pending'[<<q, a>>] = IF <<q, a>> = p THEN Tail(pending[<<q, a>>]) ELSE pending[<<q, a>>]
             /\ last'[<<q, a>>] = IF <<q, a>> = p THEN Head(pending[<<q, a>>]).n ELSE last[<<q, a>>]
  <2>1. <<q, a>> \in Pairs
    BY PairIn
  <2> QED BY <1>0, <1>1, <1>4, <2>1 DEF TypedPending, TypedSent
<1>7. CASE q = p[1]
  <2>1. \A a \in ACs : <<q, a>> = p <=> a = p[2]
    BY <1>3, <1>7
  <2>2. <<q, p[2]>> = p
    BY <1>3, <1>7
  <2>3. pending[<<q, p[2]>>] # <<>>
    BY <1>1, <2>2
  <2> QED BY <1>1, <1>3, <1>5, <1>6, <2>1, <2>3 DEF Move, Drained
<1>8. CASE q # p[1]
  <2>1. \A a \in ACs : <<q, a>> # p
    BY <1>3, <1>8
  <2> QED BY <1>1, <1>5, <1>6, <2>1 DEF Move, Untouched, SamePending, SameLast, SameTx
<1> QED BY <1>7, <1>8

(* A queue is its head and its tail.                                       *)
LEMMA HeadTail ==
    ASSUME NEW E, NEW fs \in Seq(E), fs # <<>>
    PROVE  /\ <<Head(fs)>> \in Seq(E) /\ Tail(fs) \in Seq(E)
           /\ fs = <<Head(fs)>> \o Tail(fs)
           /\ Len(<<Head(fs)>>) + Len(Tail(fs)) = Len(fs)
<1>1. Head(fs) \in E /\ Tail(fs) \in Seq(E) /\ Len(Tail(fs)) = Len(fs) - 1
      /\ Len(fs) \in Nat /\ Len(fs) > 0
  OBVIOUS
<1>2. <<Head(fs)>> \in Seq(E) /\ Len(<<Head(fs)>>) = 1 /\ <<Head(fs)>>[1] = fs[1]
  BY <1>1
<1>3. fs = <<Head(fs)>> \o Tail(fs)
  <2> DEFINE gs == <<Head(fs)>> \o Tail(fs)
  <2>1. gs \in Seq(E) /\ Len(gs) = Len(fs)
    BY <1>1, <1>2
  <2>2. ASSUME NEW i \in 1..Len(fs) PROVE gs[i] = fs[i]
    BY <1>1, <1>2
  <2> HIDE DEF gs
  <2>3. gs = fs
    BY <2>1, <2>2
  <2> QED BY <2>3 DEF gs
<1> QED BY <1>1, <1>2, <1>3

(* The three ways to release frames to a station take its queue apart.     *)
LEMMA PartsPoll ==
    ASSUME NEW q, sleep_q[q] \in Seq(Frame), sleep_q[q] # <<>>
    PROVE  Parts(q, <<Head(sleep_q[q])>>, Tail(sleep_q[q]))
<1> DEFINE fs == sleep_q[q]
           h  == <<Head(fs)>>
           t  == Tail(fs)
<1>1. h \in Seq(Frame) /\ t \in Seq(Frame) /\ fs = h \o t /\ Len(h) + Len(t) = Len(fs)
  BY HeadTail
<1>2. ASSUME NEW a \in ACs PROVE OfAC(fs, a) = OfAC(h, a) \o OfAC(t, a)
  <2> HIDE DEF fs, h, t
  <2>1. OfACs(h \o t, {a}) = OfACs(h, {a}) \o OfACs(t, {a})
    BY <1>1, OfACsConcat
  <2> QED BY <1>1, <2>1 DEF OfAC
<1> QED BY <1>1, <1>2 DEF Parts

LEMMA PartsWake ==
    ASSUME NEW q, sleep_q[q] \in Seq(Frame)
    PROVE  Parts(q, sleep_q[q], <<>>)
<1>1. ASSUME NEW a \in ACs PROVE OfAC(sleep_q[q], a) = OfAC(sleep_q[q], a) \o OfAC(<<>>, a)
  <2>1. OfACs(sleep_q[q], {a}) \in Seq(Frame)
    BY OfACsType
  <2>2. OfACs(<<>>, {a}) = <<>>
    BY OfACsEmpty
  <2>3. OfACs(sleep_q[q], {a}) \o <<>> = OfACs(sleep_q[q], {a})
    BY <2>1, ConcatEmptySeq
  <2> QED BY <2>2, <2>3, Zenon DEF OfAC
<1>2. <<>> \in Seq(Frame) /\ Len(sleep_q[q]) + Len(<<>>) = Len(sleep_q[q])
  OBVIOUS
<1> QED BY <1>1, <1>2 DEF Parts

LEMMA PartsTrigger ==
    ASSUME NEW s \in Stas, sleep_q[s] \in Seq(Frame), uapsd[s] \in SUBSET ACs
    PROVE  Parts(s, Deliveries(s, sleep_q[s]), Legacies(s, sleep_q[s]))
<1> DEFINE fs == sleep_q[s]
           A  == uapsd[s]
           B  == ACs \ uapsd[s]
<1>1. \A f \in Frame : f.ac \in A <=> f.ac \notin B
  BY DEF Frame
<1>2. OfACs(fs, A) \in Seq(Frame) /\ OfACs(fs, B) \in Seq(Frame)
  BY OfACsType
<1>3. Len(OfACs(fs, A)) + Len(OfACs(fs, B)) = Len(fs)
  <2> HIDE DEF A, B, fs
  <2>1. fs \in Seq(Frame)
    BY DEF fs
  <2> QED BY <1>1, <2>1, OfACsSplit
<1>4. ASSUME NEW a \in ACs
      PROVE  OfAC(fs, a) = OfAC(OfACs(fs, A), a) \o OfAC(OfACs(fs, B), a)
  <2>1. /\ OfACs(OfACs(fs, A), {a}) = OfACs(fs, A \cap {a})
        /\ OfACs(OfACs(fs, B), {a}) = OfACs(fs, B \cap {a})
    BY OfACsTwice
  <2>2. OfACs(fs, {}) = <<>>
    BY OfACsNone
  <2>3. /\ OfACs(fs, {a}) \o <<>> = OfACs(fs, {a})
        /\ <<>> \o OfACs(fs, {a}) = OfACs(fs, {a})
    <3>1. OfACs(fs, {a}) \in Seq(Frame)
      BY OfACsType
    <3> QED BY <3>1, ConcatEmptySeq
  <2>4. CASE a \in A
    <3>1. A \cap {a} = {a} /\ B \cap {a} = {}
      BY <2>4
    <3> QED BY <2>1, <2>2, <2>3, <3>1, Zenon DEF OfAC
  <2>5. CASE a \notin A
    <3>1. A \cap {a} = {} /\ B \cap {a} = {a}
      BY <2>5
    <3> QED BY <2>1, <2>2, <2>3, <3>1, Zenon DEF OfAC
  <2> QED BY <2>4, <2>5
<1> QED BY <1>2, <1>3, <1>4 DEF Parts, Deliveries, Legacies

LEMMA MoveWake ==
    ASSUME ParamAssumption, Typed, NEW s \in Stas, NEW c \in {"rx", "cmd"}, Wake(c, s),
           NEW q \in Rcv
    PROVE  Move(q)
<1> DEFINE left  == Minus(len[s], Len(sleep_q[s]))
           woken == IF left = 0 THEN {s} ELSE {}
           empty == (dz \ woken) \ {Bmc} = {}
           bleft == Minus(len[Bmc], Len(sleep_q[Bmc]))
           mine  == Queued(pending, s, sleep_q[s], "release")
<1>1. /\ sleep_q' = [r \in Rcv |-> IF r = s \/ (r = Bmc /\ empty) THEN <<>> ELSE sleep_q[r]]
      /\ len' = [r \in Rcv |-> IF r = s THEN left
                               ELSE IF r = Bmc /\ empty THEN bleft ELSE len[r]]
      /\ pending' = IF empty THEN Queued(mine, Bmc, sleep_q[Bmc], "release") ELSE mine
      /\ IF tim' # tim THEN Goto(c, "update", s) ELSE UNCHANGED <<pc, arg>>
      /\ UNCHANGED <<last, frames>>
  BY DEF Wake, ghosts
<1>2. SameLast(q) /\ SameTx(q) /\ frames' = frames /\ Hold(q)' = Hold(q)
  <2>1. Hold(q)' = Hold(q)
    BY <1>1, HoldKept
  <2> QED BY <1>1, <2>1 DEF SameLast, SameTx
<1>3. sleep_q[q] \in Seq(Frame) /\ s # Bmc
  BY TypedParts, ParamAssumption DEF TypedSleep, ParamAssumption
<1>4. ASSUME NEW a \in ACs
      PROVE  mine[<<q, a>>] = IF q = s THEN pending[<<q, a>>] \o OfAC(Mark(sleep_q[q], "release"), a)
                                      ELSE pending[<<q, a>>]
  BY QueuedAt
<1> HIDE DEF mine
<1>5. ASSUME NEW a \in ACs
      PROVE  pending'[<<q, a>>] =
               IF q = Bmc /\ empty THEN mine[<<q, a>>] \o OfAC(Mark(sleep_q[q], "release"), a)
                                   ELSE mine[<<q, a>>]
  BY <1>1, QueuedAt
<1> HIDE DEF empty
<1>6. CASE q = s \/ (q = Bmc /\ empty)
  <2>1. sleep_q'[q] = <<>> /\ len'[q] = Minus(len[q], Len(sleep_q[q]))
    BY <1>1, <1>3, <1>6
  <2>2. \A a \in ACs :
          pending'[<<q, a>>] = pending[<<q, a>>] \o OfAC(Mark(sleep_q[q], "release"), a)
    BY <1>3, <1>4, <1>5, <1>6, Zenon
  <2>3. Parts(q, sleep_q[q], <<>>)
    BY <1>3, PartsWake
  <2>4. HandedOver(q, sleep_q[q], <<>>)
    BY <2>1, <2>2 DEF HandedOver
  <2> QED BY <1>2, <2>3, <2>4 DEF Move, Released
<1>7. CASE ~ (q = s \/ (q = Bmc /\ empty))
  <2>1. sleep_q'[q] = sleep_q[q] /\ len'[q] = len[q]
    BY <1>1, <1>7
  <2>2. SamePending(q)
    BY <1>4, <1>5, <1>7, Zenon DEF SamePending
  <2> QED BY <1>2, <2>1, <2>2 DEF Move, Untouched
<1> QED BY <1>6, <1>7

LEMMA MoveStation ==
    ASSUME ParamAssumption, Typed, NEW s \in Stas, Station(s), NEW q \in Rcv
    PROVE  Move(q)
<1>0. TypedStations /\ TypedSleep /\ TypedPending
  BY TypedParts
<1>1. /\ s \in Rcv /\ s # Bmc /\ sleep_q[q] \in Seq(Frame) /\ uapsd[s] \in SUBSET ACs
      /\ DOMAIN sleep_q = Rcv /\ DOMAIN len = Rcv
  BY <1>0, ParamAssumption DEF Rcv, TypedSleep, TypedStations, ParamAssumption
<1>2. ASSUME NEW u \in SUBSET ACs, Assoc(s, u) PROVE Move(q)
  BY <1>2, MoveQuiet DEF Assoc, Move
<1>3. ASSUME NEW ac \in ACs, Poll(s, ac) PROVE Move(q)
  <2>1. /\ sleep_q[s] # <<>>
        /\ sleep_q' = [sleep_q EXCEPT ![s] = Tail(@)]
        /\ len' = [len EXCEPT ![s] = Minus(len[s], 1)]
        /\ pending' = Queued(pending, s, <<Head(sleep_q[s])>>, "release")
        /\ UNCHANGED <<pc, arg, last, frames>>
    BY <1>3 DEF Poll, control, ghosts
  <2>2. SameLast(q) /\ SameTx(q)
    BY <2>1 DEF SameLast, SameTx, Hold
  <2>3. CASE q = s
    <3>1. \A a \in ACs : pending'[<<q, a>>]
             = pending[<<q, a>>] \o OfAC(Mark(<<Head(sleep_q[q])>>, "release"), a)
      <4> DEFINE out == <<Head(sleep_q[s])>>
      <4>1. pending' = Queued(pending, s, out, "release")
        BY <2>1
      <4> HIDE DEF out
      <4>2. \A a \in ACs : pending'[<<q, a>>] = pending[<<q, a>>] \o OfAC(Mark(out, "release"), a)
        <5>1. ASSUME NEW a \in ACs
              PROVE  Queued(pending, s, out, "release")[<<q, a>>] =
                       IF q = s THEN pending[<<q, a>>] \o OfAC(Mark(out, "release"), a)
                                ELSE pending[<<q, a>>]
          <6>1. <<q, a>> \in Rcv \X ACs /\ <<q, a>>[1] = q /\ <<q, a>>[2] = a
            OBVIOUS
          <6> QED BY <6>1 DEF Queued
        <5> QED BY <2>3, <4>1, <5>1, Zenon
      <4> QED BY <2>3, <4>2 DEF out
    <3>2. sleep_q'[q] = Tail(sleep_q[q]) /\ len'[q] = Minus(len[q], 1)
      BY <1>1, <2>1, <2>3
    <3>3. Len(<<Head(sleep_q[q])>>) = 1
      OBVIOUS
    <3>4. HandedOver(q, <<Head(sleep_q[q])>>, Tail(sleep_q[q]))
      BY <3>1, <3>2, <3>3 DEF HandedOver
    <3>5. Parts(q, <<Head(sleep_q[q])>>, Tail(sleep_q[q]))
      BY <1>1, <2>1, <2>3, PartsPoll
    <3> QED BY <2>2, <3>4, <3>5 DEF Move, Released
  <2>4. CASE q # s
    <3>1. SamePending(q)
      BY <2>1, <2>4, QueuedAt DEF SamePending
    <3>2. sleep_q'[q] = sleep_q[q] /\ len'[q] = len[q]
      BY <1>1, <2>1, <2>4
    <3> QED BY <2>2, <3>1, <3>2 DEF Move, Untouched, SameTx
  <2> QED BY <2>3, <2>4
<1>4. ASSUME NEW ac \in ACs, PollNone(s, ac) PROVE Move(q)
  BY <1>4, MoveQuiet DEF PollNone, ghosts, Move
<1>5. ASSUME NEW ac \in ACs, Trigger(s, ac) PROVE Move(q)
  <2> DEFINE sent == Deliveries(s, sleep_q[s])
  <2>1. /\ UNCHANGED <<pc, arg, last, frames>>
        /\ \/ UNCHANGED queues
           \/ /\ sleep_q' = [sleep_q EXCEPT ![s] = Legacies(s, @)]
              /\ len' = [len EXCEPT ![s] = Minus(@, Len(sent))]
              /\ pending' = Queued(pending, s, sent, "release")
    BY <1>5 DEF Trigger, control
  <2>2. SameLast(q) /\ SameTx(q)
    BY <2>1 DEF SameLast, SameTx, Hold
  <2>3. CASE UNCHANGED queues
    BY <2>1, <2>2, <2>3 DEF Move, Untouched, SameTx, SamePending, queues
  <2>4. CASE ~ UNCHANGED queues
    <3>1. \A a \in ACs : pending'[<<q, a>>] =
             IF q = s THEN pending[<<q, a>>] \o OfAC(Mark(sent, "release"), a)
                      ELSE pending[<<q, a>>]
      BY <2>1, <2>4, QueuedAt
    <3>2. /\ sleep_q'[q] = IF q = s THEN Legacies(s, sleep_q[s]) ELSE sleep_q[q]
          /\ len'[q] = IF q = s THEN Minus(len[s], Len(sent)) ELSE len[q]
      BY <1>1, <2>1, <2>4
    <3>3. Parts(s, sent, Legacies(s, sleep_q[s]))
      BY <1>0, <1>1, PartsTrigger DEF TypedSleep
    <3> HIDE DEF sent
    <3>4. CASE q = s
      <4>1. HandedOver(q, sent, Legacies(s, sleep_q[s]))
        BY <3>1, <3>2, <3>4 DEF HandedOver
      <4> QED BY <2>2, <3>3, <3>4, <4>1 DEF Move, Released
    <3>5. CASE q # s
      BY <2>2, <3>1, <3>2, <3>5 DEF Move, Untouched, SameTx, SamePending
    <3> QED BY <3>4, <3>5
  <2> QED BY <2>3, <2>4
<1>6. CASE Sleep(s)
  <2> DEFINE mine  == Mark(pending[<<s, "vo">>] \o pending[<<s, "be">>], "new")
             group == Mark(pending[<<Bmc, "be">>], "new")
  <2>1. /\ s \in linked \ asleep
        /\ sleep_q' = [sleep_q EXCEPT ![s] = @ \o mine, ![Bmc] = @ \o group]
        /\ len' = [len EXCEPT ![s] = Plus(@, Len(mine)), ![Bmc] = Plus(@, Len(group))]
        /\ pending' = [p \in Rcv \X ACs |->
                         IF p[1] = s \/ p = <<Bmc, "be">> THEN <<>> ELSE pending[p]]
        /\ UNCHANGED <<pc, arg, last, frames>>
    BY <1>6 DEF Sleep, control
  <2>2. SameLast(q) /\ SameTx(q)
    BY <2>1 DEF SameLast, SameTx, Hold
  <2>3. ASSUME NEW a \in ACs
        PROVE  pending'[<<q, a>>] = IF q = s \/ (q = Bmc /\ a = "be") THEN <<>> ELSE pending[<<q, a>>]
    <3>1. <<q, a>> \in Rcv \X ACs /\ <<q, a>>[1] = q
      OBVIOUS
    <3>2. <<q, a>> = <<Bmc, "be">> <=> q = Bmc /\ a = "be"
      OBVIOUS
    <3> QED BY <2>1, <3>1, <3>2
  <2> HIDE DEF mine, group
  <2>4. CASE q = s
    <3>1. sleep_q'[q] = sleep_q[q] \o mine /\ len'[q] = Plus(len[q], Len(mine))
      BY <1>1, <2>1, <2>4
    <3>2. Stopped(q)
      BY <2>1, <2>2, <2>3, <2>4, <3>1 DEF Stopped, mine
    <3> QED BY <3>2 DEF Move
  <2>5. CASE q = Bmc
    <3>1. sleep_q'[q] = sleep_q[q] \o group /\ len'[q] = Plus(len[q], Len(group))
      BY <1>1, <2>1, <2>5
    <3>2. Regrouped(q)
      BY <1>1, <2>1, <2>2, <2>3, <2>5, <3>1 DEF Regrouped, group
    <3> QED BY <3>2 DEF Move
  <2>6. CASE q # s /\ q # Bmc
    <3>1. sleep_q'[q] = sleep_q[q] /\ len'[q] = len[q]
      BY <1>1, <2>1, <2>6
    <3> QED BY <2>2, <2>3, <2>6, <3>1 DEF Move, Untouched, SameTx, SamePending
  <2> QED BY <2>4, <2>5, <2>6
<1>7. CASE RxWake(s)
  BY <1>7, MoveWake, ParamAssumption DEF RxWake
<1> QED BY <1>2, <1>3, <1>4, <1>5, <1>6, <1>7 DEF Station

LEMMA MoveStep ==
    ASSUME ParamAssumption, Typed, [Next]_vars, NEW q \in Rcv
    PROVE  Move(q)
<1>1. CASE \E r \in Stas, ac \in ACs : TxBuffer(r, ac) \/ TxDirect(r, ac)
  BY <1>1, MoveTx, ParamAssumption DEF Rcv
<1>2. CASE TxBuffer(Bmc, "be") \/ TxDirect(Bmc, "be") \/ TxPass
  <2>1. Bmc \in Rcv /\ "be" \in ACs
    BY DEF Rcv, ACs
  <2> QED BY <1>2, <2>1, MoveTx, ParamAssumption
<1>3. CASE TaskletSteps
  BY <1>3, MoveTasklet DEF TaskletSteps, Pairs
<1>4. CASE HiqDrains
  BY <1>4, MoveQuiet DEF HiqDrains, ghosts, Move
<1>5. CASE \E s \in Stas : Station(s)
  BY <1>5, MoveStation, ParamAssumption
<1>6. CASE RxSteps \/ CmdSteps
  BY <1>6, MoveThreads, ParamAssumption
<1>7. ASSUME NEW s \in Stas, ExpireRead(s) \/ ExpireWake(s) PROVE Move(q)
  <2>1. CASE ExpireRead(s)
    BY <2>1, MoveQuiet DEF ExpireRead, Move
  <2>2. CASE ExpireWake(s)
    BY <2>2, MoveWake, ParamAssumption DEF ExpireWake
  <2> QED BY <1>7, <2>1, <2>2
<1>8. ASSUME NEW s \in Stas, FreePurge(s) PROVE Move(q)
  <2>1. /\ sleep_q' = [sleep_q EXCEPT ![s] = <<>>] /\ len' = [len EXCEPT ![s] = 0]
        /\ pending' = [p \in Rcv \X ACs |-> IF p[1] = s THEN <<>> ELSE pending[p]]
        /\ Goto("free", "clear", s) /\ UNCHANGED <<last, frames>>
    BY <1>8 DEF FreePurge
  <2>2. SameLast(q) /\ SameTx(q)
    BY <2>1, HoldKept DEF SameLast, SameTx
  <2>3. ASSUME NEW a \in ACs
        PROVE  pending'[<<q, a>>] = IF q = s THEN <<>> ELSE pending[<<q, a>>]
    <3>1. <<q, a>> \in Rcv \X ACs /\ <<q, a>>[1] = q
      OBVIOUS
    <3> QED BY <2>1, <3>1
  <2>4. DOMAIN sleep_q = Rcv /\ DOMAIN len = Rcv
    BY TypedParts DEF TypedSleep
  <2>5. CASE q = s
    <3>1. q \in linked /\ q \notin linked'
      BY <1>8, <2>5 DEF FreePurge
    <3> QED BY <2>1, <2>2, <2>3, <2>4, <2>5, <3>1 DEF Move, Purged
  <2>6. CASE q # s
    BY <2>1, <2>2, <2>3, <2>4, <2>6 DEF Move, Untouched, SamePending, SameTx
  <2> QED BY <2>5, <2>6
<1>9. CASE FreeSteps
  <2>1. CASE FreeRead
    BY <2>1, MoveQuiet DEF FreeRead, ghosts, Move
  <2>2. CASE FreeWrite
    <3>1. UNCHANGED <<sleep_q, len, pending, last, frames>> /\ Goto("free", "idle", None)
      BY <2>2 DEF FreeWrite
    <3>2. Hold(q)' = Hold(q)
      BY <3>1, HoldKept
    <3> QED BY <3>1, <3>2 DEF Move, Untouched, SamePending, SameLast
  <2> QED BY <1>9, <2>1, <2>2 DEF FreeSteps
<1>10. CASE UNCHANGED vars
  BY <1>10, MoveQuiet DEF vars, ghosts, Move
<1> QED BY <1>1, <1>2, <1>3, <1>4, <1>5, <1>6, <1>7, <1>8, <1>9, <1>10 DEF Next

-----------------------------------------------------------------------------
(* No receiver has more frames waiting than rtw_xmit was handed, on any    *)
(* number of processors; so the counters never wrap upwards.               *)

Waiting(q) == Len(sleep_q[q]) + Len(pending[<<q, "vo">>]) + Len(pending[<<q, "be">>]) + Hold(q)
Bounded == \A q \in Rcv : Waiting(q) <= frames

LEMMA Lengths ==
    ASSUME Typed, NEW q \in Rcv
    PROVE  /\ sleep_q[q] \in Seq(Frame) /\ Len(sleep_q[q]) \in Nat
           /\ pending[<<q, "vo">>] \in Seq(Frame) /\ Len(pending[<<q, "vo">>]) \in Nat
           /\ pending[<<q, "be">>] \in Seq(Frame) /\ Len(pending[<<q, "be">>]) \in Nat
           /\ frames \in Nat /\ frames <= MaxFrames
           /\ Hold(q) \in 0..1 /\ Hold(q)' \in 0..1
<1>1. <<q, "vo">> \in Pairs /\ <<q, "be">> \in Pairs
  BY PairIn DEF ACs
<1>2. /\ sleep_q[q] \in Seq(Frame)
      /\ pending[<<q, "vo">>] \in Seq(Frame) /\ pending[<<q, "be">>] \in Seq(Frame)
  BY <1>1, TypedParts DEF TypedSleep, TypedPending
<1>3. frames \in Nat /\ frames <= MaxFrames
  BY TypedParts, ParamAssumption DEF TypedGhosts, ParamAssumption
<1>4. Hold(q) \in 0..1 /\ Hold(q)' \in 0..1
  BY DEF Hold
<1> QED BY <1>2, <1>3, <1>4

LEMMA LengthsNext ==
    ASSUME Typed', NEW q \in Rcv
    PROVE  /\ sleep_q'[q] \in Seq(Frame) /\ Len(sleep_q'[q]) \in Nat
           /\ pending'[<<q, "vo">>] \in Seq(Frame) /\ Len(pending'[<<q, "vo">>]) \in Nat
           /\ pending'[<<q, "be">>] \in Seq(Frame) /\ Len(pending'[<<q, "be">>]) \in Nat
           /\ frames' \in Nat /\ frames' <= MaxFrames
<1>1. <<q, "vo">> \in Pairs /\ <<q, "be">> \in Pairs
  BY PairIn DEF ACs
<1>2. /\ sleep_q'[q] \in Seq(Frame)
      /\ pending'[<<q, "vo">>] \in Seq(Frame) /\ pending'[<<q, "be">>] \in Seq(Frame)
  BY <1>1, TypedParts DEF TypedSleep, TypedPending
<1>3. frames' \in Nat /\ frames' <= MaxFrames
  BY TypedParts, ParamAssumption DEF TypedGhosts, ParamAssumption
<1> QED BY <1>2, <1>3

(* Marking and sorting by category loses nothing.                          *)
LEMMA SortedLen ==
    ASSUME NEW fs \in Seq(Frame), NEW v \in {"new", "release"}
    PROVE  /\ OfAC(Mark(fs, v), "vo") \in Seq(Frame) /\ OfAC(Mark(fs, v), "be") \in Seq(Frame)
           /\ Len(OfAC(Mark(fs, v), "vo")) + Len(OfAC(Mark(fs, v), "be")) = Len(fs)
<1> DEFINE gs == Mark(fs, v)
<1>1. gs \in Seq(Frame) /\ Len(gs) = Len(fs)
  BY MarkType
<1> HIDE DEF gs
<1>2. \A f \in Frame : f.ac \in {"vo"} <=> f.ac \notin {"be"}
  BY DEF Frame, ACs
<1>3. Len(OfACs(gs, {"vo"})) + Len(OfACs(gs, {"be"})) = Len(gs)
  <2> DEFINE V == {"vo"}
             W == {"be"}
  <2>1. \A f \in Frame : f.ac \in V <=> f.ac \notin W
    BY <1>2
  <2> HIDE DEF V, W
  <2>2. Len(OfACs(gs, V)) + Len(OfACs(gs, W)) = Len(gs)
    BY <1>1, <2>1, OfACsSplit
  <2> QED BY <2>2 DEF V, W
<1>4. OfACs(gs, {"vo"}) \in Seq(Frame) /\ OfACs(gs, {"be"}) \in Seq(Frame)
  BY <1>1, OfACsType
<1> QED BY <1>1, <1>3, <1>4 DEF OfAC, gs

LEMMA BoundedStep ==
    ASSUME ParamAssumption, Typed, Typed', Bounded, [Next]_vars
    PROVE  Bounded'
<1> SUFFICES ASSUME NEW q \in Rcv PROVE Waiting(q)' <= frames'
  BY DEF Bounded
<1> DEFINE W == sleep_q[q]
           V == pending[<<q, "vo">>]
           B == pending[<<q, "be">>]
           W1 == sleep_q'[q]
           V1 == pending'[<<q, "vo">>]
           B1 == pending'[<<q, "be">>]
           h == Hold(q)
           h1 == Hold(q)'
<1>1. Move(q)
  BY MoveStep, ParamAssumption
<1>2. /\ W \in Seq(Frame) /\ V \in Seq(Frame) /\ B \in Seq(Frame)
      /\ Len(W) \in Nat /\ Len(V) \in Nat /\ Len(B) \in Nat
      /\ Len(W1) \in Nat /\ Len(V1) \in Nat /\ Len(B1) \in Nat
      /\ frames \in Nat /\ frames' \in Nat /\ h \in 0..1 /\ h1 \in 0..1
  BY Lengths, LengthsNext
<1>3. Len(W) + Len(V) + Len(B) + h <= frames
  BY DEF Bounded, Waiting
<1>4. SUFFICES Len(W1) + Len(V1) + Len(B1) + h1 <= frames'
  BY DEF Waiting
<1>5. "vo" \in ACs /\ "be" \in ACs
  BY DEF ACs
<1>6. SamePending(q) => V1 = V /\ B1 = B
  BY <1>5 DEF SamePending
<1>7. SameTx(q) => h1 = h /\ frames' = frames
  BY DEF SameTx
<1>8. CASE Untouched(q)
  <2>1. W1 = W /\ V1 = V /\ B1 = B /\ h1 = h /\ frames' \in {frames, frames + 1}
    BY <1>6, <1>8 DEF Untouched
  <2> HIDE DEF W, V, B, W1, V1, B1, h, h1
  <2> QED BY <1>2, <1>3, <2>1
<1>9. CASE Zeroed(q)
  <2>1. W1 = W /\ V1 = V /\ B1 = B /\ h1 = h /\ frames' = frames
    BY <1>6, <1>7, <1>9 DEF Zeroed
  <2> HIDE DEF W, V, B, W1, V1, B1, h, h1
  <2> QED BY <1>2, <1>3, <2>1
<1>10. CASE Buffered(q)
  <2>1. PICK ac \in ACs : W1 = Append(W, NewFrame(ac))
    BY <1>10 DEF Buffered
  <2>2. V1 = V /\ B1 = B /\ h = 0 /\ h1 = 0 /\ frames' = frames + 1
    BY <1>6, <1>10 DEF Buffered
  <2> HIDE DEF W, V, B, W1, V1, B1, h, h1
  <2>3. Len(W1) = Len(W) + 1
    BY <1>2, <2>1
  <2> QED BY <1>2, <1>3, <2>2, <2>3
<1>11. CASE Taken(q)
  <2>1. W1 = W /\ V1 = V /\ B1 = B /\ h = 0 /\ h1 = 1 /\ frames' = frames + 1
    BY <1>6, <1>11 DEF Taken
  <2> HIDE DEF W, V, B, W1, V1, B1, h, h1
  <2> QED BY <1>2, <1>3, <2>1
<1>12. CASE PassedOn(q)
  <2>1. W1 = W /\ h = 1 /\ h1 = 0 /\ frames' = frames /\ hand[1] \in Frame
    BY <1>12 DEF PassedOn
  <2>2. \/ V1 = V /\ B1 = B
        \/ /\ V1 = IF "vo" = hand[1].ac THEN Append(V, hand[1]) ELSE V
           /\ B1 = IF "be" = hand[1].ac THEN Append(B, hand[1]) ELSE B
    BY <1>5, <1>6, <1>12 DEF PassedOn, Queues, Sends
  <2> HIDE DEF W, V, B, W1, V1, B1, h, h1
  <2>3. \/ Len(V1) = Len(V) /\ Len(B1) = Len(B)
        \/ Len(V1) = Len(V) + 1 /\ Len(B1) = Len(B)
        \/ Len(V1) = Len(V) /\ Len(B1) = Len(B) + 1
    BY <1>2, <2>1, <2>2
  <2> QED BY <1>2, <1>3, <2>1, <2>3
<1>13. CASE Drained(q)
  <2>1. PICK ac \in ACs :
          /\ pending[<<q, ac>>] # <<>>
          /\ \A a \in ACs :
                pending'[<<q, a>>] = IF a = ac THEN Tail(pending[<<q, a>>]) ELSE pending[<<q, a>>]
    BY <1>13 DEF Drained
  <2>2. /\ V1 = V \/ (V # <<>> /\ V1 = Tail(V))
        /\ B1 = B \/ (B # <<>> /\ B1 = Tail(B))
    BY <1>5, <2>1
  <2>3. W1 = W /\ h1 = h /\ frames' = frames
    BY <1>7, <1>13 DEF Drained
  <2> HIDE DEF W, V, B, W1, V1, B1, h, h1
  <2>4. Len(V1) <= Len(V) /\ Len(B1) <= Len(B)
    BY <1>2, <2>2
  <2> QED BY <1>2, <1>3, <2>3, <2>4
<1>14. CASE Released(q)
  <2>1. PICK out, rest : Parts(q, out, rest) /\ HandedOver(q, out, rest)
    BY <1>14 DEF Released
  <2> DEFINE v == OfAC(Mark(out, "release"), "vo")
             b == OfAC(Mark(out, "release"), "be")
  <2>2. v \in Seq(Frame) /\ b \in Seq(Frame) /\ Len(v) + Len(b) = Len(out)
    BY <2>1, SortedLen DEF Parts
  <2>3. V1 = V \o v /\ B1 = B \o b /\ W1 = rest
    BY <1>5, <2>1 DEF HandedOver
  <2>4. Len(out) + Len(rest) = Len(W) /\ h1 = h /\ frames' = frames
    BY <1>7, <1>14, <2>1 DEF Parts, Released
  <2> HIDE DEF W, V, B, W1, V1, B1, h, h1, v, b
  <2>5. /\ Len(V1) = Len(V) + Len(v) /\ Len(v) \in Nat
        /\ Len(B1) = Len(B) + Len(b) /\ Len(b) \in Nat
    BY <1>2, <2>2, <2>3
  <2> QED BY <1>2, <1>3, <2>2, <2>3, <2>4, <2>5
<1>15. CASE Stopped(q)
  <2> DEFINE mine == Mark(V \o B, "new")
  <2>1. mine \in Seq(Frame) /\ Len(mine) = Len(V) + Len(B)
    BY <1>15, MovedType DEF Stopped
  <2>2. W1 = W \o mine /\ V1 = <<>> /\ B1 = <<>> /\ h1 = h /\ frames' = frames
    BY <1>5, <1>7, <1>15 DEF Stopped
  <2> HIDE DEF W, V, B, W1, V1, B1, h, h1, mine
  <2>3. Len(W1) = Len(W) + Len(mine) /\ Len(V1) = 0 /\ Len(B1) = 0
    <3>1. Len(W \o mine) = Len(W) + Len(mine)
      BY <1>2, <2>1, ConcatProperties
    <3> QED BY <2>2, <3>1
  <2> QED BY <1>2, <1>3, <2>1, <2>2, <2>3
<1>16. CASE Regrouped(q)
  <2> DEFINE group == Mark(B, "new")
  <2>1. group \in Seq(Frame) /\ Len(group) = Len(B)
    BY <1>2, MarkType
  <2>2. W1 = W \o group /\ V1 = V /\ B1 = <<>> /\ h1 = h /\ frames' = frames
    BY <1>5, <1>7, <1>16 DEF Regrouped
  <2> HIDE DEF W, V, B, W1, V1, B1, h, h1, group
  <2>3. Len(W1) = Len(W) + Len(group) /\ Len(B1) = 0
    <3>1. Len(W \o group) = Len(W) + Len(group)
      BY <1>2, <2>1, ConcatProperties
    <3> QED BY <2>2, <3>1
  <2> QED BY <1>2, <1>3, <2>1, <2>2, <2>3
<1>17. CASE Purged(q)
  <2>1. W1 = <<>> /\ V1 = <<>> /\ B1 = <<>> /\ h1 = h /\ frames' = frames
    BY <1>5, <1>7, <1>17 DEF Purged
  <2> HIDE DEF W, V, B, W1, V1, B1, h, h1
  <2>2. Len(W1) = 0 /\ Len(V1) = 0 /\ Len(B1) = 0
    BY <2>1
  <2> QED BY <1>2, <1>3, <2>1, <2>2
<1> QED BY <1>1, <1>8, <1>9, <1>10, <1>11, <1>12, <1>13, <1>14, <1>15, <1>16, <1>17 DEF Move

-----------------------------------------------------------------------------
(* On one processor: what a tasklet or rtw_xmit has seen stays true until  *)
(* it is done.                                                             *)

(* The frame in hand is the newest; its station is there and awake.        *)
HandFresh ==
    pc["tx"] = "pass" =>
        hand[1].n = frames /\ (arg["tx"] \in Stas => arg["tx"] \in linked \ asleep)

(* A PS-Poll that found nothing.                                           *)
PollEmpty ==
    pc["rx"] \in {"poll", "clear"} =>
        arg["rx"] \in Stas /\ sleep_q[arg["rx"]] = <<>>

LEMMA Alone ==
    ASSUME SMP = FALSE, NEW c, Runs(c), Typed
    PROVE  /\ c # "tx" => pc["tx"] = "idle"
           /\ c # "rx" => pc["rx"] = "idle"
           /\ c # "cmd" => pc["cmd"] \notin {"write", "alive"}
           /\ c # "free" => pc["free"] # "write"
BY DEF Runs, Busy, Contexts

LEMMA ThreadsAlone ==
    ASSUME SMP = FALSE, NEW c \in {"cmd", "free", "tasklet"}, Runs(c), Typed
    PROVE  pc["tx"] = "idle" /\ pc["rx"] = "idle"
<1>1. c # "tx" /\ c # "rx"
  OBVIOUS
<1> QED BY <1>1, Alone

(* A context goes on alone.                                                *)
LEMMA GotoOthers ==
    ASSUME Typed, NEW c \in Contexts, NEW label, NEW q, Goto(c, label, q), NEW d \in Contexts
    PROVE  /\ d = c => pc'[d] = label /\ arg'[d] = q
           /\ d # c => pc'[d] = pc[d] /\ arg'[d] = arg[d]
BY TypedParts DEF TypedControl, Goto

LonerInv == HandFresh /\ PollEmpty

(* A step of tx, or of rx, that ends in idle; and of the others, which     *)
(* find tx and rx idle.                                                    *)
LEMMA LonerIdle ==
    ASSUME pc'["tx"] = "idle", pc'["rx"] \in Labels \ {"poll", "clear"}
    PROVE  LonerInv'
BY DEF LonerInv, HandFresh, PollEmpty

LEMMA LonerThreads ==
    ASSUME SMP = FALSE, ParamAssumption, Typed, LonerInv, CmdSteps \/ RxSteps
    PROVE  LonerInv'
<1> USE DEF Contexts, Labels
<1>1. ASSUME CmdSteps PROVE LonerInv'
  <2>1. Runs("cmd") /\ (UNCHANGED pc \/ \E label, q : Goto("cmd", label, q))
    BY <1>1 DEF CmdSteps, CmdBeacon, CmdBeaconFails, CmdBmc, CmdFlush, CmdHiq, HiqRead, HiqWrite,
                BeaconAfter, ExpireMark, ExpireWrite, Pops, At, control
  <2>2. pc["tx"] = "idle" /\ pc["rx"] = "idle"
    BY <2>1, ThreadsAlone
  <2>3. pc'["tx"] = "idle" /\ pc'["rx"] = "idle"
    BY <2>1, <2>2, GotoOthers
  <2> QED BY <2>3, LonerIdle
<1>2. ASSUME RxSteps PROVE LonerInv'
  <2>1. Runs("rx")
    BY <1>2 DEF RxSteps, PollTim, PollClear, BeaconAfter, At
  <2>2. pc["tx"] = "idle"
    BY <2>1, Alone
  <2>3. CASE PollClear \/ BeaconAfter("rx")
    <3>1. Goto("rx", "idle", None)
      BY <2>3 DEF PollClear, BeaconAfter
    <3>2. pc'["tx"] = "idle" /\ pc'["rx"] = "idle"
      BY <2>2, <3>1, GotoOthers
    <3> QED BY <3>2, LonerIdle
  <2>4. CASE PollTim
    <3>1. /\ pc["rx"] = "poll" /\ UNCHANGED sleep_q
          /\ Goto("rx", "clear", arg["rx"]) \/ Goto("rx", "idle", None)
      BY <2>4 DEF PollTim, At
    <3>2. pc'["tx"] = "idle" /\ (pc'["rx"] = "idle" \/ arg'["rx"] = arg["rx"])
      BY <2>2, <3>1, GotoOthers
    <3> QED BY <3>1, <3>2 DEF LonerInv, HandFresh, PollEmpty
  <2> QED BY <1>2, <2>3, <2>4 DEF RxSteps
<1> QED BY <1>1, <1>2

LEMMA LonerTx ==
    ASSUME SMP = FALSE, ParamAssumption, Typed, DzInv, LonerInv, NEW q \in Rcv, NEW ac \in ACs,
           TxBuffer(q, ac) \/ TxDirect(q, ac) \/ TxPass
    PROVE  LonerInv'
<1> USE DEF Contexts, Labels
<1>1. Runs("tx")
  BY DEF TxBuffer, TxDirect, TxPass, At
<1>2. pc["rx"] = "idle"
  BY <1>1, Alone
<1>3. CASE TxBuffer(q, ac)
  <2>1. pc["tx"] = "idle" /\ UNCHANGED pc
    BY <1>3 DEF TxBuffer, At, control
  <2> QED BY <1>2, <2>1, LonerIdle
<1>4. CASE TxDirect(q, ac)
  <2>1. /\ ~Buffers(q) /\ (q = Bmc \/ q \in linked) /\ UNCHANGED <<linked, asleep, dz>>
        /\ frames' = frames + 1 /\ hand' = <<NewFrame(ac)>> /\ Goto("tx", "pass", q)
    BY <1>4 DEF TxDirect, stations, bits
  <2>2. pc'["rx"] = "idle" /\ arg'["tx"] = q
    BY <1>2, <2>1, GotoOthers
  <2>3. hand'[1].n = frames'
    BY <2>1 DEF NewFrame
  <2>4. q \in Stas => q \in linked \ asleep
    BY <2>1, ParamAssumption DEF Buffers, DzInv, DzMatches, ParamAssumption
  <2> QED BY <2>1, <2>2, <2>3, <2>4 DEF LonerInv, HandFresh, PollEmpty
<1>5. CASE TxPass
  <2>1. Goto("tx", "idle", None)
    BY <1>5 DEF TxPass
  <2>2. pc'["tx"] = "idle" /\ pc'["rx"] = "idle"
    BY <1>2, <2>1, GotoOthers
  <2> QED BY <2>2, LonerIdle
<1> QED BY <1>3, <1>4, <1>5

LEMMA LonerStation ==
    ASSUME SMP = FALSE, ParamAssumption, Typed, LonerInv, NEW s \in Stas, Station(s)
    PROVE  LonerInv'
<1> USE DEF Contexts, Labels
<1>1. Runs("rx") /\ pc["rx"] = "idle"
  BY DEF Station, Assoc, Poll, PollNone, Trigger, Sleep, RxWake, At
<1>2. pc["tx"] = "idle"
  BY <1>1, Alone
<1>3. CASE UNCHANGED pc
  BY <1>1, <1>2, <1>3, LonerIdle
<1>4. CASE Goto("rx", "update", s)
  <2>1. pc'["tx"] = "idle" /\ pc'["rx"] = "update"
    BY <1>2, <1>4, GotoOthers
  <2> QED BY <2>1, LonerIdle
<1>5. ASSUME NEW ac \in ACs, PollNone(s, ac), Goto("rx", "poll", s) PROVE LonerInv'
  <2>1. pc'["tx"] = "idle" /\ arg'["rx"] = s
    BY <1>2, <1>5, GotoOthers
  <2>2. UNCHANGED sleep_q /\ s \in asleep \cap dz => sleep_q[s] = <<>>
    BY <1>5 DEF PollNone, queues
  <2>3. s \in asleep \cap dz
    <3>1. UNCHANGED <<pc, arg>> \/ s \in asleep \cap dz
      BY <1>5 DEF PollNone
    <3>2. pc' # pc
      <4>1. pc'["rx"] = "poll"
        BY <1>5, GotoOthers
      <4> QED BY <1>1, <4>1
    <3> QED BY <3>1, <3>2
  <2>4. UNCHANGED sleep_q
    BY <1>5 DEF PollNone, queues
  <2> QED BY <2>1, <2>2, <2>3, <2>4 DEF LonerInv, HandFresh, PollEmpty
<1>6. CASE \E u \in SUBSET ACs : Assoc(s, u)
  BY <1>3, <1>6 DEF Assoc, control
<1>7. ASSUME NEW ac \in ACs, Poll(s, ac) \/ Trigger(s, ac) PROVE LonerInv'
  BY <1>3, <1>7 DEF Poll, Trigger, control
<1>8. ASSUME NEW ac \in ACs, PollNone(s, ac) PROVE LonerInv'
  <2>1. Goto("rx", "poll", s) \/ UNCHANGED pc
    BY <1>8 DEF PollNone
  <2> QED BY <1>3, <1>5, <1>8, <2>1
<1>9. CASE Sleep(s)
  BY <1>3, <1>9 DEF Sleep, control
<1>10. CASE RxWake(s)
  BY <1>3, <1>4, <1>10 DEF RxWake, Wake
<1> QED BY <1>6, <1>7, <1>8, <1>9, <1>10 DEF Station

LEMMA LonerStep ==
    ASSUME SMP = FALSE, ParamAssumption, Typed, DzInv, LonerInv, [Next]_vars
    PROVE  LonerInv'
<1> USE DEF Contexts, Labels
<1>1. CASE \E q \in Stas, ac \in ACs : TxBuffer(q, ac) \/ TxDirect(q, ac)
  BY <1>1, LonerTx, ParamAssumption DEF Rcv
<1>2. CASE TxBuffer(Bmc, "be") \/ TxDirect(Bmc, "be") \/ TxPass
  <2>1. Bmc \in Rcv /\ "be" \in ACs
    BY DEF Rcv, ACs
  <2> QED BY <1>2, <2>1, LonerTx, ParamAssumption
<1>3. CASE TaskletSteps
  <2>1. Runs("tasklet") /\ UNCHANGED pc
    BY <1>3 DEF TaskletSteps, XmitTasklet, control
  <2>2. pc["tx"] = "idle" /\ pc["rx"] = "idle"
    BY <2>1, ThreadsAlone
  <2> QED BY <2>1, <2>2, LonerIdle
<1>4. CASE HiqDrains
  BY <1>4 DEF HiqDrains, control, ghosts, queues, stations, LonerInv, HandFresh, PollEmpty
<1>5. CASE \E s \in Stas : Station(s)
  BY <1>5, LonerStation, ParamAssumption
<1>6. CASE RxSteps \/ CmdSteps
  BY <1>6, LonerThreads, ParamAssumption
<1>7. ASSUME NEW s \in Stas, ExpireRead(s) \/ ExpireWake(s) PROVE LonerInv'
  <2>1. Runs("cmd") /\ (UNCHANGED pc \/ \E label, q : Goto("cmd", label, q))
    BY <1>7 DEF ExpireRead, ExpireWake, Wake, At
  <2>2. pc["tx"] = "idle" /\ pc["rx"] = "idle"
    BY <2>1, ThreadsAlone
  <2>3. pc'["tx"] = "idle" /\ pc'["rx"] = "idle"
    BY <2>1, <2>2, GotoOthers
  <2> QED BY <2>3, LonerIdle
<1>8. CASE FreeSteps \/ \E s \in Stas : FreePurge(s)
  <2>1. Runs("free") /\ (\E label, q : Goto("free", label, q))
    BY <1>8 DEF FreeSteps, FreeRead, FreeWrite, FreePurge, At
  <2>2. pc["tx"] = "idle" /\ pc["rx"] = "idle"
    BY <2>1, ThreadsAlone
  <2>3. pc'["tx"] = "idle" /\ pc'["rx"] = "idle"
    BY <2>1, <2>2, GotoOthers
  <2> QED BY <2>3, LonerIdle
<1>9. CASE UNCHANGED vars
  BY <1>9 DEF vars, control, ghosts, queues, stations, LonerInv, HandFresh, PollEmpty
<1> QED BY <1>1, <1>2, <1>3, <1>4, <1>5, <1>6, <1>7, <1>8, <1>9 DEF Next

-----------------------------------------------------------------------------
(* The counters, on one processor.                                         *)

LEMMA Exact ==
    ASSUME ParamAssumption, NEW a \in Nat, NEW k \in Nat
    PROVE  /\ k <= a /\ a <= MaxFrames => Minus(a, k) = a - k
           /\ a + k <= MaxFrames => Plus(a, k) = a + k
<1>1. LenMod \in Nat /\ MaxFrames \in Nat /\ LenMod > MaxFrames
  BY ParamAssumption DEF ParamAssumption
<1>2. ASSUME NEW x \in Nat, x <= MaxFrames PROVE x % LenMod = x
  BY <1>1, <1>2
<1>3. k <= a /\ a <= MaxFrames => (a - k) % LenMod = a - k
  BY <1>1, <1>2
<1>4. a + k <= MaxFrames => (a + k) % LenMod = a + k
  BY <1>1, <1>2
<1> QED BY <1>3, <1>4 DEF Minus, Plus

LEMMA Summand ==
    ASSUME NEW w \in Nat, NEW v \in Nat, NEW b \in Nat, NEW h \in 0..1, NEW f \in Nat,
           f <= MaxFrames, w + v + b + h <= f
    PROVE  w <= MaxFrames
BY ParamAssumption DEF ParamAssumption

LEMMA LenStep ==
    ASSUME ParamAssumption, Typed, Typed', Bounded, Bounded', LonerInv, LenCounts, [Next]_vars
    PROVE  LenCounts'
<1> SUFFICES ASSUME NEW q \in Rcv PROVE len'[q] = Len(sleep_q'[q])
  BY DEF LenCounts
<1> DEFINE W == sleep_q[q]
           W1 == sleep_q'[q]
<1>1. Move(q)
  BY MoveStep, ParamAssumption
<1>2. /\ W \in Seq(Frame) /\ Len(W) \in Nat /\ W1 \in Seq(Frame) /\ Len(W1) \in Nat
      /\ MaxFrames \in Nat
  BY Lengths, LengthsNext, ParamAssumption DEF ParamAssumption
<1>3. Len(W) <= MaxFrames /\ Len(W1) <= MaxFrames
  <2>1. Len(W) + Len(pending[<<q, "vo">>]) + Len(pending[<<q, "be">>]) + Hold(q) <= frames
    BY DEF Bounded, Waiting
  <2>2. Len(W1) + Len(pending'[<<q, "vo">>]) + Len(pending'[<<q, "be">>]) + Hold(q)' <= frames'
    BY DEF Bounded, Waiting
  <2>3. Len(W) <= MaxFrames
    BY <2>1, Lengths, Summand
  <2>4. Len(W1) <= MaxFrames
    BY <2>2, Lengths, LengthsNext, Summand
  <2> QED BY <2>3, <2>4
<1>4. len[q] = Len(W)
  BY DEF LenCounts
<1>5. ASSUME NEW fs \in Seq(Frame), W1 = W \o fs, len'[q] = Plus(len[q], Len(fs))
      PROVE  len'[q] = Len(W1)
  <2> HIDE DEF W, W1
  <2>1. Len(W1) = Len(W) + Len(fs) /\ Len(fs) \in Nat
    BY <1>2, <1>5, ConcatProperties
  <2> QED BY <1>2, <1>3, <1>4, <1>5, <2>1, Exact, ParamAssumption
<1>6. CASE Untouched(q)
  BY <1>4, <1>6 DEF Untouched
<1>7. CASE Zeroed(q)
  <2>1. W = <<>>
    BY <1>7 DEF Zeroed, LonerInv, PollEmpty
  <2> QED BY <1>7, <2>1 DEF Zeroed
<1>8. CASE Buffered(q)
  <2>1. PICK ac \in ACs : W1 = Append(W, NewFrame(ac))
    BY <1>8 DEF Buffered
  <2>2. len'[q] = Plus(len[q], 1)
    BY <1>8 DEF Buffered
  <2> HIDE DEF W, W1
  <2>3. Len(W1) = Len(W) + 1
    BY <1>2, <2>1
  <2>4. Plus(Len(W), 1) = Len(W) + 1
    BY <1>2, <1>3, <2>3, Exact, ParamAssumption
  <2> QED BY <1>4, <2>2, <2>3, <2>4 DEF W1
<1>9. CASE Taken(q) \/ PassedOn(q) \/ Drained(q)
  BY <1>4, <1>9 DEF Taken, PassedOn, Drained
<1>10. CASE Released(q)
  <2>1. PICK out, rest : Parts(q, out, rest) /\ HandedOver(q, out, rest)
    BY <1>10 DEF Released
  <2>2. /\ W1 = rest /\ len'[q] = Minus(len[q], Len(out))
        /\ Len(out) + Len(rest) = Len(W) /\ Len(out) \in Nat /\ Len(rest) \in Nat
    BY <2>1 DEF Parts, HandedOver
  <2> HIDE DEF W, W1
  <2>3. Minus(Len(W), Len(out)) = Len(W) - Len(out)
    BY <1>2, <1>3, <2>2, Exact, ParamAssumption
  <2>4. len'[q] = Len(W1)
    BY <1>2, <1>4, <2>2, <2>3
  <2> QED BY <2>4 DEF W1
<1>11. CASE Stopped(q)
  <2> DEFINE mine == Mark(pending[<<q, "vo">>] \o pending[<<q, "be">>], "new")
  <2>1. mine \in Seq(Frame)
    BY <1>11, MovedType DEF Stopped
  <2>2. W1 = W \o mine /\ len'[q] = Plus(len[q], Len(mine))
    BY <1>11 DEF Stopped
  <2> QED BY <1>5, <2>1, <2>2
<1>12. CASE Regrouped(q)
  <2> DEFINE group == Mark(pending[<<q, "be">>], "new")
  <2>1. group \in Seq(Frame)
    BY Lengths, MarkType
  <2>2. W1 = W \o group /\ len'[q] = Plus(len[q], Len(group))
    BY <1>12 DEF Regrouped
  <2> QED BY <1>5, <2>1, <2>2
<1>13. CASE Purged(q)
  <2>1. W1 = <<>> /\ len'[q] = 0
    BY <1>13 DEF Purged
  <2> QED BY <2>1
<1> QED BY <1>1, <1>6, <1>7, <1>8, <1>9, <1>10, <1>11, <1>12, <1>13 DEF Move

(* Everything that is known of the queues on one processor.                *)
BacklogInv == Typed /\ AwakeInv /\ DzInv /\ Bounded /\ LonerInv /\ LenCounts

LEMMA BacklogInit == ASSUME ParamAssumption, Init PROVE BacklogInv
<1>1. Typed
  BY TypedInit, ParamAssumption
<1>2. AwakeInv
  BY DEF Init, AwakeInv, Shape, AwakeIsEmpty, Leaving, Contexts, Labels, Rcv
<1>3. DzInv
  BY DEF Init, DzInv, SnapShape, SnapFresh, DzMatches, Shape, Contexts, Labels, Rcv
<1>4. pc["tx"] = "idle" /\ pc["rx"] = "idle" /\ frames = 0
  BY DEF Init, Contexts
<1>5. ASSUME NEW q \in Rcv
      PROVE  /\ sleep_q[q] = <<>> /\ len[q] = 0
             /\ pending[<<q, "vo">>] = <<>> /\ pending[<<q, "be">>] = <<>>
  BY DEF Init, ACs
<1>6. Bounded
  <2> SUFFICES ASSUME NEW q \in Rcv PROVE Waiting(q) <= frames
    BY DEF Bounded
  <2>1. Hold(q) = 0
    BY <1>4 DEF Hold
  <2>2. /\ Len(sleep_q[q]) = 0
        /\ Len(pending[<<q, "vo">>]) = 0 /\ Len(pending[<<q, "be">>]) = 0
    BY <1>5
  <2>3. Waiting(q) = 0
    BY <2>1, <2>2 DEF Waiting
  <2> QED BY <1>4, <2>3
<1>7. LonerInv
  BY <1>4 DEF LonerInv, HandFresh, PollEmpty
<1>8. LenCounts
  <2> SUFFICES ASSUME NEW q \in Rcv PROVE len[q] = Len(sleep_q[q])
    BY DEF LenCounts
  <2>1. sleep_q[q] = <<>> /\ len[q] = 0
    BY <1>5
  <2> QED BY <2>1
<1> QED BY <1>1, <1>2, <1>3, <1>6, <1>7, <1>8 DEF BacklogInv

LEMMA BacklogStep ==
    ASSUME SMP = FALSE, ParamAssumption, BacklogInv, [Next]_vars
    PROVE  BacklogInv'
<1>1. Typed /\ AwakeInv /\ DzInv /\ Bounded /\ LonerInv /\ LenCounts
  BY DEF BacklogInv
<1>2. Typed'
  BY <1>1, TypedStep, ParamAssumption
<1>3. AwakeInv'
  BY <1>1, AwakeStep, ParamAssumption
<1>4. DzInv'
  BY <1>1, DzStep, ParamAssumption
<1>5. Bounded'
  BY <1>1, <1>2, BoundedStep, ParamAssumption
<1>6. LonerInv'
  BY <1>1, LonerStep, ParamAssumption
<1>7. LenCounts'
  BY <1>1, <1>2, <1>5, LenStep, ParamAssumption
<1> QED BY <1>2, <1>3, <1>4, <1>5, <1>6, <1>7 DEF BacklogInv

(* On one processor sleepq_len is, at every step, the number of frames in  *)
(* sleep_q: the unsigned arithmetic of PS-Poll, trigger, wake-up and the   *)
(* command thread never wraps, and the reset of a poll that found nothing  *)
(* loses no count, for every number of frames below 2^32.                  *)
THEOREM LengthIsExact ==
    ASSUME SMP = FALSE
    PROVE  Spec => []LenCounts
<1>1. Init => BacklogInv
  BY BacklogInit, ParamAssumption
<1>2. BacklogInv /\ [Next]_vars => BacklogInv'
  BY BacklogStep, ParamAssumption
<1>3. BacklogInv => LenCounts
  BY DEF BacklogInv
<1> QED BY <1>1, <1>2, <1>3, PTL DEF Spec

-----------------------------------------------------------------------------
(* What a dozing station is sent, on one processor.                        *)

LEMMA FallsAsleep ==
    ASSUME SMP = FALSE, [Next]_vars, NEW s \in asleep' \ asleep
    PROVE  Sleep(s)
<1>1. CASE \E q \in Stas, ac \in ACs : TxBuffer(q, ac) \/ TxDirect(q, ac)
  BY <1>1 DEF TxBuffer, TxDirect, stations
<1>2. CASE TxBuffer(Bmc, "be") \/ TxDirect(Bmc, "be") \/ TxPass
  BY <1>2 DEF TxBuffer, TxDirect, TxPass, stations
<1>3. CASE TaskletSteps \/ HiqDrains
  BY <1>3 DEF TaskletSteps, XmitTasklet, HiqDrains, stations
<1>4. ASSUME NEW r \in Stas, Station(r) PROVE Sleep(s)
  <2>1. CASE \E u \in SUBSET ACs : Assoc(r, u)
    BY <2>1 DEF Assoc
  <2>2. CASE \E ac \in ACs : Poll(r, ac) \/ PollNone(r, ac) \/ Trigger(r, ac)
    BY <2>2 DEF Poll, PollNone, Trigger, stations
  <2>3. CASE Sleep(r)
    <3>1. asleep' = asleep \cup {r}
      BY <2>3 DEF Sleep
    <3>2. s = r
      BY <3>1
    <3> QED BY <2>3, <3>2
  <2>4. CASE RxWake(r)
    BY <2>4 DEF RxWake, Wake
  <2> QED BY <1>4, <2>1, <2>2, <2>3, <2>4 DEF Station
<1>5. CASE RxSteps
  BY <1>5 DEF RxSteps, PollTim, PollClear, BeaconAfter, stations
<1>6. CASE CmdSteps
  BY <1>6 DEF CmdSteps, CmdBeacon, CmdBeaconFails, CmdBmc, CmdFlush, CmdHiq, HiqRead, HiqWrite,
              BeaconAfter, ExpireMark, ExpireWrite, stations
<1>7. CASE \E r \in Stas : ExpireRead(r) \/ ExpireWake(r)
  BY <1>7 DEF ExpireRead, ExpireWake, Wake, stations
<1>8. CASE FreeSteps \/ \E r \in Stas : FreePurge(r)
  BY <1>8 DEF FreeSteps, FreeRead, FreeWrite, FreePurge, stations
<1>9. CASE UNCHANGED vars
  BY <1>9 DEF vars, stations
<1> QED BY <1>1, <1>2, <1>3, <1>4, <1>5, <1>6, <1>7, <1>8, <1>9 DEF Next

(* What waits for the tasklet and a dozing station was released to it.     *)
Asked == {f \in Frame : f.via = "release"}
OnlyAsked == \A s \in asleep, a \in ACs : pending[<<s, a>>] \in Seq(Asked)

LEMMA AskedStep ==
    ASSUME SMP = FALSE, ParamAssumption, Typed, LonerInv, OnlyAsked, [Next]_vars
    PROVE  OnlyAsked'
<1> SUFFICES ASSUME NEW s \in asleep', NEW a \in ACs PROVE pending'[<<s, a>>] \in Seq(Asked)
  BY DEF OnlyAsked
<1>1. CASE s \notin asleep
  <2>1. Sleep(s)
    BY <1>1, FallsAsleep
  <2>2. s \in Stas
    BY <2>1, TypedParts DEF Sleep, TypedStations
  <2>3. <<s, a>> \in Rcv \X ACs /\ <<s, a>>[1] = s
    BY <2>2 DEF Rcv
  <2>4. pending' = [p \in Rcv \X ACs |->
                      IF p[1] = s \/ p = <<Bmc, "be">> THEN <<>> ELSE pending[p]]
    BY <2>1 DEF Sleep
  <2>5. pending'[<<s, a>>] = <<>>
    BY <2>3, <2>4
  <2>6. <<>> \in Seq(Asked)
    OBVIOUS
  <2> QED BY <2>5, <2>6
<1>2. CASE s \in asleep
  <2>1. s \in Stas /\ s \in Rcv
    BY <1>2, TypedParts DEF TypedStations, Rcv
  <2>2. Move(s)
    BY <2>1, MoveStep, ParamAssumption
  <2> DEFINE P == pending[<<s, a>>]
             P1 == pending'[<<s, a>>]
  <2>3. P \in Seq(Asked)
    BY <1>2 DEF OnlyAsked
  <2>4. CASE SamePending(s)
    BY <2>3, <2>4 DEF SamePending
  <2>5. CASE Untouched(s) \/ Zeroed(s) \/ Buffered(s) \/ Taken(s)
    BY <2>4, <2>5 DEF Untouched, Zeroed, Buffered, Taken
  <2>6. ~ PassedOn(s)
    BY <1>2, <2>1 DEF PassedOn, LonerInv, HandFresh
  <2>7. CASE Drained(s)
    <3>1. P1 = P \/ (P # <<>> /\ P1 = Tail(P))
      BY <2>7 DEF Drained
    <3> HIDE DEF P, P1
    <3>2. P # <<>> => Tail(P) \in Seq(Asked)
      BY <2>3
    <3>3. P1 \in Seq(Asked)
      BY <2>3, <3>1, <3>2
    <3> QED BY <3>3 DEF P1
  <2>8. CASE Released(s)
    <3>1. PICK out, rest : Parts(s, out, rest) /\ HandedOver(s, out, rest)
      BY <2>8 DEF Released
    <3> DEFINE R == OfAC(Mark(out, "release"), a)
    <3>2. out \in Seq(Frame) /\ P1 = P \o R
      BY <3>1 DEF Parts, HandedOver
    <3>3. \A p \in Pairs : pending[p] \in Seq(Own(p))
      BY TypedParts DEF TypedPending, Placed
    <3>4. R \in Seq(Asked)
      BY <3>2, <3>3, QueuedPlaced DEF Asked
    <3> HIDE DEF P, P1, R
    <3> QED BY <2>3, <3>2, <3>4 DEF P1
  <2>9. ~ Stopped(s) /\ ~ Regrouped(s)
    BY <1>2, <2>1, ParamAssumption DEF Stopped, Regrouped, ParamAssumption
  <2>10. CASE Purged(s)
    <3>1. P1 = <<>>
      BY <2>10 DEF Purged
    <3> QED BY <3>1
  <2> QED BY <2>2, <2>5, <2>6, <2>7, <2>8, <2>9, <2>10 DEF Move
<1> QED BY <1>1, <1>2

(* On one processor only frames that a dozing station asked for, by        *)
(* PS-Poll, trigger or wake-up, wait for the xmit tasklet: stop_sta_xmit   *)
(* moves back everything else, and rtw_xmit adds nothing in between.       *)
THEOREM DozingIsNotSent ==
    ASSUME SMP = FALSE
    PROVE  Spec => []NoneToDozing
<1> DEFINE I == BacklogInv /\ OnlyAsked
<1>1. Init => I
  BY BacklogInit, ParamAssumption DEF Init, OnlyAsked
<1>2. I /\ [Next]_vars => I'
  BY BacklogStep, AskedStep, ParamAssumption DEF BacklogInv
<1>3. I => NoneToDozing
  <2> SUFFICES ASSUME I, NEW s \in linked \cap asleep, NEW a \in ACs,
                      NEW i \in 1..Len(pending[<<s, a>>])
               PROVE  pending[<<s, a>>][i].via # "new"
    BY DEF NoneToDozing
  <2>1. pending[<<s, a>>] \in Seq(Asked)
    BY DEF OnlyAsked
  <2>2. pending[<<s, a>>][i] \in Asked
    BY <2>1
  <2> QED BY <2>2 DEF Asked
<1> HIDE DEF I
<1> QED BY <1>1, <1>2, <1>3, PTL DEF Spec

-----------------------------------------------------------------------------
(* The order of frames, on one processor.  The frames of a category that   *)
(* wait for the tasklet and, behind them, those in sleep_q rise from the   *)
(* last one sent to the last one rtw_xmit has put anywhere.                *)

Line(s, a) == pending[<<s, a>>] \o OfAC(sleep_q[s], a)
Put(s) == frames - Hold(s)
InLine(s, a) == Rises(Line(s, a), last[<<s, a>>], Put(s)) /\ last[<<s, a>>] <= Put(s)
Lined == \A s \in Stas, a \in ACs : InLine(s, a)

(* Frames of sleep_q that are marked and handed to the tasklet.            *)
LEMMA AlikeReleased ==
    ASSUME NEW p \in Seq(Frame), NEW fs \in Seq(Frame), NEW hs \in Seq(Frame),
           NEW gs \in Seq(Frame), Alike(fs, hs)
    PROVE  Alike(p \o (fs \o gs), (p \o hs) \o gs)
<1> DEFINE pf == p \o fs
           ph == p \o hs
<1>1. pf \in Seq(Frame) /\ ph \in Seq(Frame) /\ Alike(pf, ph)
  BY AlikeBefore
<1>2. pf \o gs = p \o (fs \o gs)
  BY ConcatAssociative
<1> HIDE DEF pf, ph
<1>3. Alike(pf \o gs, ph \o gs)
  BY <1>1, AlikeAfter
<1> QED BY <1>2, <1>3, Zenon DEF pf, ph

LEMMA LineMarked ==
    ASSUME NEW p \in Seq(Frame), NEW fs \in Seq(Frame), NEW hs \in Seq(Frame),
           NEW gs \in Seq(Frame), NEW k, NEW top, Alike(fs, hs), Rises(p \o (fs \o gs), k, top)
    PROVE  Rises((p \o hs) \o gs, k, top)
<1> DEFINE ls == p \o (fs \o gs)
           rs == (p \o hs) \o gs
<1>1. Alike(ls, rs)
  BY AlikeReleased
<1>2. Rises(ls, k, top)
  OBVIOUS
<1> HIDE DEF ls, rs
<1>3. Rises(rs, k, top)
  BY <1>1, <1>2, RisesAlike
<1> QED BY <1>3 DEF rs

(* A new frame behind all others.                                          *)
LEMMA LineAppend ==
    ASSUME NEW p \in Seq(Frame), NEW fs \in Seq(Frame), NEW f \in Frame, NEW k \in Int,
           NEW top \in Int, NEW up \in Int, Rises(p \o fs, k, top),
           k <= top, top < f.n, f.n <= up
    PROVE  Rises(p \o Append(fs, f), k, up)
<1> DEFINE ls == p \o fs
<1>1. ls \in Seq(Frame) /\ p \o Append(fs, f) = Append(ls, f)
  OBVIOUS
<1>2. Rises(ls, k, top)
  OBVIOUS
<1> HIDE DEF ls
<1>3. Rises(Append(ls, f), k, up)
  BY <1>1, <1>2, RisesAppend
<1> QED BY <1>1, <1>3, Zenon

LEMMA LineEmpty == ASSUME NEW k, NEW top PROVE Rises(<<>> \o <<>>, k, top)
<1>1. Len(<<>> \o <<>>) = 0
  OBVIOUS
<1> DEFINE e == <<>> \o <<>>
<1>2. Len(e) = 0
  BY <1>1
<1> HIDE DEF e
<1>3. Rises(e, k, top)
  BY <1>2 DEF Rises
<1> QED BY <1>3 DEF e

LEMMA LineType ==
    ASSUME ParamAssumption, Typed, NEW s \in Stas, NEW a \in ACs
    PROVE  /\ s \in Rcv /\ <<s, a>> \in Pairs
           /\ pending[<<s, a>>] \in Seq(Frame) /\ sleep_q[s] \in Seq(Frame)
           /\ OfAC(sleep_q[s], a) \in Seq(Frame) /\ Line(s, a) \in Seq(Frame)
           /\ last[<<s, a>>] \in Int /\ Put(s) \in Int /\ frames \in Int
<1>1. s \in Rcv
  BY DEF Rcv
<1>2. <<s, a>> \in Pairs
  BY <1>1, PairIn
<1>3. pending[<<s, a>>] \in Seq(Frame) /\ sleep_q[s] \in Seq(Frame)
  BY <1>1, <1>2, TypedParts DEF TypedPending, TypedSleep
<1>4. OfAC(sleep_q[s], a) \in Seq(Frame)
  BY <1>3, OfACsType DEF OfAC
<1>5. Line(s, a) \in Seq(Frame)
  BY <1>3, <1>4 DEF Line
<1>6. last[<<s, a>>] \in 0..MaxFrames
  BY <1>2, TypedParts DEF TypedSent
<1>7. last[<<s, a>>] \in Int
  BY <1>6, ParamAssumption DEF ParamAssumption
<1>8. Put(s) \in Int /\ frames \in Int
  <2>1. frames \in Nat /\ Hold(s) \in 0..1
    BY <1>1, Lengths
  <2> QED BY <2>1 DEF Put
<1> QED BY <1>1, <1>2, <1>3, <1>4, <1>5, <1>7, <1>8

(* The frames of an awake station that falls asleep: sorted again, they    *)
(* are the frames of its pending queues.                                   *)
LEMMA LineStopped ==
    ASSUME Typed, NEW s \in Stas, NEW a \in ACs
    PROVE  LET mine == Mark(pending[<<s, "vo">>] \o pending[<<s, "be">>], "new")
           IN  /\ OfAC(mine, a) \in Seq(Frame) /\ mine \in Seq(Frame)
               /\ Alike(pending[<<s, a>>], OfAC(mine, a))
<1> DEFINE V == pending[<<s, "vo">>]
           B == pending[<<s, "be">>]
           two == V \o B
<1>0. V \in Seq(Frame) /\ B \in Seq(Frame) /\ Mark(two, "new") \in Seq(Frame)
  BY MovedType
<1>1. /\ V \in Seq(Frame) /\ B \in Seq(Frame) /\ two \in Seq(Frame)
      /\ Mark(two, "new") \in Seq(Frame)
  BY <1>0
<1>2. V \in Seq(Own(<<s, "vo">>)) /\ B \in Seq(Own(<<s, "be">>))
  BY PairIn, TypedParts DEF TypedPending, Placed, Rcv, ACs
<1>3. OfACs(two, {a}) = OfACs(V, {a}) \o OfACs(B, {a})
  BY <1>1, OfACsConcat
<1>4. /\ \A f \in Own(<<s, "vo">>) : f.ac = "vo"
      /\ \A f \in Own(<<s, "be">>) : f.ac = "be"
  BY DEF Own
<1>5. OfACs(two, {a}) = pending[<<s, a>>]
  <2>1. CASE a = "vo"
    <3>1. OfACs(V, {a}) = V
      <4>1. \A f \in Own(<<s, "vo">>) : f.ac \in {a}
        BY <1>4, <2>1
      <4> HIDE DEF V
      <4> QED BY <1>2, <4>1, OfACsAll
    <3>2. OfACs(B, {a}) = <<>>
      <4>1. \A f \in Own(<<s, "be">>) : f.ac \notin {a}
        BY <1>4, <2>1
      <4> HIDE DEF B
      <4> QED BY <1>2, <4>1, OfACsNone
    <3>3. V \o <<>> = V
      BY <1>1, ConcatEmptySeq
    <3> QED BY <1>3, <2>1, <3>1, <3>2, <3>3, Zenon
  <2>2. CASE a = "be"
    <3>1. OfACs(B, {a}) = B
      <4>1. \A f \in Own(<<s, "be">>) : f.ac \in {a}
        BY <1>4, <2>2
      <4> HIDE DEF B
      <4> QED BY <1>2, <4>1, OfACsAll
    <3>2. OfACs(V, {a}) = <<>>
      <4>1. \A f \in Own(<<s, "vo">>) : f.ac \notin {a}
        BY <1>4, <2>2
      <4> HIDE DEF V
      <4> QED BY <1>2, <4>1, OfACsNone
    <3>3. <<>> \o B = B
      BY <1>1, ConcatEmptySeq
    <3> QED BY <1>3, <2>2, <3>1, <3>2, <3>3, Zenon
  <2> QED BY <2>1, <2>2 DEF ACs
<1> HIDE DEF two
<1>6. /\ OfACs(Mark(two, "new"), {a}) \in Seq(Frame)
      /\ Alike(OfACs(two, {a}), OfACs(Mark(two, "new"), {a}))
  BY <1>1, AlikeMarked
<1> QED BY <1>1, <1>5, <1>6 DEF OfAC, two

LEMMA LineStep ==
    ASSUME ParamAssumption, Typed, Typed', AwakeInv, LonerInv, Lined, [Next]_vars
    PROVE  Lined'
<1> SUFFICES ASSUME NEW s \in Stas, NEW a \in ACs PROVE InLine(s, a)'
  BY DEF Lined
<1> DEFINE P == pending[<<s, a>>]
           P1 == pending'[<<s, a>>]
           W == OfAC(sleep_q[s], a)
           W1 == OfAC(sleep_q'[s], a)
           k == last[<<s, a>>]
           k1 == last'[<<s, a>>]
           t == Put(s)
           t1 == Put(s)'
<1>1. /\ s \in Rcv /\ P \in Seq(Frame) /\ W \in Seq(Frame) /\ sleep_q[s] \in Seq(Frame)
      /\ P \o W \in Seq(Frame) /\ k \in Int /\ t \in Int /\ frames \in Int
  BY LineType, ParamAssumption DEF Line
<1>2. /\ P1 \in Seq(Frame) /\ W1 \in Seq(Frame) /\ sleep_q'[s] \in Seq(Frame)
      /\ k1 \in Int /\ t1 \in Int /\ frames' \in Int
  <2>1. frames' \in Nat /\ Hold(s)' \in 0..1
    BY <1>1, Lengths, LengthsNext
  <2>2. t1 \in Int /\ frames' \in Int
    BY <2>1 DEF Put
  <2>3. <<s, a>> \in Pairs
    BY <1>1, PairIn
  <2>4. /\ P1 \in Seq(Frame) /\ sleep_q'[s] \in Seq(Frame) /\ k1 \in 0..MaxFrames
    BY <1>1, <2>3, TypedParts DEF TypedPending, TypedSleep, TypedSent
  <2>5. W1 \in Seq(Frame)
    BY <2>4, OfACsType DEF OfAC
  <2> QED BY <2>2, <2>4, <2>5, ParamAssumption DEF ParamAssumption
<1>3. Rises(P \o W, k, t) /\ k <= t
  BY DEF Lined, InLine, Line
<1>4. SUFFICES Rises(P1 \o W1, k1, t1) /\ k1 <= t1
  BY DEF InLine, Line
<1>5. Move(s)
  BY <1>1, MoveStep, ParamAssumption
<1>6. s \notin asleep => sleep_q[s] = <<>> /\ W = <<>> /\ P \o W = P
  <2> SUFFICES ASSUME s \notin asleep PROVE sleep_q[s] = <<>> /\ W = <<>> /\ P \o W = P
    OBVIOUS
  <2>1. sleep_q[s] = <<>>
    BY DEF AwakeInv, AwakeIsEmpty
  <2>2. W = <<>>
    BY <2>1, OfACsEmpty DEF OfAC
  <2>3. P \o <<>> = P
    BY <1>1, ConcatEmptySeq
  <2> QED BY <2>1, <2>2, <2>3, Zenon
(* The line stays as it is.                                                *)
<1>7. ASSUME P1 = P, W1 = W, k1 = k, t <= t1 PROVE Rises(P1 \o W1, k1, t1) /\ k1 <= t1
  <2> DEFINE ls == P \o W
  <2>1. ls \in Seq(Frame) /\ Rises(ls, k, t)
    BY <1>1, <1>3
  <2> HIDE DEF P, P1, W, W1, k, k1, t, t1, ls
  <2>2. Rises(ls, k, t1) /\ k <= t1
    BY <1>1, <1>2, <1>3, <1>7, <2>1, RisesHigher
  <2>3. P1 \o W1 = ls
    BY <1>7 DEF ls
  <2> QED BY <1>7, <2>2, <2>3
<1>8. SamePending(s) => P1 = P
  BY DEF SamePending
<1>9. SameLast(s) => k1 = k
  BY DEF SameLast
<1>10. SameTx(s) => t1 = t
  BY DEF SameTx, Put
<1>11. Hold(s) \in 0..1 /\ Hold(s)' \in 0..1
  BY DEF Hold
<1>12. CASE Untouched(s)
  <2>1. P1 = P /\ W1 = W /\ k1 = k
    BY <1>8, <1>9, <1>12 DEF Untouched
  <2>2. Hold(s)' = Hold(s) /\ frames' \in {frames, frames + 1}
    BY <1>12 DEF Untouched
  <2>3. t <= t1
    BY <1>1, <1>11, <2>2 DEF Put
  <2> QED BY <1>7, <2>1, <2>3
<1>13. CASE Zeroed(s)
  <2>1. P1 = P /\ W1 = W /\ k1 = k /\ t1 = t
    BY <1>8, <1>9, <1>10, <1>13 DEF Zeroed
  <2>2. t <= t1
    BY <1>1, <2>1
  <2> QED BY <1>7, <2>1, <2>2
<1>14. CASE Taken(s)
  <2>1. P1 = P /\ W1 = W /\ k1 = k
    BY <1>8, <1>9, <1>14 DEF Taken
  <2>2. Hold(s) = 0 /\ Hold(s)' = 1 /\ frames' = frames + 1
    BY <1>14 DEF Taken
  <2>3. t <= t1
    BY <1>1, <2>2 DEF Put
  <2> QED BY <1>7, <2>1, <2>3
<1>15. CASE Buffered(s)
  <2>1. PICK ac \in ACs : sleep_q'[s] = Append(sleep_q[s], NewFrame(ac))
    BY <1>15 DEF Buffered
  <2> DEFINE f == NewFrame(ac)
  <2>2. f \in Frame /\ f.ac = ac /\ f.n = frames + 1
    BY <1>15, NewFrameType, ParamAssumption DEF Buffered
  <2>3. P1 = P /\ k1 = k /\ Hold(s) = 0 /\ Hold(s)' = 0 /\ frames' = frames + 1
    BY <1>8, <1>9, <1>15 DEF Buffered
  <2>4. t = frames /\ t1 = frames + 1
    BY <1>1, <2>3 DEF Put
  <2> HIDE DEF f
  <2>5. OfACs(Append(sleep_q[s], f), {a}) =
          IF f.ac \in {a} THEN Append(OfACs(sleep_q[s], {a}), f) ELSE OfACs(sleep_q[s], {a})
    BY <1>1, <2>2, OfACsAppend
  <2>6. CASE ac = a
    <3>1. W1 = Append(W, f)
      BY <2>1, <2>2, <2>5, <2>6 DEF OfAC, f
    <3> HIDE DEF P, P1, W, W1, k, k1, t, t1
    <3>2. Rises(P \o Append(W, f), k, t1)
      <4>1. t1 = t + 1 /\ f.n = t + 1
        BY <1>1, <2>2, <2>4
      <4> QED BY <1>1, <1>2, <1>3, <2>2, <4>1, LineAppend
    <3>3. k <= t1
      BY <1>1, <1>2, <1>3, <2>4
    <3> QED BY <2>3, <3>1, <3>2, <3>3
  <2>7. CASE ac # a
    <3>1. W1 = W
      BY <2>1, <2>2, <2>5, <2>7 DEF OfAC, f
    <3>2. t <= t1
      BY <1>1, <2>4
    <3> QED BY <1>7, <2>3, <3>1, <3>2
  <2> QED BY <2>6, <2>7
<1>16. CASE PassedOn(s)
  <2> DEFINE f == hand[1]
  <2>1. /\ Hold(s) = 1 /\ Hold(s)' = 0 /\ frames' = frames /\ f \in Frame
        /\ pc["tx"] = "pass" /\ arg["tx"] = s /\ sleep_q'[s] = sleep_q[s]
    BY <1>16 DEF PassedOn
  <2>2. f.n = frames /\ s \notin asleep
    BY <2>1 DEF LonerInv, HandFresh
  <2>3. W = <<>> /\ P \o W = P /\ W1 = W /\ P1 \o W1 = P1
    <3>1. P1 \o <<>> = P1
      BY <1>2, ConcatEmptySeq
    <3>2. W = <<>> /\ P \o W = P /\ W1 = W
      BY <1>6, <2>1, <2>2
    <3> QED BY <3>1, <3>2, Zenon
  <2>4. t = frames - 1 /\ t1 = frames
    BY <1>1, <2>1 DEF Put
  <2>5. t <= t1 /\ f.n <= t1 /\ t < f.n
    BY <1>1, <2>2, <2>4
  <2>6. CASE SamePending(s) /\ SameLast(s)
    BY <1>7, <1>8, <1>9, <2>3, <2>5, <2>6
  <2>7. CASE Queues(s)
    <3>1. k1 = k /\ P1 = IF a = f.ac THEN Append(P, f) ELSE P
      BY <1>9, <2>7 DEF Queues
    <3>2. CASE a = f.ac
      <4>1. P1 = Append(P, f)
        BY <3>1, <3>2
      <4>2. Rises(P, k, t)
        BY <1>3, <2>3, Zenon
      <4> HIDE DEF P, P1, W, W1, k, k1, t, t1, f
      <4>3. Rises(P1, k, t1) /\ k <= t1
        BY <1>1, <1>2, <1>3, <2>1, <2>5, <4>1, <4>2, RisesAppend
      <4> QED BY <2>3, <3>1, <4>3
    <3>3. CASE a # f.ac
      BY <1>7, <2>3, <2>5, <3>1, <3>3
    <3> QED BY <3>2, <3>3
  <2>8. CASE Sends(s)
    <3>1. P1 = P /\ k1 = IF a = f.ac THEN f.n ELSE k
      BY <1>8, <2>8 DEF Sends
    <3>2. CASE a = f.ac
      <4>1. P = <<>>
        BY <2>8, <3>2 DEF Sends
      <4>2. P1 = <<>> /\ W1 = <<>>
        BY <2>3, <3>1, <4>1
      <4>3. Rises(<<>> \o <<>>, k1, t1)
        BY LineEmpty
      <4>4. Rises(P1 \o W1, k1, t1)
        BY <4>2, <4>3, Zenon
      <4> QED BY <2>5, <3>1, <3>2, <4>4
    <3>3. CASE a # f.ac
      BY <1>7, <2>3, <2>5, <3>1, <3>3
    <3> QED BY <3>2, <3>3
  <2> QED BY <1>16, <2>6, <2>7, <2>8 DEF PassedOn
<1>17. CASE Drained(s)
  <2>1. PICK ac \in ACs :
          /\ pending[<<s, ac>>] # <<>>
          /\ \A b \in ACs :
                /\ pending'[<<s, b>>] = IF b = ac THEN Tail(pending[<<s, b>>]) ELSE pending[<<s, b>>]
                /\ last'[<<s, b>>] = IF b = ac THEN Head(pending[<<s, b>>]).n ELSE last[<<s, b>>]
    BY <1>17 DEF Drained
  <2>2. W1 = W /\ t1 = t
    BY <1>10, <1>17 DEF Drained
  <2>3. CASE ac = a
    <3>1. P # <<>> /\ P1 = Tail(P) /\ k1 = Head(P).n
      BY <2>1, <2>3
    <3> HIDE DEF P, P1, W, W1, k, k1, t, t1
    <3>2. Rises(Tail(P) \o W, Head(P).n, t) /\ Head(P).n <= t
      BY <1>1, <1>3, <3>1, RisesDrop
    <3> QED BY <2>2, <3>1, <3>2
  <2>4. CASE ac # a
    <3>1. P1 = P /\ k1 = k
      BY <2>1, <2>4
    <3>2. t <= t1
      BY <1>1, <2>2
    <3> QED BY <1>7, <2>2, <3>1, <3>2
  <2> QED BY <2>3, <2>4
<1>18. CASE Released(s)
  <2>1. PICK out, rest : Parts(s, out, rest) /\ HandedOver(s, out, rest)
    BY <1>18 DEF Released
  <2> DEFINE O == OfAC(out, a)
             R == OfAC(rest, a)
             M == OfAC(Mark(out, "release"), a)
  <2>2. out \in Seq(Frame) /\ rest \in Seq(Frame) /\ s # Bmc
    BY <2>1, ParamAssumption DEF Parts, ParamAssumption
  <2>3. W = O \o R
    BY <2>1, <2>2 DEF Parts
  <2>4. W1 = R /\ P1 = P \o M
    BY <2>1 DEF HandedOver
  <2>5. O \in Seq(Frame) /\ M \in Seq(Frame) /\ Alike(O, M)
    BY <2>2, AlikeMarked DEF OfAC
  <2>6. R \in Seq(Frame)
    BY <2>2, OfACsType DEF OfAC
  <2>7. k1 = k /\ t1 = t
    BY <1>9, <1>10, <1>18 DEF Released
  <2>8. Rises(P \o (O \o R), k, t)
    BY <1>3, <2>3, Zenon
  <2> HIDE DEF P, P1, W, W1, k, k1, t, t1, O, R, M
  <2>9. Rises((P \o M) \o R, k, t)
    BY <1>1, <2>5, <2>6, <2>8, LineMarked
  <2> QED BY <1>3, <2>4, <2>7, <2>9
<1>19. CASE Stopped(s)
  <2> DEFINE mine == Mark(pending[<<s, "vo">>] \o pending[<<s, "be">>], "new")
             M == OfAC(mine, a)
  <2>1. M \in Seq(Frame) /\ mine \in Seq(Frame) /\ Alike(P, M)
    BY LineStopped
  <2>2. s \notin asleep /\ sleep_q'[s] = sleep_q[s] \o mine /\ P1 = <<>>
    BY <1>19 DEF Stopped
  <2>3. k1 = k /\ t1 = t
    BY <1>9, <1>10, <1>19 DEF Stopped
  <2>4. <<>> \o mine = mine /\ <<>> \o M = M
    <3>1. <<>> \o mine = mine
      BY <2>1, ConcatEmptySeq
    <3>2. <<>> \o M = M
      BY <2>1, ConcatEmptySeq
    <3> QED BY <3>1, <3>2
  <2>5. sleep_q'[s] = mine
    BY <1>6, <2>2, <2>4, Zenon
  <2>6. P1 \o W1 = M
    BY <2>2, <2>4, <2>5, Zenon
  <2>7. Rises(P, k, t)
    BY <1>3, <1>6, <2>2, Zenon
  <2> HIDE DEF P, P1, W, W1, k, k1, t, t1, M, mine
  <2>8. Rises(M, k, t)
    BY <2>1, <2>7, RisesAlike
  <2> QED BY <1>3, <2>3, <2>6, <2>8
<1>20. ~ Regrouped(s)
  BY ParamAssumption DEF Regrouped, ParamAssumption
<1>21. CASE Purged(s)
  <2>1. P1 = <<>> /\ sleep_q'[s] = <<>>
    BY <1>21 DEF Purged
  <2>2. W1 = <<>>
    BY <2>1, OfACsEmpty DEF OfAC
  <2>3. Rises(<<>> \o <<>>, k1, t1)
    BY LineEmpty
  <2>4. Rises(P1 \o W1, k1, t1)
    BY <2>1, <2>2, <2>3, Zenon
  <2>5. k1 = k /\ t1 = t
    BY <1>9, <1>10, <1>21 DEF Purged
  <2> QED BY <1>3, <2>4, <2>5
<1> QED BY <1>5, <1>12, <1>13, <1>14, <1>15, <1>16, <1>17, <1>18, <1>19, <1>20, <1>21 DEF Move

LineInv == BacklogInv /\ Lined

LEMMA LineInvInit == ASSUME Init PROVE LineInv
<1>0. BacklogInv
  BY BacklogInit, ParamAssumption
<1> SUFFICES ASSUME NEW s \in Stas, NEW a \in ACs PROVE InLine(s, a)
  BY <1>0 DEF Lined, LineInv
<1>1. <<s, a>> \in Rcv \X ACs /\ s \in Rcv
  BY DEF Rcv
<1>2. /\ pending[<<s, a>>] = <<>> /\ sleep_q[s] = <<>> /\ last[<<s, a>>] = 0
      /\ frames = 0 /\ pc["tx"] = "idle"
  BY <1>1 DEF Init, Contexts
<1>3. Line(s, a) = <<>> \o <<>>
  BY <1>2, OfACsEmpty DEF Line, OfAC
<1>4. Put(s) = 0
  BY <1>2 DEF Put, Hold
<1>5. Rises(<<>> \o <<>>, last[<<s, a>>], Put(s))
  BY LineEmpty
<1>6. Rises(Line(s, a), last[<<s, a>>], Put(s))
  BY <1>3, <1>5, Zenon
<1> QED BY <1>2, <1>4, <1>6 DEF InLine

LEMMA LineInvStep == ASSUME SMP = FALSE, LineInv, [Next]_vars PROVE LineInv'
<1>1. BacklogInv /\ Lined
  BY DEF LineInv
<1>2. BacklogInv'
  BY <1>1, BacklogStep, ParamAssumption
<1>3. Typed /\ Typed' /\ AwakeInv /\ LonerInv
  BY <1>1, <1>2 DEF BacklogInv
<1>4. Lined'
  BY <1>1, <1>3, LineStep, ParamAssumption
<1> QED BY <1>2, <1>4 DEF LineInv

(* On one processor the frames of a category reach a station in the order  *)
(* in which rtw_xmit was handed them, however often the station falls      *)
(* asleep, polls, triggers and wakes up, associates again or is freed.     *)
THEOREM OrderIsKept ==
    ASSUME SMP = FALSE
    PROVE  Spec => []OrderKept
<1>1. Init => LineInv
  BY LineInvInit
<1>2. LineInv /\ [Next]_vars => LineInv'
  BY LineInvStep
<1>3. LineInv => OrderKept
  <2> SUFFICES ASSUME LineInv, NEW s \in Stas, NEW a \in ACs
               PROVE  LET line == <<[n |-> last[<<s, a>>]]>> \o pending[<<s, a>>]
                                    \o OfAC(sleep_q[s], a)
                      IN  \A i, j \in 1..Len(line) : i < j => line[i].n < line[j].n
    BY DEF OrderKept
  <2> DEFINE x == [n |-> last[<<s, a>>]]
             P == pending[<<s, a>>]
             W == OfAC(sleep_q[s], a)
             E == Frame \cup {x}
             L == P \o W
             line == <<x>> \o P \o W
             k == last[<<s, a>>]
             t == Put(s)
  <2>1. P \in Seq(Frame) /\ W \in Seq(Frame) /\ k \in Int /\ t \in Int
    BY LineType, ParamAssumption DEF LineInv, BacklogInv
  <2>2. Rises(L, k, t)
    BY DEF LineInv, Lined, InLine, Line
  <2>3. x.n = k
    OBVIOUS
  <2> HIDE DEF P, W, k, t, x
  <2>4. P \in Seq(E) /\ W \in Seq(E) /\ <<x>> \in Seq(E)
    BY <2>1
  <2>5. L \in Seq(E) /\ L \in Seq(Frame) /\ Len(L) \in Nat
    BY <2>1, <2>4
  <2>6. line = <<x>> \o L
    BY <2>4, ConcatAssociative
  <2> HIDE DEF L, E
  <2>7. /\ Len(<<x>> \o L) = 1 + Len(L)
        /\ \A i \in 1..(1 + Len(L)) : (<<x>> \o L)[i] = IF i <= 1 THEN x ELSE L[i - 1]
    <3>1. Len(<<x>>) = 1 /\ <<x>>[1] = x
      OBVIOUS
    <3>2. /\ Len(<<x>> \o L) = Len(<<x>>) + Len(L)
          /\ \A i \in 1..(Len(<<x>>) + Len(L)) :
                (<<x>> \o L)[i] = IF i <= Len(<<x>>) THEN <<x>>[i] ELSE L[i - Len(<<x>>)]
      BY <2>4, <2>5, ConcatProperties
    <3> QED BY <2>5, <3>1, <3>2
  <2>8. Len(line) = 1 + Len(L) /\ \A i \in 1..(1 + Len(L)) : line[i] = IF i <= 1 THEN x ELSE L[i - 1]
    BY <2>6, <2>7, Zenon
  <2> HIDE DEF line
  <2>9. ASSUME NEW i \in 1..Len(line), NEW j \in 1..Len(line), i < j PROVE line[i].n < line[j].n
    <3>1. j - 1 \in 1..Len(L) /\ line[j] = L[j - 1]
      BY <2>5, <2>8, <2>9
    <3>2. CASE i = 1
      <4>1. line[i] = x
        BY <2>5, <2>8, <3>2
      <4> QED BY <2>2, <2>3, <3>1, <4>1 DEF Rises
    <3>3. CASE i # 1
      <4>1. i - 1 \in 1..Len(L) /\ line[i] = L[i - 1] /\ i - 1 < j - 1
        BY <2>5, <2>8, <2>9, <3>3
      <4> QED BY <2>2, <3>1, <4>1 DEF Rises
    <3> QED BY <3>2, <3>3
  <2> QED BY <2>9 DEF line, P, W, x
<1> QED BY <1>1, <1>2, <1>3, PTL DEF Spec

-----------------------------------------------------------------------------
(* The lines as a whole, on one processor: a frame changes its queue, its  *)
(* mark or its hands, but not its place.                                   *)

(* The numbers of frames.                                                  *)
LEMMA NumbersAlike ==
    ASSUME NEW fs \in Seq(Frame), NEW gs \in Seq(Frame), Alike(fs, gs)
    PROVE  Numbers(fs) = Numbers(gs)
<1>1. Len(fs) = Len(gs) /\ \A i \in 1..Len(fs) : fs[i].n = gs[i].n
  BY DEF Alike
<1> QED BY <1>1 DEF Numbers

LEMMA NumbersType ==
    ASSUME NEW fs \in Seq(Frame)
    PROVE  /\ Numbers(fs) \in Seq(Nat) /\ Len(Numbers(fs)) = Len(fs) /\ Len(fs) \in Nat
           /\ \A i \in 1..Len(fs) : Numbers(fs)[i] = fs[i].n
<1>1. Len(fs) \in Nat /\ \A i \in 1..Len(fs) : fs[i] \in Frame
  OBVIOUS
<1>2. \A i \in 1..Len(fs) : fs[i].n \in Nat
  BY <1>1 DEF Frame
<1>3. Numbers(fs) \in [1..Len(fs) -> Nat]
  BY <1>2 DEF Numbers
<1>4. \A i \in 1..Len(fs) : Numbers(fs)[i] = fs[i].n
  BY DEF Numbers
<1> HIDE DEF Numbers
<1>5. Numbers(fs) \in Seq(Nat) /\ Len(Numbers(fs)) = Len(fs)
  BY <1>1, <1>3
<1> QED BY <1>1, <1>4, <1>5

LEMMA NumbersAppend ==
    ASSUME NEW fs \in Seq(Frame), NEW f \in Frame
    PROVE  Numbers(Append(fs, f)) = Append(Numbers(fs), f.n)
<1> DEFINE gs == Append(fs, f)
           ns == Append(Numbers(fs), f.n)
<1>1. /\ gs \in Seq(Frame) /\ Len(gs) = Len(fs) + 1 /\ Len(fs) \in Nat
      /\ \A i \in 1..Len(fs) : gs[i] = fs[i]
      /\ gs[Len(fs) + 1] = f
  OBVIOUS
<1>2. /\ Numbers(fs) \in Seq(Nat) /\ Len(Numbers(fs)) = Len(fs)
      /\ \A i \in 1..Len(fs) : Numbers(fs)[i] = fs[i].n
  BY NumbersType
<1>3. f.n \in Nat
  BY DEF Frame
<1>4. /\ ns \in Seq(Nat) /\ Len(ns) = Len(fs) + 1
      /\ \A i \in 1..Len(fs) : ns[i] = fs[i].n
      /\ ns[Len(fs) + 1] = f.n
  BY <1>1, <1>2, <1>3
<1> HIDE DEF gs, ns
<1>5. /\ Numbers(gs) \in Seq(Nat) /\ Len(Numbers(gs)) = Len(gs)
      /\ \A i \in 1..Len(gs) : Numbers(gs)[i] = gs[i].n
  BY <1>1, NumbersType
<1>6. ASSUME NEW i \in 1..(Len(fs) + 1) PROVE Numbers(gs)[i] = ns[i]
  <2>1. CASE i = Len(fs) + 1
    BY <1>1, <1>4, <1>5, <2>1
  <2>2. CASE i \in 1..Len(fs)
    BY <1>1, <1>4, <1>5, <2>2
  <2> QED BY <1>1, <2>1, <2>2
<1>7. Numbers(gs) = ns
  BY <1>1, <1>4, <1>5, <1>6
<1> QED BY <1>7 DEF gs, ns

LEMMA NumbersDrop ==
    ASSUME NEW fs \in Seq(Frame), fs # <<>>
    PROVE  /\ Numbers(fs) # <<>>
           /\ Head(Numbers(fs)) = Head(fs).n
           /\ Tail(Numbers(fs)) = Numbers(Tail(fs))
<1> DEFINE ns == Numbers(fs)
           gs == Tail(fs)
<1>1. /\ gs \in Seq(Frame) /\ Len(gs) = Len(fs) - 1 /\ Len(fs) \in Nat /\ Len(fs) > 0
      /\ \A i \in 1..(Len(fs) - 1) : gs[i] = fs[i + 1]
      /\ Head(fs) = fs[1]
  OBVIOUS
<1>2. /\ ns \in Seq(Nat) /\ Len(ns) = Len(fs)
      /\ \A i \in 1..Len(fs) : ns[i] = fs[i].n
  BY NumbersType
<1> HIDE DEF ns, gs
<1>3. /\ Numbers(gs) \in Seq(Nat) /\ Len(Numbers(gs)) = Len(gs)
      /\ \A i \in 1..Len(gs) : Numbers(gs)[i] = gs[i].n
  BY <1>1, NumbersType
<1>4. ns # <<>> /\ Head(ns) = ns[1] /\ Tail(ns) \in Seq(Nat) /\ Len(Tail(ns)) = Len(fs) - 1
  BY <1>1, <1>2
<1>5. \A i \in 1..(Len(fs) - 1) : Tail(ns)[i] = ns[i + 1]
  BY <1>1, <1>2, <1>4
<1>6. ASSUME NEW i \in 1..(Len(fs) - 1) PROVE Tail(ns)[i] = Numbers(gs)[i]
  <2>1. i + 1 \in 1..Len(fs) /\ i \in 1..Len(gs)
    BY <1>1
  <2> QED BY <1>1, <1>2, <1>3, <1>5, <2>1
<1>7. Tail(ns) = Numbers(gs)
  <2> DEFINE ts == Tail(ns)
             ms == Numbers(gs)
  <2>1. ts \in Seq(Nat) /\ ms \in Seq(Nat) /\ Len(ts) = Len(ms)
    BY <1>1, <1>3, <1>4
  <2>2. \A i \in 1..Len(ts) : ts[i] = ms[i]
    BY <1>4, <1>6
  <2> HIDE DEF ts, ms
  <2>3. ts = ms
    BY <2>1, <2>2, SeqEqual
  <2> QED BY <2>3 DEF ts, ms
<1>8. Head(ns) = Head(fs).n
  BY <1>1, <1>2, <1>4
<1> QED BY <1>4, <1>7, <1>8 DEF ns, gs

LEMMA NumbersNone == Numbers(<<>>) = <<>>
<1>1. Len(<<>>) = 0
  OBVIOUS
<1>2. <<>> \in Seq(Frame)
  OBVIOUS
<1>3. Numbers(<<>>) \in Seq(Nat) /\ Len(Numbers(<<>>)) = 0
  BY <1>1, <1>2, NumbersType
<1> QED BY <1>3

(* The backlog of a station in a category, by its parts.                   *)
LEMMA BacklogParts ==
    ASSUME NEW s, NEW a
    PROVE  /\ Backlog(<<s, a>>) = Line(s, a) \o Carried(<<s, a>>)
           /\ Backlog(<<s, a>>)' = Line(s, a)' \o Carried(<<s, a>>)'
           /\ Carried(<<s, a>>) =
                IF pc["tx"] = "pass" /\ arg["tx"] = s /\ hand[1].ac = a THEN hand ELSE <<>>
           /\ Carried(<<s, a>>)' =
                IF pc'["tx"] = "pass" /\ arg'["tx"] = s /\ hand'[1].ac = a THEN hand' ELSE <<>>
<1>1. <<s, a>>[1] = s /\ <<s, a>>[2] = a
  OBVIOUS
<1> QED BY <1>1, Zenon DEF Backlog, Carried, Line

LEMMA BacklogType ==
    ASSUME ParamAssumption, Typed, NEW s \in Stas, NEW a \in ACs
    PROVE  /\ Line(s, a) \in Seq(Frame) /\ Carried(<<s, a>>) \in Seq(Frame)
           /\ Backlog(<<s, a>>) \in Seq(Frame)
<1>1. Line(s, a) \in Seq(Frame)
  BY LineType
<1>2. hand \in Seq(Frame)
  BY TypedParts DEF TypedControl
<1>3. Carried(<<s, a>>) \in {hand, <<>>}
  BY BacklogParts, Zenon
<1>4. Carried(<<s, a>>) \in Seq(Frame)
  <2>1. <<>> \in Seq(Frame)
    OBVIOUS
  <2> QED BY <1>2, <1>3, <2>1, Zenon
<1> HIDE DEF Line
<1>5. Line(s, a) \o Carried(<<s, a>>) \in Seq(Frame)
  BY <1>1, <1>4
<1> QED BY <1>1, <1>4, <1>5, BacklogParts

(* Steps that neither take a frame from rtw_xmit nor transmit one nor free *)
(* a station move frames between the queues, and leave the lines as they   *)
(* are.                                                                    *)
LEMMA BacklogSame ==
    ASSUME ParamAssumption, Typed, Typed', AwakeInv, Lined, [Next]_vars,
           linked \subseteq linked', UNCHANGED <<frames, last, hand>>,
           pc'["tx"] = pc["tx"], arg'["tx"] = arg["tx"], NEW s \in Stas, NEW a \in ACs
    PROVE  Numbers(Backlog(<<s, a>>))' = Numbers(Backlog(<<s, a>>))
<1> DEFINE P == pending[<<s, a>>]
           P1 == pending'[<<s, a>>]
           W == OfAC(sleep_q[s], a)
           W1 == OfAC(sleep_q'[s], a)
           C == Carried(<<s, a>>)
           k == last[<<s, a>>]
<1>1. /\ s \in Rcv /\ <<s, a>> \in Pairs /\ P \in Seq(Frame) /\ W \in Seq(Frame)
      /\ sleep_q[s] \in Seq(Frame) /\ k \in Int /\ frames \in Int
      /\ C \in Seq(Frame)
  BY LineType, BacklogType, ParamAssumption
<1>2. P1 \in Seq(Frame) /\ W1 \in Seq(Frame) /\ sleep_q'[s] \in Seq(Frame)
  <2>1. P1 \in Seq(Frame) /\ sleep_q'[s] \in Seq(Frame)
    BY <1>1, TypedParts DEF TypedPending, TypedSleep
  <2> QED BY <2>1, OfACsType DEF OfAC
<1>3. /\ Backlog(<<s, a>>) = (P \o W) \o C /\ Backlog(<<s, a>>)' = (P1 \o W1) \o C'
      /\ C' = C
  <2>1. C' = C
    BY BacklogParts, Zenon
  <2> QED BY <2>1, BacklogParts, Zenon DEF Line
<1>4. SUFFICES Alike(P \o W, P1 \o W1)
  <2> DEFINE L == P \o W
             L1 == P1 \o W1
  <2>1. L \in Seq(Frame) /\ L1 \in Seq(Frame) /\ Alike(L, L1)
    BY <1>1, <1>2, <1>4
  <2> HIDE DEF P, P1, W, W1, C, L, L1
  <2>2. Alike(L \o C, L1 \o C) /\ L \o C \in Seq(Frame) /\ L1 \o C \in Seq(Frame)
    BY <1>1, <2>1, AlikeAfter
  <2>3. Numbers(L \o C) = Numbers(L1 \o C)
    BY <2>2, NumbersAlike
  <2>4. Numbers(Backlog(<<s, a>>))' = Numbers(Backlog(<<s, a>>)')
    BY DEF Numbers
  <2> QED BY <1>3, <2>3, <2>4, Zenon DEF L, L1
<1>5. Move(s)
  BY <1>1, MoveStep, ParamAssumption
<1>6. Hold(s)' = Hold(s)
  BY DEF Hold
<1>7. ASSUME P1 = P, W1 = W PROVE Alike(P \o W, P1 \o W1)
  <2>1. P1 \o W1 = P \o W
    BY <1>7, Zenon
  <2> HIDE DEF P, P1, W, W1
  <2> QED BY <2>1 DEF Alike
<1>8. CASE Untouched(s) \/ Zeroed(s)
  <2>1. P1 = P /\ W1 = W
    BY <1>8 DEF Untouched, Zeroed, SamePending
  <2> QED BY <1>7, <2>1
<1>9. ~ Buffered(s) /\ ~ Taken(s) /\ ~ PassedOn(s)
  BY <1>1, <1>6 DEF Buffered, Taken, PassedOn
<1>10. CASE Drained(s)
  <2>1. PICK ac \in ACs :
          /\ pending[<<s, ac>>] # <<>>
          /\ \A b \in ACs :
                /\ pending'[<<s, b>>] = IF b = ac THEN Tail(pending[<<s, b>>]) ELSE pending[<<s, b>>]
                /\ last'[<<s, b>>] = IF b = ac THEN Head(pending[<<s, b>>]).n ELSE last[<<s, b>>]
    BY <1>10 DEF Drained
  <2>2. CASE ac = a
    <3>1. P # <<>> /\ k = Head(P).n
      BY <2>1, <2>2
    <3>2. Rises(P \o W, k, Put(s))
      BY DEF Lined, InLine, Line
    <3> DEFINE L == P \o W
    <3>3. 1 \in 1..Len(L) /\ L[1] = Head(P)
      <4>1. /\ Len(L) = Len(P) + Len(W)
            /\ \A i \in 1..(Len(P) + Len(W)) : L[i] = IF i <= Len(P) THEN P[i] ELSE W[i - Len(P)]
        <5> HIDE DEF P, W
        <5> QED BY <1>1, ConcatProperties
      <4>2. Len(P) \in Nat /\ Len(P) > 0 /\ Head(P) = P[1] /\ Len(W) \in Nat
        BY <1>1, <3>1
      <4> HIDE DEF L, P, W
      <4> QED BY <4>1, <4>2
    <3> HIDE DEF L, P
    <3>4. k < L[1].n
      BY <3>2, <3>3 DEF Rises, L
    <3> QED BY <1>1, <3>1, <3>3, <3>4
  <2>3. CASE ac # a
    <3>1. P1 = P /\ W1 = W
      BY <1>10, <2>1, <2>3 DEF Drained
    <3> QED BY <1>7, <3>1
  <2> QED BY <2>2, <2>3
<1>11. CASE Released(s)
  <2>1. PICK out, rest : Parts(s, out, rest) /\ HandedOver(s, out, rest)
    BY <1>11 DEF Released
  <2> DEFINE O == OfAC(out, a)
             R == OfAC(rest, a)
             M == OfAC(Mark(out, "release"), a)
  <2>2. out \in Seq(Frame) /\ rest \in Seq(Frame) /\ s # Bmc
    BY <2>1, ParamAssumption DEF Parts, ParamAssumption
  <2>3. W = O \o R
    BY <2>1, <2>2 DEF Parts
  <2>4. W1 = R /\ P1 = P \o M
    BY <2>1 DEF HandedOver
  <2>5. O \in Seq(Frame) /\ M \in Seq(Frame) /\ Alike(O, M)
    BY <2>2, AlikeMarked DEF OfAC
  <2>6. R \in Seq(Frame)
    BY <2>2, OfACsType DEF OfAC
  <2> HIDE DEF P, P1, W, W1, O, R, M
  <2>7. Alike(P \o (O \o R), (P \o M) \o R)
    BY <1>1, <2>5, <2>6, AlikeReleased
  <2> QED BY <2>3, <2>4, <2>7, Zenon
<1>12. CASE Stopped(s)
  <2> DEFINE mine == Mark(pending[<<s, "vo">>] \o pending[<<s, "be">>], "new")
             M == OfAC(mine, a)
  <2>1. M \in Seq(Frame) /\ mine \in Seq(Frame) /\ Alike(P, M)
    BY LineStopped
  <2>2. s \in Stas \ asleep /\ sleep_q'[s] = sleep_q[s] \o mine /\ P1 = <<>>
    BY <1>12 DEF Stopped
  <2>3. sleep_q[s] = <<>>
    BY <2>2 DEF AwakeInv, AwakeIsEmpty
  <2>4. W = <<>>
    BY <2>3, OfACsEmpty DEF OfAC
  <2>5. <<>> \o mine = mine /\ <<>> \o M = M /\ P \o <<>> = P
    <3>1. <<>> \o mine = mine
      BY <2>1, ConcatEmptySeq
    <3>2. <<>> \o M = M
      BY <2>1, ConcatEmptySeq
    <3>3. P \o <<>> = P
      BY <1>1, ConcatEmptySeq
    <3> QED BY <3>1, <3>2, <3>3
  <2>6. sleep_q'[s] = mine
    BY <2>2, <2>3, <2>5, Zenon
  <2>7. P1 \o W1 = M
    BY <2>2, <2>5, <2>6, Zenon
  <2> HIDE DEF P, P1, W, W1, M, mine
  <2> QED BY <2>1, <2>4, <2>5, <2>7, Zenon
<1>13. ~ Regrouped(s)
  BY ParamAssumption DEF Regrouped, ParamAssumption
<1>14. ~ Purged(s)
  BY DEF Purged
<1> QED BY <1>5, <1>8, <1>9, <1>10, <1>11, <1>12, <1>13, <1>14 DEF Move

(* What happens to the lines, as StationLine sees it: all but one stay.    *)
LEMMA WaitsAt ==
    ASSUME NEW r \in Stas, NEW b \in ACs, NEW x,
           \A s \in Stas, a \in ACs :
              Numbers(Backlog(<<s, a>>))' =
                IF s = r /\ a = b THEN x ELSE Numbers(Backlog(<<s, a>>))
    PROVE  <<r, b>> \in Stas \X ACs /\ Waits' = [Waits EXCEPT ![<<r, b>>] = x]
<1> DEFINE B(p) == Numbers(Backlog(p))
           C(p) == Numbers(Backlog(p))'
<1>1. /\ Waits = [p \in Stas \X ACs |-> B(p)]
      /\ Waits' = [p \in Stas \X ACs |-> C(p)]
  BY Zenon DEF Waits
<1>2. \A s \in Stas, a \in ACs : C(<<s, a>>) = IF s = r /\ a = b THEN x ELSE B(<<s, a>>)
  OBVIOUS
<1> HIDE DEF B, C
<1> DEFINE q == <<r, b>>
<1>3. q \in Stas \X ACs
  OBVIOUS
<1>4. ASSUME NEW p \in Stas \X ACs PROVE C(p) = IF p = q THEN x ELSE B(p)
  <2>1. PICK s \in Stas, a \in ACs : p = <<s, a>>
    OBVIOUS
  <2>2. p = q <=> s = r /\ a = b
    BY <2>1
  <2>3. C(<<s, a>>) = IF s = r /\ a = b THEN x ELSE B(<<s, a>>)
    BY <1>2
  <2> QED BY <2>1, <2>2, <2>3, Zenon
<1> HIDE DEF q
<1>5. Waits' = [Waits EXCEPT ![q] = x]
  BY <1>1, <1>3, <1>4
<1> QED BY <1>3, <1>5 DEF q

LEMMA WaitsSame ==
    ASSUME \A s \in Stas, a \in ACs :
              Numbers(Backlog(<<s, a>>))' = Numbers(Backlog(<<s, a>>))
    PROVE  Waits' = Waits
<1> DEFINE B(p) == Numbers(Backlog(p))
           C(p) == Numbers(Backlog(p))'
<1>1. /\ Waits = [p \in Stas \X ACs |-> B(p)]
      /\ Waits' = [p \in Stas \X ACs |-> C(p)]
  BY Zenon DEF Waits
<1>2. \A s \in Stas, a \in ACs : C(<<s, a>>) = B(<<s, a>>)
  OBVIOUS
<1> HIDE DEF B, C
<1> QED BY <1>1, <1>2

(* A line with another frame at its end, and without its first.            *)
LEMMA BacklogGrows ==
    ASSUME ParamAssumption, Typed, NEW s \in Stas, NEW a \in ACs, NEW f \in Frame,
           Backlog(<<s, a>>)' = Append(Backlog(<<s, a>>), f)
    PROVE  Numbers(Backlog(<<s, a>>))' = Append(Numbers(Backlog(<<s, a>>)), f.n)
<1> DEFINE B == Backlog(<<s, a>>)
<1>1. B \in Seq(Frame)
  BY BacklogType
<1>2. Numbers(B)' = Numbers(B')
  BY DEF Numbers
<1> HIDE DEF B
<1>3. Numbers(Append(B, f)) = Append(Numbers(B), f.n)
  BY <1>1, NumbersAppend
<1> QED BY <1>2, <1>3, Zenon DEF B

LEMMA BacklogShrinks ==
    ASSUME ParamAssumption, Typed, NEW s \in Stas, NEW a \in ACs,
           Backlog(<<s, a>>) # <<>>, Backlog(<<s, a>>)' = Tail(Backlog(<<s, a>>))
    PROVE  LET ns == Numbers(Backlog(<<s, a>>))
           IN  ns # <<>> /\ Head(ns) = Head(Backlog(<<s, a>>)).n /\ ns' = Tail(ns)
<1> DEFINE B == Backlog(<<s, a>>)
<1>1. B \in Seq(Frame) /\ B # <<>>
  BY BacklogType
<1>2. Numbers(B)' = Numbers(B')
  BY DEF Numbers
<1> HIDE DEF B
<1>3. Numbers(B) # <<>> /\ Head(Numbers(B)) = Head(B).n /\ Tail(Numbers(B)) = Numbers(Tail(B))
  BY <1>1, NumbersDrop
<1>4. B' = Tail(B)
  BY DEF B
<1> QED BY <1>2, <1>3, <1>4, Zenon DEF B

(* Nothing is changed that Backlog(<<s, a>>) is made of.                   *)
LEMMA BacklogStill ==
    ASSUME NEW s, NEW a, Line(s, a)' = Line(s, a),
           Carried(<<s, a>>)' = Carried(<<s, a>>)
    PROVE  Numbers(Backlog(<<s, a>>))' = Numbers(Backlog(<<s, a>>))
<1>1. Backlog(<<s, a>>)' = Backlog(<<s, a>>)
  BY BacklogParts, Zenon
<1> QED BY <1>1, Zenon DEF Numbers

(* rtw_xmit has nothing in hand.                                           *)
LEMMA EmptyHanded ==
    ASSUME NEW s, NEW a
    PROVE  /\ pc["tx"] # "pass" \/ arg["tx"] # s => Carried(<<s, a>>) = <<>>
           /\ pc'["tx"] # "pass" \/ arg'["tx"] # s => Carried(<<s, a>>)' = <<>>
BY BacklogParts, Zenon

LEMMA BacklogLine ==
    ASSUME ParamAssumption, Typed, NEW s \in Stas, NEW a \in ACs, Carried(<<s, a>>) = <<>>
    PROVE  Backlog(<<s, a>>) = Line(s, a)
<1>1. Line(s, a) \in Seq(Frame)
  BY BacklogType
<1>2. Line(s, a) \o <<>> = Line(s, a)
  BY <1>1, ConcatEmptySeq
<1> QED BY <1>2, BacklogParts, Zenon

(* A new frame is buffered or taken in hand.                               *)
LEMMA LinesAccept ==
    ASSUME ParamAssumption, Typed, Typed', NEW q \in Stas, NEW ac \in ACs,
           TxBuffer(q, ac) \/ TxDirect(q, ac)
    PROVE  Stations!Accept(<<q, ac>>)
<1> DEFINE f == NewFrame(ac)
<1>1. /\ pc["tx"] = "idle" /\ frames < MaxFrames /\ frames' = frames + 1 /\ q \in linked
      /\ UNCHANGED <<linked, last>>
  BY ParamAssumption DEF TxBuffer, TxDirect, At, Buffers, stations, ParamAssumption
<1>2. f \in Frame /\ f.ac = ac /\ f.n = frames + 1
  BY <1>1, NewFrameType
<1>3. ASSUME NEW s \in Stas, NEW a \in ACs
      PROVE  Backlog(<<s, a>>)' = IF s = q /\ a = ac THEN Append(Backlog(<<s, a>>), f)
                                                 ELSE Backlog(<<s, a>>)
  <2> DEFINE L == Line(s, a)
             P == pending[<<s, a>>]
             W == OfAC(sleep_q[s], a)
  <2>1. Carried(<<s, a>>) = <<>> /\ Backlog(<<s, a>>) = L
    <3>1. Carried(<<s, a>>) = <<>>
      BY <1>1, EmptyHanded
    <3> QED BY <3>1, BacklogLine
  <2>2. L \in Seq(Frame) /\ P \in Seq(Frame) /\ W \in Seq(Frame) /\ sleep_q[s] \in Seq(Frame)
    BY LineType
  <2>3. Backlog(<<s, a>>)' = L' \o Carried(<<s, a>>)'
    BY BacklogParts
  <2>4. CASE TxBuffer(q, ac)
    <3>1. /\ sleep_q' = [sleep_q EXCEPT ![q] = Append(@, f)]
          /\ UNCHANGED <<pending, pc>>
      BY <2>4 DEF TxBuffer, control
    <3>2. Carried(<<s, a>>)' = <<>>
      BY <1>1, <3>1, EmptyHanded
    <3>3. L' = IF s = q /\ a = ac THEN Append(L, f) ELSE L
      <4>1. s \in Rcv /\ q \in Rcv /\ DOMAIN sleep_q = Rcv
        BY TypedParts DEF TypedSleep, Rcv
      <4>2. sleep_q'[s] = IF s = q THEN Append(sleep_q[s], f) ELSE sleep_q[s]
        BY <3>1, <4>1
      <4> HIDE DEF f
      <4>3. OfACs(Append(sleep_q[s], f), {a}) =
              IF f.ac \in {a} THEN Append(OfACs(sleep_q[s], {a}), f) ELSE OfACs(sleep_q[s], {a})
        BY <1>2, <2>2, OfACsAppend
      <4>4. L = P \o W /\ L' = P \o OfAC(sleep_q'[s], a)
        BY <3>1 DEF Line
      <4>5. CASE s = q /\ a = ac
        <5>1. OfAC(sleep_q'[s], a) = Append(W, f)
          BY <1>2, <4>2, <4>3, <4>5 DEF OfAC
        <5>2. P \o Append(W, f) = Append(P \o W, f)
          <6> HIDE DEF P, W
          <6> QED BY <1>2, <2>2, AppendAfter
        <5> QED BY <4>4, <4>5, <5>1, <5>2, Zenon
      <4>6. CASE ~ (s = q /\ a = ac)
        <5>1. OfAC(sleep_q'[s], a) = W
          BY <1>2, <4>2, <4>3, <4>6 DEF OfAC
        <5> QED BY <4>4, <4>6, <5>1, Zenon
      <4> QED BY <4>5, <4>6
    <3>4. L' \in Seq(Frame)
      BY <1>2, <2>2, <3>3
    <3>5. L' \o <<>> = L'
      BY <3>4, ConcatEmptySeq
    <3> QED BY <2>1, <2>3, <3>2, <3>3, <3>5, Zenon
  <2>5. CASE TxDirect(q, ac)
    <3>1. UNCHANGED <<pending, sleep_q>> /\ hand' = <<f>> /\ Goto("tx", "pass", q)
      BY <2>5 DEF TxDirect, queues
    <3>2. pc'["tx"] = "pass" /\ arg'["tx"] = q /\ hand'[1] = f
      BY <3>1, GotoOthers DEF Contexts
    <3>3. L' = L
      BY <3>1, Zenon DEF Line
    <3>4. Carried(<<s, a>>)' = IF s = q /\ a = ac THEN <<f>> ELSE <<>>
      BY <1>2, <3>1, <3>2, BacklogParts, Zenon
    <3>5. L \o <<>> = L /\ L \o <<f>> = Append(L, f)
      <4>1. L \o <<>> = L
        BY <2>2, ConcatEmptySeq
      <4> HIDE DEF L, f
      <4>2. L \o <<f>> = Append(L, f)
        BY <1>2, <2>2
      <4> QED BY <4>1, <4>2
    <3> QED BY <2>1, <2>3, <3>3, <3>4, <3>5, Zenon
  <2> QED BY <2>4, <2>5
<1> DEFINE N == Append(Numbers(Backlog(<<q, ac>>)), frames + 1)
<1>4. \A s \in Stas, a \in ACs :
         Numbers(Backlog(<<s, a>>))' = IF s = q /\ a = ac THEN N ELSE Numbers(Backlog(<<s, a>>))
  <2> SUFFICES ASSUME NEW s \in Stas, NEW a \in ACs
               PROVE  Numbers(Backlog(<<s, a>>))' =
                        IF s = q /\ a = ac THEN N ELSE Numbers(Backlog(<<s, a>>))
    OBVIOUS
  <2> HIDE DEF f
  <2>1. CASE s = q /\ a = ac
    <3>1. Backlog(<<q, ac>>)' = Append(Backlog(<<q, ac>>), f)
      BY <1>3
    <3>2. Numbers(Backlog(<<q, ac>>))' = Append(Numbers(Backlog(<<q, ac>>)), f.n)
      BY <1>2, <3>1, BacklogGrows
    <3> QED BY <1>2, <2>1, <3>2, Zenon
  <2>2. CASE ~ (s = q /\ a = ac)
    <3>1. Backlog(<<s, a>>)' = Backlog(<<s, a>>)
      BY <1>3, <2>2
    <3>2. Numbers(Backlog(<<s, a>>))' = Numbers(Backlog(<<s, a>>))
      BY <3>1, Zenon DEF Numbers
    <3> QED BY <2>2, <3>2, Zenon
  <2> QED BY <2>1, <2>2
<1> HIDE DEF N
<1>5. <<q, ac>> \in Stas \X ACs /\ Waits' = [Waits EXCEPT ![<<q, ac>>] = N]
  BY <1>4, WaitsAt
<1>6. Waits[<<q, ac>>] = Numbers(Backlog(<<q, ac>>)) /\ LastSent' = LastSent
  BY <1>1, <1>5, Zenon DEF Waits, LastSent
<1>7. Waits' = [Waits EXCEPT ![<<q, ac>>] = Append(Waits[<<q, ac>>], frames + 1)]
  BY <1>5, <1>6, Zenon DEF N
<1>8. <<q, ac>>[1] = q
  OBVIOUS
<1> HIDE DEF Waits
<1> QED BY <1>1, <1>6, <1>7, <1>8 DEF Stations!Accept

(* A line whose first frame is transmitted.                                *)
LEMMA LinesDeliver ==
    ASSUME ParamAssumption, Typed, NEW q \in Stas, NEW ac \in ACs, UNCHANGED <<linked, frames>>,
           Backlog(<<q, ac>>) # <<>>, Backlog(<<q, ac>>)' = Tail(Backlog(<<q, ac>>)),
           last' = [last EXCEPT ![<<q, ac>>] = Head(Backlog(<<q, ac>>)).n],
           \A s \in Stas, a \in ACs :
              s # q \/ a # ac => Backlog(<<s, a>>)' = Backlog(<<s, a>>)
    PROVE  <<q, ac>> \in Stas \X ACs /\ Stations!Deliver(<<q, ac>>)
<1> DEFINE N == Numbers(Backlog(<<q, ac>>))
<1>1. N # <<>> /\ Head(N) = Head(Backlog(<<q, ac>>)).n /\ N' = Tail(N)
  BY BacklogShrinks
<1> DEFINE T == Tail(N)
<1>2. \A s \in Stas, a \in ACs :
         Numbers(Backlog(<<s, a>>))' = IF s = q /\ a = ac THEN T ELSE Numbers(Backlog(<<s, a>>))
  <2> SUFFICES ASSUME NEW s \in Stas, NEW a \in ACs
               PROVE  Numbers(Backlog(<<s, a>>))' =
                        IF s = q /\ a = ac THEN T ELSE Numbers(Backlog(<<s, a>>))
    OBVIOUS
  <2>1. CASE s = q /\ a = ac
    BY <1>1, <2>1, Zenon
  <2>2. CASE ~ (s = q /\ a = ac)
    <3>1. Backlog(<<s, a>>)' = Backlog(<<s, a>>)
      BY <2>2
    <3>2. Numbers(Backlog(<<s, a>>))' = Numbers(Backlog(<<s, a>>))
      BY <3>1, Zenon DEF Numbers
    <3> QED BY <2>2, <3>2, Zenon
  <2> QED BY <2>1, <2>2
<1> HIDE DEF T
<1>3. <<q, ac>> \in Stas \X ACs /\ Waits' = [Waits EXCEPT ![<<q, ac>>] = T]
  BY <1>2, WaitsAt
<1>4. Waits[<<q, ac>>] = N
  BY <1>3, Zenon DEF Waits
<1>5. LastSent' = [LastSent EXCEPT ![<<q, ac>>] = Head(N)]
  <2> DEFINE x == Head(Backlog(<<q, ac>>)).n
  <2>1. last' = [last EXCEPT ![<<q, ac>>] = x]
    OBVIOUS
  <2> HIDE DEF x
  <2>2. LastSent' = [LastSent EXCEPT ![<<q, ac>>] = x]
    <3>1. last \in [Pairs -> 0..MaxFrames]
      BY TypedParts DEF TypedSent
    <3> QED BY <2>1, <3>1 DEF LastSent, Pairs, Rcv
  <2> QED BY <1>1, <2>2, Zenon DEF x
<1>6. /\ Waits[<<q, ac>>] # <<>>
      /\ LastSent' = [LastSent EXCEPT ![<<q, ac>>] = Head(Waits[<<q, ac>>])]
      /\ Waits' = [Waits EXCEPT ![<<q, ac>>] = Tail(Waits[<<q, ac>>])]
  BY <1>1, <1>3, <1>4, <1>5, Zenon DEF T
<1> QED BY <1>3, <1>6 DEF Stations!Deliver

(* rtw_xmit passes its frame on: behind the others or, when there is none, *)
(* to the hardware.  Its station cannot have left meanwhile.               *)
LEMMA LinesPass ==
    ASSUME ParamAssumption, Typed, Typed', AwakeInv, LonerInv, TxPass
    PROVE  Stations!Next \/ UNCHANGED Stations!vars
<1>1. /\ pc["tx"] = "pass" /\ Goto("tx", "idle", None)
      /\ UNCHANGED <<linked, sleep_q, frames>>
  BY DEF TxPass, At, stations
<1>2. hand \in Seq(Frame) /\ Len(hand) = 1 /\ arg["tx"] \in Rcv
  BY <1>1 DEF Typed, InHand
<1>3. PICK q \in Rcv, f \in Frame : arg["tx"] = q /\ hand[1] = f
  BY <1>2
<1>4. PICK ac \in ACs : f.ac = ac
  BY DEF Frame
<1> DEFINE p == <<q, ac>>
<1>11. hand = <<f>>
  <2>1. <<f>> \in Seq(Frame) /\ Len(<<f>>) = 1 /\ <<f>>[1] = f
    OBVIOUS
  <2>2. Len(hand) = Len(<<f>>) /\ \A i \in 1..Len(hand) : hand[i] = <<f>>[i]
    BY <1>2, <1>3, <2>1
  <2> QED BY <1>2, <2>1, <2>2, SeqEqual
<1>5. pc'["tx"] = "idle"
  BY <1>1, GotoOthers DEF Contexts
<1>6. /\ pending \in [Pairs -> Seq(Frame)] /\ last \in [Pairs -> 0..MaxFrames] /\ p \in Pairs
  BY PairIn, TypedParts DEF TypedPending, TypedSent
<1>7. \/ /\ q = Bmc \/ q \in linked
         /\ pending' = [pending EXCEPT ![p] = Append(@, f)] /\ UNCHANGED last
      \/ /\ q = Bmc \/ q \in linked
         /\ pending[p] = <<>> /\ UNCHANGED pending
         /\ last' = [last EXCEPT ![p] = f.n]
      \/ q \in Stas \ linked
  BY <1>3, <1>4 DEF TxPass, Transmit
<1>8. ASSUME NEW s \in Stas, NEW a \in ACs, s # q \/ a # ac
      PROVE  Backlog(<<s, a>>)' = Backlog(<<s, a>>)
  <2>1. Carried(<<s, a>>) = <<>> /\ Carried(<<s, a>>)' = <<>>
    BY <1>3, <1>4, <1>5, <1>8, BacklogParts, Zenon
  <2>2. <<s, a>> # p
    BY <1>8
  <2>3. pending'[<<s, a>>] = pending[<<s, a>>]
    <3>1. pending' = [pending EXCEPT ![p] = Append(pending[p], f)] \/ UNCHANGED pending
      BY <1>3, <1>4 DEF TxPass
    <3>2. <<s, a>> \in Pairs
      BY PairIn DEF Rcv
    <3> HIDE DEF p
    <3> QED BY <1>6, <2>2, <3>1, <3>2
  <2>4. Line(s, a)' = Line(s, a)
    BY <1>1, <2>3, Zenon DEF Line
  <2> QED BY <2>1, <2>4, BacklogParts, Zenon
<1>9. CASE q = Bmc
  <2>1. \A s \in Stas : s # q
    BY <1>9, ParamAssumption DEF ParamAssumption
  <2>2. \A s \in Stas, a \in ACs : Numbers(Backlog(<<s, a>>))' = Numbers(Backlog(<<s, a>>))
    <3> SUFFICES ASSUME NEW s \in Stas, NEW a \in ACs
                 PROVE  Numbers(Backlog(<<s, a>>))' = Numbers(Backlog(<<s, a>>))
      OBVIOUS
    <3>1. Backlog(<<s, a>>)' = Backlog(<<s, a>>)
      BY <1>8, <2>1
    <3> QED BY <3>1, Zenon DEF Numbers
  <2>3. Waits' = Waits
    BY <2>2, WaitsSame
  <2>4. LastSent' = LastSent
    <3>1. q \notin Stas
      BY <2>1
    <3>2. last' = last \/ last' = [last EXCEPT ![p] = f.n]
      BY <1>7, <3>1
    <3>3. ASSUME NEW x \in Stas \X ACs PROVE last'[x] = last[x]
      <4>1. x # p /\ x \in Pairs
        BY <3>1, <3>3 DEF Pairs, Rcv
      <4> HIDE DEF p
      <4> QED BY <1>6, <3>2, <4>1
    <3> QED BY <3>3, Zenon DEF LastSent
  <2> QED BY <1>1, <2>3, <2>4 DEF Stations!vars
<1>10. CASE q \in Stas
  <2>1. q \in linked \ asleep
    BY <1>1, <1>3, <1>10 DEF LonerInv, HandFresh
  <2>2. sleep_q[q] = <<>>
    BY <1>10, <2>1 DEF AwakeInv, AwakeIsEmpty
  <2> DEFINE P == pending[p]
  <2>3. OfAC(sleep_q[q], ac) = <<>>
    BY <2>2, OfACsEmpty DEF OfAC
  <2>4. P \in Seq(Frame) /\ P \o <<>> = P
    <3>1. P \in Seq(Frame)
      BY <1>6
    <3> QED BY <3>1, ConcatEmptySeq
  <2>5. Line(q, ac) = P
    BY <2>3, <2>4, Zenon DEF Line
  <2>6. Carried(p) = <<f>> /\ Carried(p)' = <<>>
    BY <1>1, <1>3, <1>4, <1>5, <1>11, BacklogParts, Zenon
  <2>7. Backlog(p) = P \o <<f>>
    <3>1. Backlog(p) = Line(q, ac) \o Carried(p)
      BY BacklogParts, Zenon
    <3> QED BY <2>5, <2>6, <3>1
  <2>8. Backlog(p)' = pending'[p]
    <3>1. OfAC(sleep_q'[q], ac) = <<>>
      BY <1>1, <2>3
    <3>2. pending' \in [Pairs -> Seq(Frame)]
      BY TypedParts DEF TypedPending
    <3>3. pending'[p] \in Seq(Frame)
      BY <1>6, <3>2
    <3>4. pending'[p] \o <<>> = pending'[p]
      BY <3>3, ConcatEmptySeq
    <3>5. Backlog(p)' = (pending'[p] \o OfAC(sleep_q'[q], ac)) \o Carried(p)'
      BY BacklogParts, Zenon DEF Line
    <3> QED BY <2>6, <3>1, <3>4, <3>5, Zenon
  <2>9. CASE pending' = [pending EXCEPT ![p] = Append(@, f)] /\ UNCHANGED last
    <3>1. pending'[p] = Append(P, f)
      BY <1>6, <2>9
    <3>2. Append(P, f) = P \o <<f>>
      <4> HIDE DEF P
      <4> QED BY <2>4
    <3>3. Backlog(p)' = Backlog(p)
      BY <2>7, <2>8, <3>1, <3>2, Zenon
    <3>4. \A s \in Stas, a \in ACs : Numbers(Backlog(<<s, a>>))' = Numbers(Backlog(<<s, a>>))
      <4> SUFFICES ASSUME NEW s \in Stas, NEW a \in ACs
                   PROVE  Numbers(Backlog(<<s, a>>))' = Numbers(Backlog(<<s, a>>))
        OBVIOUS
      <4>1. Backlog(<<s, a>>)' = Backlog(<<s, a>>)
        <5>1. CASE s = q /\ a = ac
          BY <3>3, <5>1, Zenon
        <5> QED BY <1>8, <5>1, Zenon
      <4> QED BY <4>1, Zenon DEF Numbers
    <3>5. Waits' = Waits /\ LastSent' = LastSent
      BY <2>9, <3>4, WaitsSame, Zenon DEF LastSent
    <3> QED BY <1>1, <3>5 DEF Stations!vars
  <2>10. CASE pending[p] = <<>> /\ UNCHANGED pending /\ last' = [last EXCEPT ![p] = f.n]
    <3>1. Backlog(p) = <<f>> /\ Backlog(p)' = <<>>
      <4>1. <<>> \o <<f>> = <<f>>
        OBVIOUS
      <4> QED BY <2>7, <2>8, <2>10, <4>1, Zenon
    <3>2. <<f>> # <<>> /\ Head(<<f>>) = f /\ Tail(<<f>>) = <<>>
      OBVIOUS
    <3>3. /\ Backlog(p) # <<>> /\ Backlog(p)' = Tail(Backlog(p))
          /\ last' = [last EXCEPT ![p] = Head(Backlog(p)).n]
      BY <2>10, <3>1, <3>2, Zenon
    <3>4. p \in Stas \X ACs /\ Stations!Deliver(p)
      <4>1. \A s \in Stas, a \in ACs : s # q \/ a # ac => Backlog(<<s, a>>)' = Backlog(<<s, a>>)
        BY <1>8
      <4> QED BY <1>1, <1>10, <3>3, <4>1, LinesDeliver
    <3> QED BY <3>4, Zenon DEF Stations!Next, Stations!Lines
  <2> QED BY <1>7, <1>10, <2>1, <2>9, <2>10
<1> QED BY <1>9, <1>10 DEF Rcv

(* The first of two lists is the first of all.                             *)
LEMMA HeadConcat ==
    ASSUME NEW p \in Seq(Frame), NEW w \in Seq(Frame), p # <<>>
    PROVE  /\ p \o w # <<>> /\ Head(p \o w) = Head(p)
           /\ Tail(p \o w) = Tail(p) \o w
<1> DEFINE ls == p \o w
           t == Tail(p)
           rs == t \o w
           us == Tail(ls)
<1>1. /\ ls \in Seq(Frame) /\ Len(ls) = Len(p) + Len(w)
      /\ \A i \in 1..(Len(p) + Len(w)) : ls[i] = IF i <= Len(p) THEN p[i] ELSE w[i - Len(p)]
  BY ConcatProperties
<1>2. /\ t \in Seq(Frame) /\ Len(t) = Len(p) - 1 /\ Len(p) \in Nat /\ Len(p) > 0
      /\ Len(w) \in Nat /\ Head(p) = p[1]
      /\ \A i \in 1..(Len(p) - 1) : t[i] = p[i + 1]
  OBVIOUS
<1> HIDE DEF ls, t
<1>3. /\ rs \in Seq(Frame) /\ Len(rs) = Len(t) + Len(w)
      /\ \A i \in 1..(Len(t) + Len(w)) : rs[i] = IF i <= Len(t) THEN t[i] ELSE w[i - Len(t)]
  BY <1>2, ConcatProperties
<1>4. ls # <<>> /\ Head(ls) = ls[1]
  BY <1>1, <1>2
<1>5. ls[1] = p[1]
  BY <1>1, <1>2
<1>6. /\ us \in Seq(Frame) /\ Len(us) = Len(ls) - 1
      /\ \A i \in 1..(Len(ls) - 1) : us[i] = ls[i + 1]
  BY <1>1, <1>4
<1> HIDE DEF rs, us
<1>7. ASSUME NEW i \in 1..Len(us) PROVE us[i] = rs[i]
  <2>1. /\ i \in Int /\ i >= 1 /\ i <= Len(p) + Len(w) - 1
        /\ i + 1 \in 1..(Len(p) + Len(w)) /\ i \in 1..(Len(t) + Len(w))
        /\ i \in 1..(Len(ls) - 1)
    BY <1>1, <1>2, <1>6
  <2>2. us[i] = ls[i + 1]
    BY <1>6, <2>1
  <2>3. CASE i <= Len(t)
    <3>1. i \in 1..(Len(p) - 1) /\ i + 1 <= Len(p)
      BY <1>2, <2>1, <2>3
    <3> QED BY <1>1, <1>2, <1>3, <2>1, <2>2, <2>3, <3>1
  <2>4. CASE ~ (i <= Len(t))
    <3>1. ~ (i + 1 <= Len(p)) /\ (i + 1) - Len(p) = i - Len(t)
      BY <1>2, <2>1, <2>4
    <3> QED BY <1>1, <1>3, <2>1, <2>2, <2>4, <3>1
  <2> QED BY <2>3, <2>4
<1>8. Len(us) = Len(rs)
  BY <1>1, <1>2, <1>3, <1>6
<1>9. us = rs
  BY <1>3, <1>6, <1>7, <1>8, SeqEqual
<1> QED BY <1>2, <1>4, <1>5, <1>9 DEF ls, t, rs, us

(* The tasklet transmits the first frame.                                  *)
LEMMA LinesTasklet ==
    ASSUME SMP = FALSE, ParamAssumption, Typed, NEW q \in Rcv, NEW ac \in ACs,
           XmitTasklet(<<q, ac>>)
    PROVE  Stations!Next \/ UNCHANGED Stations!vars
<1> DEFINE p == <<q, ac>>
           P == pending[p]
<1>1. /\ Runs("tasklet") /\ P # <<>> /\ pending' = [pending EXCEPT ![p] = Tail(P)]
      /\ last' = [last EXCEPT ![<<q, Head(P).ac>>] = Head(P).n]
      /\ UNCHANGED <<linked, frames, sleep_q, pc>>
  BY Zenon DEF XmitTasklet, Transmit, stations, control
<1>2. pc["tx"] = "idle"
  BY <1>1, ThreadsAlone
<1>3. /\ pending \in [Pairs -> Seq(Frame)] /\ last \in [Pairs -> 0..MaxFrames] /\ p \in Pairs
      /\ P \in Seq(Own(p))
  BY PairIn, TypedParts DEF TypedPending, TypedSent, Placed
<1>4. P \in Seq(Frame) /\ Head(P).ac = ac
  <2>1. Head(P) \in Own(p)
    <3> HIDE DEF P, p
    <3> QED BY <1>1, <1>3
  <2>2. P \in Seq(Frame)
    BY <1>3
  <2> QED BY <2>1, <2>2 DEF Own
<1>5. last' = [last EXCEPT ![p] = Head(P).n]
  BY <1>1, <1>4
<1>6. \A s, a : Carried(<<s, a>>) = <<>> /\ Carried(<<s, a>>)' = <<>>
  BY <1>1, <1>2, EmptyHanded
<1>7. ASSUME NEW s \in Stas, NEW a \in ACs, s # q \/ a # ac
      PROVE  Backlog(<<s, a>>)' = Backlog(<<s, a>>)
  <2>1. <<s, a>> # p /\ <<s, a>> \in Pairs
    BY <1>7, PairIn DEF Rcv
  <2>2. pending'[<<s, a>>] = pending[<<s, a>>]
    <3> HIDE DEF P, p
    <3> QED BY <1>1, <1>3, <2>1
  <2>3. Line(s, a)' = Line(s, a)
    BY <1>1, <2>2, Zenon DEF Line
  <2>4. Carried(<<s, a>>)' = Carried(<<s, a>>)
    BY <1>6
  <2> QED BY <2>3, <2>4, BacklogParts, Zenon
<1>8. CASE q = Bmc
  <2>1. \A s \in Stas : s # q
    BY <1>8, ParamAssumption DEF ParamAssumption
  <2>2. \A s \in Stas, a \in ACs : Numbers(Backlog(<<s, a>>))' = Numbers(Backlog(<<s, a>>))
    <3> SUFFICES ASSUME NEW s \in Stas, NEW a \in ACs
                 PROVE  Numbers(Backlog(<<s, a>>))' = Numbers(Backlog(<<s, a>>))
      OBVIOUS
    <3>1. Backlog(<<s, a>>)' = Backlog(<<s, a>>)
      BY <1>7, <2>1
    <3> QED BY <3>1, Zenon DEF Numbers
  <2>3. Waits' = Waits
    BY <2>2, WaitsSame
  <2>4. LastSent' = LastSent
    <3>1. ASSUME NEW x \in Stas \X ACs PROVE last'[x] = last[x]
      <4>1. x # p /\ x \in Pairs
        BY <2>1, <3>1 DEF Pairs, Rcv
      <4> HIDE DEF p
      <4> QED BY <1>3, <1>5, <4>1
    <3> QED BY <3>1, Zenon DEF LastSent
  <2> QED BY <1>1, <2>3, <2>4 DEF Stations!vars
<1>9. CASE q \in Stas
  <2> DEFINE W == OfAC(sleep_q[q], ac)
  <2>1. W \in Seq(Frame)
    BY <1>9, LineType
  <2>2. Backlog(p) = P \o W
    <3>1. Carried(<<q, ac>>) = <<>>
      BY <1>6
    <3> QED BY <1>9, <3>1, BacklogLine, Zenon DEF Line
  <2>3. Backlog(p)' = Tail(P) \o W
    <3>1. Carried(<<q, ac>>)' = <<>>
      BY <1>6
    <3>2. pending'[p] = Tail(P)
      BY <1>1, <1>3
    <3>3. Line(q, ac)' = Tail(P) \o W
      BY <1>1, <3>2 DEF Line
    <3>4. Backlog(p)' = Line(q, ac)' \o Carried(p)'
      BY BacklogParts
    <3>5. (Tail(P) \o W) \o <<>> = Tail(P) \o W
      <4> DEFINE L == Tail(P) \o W
      <4>1. Tail(P) \in Seq(Frame)
        <5> HIDE DEF P
        <5> QED BY <1>1, <1>4
      <4>2. L \in Seq(Frame)
        BY <2>1, <4>1
      <4> HIDE DEF L
      <4>3. L \o <<>> = L
        BY <4>2, ConcatEmptySeq
      <4> QED BY <4>3 DEF L
    <3> QED BY <3>1, <3>3, <3>4, <3>5, Zenon
  <2>4. P \o W # <<>> /\ Head(P \o W) = Head(P) /\ Tail(P \o W) = Tail(P) \o W
    <3> HIDE DEF P, W
    <3> QED BY <1>1, <1>4, <2>1, HeadConcat
  <2>5. /\ Backlog(p) # <<>> /\ Backlog(p)' = Tail(Backlog(p))
        /\ last' = [last EXCEPT ![p] = Head(Backlog(p)).n]
    BY <1>5, <2>2, <2>3, <2>4, Zenon
  <2>6. \A s \in Stas, a \in ACs : s # q \/ a # ac => Backlog(<<s, a>>)' = Backlog(<<s, a>>)
    BY <1>7
  <2>7. p \in Stas \X ACs /\ Stations!Deliver(p)
    BY <1>1, <1>9, <2>5, <2>6, LinesDeliver
  <2> QED BY <2>7, Zenon DEF Stations!Next, Stations!Lines
<1> QED BY <1>8, <1>9 DEF Rcv

(* A frame to the group touches no line.                                   *)
LEMMA LinesGroup ==
    ASSUME ParamAssumption, Typed, NEW ac, TxBuffer(Bmc, ac) \/ TxDirect(Bmc, ac)
    PROVE  Stations!AcceptGroup
<1>1. /\ pc["tx"] = "idle" /\ frames' = frames + 1 /\ UNCHANGED <<linked, last, pending>>
  BY DEF TxBuffer, TxDirect, At, stations, queues
<1>2. ASSUME NEW s \in Stas, NEW a \in ACs
      PROVE  Numbers(Backlog(<<s, a>>))' = Numbers(Backlog(<<s, a>>))
  <2>1. s # Bmc /\ s \in Rcv /\ DOMAIN sleep_q = Rcv
    BY ParamAssumption, TypedParts DEF ParamAssumption, TypedSleep, Rcv
  <2>2. sleep_q' = [sleep_q EXCEPT ![Bmc] = Append(@, NewFrame(ac))] \/ UNCHANGED sleep_q
    BY DEF TxBuffer, TxDirect, queues
  <2>3. sleep_q'[s] = sleep_q[s]
    BY <2>1, <2>2
  <2>4. Line(s, a)' = Line(s, a)
    BY <1>1, <2>3, Zenon DEF Line
  <2>5. pc' = pc \/ Goto("tx", "pass", Bmc)
    BY DEF TxBuffer, TxDirect, control
  <2>6. pc'["tx"] = "idle" \/ arg'["tx"] = Bmc
    BY <1>1, <2>5, GotoOthers DEF Contexts
  <2>7. Carried(<<s, a>>) = <<>> /\ Carried(<<s, a>>)' = <<>>
    BY <1>1, <2>1, <2>6, EmptyHanded
  <2> QED BY <2>4, <2>7, BacklogStill
<1>3. Waits' = Waits /\ LastSent' = LastSent
  <2>1. Waits' = Waits
    BY <1>2, WaitsSame
  <2>2. LastSent' = LastSent
    BY <1>1, Zenon DEF LastSent
  <2> QED BY <2>1, <2>2
<1> QED BY <1>1, <1>3 DEF Stations!AcceptGroup

(* A station is freed: its lines are given up, and no others.              *)
LEMMA LinesRemove ==
    ASSUME SMP = FALSE, ParamAssumption, Typed, NEW r \in Stas, FreePurge(r)
    PROVE  Stations!Remove(r)
<1>1. /\ Runs("free") /\ r \in linked /\ linked' = linked \ {r} /\ UNCHANGED <<frames, last>>
      /\ sleep_q' = [sleep_q EXCEPT ![r] = <<>>]
      /\ pending' = [p \in Rcv \X ACs |-> IF p[1] = r THEN <<>> ELSE pending[p]]
      /\ Goto("free", "clear", r)
  BY DEF FreePurge, At
<1>2. pc["tx"] = "idle" /\ pc'["tx"] = "idle"
  <2>1. pc["tx"] = "idle"
    BY <1>1, ThreadsAlone
  <2> QED BY <1>1, <2>1, GotoOthers DEF Contexts
<1>3. ASSUME NEW s \in Stas, NEW a \in ACs
      PROVE  Numbers(Backlog(<<s, a>>))' = IF s = r THEN <<>> ELSE Numbers(Backlog(<<s, a>>))
  <2>1. Carried(<<s, a>>) = <<>> /\ Carried(<<s, a>>)' = <<>>
    BY <1>2, EmptyHanded
  <2>2. s \in Rcv /\ <<s, a>> \in Rcv \X ACs /\ <<s, a>>[1] = s /\ DOMAIN sleep_q = Rcv
    BY TypedParts DEF TypedSleep, Rcv
  <2>3. pending'[<<s, a>>] = IF s = r THEN <<>> ELSE pending[<<s, a>>]
    BY <1>1, <2>2
  <2>4. sleep_q'[s] = IF s = r THEN <<>> ELSE sleep_q[s]
    BY <1>1, <2>2
  <2>5. CASE s = r
    <3>1. OfAC(sleep_q'[s], a) = <<>>
      BY <2>4, <2>5, OfACsEmpty DEF OfAC
    <3>2. pending'[<<s, a>>] = <<>>
      BY <2>3, <2>5
    <3>3. Backlog(<<s, a>>)' = (pending'[<<s, a>>] \o OfAC(sleep_q'[s], a)) \o Carried(<<s, a>>)'
      BY BacklogParts, Zenon DEF Line
    <3>4. (<<>> \o <<>>) \o <<>> = <<>>
      OBVIOUS
    <3>5. Backlog(<<s, a>>)' = <<>>
      BY <2>1, <3>1, <3>2, <3>3, <3>4, Zenon
    <3>6. Numbers(Backlog(<<s, a>>))' = Numbers(Backlog(<<s, a>>)')
      BY DEF Numbers
    <3> QED BY <2>5, <3>5, <3>6, NumbersNone, Zenon
  <2>6. CASE s # r
    <3>1. Line(s, a)' = Line(s, a)
      BY <2>3, <2>4, <2>6, Zenon DEF Line
    <3>2. Numbers(Backlog(<<s, a>>))' = Numbers(Backlog(<<s, a>>))
      BY <2>1, <3>1, BacklogStill
    <3> QED BY <2>6, <3>2
  <2> QED BY <2>5, <2>6
<1>4. Waits' = [p \in Stas \X ACs |-> IF p[1] = r THEN <<>> ELSE Waits[p]]
  <2> DEFINE B(p) == Numbers(Backlog(p))
             C(p) == Numbers(Backlog(p))'
  <2>1. /\ Waits = [p \in Stas \X ACs |-> B(p)]
        /\ Waits' = [p \in Stas \X ACs |-> C(p)]
    BY Zenon DEF Waits
  <2>2. \A s \in Stas, a \in ACs : C(<<s, a>>) = IF s = r THEN <<>> ELSE B(<<s, a>>)
    BY <1>3
  <2> HIDE DEF B, C
  <2>3. ASSUME NEW p \in Stas \X ACs PROVE C(p) = IF p[1] = r THEN <<>> ELSE Waits[p]
    <3>1. PICK s \in Stas, a \in ACs : p = <<s, a>>
      OBVIOUS
    <3>2. p[1] = s /\ Waits[p] = B(<<s, a>>)
      BY <2>1, <3>1
    <3>3. C(<<s, a>>) = IF s = r THEN <<>> ELSE B(<<s, a>>)
      BY <2>2
    <3> QED BY <3>1, <3>2, <3>3, Zenon
  <2> QED BY <2>1, <2>3, Zenon
<1>5. LastSent' = LastSent
  BY <1>1, Zenon DEF LastSent
<1> HIDE DEF Waits
<1> QED BY <1>1, <1>4, <1>5 DEF Stations!Remove, Stations!Lines

(* What the steps have in common that only move frames, or none.           *)
Moves ==
    /\ linked \subseteq linked' /\ UNCHANGED <<frames, last, hand>>
    /\ pc'["tx"] = pc["tx"] /\ arg'["tx"] = arg["tx"]

LEMMA OthersMove ==
    ASSUME Typed, linked \subseteq linked', UNCHANGED <<frames, last, hand>>,
           \/ UNCHANGED <<pc, arg>>
           \/ \E c \in {"rx", "cmd", "free"} : \E label, q : Goto(c, label, q)
    PROVE  Moves
<1>1. CASE UNCHANGED <<pc, arg>>
  BY <1>1 DEF Moves
<1>2. CASE \E c \in {"rx", "cmd", "free"} : \E label, q : Goto(c, label, q)
  <2>1. PICK c \in {"rx", "cmd", "free"} : \E label, q : Goto(c, label, q)
    BY <1>2
  <2>2. pc'["tx"] = pc["tx"] /\ arg'["tx"] = arg["tx"]
    BY <2>1, GotoOthers DEF Contexts
  <2> QED BY <2>2 DEF Moves
<1> QED BY <1>1, <1>2

LEMMA LinesMove ==
    ASSUME ParamAssumption, Typed, Typed', AwakeInv, Lined, [Next]_vars, Moves
    PROVE  UNCHANGED <<frames, Waits, LastSent>>
<1>1. \A s \in Stas, a \in ACs : Numbers(Backlog(<<s, a>>))' = Numbers(Backlog(<<s, a>>))
  BY BacklogSame DEF Moves
<1>2. Waits' = Waits
  BY <1>1, WaitsSame
<1>3. frames' = frames /\ LastSent' = LastSent
  BY Zenon DEF Moves, LastSent
<1> QED BY <1>2, <1>3

(* The steps of the threads, of the receive tasklet and of the hardware.   *)
LEMMA ThreadsMove ==
    ASSUME Typed, HiqDrains \/ RxSteps \/ CmdSteps \/ FreeSteps \/ UNCHANGED vars
    PROVE  Moves /\ linked' = linked
<1>1. linked' = linked /\ UNCHANGED <<frames, last, hand>>
  BY DEF HiqDrains, RxSteps, PollTim, PollClear, BeaconAfter, CmdSteps, CmdBeacon, CmdBeaconFails,
         CmdBmc, CmdFlush, CmdHiq, HiqRead, HiqWrite, ExpireMark, ExpireWrite, FreeSteps, FreeRead,
         FreeWrite, vars, stations, control, ghosts
<1>2. \/ UNCHANGED <<pc, arg>>
      \/ \E c \in {"rx", "cmd", "free"} : \E label, q : Goto(c, label, q)
  BY DEF HiqDrains, RxSteps, PollTim, PollClear, BeaconAfter, CmdSteps, CmdBeacon, CmdBeaconFails,
         CmdBmc, CmdFlush, CmdHiq, HiqRead, HiqWrite, ExpireMark, ExpireWrite, FreeSteps, FreeRead,
         FreeWrite, vars, control
<1> QED BY <1>1, <1>2, OthersMove

(* The steps on behalf of one station.                                     *)
LEMMA StationMoves ==
    ASSUME Typed, NEW s \in Stas, Station(s) \/ ExpireRead(s) \/ ExpireWake(s)
    PROVE  Moves /\ (linked' = linked \/ linked' = linked \cup {s})
<1>1. /\ linked' = linked \/ linked' = linked \cup {s}
      /\ UNCHANGED <<frames, last, hand>>
  BY DEF Station, Assoc, Poll, PollNone, Trigger, Sleep, RxWake, ExpireRead, ExpireWake, Wake,
         stations, control, ghosts
<1>2. \/ UNCHANGED <<pc, arg>>
      \/ \E c \in {"rx", "cmd", "free"} : \E label, q : Goto(c, label, q)
  BY DEF Station, Assoc, Poll, PollNone, Trigger, Sleep, RxWake, ExpireRead, ExpireWake, Wake,
         control
<1>3. linked \subseteq linked'
  BY <1>1
<1> QED BY <1>1, <1>2, <1>3, OthersMove

(* Every step of the driver is one of StationLine, or none.                *)
LEMMA LinesStep ==
    ASSUME SMP = FALSE, ParamAssumption, Typed, Typed', AwakeInv, LonerInv, Lined, [Next]_vars
    PROVE  Stations!Next \/ UNCHANGED Stations!vars
<1>1. ASSUME NEW q \in Stas, NEW ac \in ACs, TxBuffer(q, ac) \/ TxDirect(q, ac)
      PROVE  Stations!Next
  <2>1. Stations!Accept(<<q, ac>>) /\ <<q, ac>> \in Stas \X ACs
    BY <1>1, LinesAccept, ParamAssumption
  <2> QED BY <2>1, Zenon DEF Stations!Next, Stations!Lines
<1>2. CASE TxBuffer(Bmc, "be") \/ TxDirect(Bmc, "be")
  BY <1>2, LinesGroup, ParamAssumption, Zenon DEF Stations!Next
<1>3. CASE TxPass
  BY <1>3, LinesPass, ParamAssumption
<1>4. CASE TaskletSteps
  <2>1. PICK p \in Rcv \X ACs : XmitTasklet(p)
    BY <1>4 DEF TaskletSteps
  <2>2. PICK q \in Rcv, ac \in ACs : p = <<q, ac>>
    OBVIOUS
  <2>3. XmitTasklet(<<q, ac>>)
    BY <2>1, <2>2, Zenon
  <2> QED BY <2>3, LinesTasklet, ParamAssumption
<1>5. CASE HiqDrains \/ RxSteps \/ CmdSteps \/ FreeSteps \/ UNCHANGED vars
  <2>1. Moves /\ linked' = linked
    BY <1>5, ThreadsMove
  <2>2. UNCHANGED <<frames, Waits, LastSent>>
    BY <2>1, LinesMove, ParamAssumption
  <2> QED BY <2>1, <2>2 DEF Stations!vars
<1>6. ASSUME NEW s \in Stas, Station(s) \/ ExpireRead(s) \/ ExpireWake(s)
      PROVE  Stations!Next \/ UNCHANGED Stations!vars
  <2>1. Moves /\ (linked' = linked \/ linked' = linked \cup {s})
    BY <1>6, StationMoves
  <2>2. UNCHANGED <<frames, Waits, LastSent>>
    BY <2>1, LinesMove, ParamAssumption
  <2>3. CASE linked' = linked
    BY <2>2, <2>3 DEF Stations!vars
  <2>4. CASE linked' = linked \cup {s}
    <3>1. Stations!Join(s)
      BY <2>2, <2>4 DEF Stations!Join
    <3> QED BY <3>1, Zenon DEF Stations!Next
  <2> QED BY <2>1, <2>3, <2>4
<1>7. ASSUME NEW s \in Stas, FreePurge(s) PROVE Stations!Next
  <2>1. Stations!Remove(s)
    BY <1>7, LinesRemove, ParamAssumption
  <2> QED BY <2>1, Zenon DEF Stations!Next
<1> QED BY <1>1, <1>2, <1>3, <1>4, <1>5, <1>6, <1>7 DEF Next

(* On one processor an access point keeps a first-in first-out line for    *)
(* each station and category.  Whatever stop_sta_xmit, PS-Poll, triggers,  *)
(* wake-ups, alive checks and associations do to the queues, in any order, *)
(* no frame handed to rtw_xmit for an associated station is lost, sent     *)
(* twice or overtaken, until rtw_free_stainfo frees this very station.     *)
THEOREM LinesImplemented ==
    ASSUME SMP = FALSE
    PROVE  Spec => LineSpec
<1>1. Init => LineInv
  BY LineInvInit
<1>2. LineInv /\ [Next]_vars => LineInv'
  BY LineInvStep
<1>3. Init => Stations!Init
  <2> SUFFICES ASSUME Init PROVE Stations!Init
    OBVIOUS
  <2>1. ASSUME NEW p \in Stas \X ACs PROVE Numbers(Backlog(p)) = <<>> /\ last[p] = 0
    <3>1. p \in Rcv \X ACs /\ p[1] \in Rcv
      BY DEF Rcv
    <3>2. pending[p] = <<>> /\ sleep_q[p[1]] = <<>> /\ last[p] = 0 /\ pc["tx"] = "idle"
      BY <3>1 DEF Init, Contexts
    <3>3. OfAC(sleep_q[p[1]], p[2]) = <<>>
      BY <3>2, OfACsEmpty DEF OfAC
    <3>4. Carried(p) = <<>>
      BY <3>2 DEF Carried
    <3>5. (<<>> \o <<>>) \o <<>> = <<>>
      OBVIOUS
    <3>6. Backlog(p) = <<>>
      BY <3>2, <3>3, <3>4, <3>5, Zenon DEF Backlog
    <3> QED BY <3>2, <3>6, NumbersNone
  <2>2. Waits = [p \in Stas \X ACs |-> <<>>] /\ LastSent = [p \in Stas \X ACs |-> 0]
    BY <2>1, Zenon DEF Waits, LastSent
  <2>3. linked = {} /\ frames = 0
    BY DEF Init
  <2> QED BY <2>2, <2>3 DEF Stations!Init, Stations!Lines
<1>4. LineInv /\ LineInv' /\ [Next]_vars => [Stations!Next]_(Stations!vars)
  <2> SUFFICES ASSUME LineInv, LineInv', [Next]_vars
               PROVE  Stations!Next \/ UNCHANGED Stations!vars
    OBVIOUS
  <2>1. Typed /\ Typed' /\ AwakeInv /\ LonerInv /\ Lined
    BY DEF LineInv, BacklogInv
  <2> QED BY <2>1, LinesStep, ParamAssumption
<1> QED BY <1>1, <1>2, <1>3, <1>4, PTL DEF Spec, LineSpec, Stations!Spec

-----------------------------------------------------------------------------
(* The TIM, on one processor.                                              *)

(* Who has read tim_bitmap and is about to write it back has the present   *)
(* one.                                                                    *)
TimFresh ==
    /\ pc["rx"] = "clear" => snap["rx"][1] = tim
    /\ pc["cmd"] \in {"write", "alive"} => snap["cmd"][1] = tim
    /\ pc["free"] = "write" => snap["free"][1] = tim

(* The element names the bits of tim_bitmap, and the hardware has the      *)
(* element or a command to give it to the hardware waits.                  *)
Asks(cs) == \E i \in 1..Len(cs) : cs[i] = "beacon"
OnAir == tim \subseteq tim_ie /\ (faults > 0 \/ Asks(cmds) \/ tim_ie \subseteq beacon)

(* Nothing is held for a station that is not in the hash table.            *)
GoneIsEmpty == \A s \in Stas \ linked : sleep_q[s] = <<>>

(* Only frames that are not to be shown are held for a dozing station      *)
(* whose bit is clear.                                                     *)
Hidden(s) == {f \in Frame : ~ShownInTim(s, f)}
Told(s) == s \in tim \/ sleep_q[s] \in Seq(Hidden(s))
Marked == \A s \in asleep \ changed : Told(s)

TimInv == TimFresh /\ OnAir /\ GoneIsEmpty /\ Marked

(* A step of one context: the others have read nothing.                    *)
LEMMA FreshStep ==
    ASSUME SMP = FALSE, Typed, NEW c \in Contexts, Runs(c),
           \A d \in Contexts \ {c} : pc'[d] = pc[d],
           pc'[c] \in {"clear", "write", "alive"} =>
               \/ c = "free" /\ pc'[c] = "clear"
               \/ snap'[c][1] = tim'
    PROVE  TimFresh'
<1>1. /\ c # "rx" => pc["rx"] = "idle"
      /\ c # "cmd" => pc["cmd"] \notin {"write", "alive"}
      /\ c # "free" => pc["free"] # "write"
  BY Alone
<1>2. "rx" \in Contexts /\ "cmd" \in Contexts /\ "free" \in Contexts
  BY DEF Contexts
<1> QED BY <1>1, <1>2 DEF TimFresh

(* A step that goes to a label at which nothing has been read.             *)
LEMMA FreshGoto ==
    ASSUME SMP = FALSE, Typed, NEW c \in Contexts, Runs(c), NEW label, NEW q,
           label \notin {"clear", "write", "alive"}, Goto(c, label, q)
    PROVE  TimFresh'
<1>1. \A d \in Contexts \ {c} : pc'[d] = pc[d]
  BY GotoOthers
<1>2. pc'[c] = label
  BY GotoOthers
<1> QED BY <1>1, <1>2, FreshStep

LEMMA FreshStay ==
    ASSUME SMP = FALSE, Typed, NEW c \in Contexts, At(c, "idle"), UNCHANGED pc
    PROVE  TimFresh'
<1>1. Runs(c) /\ pc'[c] = "idle"
  BY DEF At
<1> QED BY <1>1, FreshStep

LEMMA FreshRead ==
    ASSUME SMP = FALSE, Typed, NEW c \in Contexts, Runs(c), NEW label, NEW q,
           Goto(c, label, q), snap' = [snap EXCEPT ![c] = bits], UNCHANGED tim
    PROVE  TimFresh'
<1>1. \A d \in Contexts \ {c} : pc'[d] = pc[d]
  BY GotoOthers
<1>2. snap'[c] = bits
  BY TypedParts DEF TypedControl
<1>3. snap'[c][1] = tim'
  BY <1>2 DEF bits
<1> QED BY <1>1, <1>3, FreshStep

LEMMA FreshNext ==
    ASSUME SMP = FALSE, ParamAssumption, Typed, TimFresh, [Next]_vars
    PROVE  TimFresh'
<1> USE DEF Contexts
<1>0. CASE UNCHANGED <<tim, pc, snap>>
  BY <1>0 DEF TimFresh
<1>1. ASSUME NEW q, NEW ac, TxBuffer(q, ac) \/ TxDirect(q, ac) \/ TxPass PROVE TimFresh'
  <2>1. CASE TxBuffer(q, ac)
    BY <2>1, FreshStay DEF TxBuffer, control
  <2>2. CASE TxDirect(q, ac)
    <3>1. Runs("tx") /\ Goto("tx", "pass", q)
      BY <2>2 DEF TxDirect, At
    <3> QED BY <3>1, FreshGoto
  <2>3. CASE TxPass
    <3>1. Runs("tx") /\ Goto("tx", "idle", None)
      BY <2>3 DEF TxPass, At
    <3> QED BY <3>1, FreshGoto
  <2> QED BY <1>1, <2>1, <2>2, <2>3
<1>2. CASE TaskletSteps \/ HiqDrains
  BY <1>0, <1>2 DEF TaskletSteps, XmitTasklet, HiqDrains, bits, control
<1>3. ASSUME NEW s \in Stas, Station(s) PROVE TimFresh'
  <2>1. CASE UNCHANGED pc
    <3>1. At("rx", "idle")
      BY <1>3 DEF Station, Assoc, Poll, PollNone, Trigger, Sleep, RxWake
    <3> QED BY <2>1, <3>1, FreshStay
  <2>2. ASSUME NEW label \in {"poll", "update"}, Goto("rx", label, s) PROVE TimFresh'
    <3>1. Runs("rx")
      BY <1>3 DEF Station, Assoc, Poll, PollNone, Trigger, Sleep, RxWake, At
    <3> QED BY <2>2, <3>1, FreshGoto
  <2>3. CASE \E u \in SUBSET ACs : Assoc(s, u)
    BY <2>1, <2>3 DEF Assoc, control
  <2>4. CASE \E ac \in ACs : Poll(s, ac) \/ Trigger(s, ac)
    BY <2>1, <2>4 DEF Poll, Trigger, control
  <2>5. CASE \E ac \in ACs : PollNone(s, ac)
    <3>1. Goto("rx", "poll", s) \/ UNCHANGED pc
      BY <2>5 DEF PollNone
    <3> QED BY <2>1, <2>2, <3>1
  <2>6. CASE Sleep(s)
    BY <2>1, <2>6 DEF Sleep, control
  <2>7. CASE RxWake(s)
    <3>1. Goto("rx", "update", s) \/ UNCHANGED pc
      BY <2>7 DEF RxWake, Wake
    <3> QED BY <2>1, <2>2, <3>1
  <2> QED BY <1>3, <2>3, <2>4, <2>5, <2>6, <2>7 DEF Station
<1>4. ASSUME NEW c \in {"rx", "cmd"}, BeaconAfter(c) PROVE TimFresh'
  <2>1. Runs(c) /\ Goto(c, "idle", None)
    BY <1>4 DEF BeaconAfter, At
  <2> QED BY <2>1, FreshGoto
<1>5. CASE PollTim
  <2>1. Runs("rx") /\ UNCHANGED tim
    BY <1>5 DEF PollTim, At, bits
  <2>2. \/ Goto("rx", "clear", arg["rx"]) /\ snap' = [snap EXCEPT !["rx"] = bits]
        \/ Goto("rx", "idle", None)
    BY <1>5 DEF PollTim
  <2>3. CASE Goto("rx", "idle", None)
    BY <2>1, <2>3, FreshGoto
  <2> QED BY <2>1, <2>2, <2>3, FreshRead
<1>6. CASE PollClear
  <2>1. Runs("rx") /\ Goto("rx", "idle", None)
    BY <1>6 DEF PollClear, At
  <2> QED BY <2>1, FreshGoto
<1>7. CASE CmdBeacon \/ CmdBmc
  <2>1. Runs("cmd") /\ (Goto("cmd", "flush", None) \/ Goto("cmd", "idle", None))
    BY <1>7 DEF CmdBeacon, CmdBmc, Pops, At
  <2> QED BY <2>1, FreshGoto
<1>8. CASE CmdBeaconFails
  BY <1>0, <1>8 DEF CmdBeaconFails, bits, control
<1>9. CASE CmdFlush \/ HiqWrite \/ ExpireWrite
  <2>1. Runs("cmd") /\ Goto("cmd", "idle", None)
    BY <1>9 DEF CmdFlush, HiqWrite, ExpireWrite, At
  <2> QED BY <2>1, FreshGoto
<1>10. CASE CmdHiq
  <2>1. Runs("cmd") /\ (Goto("cmd", "hiq", None) \/ Goto("cmd", "idle", None))
    BY <1>10 DEF CmdHiq, Pops, At
  <2> QED BY <2>1, FreshGoto
<1>11. CASE HiqRead
  <2>1. Runs("cmd") /\ Goto("cmd", "write", Bmc) /\ UNCHANGED tim
        /\ snap' = [snap EXCEPT !["cmd"] = bits]
    BY <1>11 DEF HiqRead, At, bits
  <2> QED BY <2>1, FreshRead
<1>12. ASSUME NEW s \in Stas, ExpireRead(s) PROVE TimFresh'
  <2>1. Runs("cmd") /\ Goto("cmd", "check", s)
    BY <1>12 DEF ExpireRead, At
  <2>2. pc'["cmd"] = "check" /\ \A d \in Contexts \ {"cmd"} : pc'[d] = pc[d]
    BY <2>1, GotoOthers
  <2> QED BY <2>1, <2>2, FreshStep
<1>18. CASE ExpireMark
  <2>1. Runs("cmd") /\ Goto("cmd", "alive", arg["cmd"]) /\ UNCHANGED tim
        /\ snap' = [snap EXCEPT !["cmd"] = bits]
    BY <1>18 DEF ExpireMark, At, bits
  <2> QED BY <2>1, FreshRead
<1>13. ASSUME NEW s \in Stas, ExpireWake(s) PROVE TimFresh'
  <2>1. At("cmd", "idle") /\ (Goto("cmd", "update", s) \/ UNCHANGED pc)
    BY <1>13 DEF ExpireWake, Wake
  <2>2. Runs("cmd")
    BY <2>1 DEF At
  <2> QED BY <2>1, <2>2, FreshGoto, FreshStay
<1>14. ASSUME NEW s \in Stas, FreePurge(s) PROVE TimFresh'
  <2>1. Runs("free") /\ Goto("free", "clear", s)
    BY <1>14 DEF FreePurge, At
  <2>2. pc'["free"] = "clear" /\ \A d \in Contexts \ {"free"} : pc'[d] = pc[d]
    BY <2>1, GotoOthers
  <2> QED BY <2>1, <2>2, FreshStep
<1>15. CASE FreeRead
  <2>1. Runs("free") /\ Goto("free", "write", arg["free"]) /\ UNCHANGED tim
        /\ snap' = [snap EXCEPT !["free"] = bits]
    BY <1>15 DEF FreeRead, At, bits
  <2> QED BY <2>1, FreshRead
<1>16. CASE FreeWrite
  <2>1. Runs("free") /\ Goto("free", "idle", None)
    BY <1>16 DEF FreeWrite, At
  <2> QED BY <2>1, FreshGoto
<1>17. CASE UNCHANGED vars
  BY <1>0, <1>17 DEF vars, bits, control
<1> QED BY <1>1, <1>2, <1>3, <1>4, <1>5, <1>6, <1>7, <1>8, <1>9, <1>10, <1>11, <1>12, <1>13,
           <1>14, <1>15, <1>16, <1>17, <1>18 DEF Next, RxSteps, CmdSteps, FreeSteps

LEMMA AsksMore ==
    ASSUME NEW E, NEW cs \in Seq(E), NEW ds \in Seq(E)
    PROVE  /\ Asks(cs) => Asks(cs \o ds)
           /\ Asks(ds) => Asks(cs \o ds)
<1> DEFINE es == cs \o ds
<1>1. /\ Len(es) = Len(cs) + Len(ds)
      /\ \A i \in 1..(Len(cs) + Len(ds)) : es[i] = IF i <= Len(cs) THEN cs[i] ELSE ds[i - Len(cs)]
  BY ConcatProperties
<1>2. Len(cs) \in Nat /\ Len(ds) \in Nat
  OBVIOUS
<1> HIDE DEF es
<1>3. ASSUME NEW i \in 1..Len(cs), cs[i] = "beacon" PROVE Asks(es)
  <2>1. i \in 1..Len(es) /\ es[i] = "beacon"
    BY <1>1, <1>2, <1>3
  <2> QED BY <2>1 DEF Asks
<1>4. ASSUME NEW i \in 1..Len(ds), ds[i] = "beacon" PROVE Asks(es)
  <2>1. /\ Len(cs) + i \in 1..(Len(cs) + Len(ds)) /\ ~ (Len(cs) + i <= Len(cs))
        /\ (Len(cs) + i) - Len(cs) = i
    BY <1>2
  <2>2. es[Len(cs) + i] = ds[i]
    BY <1>1, <2>1
  <2> QED BY <1>1, <1>4, <2>1, <2>2 DEF Asks
<1> QED BY <1>3, <1>4 DEF Asks, es

LEMMA AsksAppend ==
    ASSUME NEW E, NEW cs \in Seq(E), NEW c \in E
    PROVE  /\ Asks(cs) => Asks(Append(cs, c))
           /\ c = "beacon" => Asks(Append(cs, c))
<1>1. /\ Len(Append(cs, c)) = Len(cs) + 1 /\ Len(cs) \in Nat
      /\ Append(cs, c)[Len(cs) + 1] = c
      /\ \A i \in 1..Len(cs) : Append(cs, c)[i] = cs[i]
  OBVIOUS
<1>2. Len(cs) + 1 \in 1..Len(Append(cs, c)) /\ \A i \in 1..Len(cs) : i \in 1..Len(Append(cs, c))
  BY <1>1
<1> QED BY <1>1, <1>2 DEF Asks

LEMMA AsksTail ==
    ASSUME NEW E, NEW cs \in Seq(E), cs # <<>>, Head(cs) # "beacon", Asks(cs)
    PROVE  Asks(Tail(cs))
<1>1. /\ Len(Tail(cs)) = Len(cs) - 1 /\ Len(cs) \in Nat /\ Head(cs) = cs[1]
      /\ \A i \in 1..Len(Tail(cs)) : Tail(cs)[i] = cs[i + 1]
  OBVIOUS
<1>2. PICK i \in 1..Len(cs) : cs[i] = "beacon"
  BY DEF Asks
<1>3. i - 1 \in 1..Len(Tail(cs)) /\ (i - 1) + 1 = i
  BY <1>1, <1>2
<1>4. Tail(cs)[i - 1] = "beacon"
  BY <1>1, <1>2, <1>3
<1> QED BY <1>3, <1>4 DEF Asks

(* No bit is set, and no command to send the beacon is taken.              *)
LEMMA AirKeeps ==
    ASSUME OnAir, tim' \subseteq tim, UNCHANGED <<tim_ie, beacon, faults>>,
           Asks(cmds) => Asks(cmds')
    PROVE  OnAir'
BY DEF OnAir

LEMMA AirStill == ASSUME OnAir, tim' \subseteq tim, UNCHANGED <<air, faults>> PROVE OnAir'
BY DEF OnAir, air

(* update_beacon.                                                          *)
LEMMA AirUpdates ==
    ASSUME Typed, UpdateBeacon(tim') PROVE OnAir'
<1>1. cmds \in Seq({"beacon", "bmc", "hiq"}) /\ cmds' = Append(cmds, "beacon") /\ tim_ie' = tim'
  BY TypedParts DEF TypedAir, UpdateBeacon
<1>2. Asks(cmds')
  BY <1>1, AsksAppend
<1> QED BY <1>1, <1>2 DEF OnAir

LEMMA AirSleep ==
    ASSUME ParamAssumption, Typed, OnAir, NEW s \in Stas, Sleep(s)
    PROVE  OnAir'
<1> DEFINE mine  == Mark(pending[<<s, "vo">>] \o pending[<<s, "be">>], "new")
           group == Mark(pending[<<Bmc, "be">>], "new")
           shown == \E i \in 1..Len(mine) : ShownInTim(s, mine[i])
           more  == (IF shown THEN {s} ELSE {}) \cup (IF group # <<>> THEN {Bmc} ELSE {})
           one   == IF shown /\ s \notin tim THEN <<"beacon">> ELSE <<>>
           two   == BmcCmds(Len(group))
           C     == {"beacon", "bmc", "hiq"}
<1>1. /\ tim' = tim \cup more /\ tim_ie' = IF tim' # tim THEN tim' ELSE tim_ie
      /\ cmds' = cmds \o one \o two /\ UNCHANGED <<beacon, faults>>
  BY DEF Sleep
<1>2. cmds \in Seq(C) /\ group \in Seq(Frame) /\ Len(group) \in Nat
  <2>1. cmds \in Seq(C)
    BY TypedParts DEF TypedAir
  <2>2. group \in Seq(Frame)
    BY MovedType
  <2> HIDE DEF group
  <2> QED BY <2>1, <2>2
<1>3. two \in Seq(C) /\ Len(two) = Len(group)
  BY <1>2 DEF BmcCmds
<1> HIDE DEF mine
<1>4. one \in Seq(C)
  <2> HIDE DEF shown
  <2>1. <<"beacon">> \in Seq(C) /\ <<>> \in Seq(C)
    OBVIOUS
  <2> QED BY <2>1, Zenon
<1>5. cmds \o one \in Seq(C)
  BY <1>2, <1>4
<1>6. shown /\ s \notin tim => Asks(cmds')
  <2> SUFFICES ASSUME shown, s \notin tim PROVE Asks(cmds')
    OBVIOUS
  <2>1. one = <<"beacon">>
    OBVIOUS
  <2>2. Asks(one)
    BY <2>1 DEF Asks
  <2> HIDE DEF one, two, C
  <2>3. Asks(cmds \o one)
    BY <1>2, <1>4, <2>2, AsksMore
  <2> QED BY <1>1, <1>3, <1>5, <2>3, AsksMore
<1>7. group # <<>> /\ Bmc \notin tim => Asks(cmds')
  <2> SUFFICES ASSUME group # <<>>, Bmc \notin tim PROVE Asks(cmds')
    OBVIOUS
  <2>1. Len(group) > 0
    BY <1>2
  <2>2. 1 \in 1..Len(two) /\ two[1] = "beacon"
    BY <1>2, <1>3, <2>1 DEF BmcCmds
  <2>3. Asks(two)
    BY <2>2 DEF Asks
  <2> HIDE DEF one, two, C
  <2> QED BY <1>1, <1>3, <1>5, <2>3, AsksMore
<1>8. Asks(cmds) => Asks(cmds')
  <2> HIDE DEF one, two, C
  <2>1. Asks(cmds) => Asks(cmds \o one)
    BY <1>2, <1>4, AsksMore
  <2> QED BY <1>1, <1>3, <1>5, <2>1, AsksMore
<1>9. CASE tim' = tim
  BY <1>1, <1>8, <1>9, AirKeeps
<1>10. CASE tim' # tim
  <2>1. Asks(cmds')
    <3>1. (shown /\ s \notin tim) \/ (group # <<>> /\ Bmc \notin tim)
      <4> HIDE DEF shown, group
      <4> QED BY <1>1, <1>10
    <3> QED BY <1>6, <1>7, <3>1
  <2> QED BY <1>1, <1>10, <2>1 DEF OnAir
<1> QED BY <1>9, <1>10

LEMMA AirTx ==
    ASSUME Typed, OnAir, NEW q, NEW ac, TxBuffer(q, ac)
    PROVE  OnAir'
<1> DEFINE shown == IF q = Bmc THEN TRUE ELSE ShownInTim(q, NewFrame(ac))
<1>1. /\ tim' = IF shown THEN tim \cup {q} ELSE tim
      /\ IF shown /\ q \notin tim
           THEN UpdateBeacon(tim')
           ELSE /\ cmds' = IF q = Bmc THEN Append(cmds, "bmc") ELSE cmds
                /\ UNCHANGED <<tim_ie, beacon>>
      /\ UNCHANGED faults
  BY DEF TxBuffer
<1> HIDE DEF shown
<1>2. CASE shown /\ q \notin tim
  BY <1>1, <1>2, AirUpdates
<1>3. CASE ~ (shown /\ q \notin tim)
  <2>1. tim' = tim
    BY <1>1, <1>3
  <2>2. cmds \in Seq({"beacon", "bmc", "hiq"})
    BY TypedParts DEF TypedAir
  <2>3. Asks(cmds) => Asks(Append(cmds, "bmc"))
    BY <2>2, AsksAppend
  <2>4. Asks(cmds) => Asks(cmds')
    BY <1>1, <1>3, <2>3
  <2> QED BY <1>1, <1>3, <2>1, <2>4, AirKeeps
<1> QED BY <1>2, <1>3

LEMMA AirCmd ==
    ASSUME Typed, OnAir, TimFresh, CmdSteps
    PROVE  OnAir'
<1>1. cmds \in Seq({"beacon", "bmc", "hiq"})
  BY TypedParts DEF TypedAir
<1>2. CASE CmdBeacon
  BY <1>2 DEF CmdBeacon, OnAir, bits
<1>3. CASE CmdBeaconFails
  <2>1. faults' = faults + 1 /\ faults \in Nat /\ UNCHANGED <<tim, tim_ie>>
    BY <1>3, TypedParts, ParamAssumption DEF CmdBeaconFails, TypedGhosts, bits, ParamAssumption
  <2>2. faults' > 0
    BY <2>1
  <2> QED BY <2>1, <2>2 DEF OnAir
<1>4. CASE CmdBmc \/ CmdHiq
  <2>1. /\ cmds # <<>> /\ Head(cmds) # "beacon" /\ UNCHANGED <<tim, tim_ie, beacon, faults>>
        /\ cmds' = Tail(cmds) \/ cmds' = Append(Tail(cmds), "hiq")
    BY <1>4 DEF CmdBmc, CmdHiq, Pops, bits, ghosts
  <2>2. Asks(cmds) => Asks(Tail(cmds))
    BY <1>1, <2>1, AsksTail
  <2> DEFINE rest == Tail(cmds)
  <2>3. rest \in Seq({"beacon", "bmc", "hiq"})
    BY <1>1, <2>1
  <2> HIDE DEF rest
  <2>4. Asks(rest) => Asks(Append(rest, "hiq"))
    BY <2>3, AsksAppend
  <2>5. Asks(cmds) => Asks(cmds')
    BY <2>1, <2>2, <2>4 DEF rest
  <2> QED BY <2>1, <2>5, AirKeeps
<1>5. CASE CmdFlush
  <2>1. cmds' = Append(cmds, "hiq") /\ UNCHANGED <<tim, tim_ie, beacon, faults>>
    BY <1>5 DEF CmdFlush, bits, ghosts
  <2>2. Asks(cmds) => Asks(cmds')
    BY <1>1, <2>1, AsksAppend
  <2> QED BY <2>1, <2>2, AirKeeps
<1>6. CASE HiqRead
  BY <1>6, AirStill DEF HiqRead, bits, ghosts
<1>7. CASE HiqWrite
  <2>1. tim' = tim \ {Bmc}
    BY <1>7 DEF HiqWrite, At, TimFresh, Torn
  <2> QED BY <1>7, <2>1, AirStill, AirUpdates DEF HiqWrite, ghosts
<1>8. CASE BeaconAfter("cmd")
  <2>1. UpdateBeacon(tim')
    BY <1>8 DEF BeaconAfter, bits, UpdateBeacon
  <2> QED BY <2>1, AirUpdates
<1>9. CASE ExpireWrite
  BY <1>9, AirUpdates DEF ExpireWrite
<1>10. CASE ExpireMark
  BY <1>10, AirStill DEF ExpireMark, bits, ghosts
<1> QED BY <1>2, <1>3, <1>4, <1>5, <1>6, <1>7, <1>8, <1>9, <1>10 DEF CmdSteps

LEMMA AirStep ==
    ASSUME ParamAssumption, Typed, TimFresh, OnAir, [Next]_vars
    PROVE  OnAir'
<1>1. ASSUME NEW q, NEW ac, TxBuffer(q, ac) \/ TxDirect(q, ac) \/ TxPass PROVE OnAir'
  <2>1. CASE TxBuffer(q, ac)
    BY <2>1, AirTx
  <2>2. CASE TxDirect(q, ac) \/ TxPass
    BY <2>2, AirStill DEF TxDirect, TxPass, bits
  <2> QED BY <1>1, <2>1, <2>2
<1>2. CASE TaskletSteps \/ HiqDrains
  BY <1>2, AirStill DEF TaskletSteps, XmitTasklet, HiqDrains, bits, ghosts
<1>3. ASSUME NEW s \in Stas, Station(s) PROVE OnAir'
  <2>1. CASE \E u \in SUBSET ACs : Assoc(s, u)
    BY <2>1, AirStill DEF Assoc, bits
  <2>2. ASSUME NEW ac \in ACs, Poll(s, ac) PROVE OnAir'
    <3>1. \/ UpdateBeacon(tim')
          \/ UNCHANGED <<tim, air, faults>>
      BY <2>2 DEF Poll, ghosts
    <3> QED BY <3>1, AirUpdates, AirStill
  <2>3. ASSUME NEW ac \in ACs, PollNone(s, ac) PROVE OnAir'
    BY <2>3, AirStill DEF PollNone, bits, ghosts
  <2>4. ASSUME NEW ac \in ACs, Trigger(s, ac) PROVE OnAir'
    <3>1. \/ UpdateBeacon(tim')
          \/ UNCHANGED <<tim, air, faults>>
      BY <2>4 DEF Trigger, bits
    <3> QED BY <3>1, AirUpdates, AirStill
  <2>5. CASE Sleep(s)
    BY <2>5, AirSleep, ParamAssumption
  <2>6. CASE RxWake(s)
    BY <2>6, AirStill DEF RxWake, Wake, ghosts
  <2> QED BY <1>3, <2>1, <2>2, <2>3, <2>4, <2>5, <2>6 DEF Station
<1>4. CASE RxSteps
  <2>1. CASE PollTim
    BY <2>1, AirStill DEF PollTim, bits, ghosts
  <2>2. CASE PollClear
    BY <2>2, AirUpdates DEF PollClear
  <2>3. CASE BeaconAfter("rx")
    <3>1. UpdateBeacon(tim')
      BY <2>3 DEF BeaconAfter, bits, UpdateBeacon
    <3> QED BY <3>1, AirUpdates
  <2> QED BY <1>4, <2>1, <2>2, <2>3 DEF RxSteps
<1>5. CASE CmdSteps
  BY <1>5, AirCmd
<1>6. CASE \E s \in Stas : ExpireRead(s) \/ ExpireWake(s)
  BY <1>6, AirStill DEF ExpireRead, ExpireWake, Wake, bits, ghosts
<1>7. CASE \E s \in Stas : FreePurge(s)
  BY <1>7, AirStill DEF FreePurge, bits
<1>8. CASE FreeSteps
  <2>1. CASE FreeRead
    BY <2>1, AirStill DEF FreeRead, bits, ghosts
  <2>2. CASE FreeWrite
    <3>1. tim' \subseteq tim
      BY <2>2 DEF FreeWrite, At, TimFresh, Torn
    <3> QED BY <2>2, <3>1, AirStill DEF FreeWrite
  <2> QED BY <1>8, <2>1, <2>2 DEF FreeSteps
<1>9. CASE UNCHANGED vars
  BY <1>9, AirStill DEF vars, bits, ghosts
<1> QED BY <1>1, <1>2, <1>3, <1>4, <1>5, <1>6, <1>7, <1>8, <1>9 DEF Next

LEMMA LeavesTable ==
    ASSUME [Next]_vars, NEW s \in linked \ linked'
    PROVE  FreePurge(s)
<1>1. CASE \E q \in Stas, ac \in ACs : TxBuffer(q, ac) \/ TxDirect(q, ac)
  BY <1>1 DEF TxBuffer, TxDirect, stations
<1>2. CASE TxBuffer(Bmc, "be") \/ TxDirect(Bmc, "be") \/ TxPass
  BY <1>2 DEF TxBuffer, TxDirect, TxPass, stations
<1>3. CASE TaskletSteps \/ HiqDrains
  BY <1>3 DEF TaskletSteps, XmitTasklet, HiqDrains, stations
<1>4. CASE \E r \in Stas : Station(r)
  <2>1. ASSUME NEW r \in Stas, NEW u \in SUBSET ACs, Assoc(r, u) PROVE FreePurge(s)
    BY <2>1 DEF Assoc
  <2>2. ASSUME NEW r \in Stas, NEW ac \in ACs, Poll(r, ac) \/ PollNone(r, ac)
        PROVE  FreePurge(s)
    BY <2>2 DEF Poll, PollNone, stations
  <2>3. ASSUME NEW r \in Stas, NEW ac \in ACs, Trigger(r, ac) PROVE FreePurge(s)
    BY <2>3 DEF Trigger, stations
  <2>4. ASSUME NEW r \in Stas, Sleep(r) PROVE FreePurge(s)
    BY <2>4 DEF Sleep, stations
  <2>5. ASSUME NEW r \in Stas, RxWake(r) PROVE FreePurge(s)
    BY <2>5 DEF RxWake, Wake, stations
  <2> QED BY <1>4, <2>1, <2>2, <2>3, <2>4, <2>5 DEF Station
<1>5. CASE RxSteps
  BY <1>5 DEF RxSteps, PollTim, PollClear, BeaconAfter, stations
<1>6. CASE CmdSteps
  BY <1>6 DEF CmdSteps, CmdBeacon, CmdBeaconFails, CmdBmc, CmdFlush, CmdHiq, HiqRead, HiqWrite,
              BeaconAfter, ExpireMark, ExpireWrite, stations
<1>7. CASE \E r \in Stas : ExpireRead(r) \/ ExpireWake(r)
  BY <1>7 DEF ExpireRead, ExpireWake, Wake, stations
<1>8. CASE FreeSteps
  BY <1>8 DEF FreeSteps, FreeRead, FreeWrite, stations
<1>9. ASSUME NEW r \in Stas, FreePurge(r) PROVE FreePurge(s)
  <2>1. linked' = linked \ {r}
    BY <1>9 DEF FreePurge
  <2>2. r = s
    BY <2>1
  <2> QED BY <1>9, <2>2
<1>10. CASE UNCHANGED vars
  BY <1>10 DEF vars, stations
<1> QED BY <1>1, <1>2, <1>3, <1>4, <1>5, <1>6, <1>7, <1>8, <1>9, <1>10 DEF Next

LEMMA GoneStep ==
    ASSUME ParamAssumption, Typed, Typed', GoneIsEmpty, [Next]_vars
    PROVE  GoneIsEmpty'
<1> SUFFICES ASSUME NEW s \in Stas, s \notin linked' PROVE sleep_q'[s] = <<>>
  BY DEF GoneIsEmpty
<1>0. s \in Rcv
  BY DEF Rcv
<1>1. CASE s \in linked
  <2>1. FreePurge(s)
    BY <1>1, LeavesTable
  <2> QED BY <1>0, <2>1, TypedParts DEF FreePurge, TypedSleep
<1>2. CASE s \notin linked
  <2>1. sleep_q[s] = <<>>
    BY <1>2 DEF GoneIsEmpty
  <2>2. Move(s)
    BY <1>0, MoveStep, ParamAssumption
  <2>3. CASE Untouched(s) \/ Zeroed(s) \/ Taken(s) \/ PassedOn(s) \/ Drained(s) \/ Purged(s)
    BY <2>1, <2>3 DEF Untouched, Zeroed, Taken, PassedOn, Drained, Purged
  <2>4. ~ Buffered(s) /\ ~ Stopped(s) /\ ~ Regrouped(s)
    BY <1>2, ParamAssumption DEF Buffered, Buffers, Stopped, Regrouped, ParamAssumption
  <2>5. CASE Released(s)
    <3>1. PICK out, rest : Parts(s, out, rest) /\ HandedOver(s, out, rest)
      BY <2>5 DEF Released
    <3>2. /\ out \in Seq(Frame) /\ rest \in Seq(Frame) /\ sleep_q'[s] = rest
          /\ Len(out) + Len(rest) = Len(sleep_q[s])
      BY <3>1 DEF Parts, HandedOver
    <3>3. Len(sleep_q[s]) = 0
      BY <2>1
    <3>4. Len(rest) = 0
      BY <3>2, <3>3
    <3> QED BY <3>2, <3>4
  <2> QED BY <2>2, <2>3, <2>4, <2>5 DEF Move
<1> QED BY <1>1, <1>2

(* What a step does that keeps station s told: it shows the bit, empties   *)
(* the queue but for frames that need no showing, or leaves the station as *)
(* it was and adds at most such frames.                                    *)
Tells(s) ==
    \/ s \in tim'
    \/ sleep_q'[s] = <<>>
    \/ uapsd'[s] = uapsd[s] /\ sleep_q'[s] \in Seq(Hidden(s))
    \/ /\ s \in asleep \ changed /\ uapsd'[s] = uapsd[s]
       /\ s \in tim => s \in tim'
       /\ sleep_q[s] \in Seq(Hidden(s)) => sleep_q'[s] \in Seq(Hidden(s))

LEMMA TellsTold ==
    ASSUME Marked, \A s \in asleep' \ changed' : Tells(s)
    PROVE  Marked'
<1> SUFFICES ASSUME NEW s \in asleep' \ changed' PROVE Told(s)'
  BY DEF Marked
<1>1. CASE s \in tim'
  BY <1>1 DEF Told
<1>2. CASE sleep_q'[s] = <<>>
  <2>1. <<>> \in Seq(Hidden(s)')
    OBVIOUS
  <2> QED BY <1>2, <2>1 DEF Told
<1>3. ASSUME s \in asleep \ changed, uapsd'[s] = uapsd[s], s \in tim => s \in tim',
             sleep_q[s] \in Seq(Hidden(s)) => sleep_q'[s] \in Seq(Hidden(s))
      PROVE  Told(s)'
  <2>1. Hidden(s)' = Hidden(s)
    BY <1>3 DEF Hidden, ShownInTim, HasLegacy, Delivery
  <2>2. s \in tim \/ sleep_q[s] \in Seq(Hidden(s))
    BY <1>3 DEF Marked, Told
  <2> QED BY <1>3, <2>1, <2>2 DEF Told
<1>4. ASSUME uapsd'[s] = uapsd[s], sleep_q'[s] \in Seq(Hidden(s)) PROVE Told(s)'
  <2>1. Hidden(s)' = Hidden(s)
    BY <1>4 DEF Hidden, ShownInTim, HasLegacy, Delivery
  <2> QED BY <1>4, <2>1 DEF Told
<1> QED BY <1>1, <1>2, <1>3, <1>4 DEF Tells

(* Nothing that is said of a station changes.                              *)
LEMMA TellsStill ==
    ASSUME UNCHANGED <<asleep, changed, uapsd>>, NEW s \in asleep' \ changed',
           sleep_q'[s] = sleep_q[s], s \in tim => s \in tim'
    PROVE  Tells(s)
BY DEF Tells

LEMMA TellsTx ==
    ASSUME ParamAssumption, Typed, NEW q \in Rcv, NEW ac \in ACs, TxBuffer(q, ac),
           NEW s \in asleep' \ changed'
    PROVE  Tells(s)
<1> DEFINE f == NewFrame(ac)
           shown == IF q = Bmc THEN TRUE ELSE ShownInTim(q, f)
<1>1. /\ frames < MaxFrames /\ sleep_q' = [sleep_q EXCEPT ![q] = Append(@, f)]
      /\ tim' = IF shown THEN tim \cup {q} ELSE tim
      /\ UNCHANGED <<asleep, changed, uapsd>>
  BY DEF TxBuffer, stations
<1>2. s \in Stas /\ s # Bmc /\ s \in Rcv /\ sleep_q \in [Rcv -> Seq(Frame)]
  BY <1>1, TypedParts, ParamAssumption DEF TypedStations, TypedSleep, Rcv, ParamAssumption
<1>3. CASE q # s
  <2>1. sleep_q'[s] = sleep_q[s] /\ (s \in tim => s \in tim')
    BY <1>1, <1>2, <1>3
  <2> QED BY <1>1, <2>1, TellsStill
<1>4. CASE q = s /\ ShownInTim(s, f)
  BY <1>1, <1>2, <1>4 DEF Tells
<1>5. CASE q = s /\ ~ ShownInTim(s, f)
  <2>1. f \in Frame
    BY <1>1, NewFrameType, ParamAssumption
  <2> HIDE DEF f
  <2>2. f \in Hidden(s)
    BY <1>5, <2>1 DEF Hidden
  <2>3. sleep_q'[s] = Append(sleep_q[s], f) /\ tim' = tim
    BY <1>1, <1>2, <1>5
  <2>4. sleep_q[s] \in Seq(Hidden(s)) => sleep_q'[s] \in Seq(Hidden(s))
    BY <2>2, <2>3
  <2> QED BY <1>1, <2>3, <2>4 DEF Tells
<1> QED BY <1>3, <1>4, <1>5

LEMMA TellsSleep ==
    ASSUME ParamAssumption, Typed, AwakeInv, NEW r \in Stas, Sleep(r), NEW s \in asleep' \ changed'
    PROVE  Tells(s)
<1> DEFINE mine  == Mark(pending[<<r, "vo">>] \o pending[<<r, "be">>], "new")
           group == Mark(pending[<<Bmc, "be">>], "new")
           shown == \E i \in 1..Len(mine) : ShownInTim(r, mine[i])
           more  == (IF shown THEN {r} ELSE {}) \cup (IF group # <<>> THEN {Bmc} ELSE {})
<1>1. /\ r \in linked \ asleep /\ asleep' = asleep \cup {r} /\ UNCHANGED <<changed, uapsd>>
      /\ sleep_q' = [sleep_q EXCEPT ![r] = @ \o mine, ![Bmc] = @ \o group]
      /\ tim' = tim \cup more
  BY DEF Sleep
<1>2. s \in Stas /\ s # Bmc /\ r # Bmc /\ sleep_q \in [Rcv -> Seq(Frame)] /\ s \in Rcv /\ r \in Rcv
  BY <1>1, TypedParts, ParamAssumption DEF TypedStations, TypedSleep, Rcv, ParamAssumption
<1>3. mine \in Seq(Frame)
  BY MovedType
<1> HIDE DEF mine, group
<1>4. CASE s # r
  <2>1. sleep_q'[s] = sleep_q[s] /\ s \in asleep \ changed /\ (s \in tim => s \in tim')
    BY <1>1, <1>2, <1>4
  <2> QED BY <1>1, <2>1 DEF Tells
<1>5. CASE s = r /\ shown
  BY <1>1, <1>5 DEF Tells
<1>6. CASE s = r /\ ~ shown
  <2>1. sleep_q[s] = <<>>
    BY <1>1, <1>6 DEF AwakeInv, AwakeIsEmpty
  <2>2. sleep_q'[s] = sleep_q[s] \o mine
    BY <1>1, <1>2, <1>6
  <2>3. <<>> \o mine = mine
    BY <1>3, ConcatEmptySeq
  <2>4. sleep_q'[s] = mine
    BY <2>1, <2>2, <2>3, Zenon
  <2>5. mine \in Seq(Hidden(s))
    <3>1. \A i \in 1..Len(mine) : mine[i] \in Frame
      BY <1>3
    <3>2. \A i \in 1..Len(mine) : mine[i] \in Hidden(s)
      BY <1>6, <3>1 DEF Hidden
    <3> QED BY <1>3, <3>2
  <2> QED BY <1>1, <2>4, <2>5 DEF Tells
<1> QED BY <1>4, <1>5, <1>6

LEMMA TellsPoll ==
    ASSUME ParamAssumption, Typed, Bounded, LenCounts, NEW r \in Stas, NEW ac \in ACs, Poll(r, ac),
           NEW s \in asleep' \ changed'
    PROVE  Tells(s)
<1> DEFINE left == Minus(len[r], 1)
           W == sleep_q[r]
<1>1. /\ W # <<>> /\ sleep_q' = [sleep_q EXCEPT ![r] = Tail(@)]
      /\ tim' = IF left = 0 THEN tim \ {r} ELSE tim
      /\ UNCHANGED <<asleep, changed, uapsd>>
  BY DEF Poll, ghosts
<1>2. s \in Stas /\ s \in Rcv /\ r \in Rcv /\ sleep_q \in [Rcv -> Seq(Frame)]
  BY <1>1, TypedParts DEF TypedStations, TypedSleep, Rcv
<1>3. CASE s # r
  <2>1. sleep_q'[s] = sleep_q[s] /\ (s \in tim => s \in tim')
    BY <1>1, <1>2, <1>3
  <2> QED BY <1>1, <2>1, TellsStill
<1>4. CASE s = r
  <2>1. sleep_q'[r] = Tail(W) /\ W \in Seq(Frame)
    BY <1>1, <1>2
  <2>2. len[r] = Len(W) /\ Len(W) <= MaxFrames
    <3>1. len[r] = Len(W)
      BY <1>2 DEF LenCounts
    <3>2. Len(W) + Len(pending[<<r, "vo">>]) + Len(pending[<<r, "be">>]) + Hold(r) <= frames
      BY <1>2 DEF Bounded, Waiting
    <3>3. Len(W) <= MaxFrames
      BY <1>2, <3>2, Lengths, Summand
    <3> QED BY <3>1, <3>3
  <2> HIDE DEF W
  <2>3. Len(W) \in Nat /\ 1 <= Len(W)
    BY <1>1, <2>1
  <2>4. left = Len(W) - 1
    <3>1. 1 \in Nat
      OBVIOUS
    <3>2. Minus(Len(W), 1) = Len(W) - 1
      BY <2>2, <2>3, <3>1, Exact, ParamAssumption
    <3> QED BY <2>2, <3>2
  <2>5. CASE left = 0
    <3>1. Len(W) - 1 = 0
      BY <2>4, <2>5, Zenon
    <3>2. Len(W) = 1
      BY <2>3, <3>1
    <3>3. Tail(W) \in Seq(Frame) /\ Len(Tail(W)) = 0
      BY <1>1, <2>1, <3>2
    <3>4. Tail(W) = <<>>
      BY <3>3, EmptySeq
    <3> QED BY <1>4, <2>1, <3>4 DEF Tells
  <2>6. CASE left # 0
    <3>1. tim' = tim
      BY <1>1, <2>6
    <3>2. W \in Seq(Hidden(r)) => Tail(W) \in Seq(Hidden(r))
      BY <1>1
    <3> QED BY <1>1, <1>4, <2>1, <3>1, <3>2 DEF Tells, W
  <2> QED BY <2>5, <2>6
<1> QED BY <1>3, <1>4

LEMMA TellsTrigger ==
    ASSUME ParamAssumption, Typed, NEW r \in Stas, NEW ac \in ACs, Trigger(r, ac),
           NEW s \in asleep' \ changed'
    PROVE  Tells(s)
<1> DEFINE sent == Deliveries(r, sleep_q[r])
           k    == Len(sent)
           done == ac_len[r] \in 1..k /\ ~HasLegacy(r)
<1>1. UNCHANGED <<asleep, changed, uapsd>>
  BY DEF Trigger, stations
<1>2. s \in Stas /\ s \in Rcv /\ r \in Rcv /\ sleep_q \in [Rcv -> Seq(Frame)]
  BY <1>1, TypedParts DEF TypedStations, TypedSleep, Rcv
<1>3. CASE UNCHANGED <<tim, sleep_q>>
  BY <1>1, <1>3, TellsStill
<1>4. ASSUME sleep_q' = [sleep_q EXCEPT ![r] = Legacies(r, @)],
             tim' = IF done THEN tim \ {r} ELSE tim
      PROVE  Tells(s)
  <2>1. CASE s # r
    <3>1. sleep_q'[s] = sleep_q[s] /\ (s \in tim => s \in tim')
      BY <1>2, <1>4, <2>1
    <3> QED BY <1>1, <3>1, TellsStill
  <2>2. CASE s = r
    <3>1. sleep_q'[s] = OfACs(sleep_q[s], ACs \ uapsd[s]) /\ sleep_q[s] \in Seq(Frame)
      BY <1>2, <1>4, <2>2 DEF Legacies
    <3>2. CASE done
      <4>1. ACs \ uapsd[s] = {}
        BY <2>2, <3>2 DEF HasLegacy
      <4>2. \A f \in Frame : f.ac \notin ACs \ uapsd[s]
        BY <4>1
      <4>3. OfACs(sleep_q[s], ACs \ uapsd[s]) = <<>>
        BY <3>1, <4>2, OfACsNone
      <4> QED BY <3>1, <4>3 DEF Tells
    <3>3. CASE ~done
      <4>1. tim' = tim
        BY <1>4, <3>3
      <4>2. sleep_q[s] \in Seq(Hidden(s)) => OfACs(sleep_q[s], ACs \ uapsd[s]) \in Seq(Hidden(s))
        BY OfACsType
      <4> QED BY <1>1, <3>1, <4>1, <4>2 DEF Tells
    <3> QED BY <3>2, <3>3
  <2> QED BY <2>1, <2>2
<1> QED BY <1>3, <1>4 DEF Trigger, bits, queues

LEMMA TellsWake ==
    ASSUME ParamAssumption, Typed, Bounded, LenCounts, NEW r \in Stas, NEW c, Wake(c, r),
           NEW s \in asleep' \ changed'
    PROVE  Tells(s)
<1> DEFINE left  == Minus(len[r], Len(sleep_q[r]))
           woken == IF left = 0 THEN {r} ELSE {}
           empty == (dz \ woken) \ {Bmc} = {}
           bleft == Minus(len[Bmc], Len(sleep_q[Bmc]))
           off   == woken \cup (IF empty /\ bleft = 0 THEN {Bmc} ELSE {})
<1>1. /\ tim' = tim \ off /\ asleep' = asleep \ woken /\ UNCHANGED <<changed, uapsd>>
      /\ sleep_q' = [q \in Rcv |-> IF q = r \/ (q = Bmc /\ empty) THEN <<>> ELSE sleep_q[q]]
  BY DEF Wake, ghosts
<1>2. s \in Stas /\ s # Bmc /\ s \in Rcv /\ r \in Rcv
  BY <1>1, TypedParts, ParamAssumption DEF TypedStations, Rcv, ParamAssumption
<1> HIDE DEF empty, bleft, left
<1>3. CASE s = r
  BY <1>1, <1>2, <1>3 DEF Tells
<1>4. CASE s # r
  <2>1. sleep_q'[s] = sleep_q[s] /\ s \in asleep \ changed /\ (s \in tim => s \in tim')
    BY <1>1, <1>2, <1>4
  <2> QED BY <1>1, <2>1 DEF Tells
<1> QED BY <1>3, <1>4

LEMMA TellsThreads ==
    ASSUME SMP = FALSE, ParamAssumption, Typed, LonerInv, TimFresh, CmdSteps \/ RxSteps,
           NEW s \in asleep' \ changed'
    PROVE  Tells(s)
<1>1. UNCHANGED <<asleep, changed, uapsd>>
  BY DEF CmdSteps, CmdBeacon, CmdBeaconFails, CmdBmc, CmdFlush, CmdHiq, HiqRead, HiqWrite,
         BeaconAfter, ExpireMark, ExpireWrite, RxSteps, PollTim, PollClear, stations, ghosts
<1>2. s \in Stas /\ s # Bmc /\ s \in Rcv
  BY <1>1, TypedParts, ParamAssumption DEF TypedStations, Rcv, ParamAssumption
<1>3. CASE CmdBeacon \/ CmdBeaconFails \/ CmdBmc \/ CmdHiq \/ HiqRead \/ PollTim
  BY <1>1, <1>3, TellsStill DEF CmdBeacon, CmdBeaconFails, CmdBmc, CmdHiq, HiqRead, PollTim, bits, queues
<1>4. CASE BeaconAfter("cmd") \/ BeaconAfter("rx")
  BY <1>1, <1>4, TellsStill DEF BeaconAfter, bits, queues
<1>5. CASE CmdFlush
  <2>1. sleep_q'[s] = sleep_q[s] /\ UNCHANGED tim
    BY <1>2, <1>5, TypedParts DEF CmdFlush, bits, TypedSleep
  <2> QED BY <1>1, <2>1, TellsStill
<1>6. CASE HiqWrite
  <2>1. tim' = tim \ {Bmc} /\ UNCHANGED sleep_q
    BY <1>6 DEF HiqWrite, At, TimFresh, Torn, queues
  <2> QED BY <1>1, <1>2, <2>1, TellsStill
<1>7. CASE ExpireWrite
  <2>1. tim' = tim \cup {arg["cmd"]} /\ UNCHANGED sleep_q
    BY <1>7 DEF ExpireWrite, At, TimFresh, Torn, queues
  <2> QED BY <1>1, <2>1, TellsStill
<1>8. CASE PollClear
  <2>1. tim' = tim \ {arg["rx"]} /\ UNCHANGED sleep_q /\ sleep_q[arg["rx"]] = <<>>
    BY <1>8 DEF PollClear, At, TimFresh, Torn, queues, LonerInv, PollEmpty
  <2>2. CASE s = arg["rx"]
    BY <2>1, <2>2 DEF Tells
  <2>3. CASE s # arg["rx"]
    BY <1>1, <2>1, <2>3, TellsStill
  <2> QED BY <2>2, <2>3
<1>9. CASE ExpireMark
  BY <1>1, <1>9, TellsStill DEF ExpireMark, bits, queues
<1> QED BY <1>3, <1>4, <1>5, <1>6, <1>7, <1>8, <1>9 DEF CmdSteps, RxSteps

LEMMA TellsFree ==
    ASSUME ParamAssumption, Typed, TimFresh, FreeSteps \/ \E r \in Stas : FreePurge(r),
           NEW s \in asleep' \ changed'
    PROVE  Tells(s)
<1>1. CASE FreeRead
  BY <1>1, TellsStill DEF FreeRead, stations, ghosts, bits, queues
<1>2. CASE FreeWrite
  <2>1. /\ tim' = tim \ {arg["free"]} /\ asleep' = asleep \ {arg["free"]}
        /\ changed' = changed \ {arg["free"]} /\ uapsd' = [uapsd EXCEPT ![arg["free"]] = {}]
        /\ UNCHANGED sleep_q
    BY <1>2 DEF FreeWrite, At, TimFresh, Torn
  <2>2. s \in asleep \ changed /\ uapsd'[s] = uapsd[s] /\ (s \in tim => s \in tim')
    BY <2>1, TypedParts DEF TypedStations
  <2> QED BY <2>1, <2>2 DEF Tells
<1>3. ASSUME NEW r \in Stas, FreePurge(r) PROVE Tells(s)
  <2>1. /\ UNCHANGED <<asleep, changed, uapsd, tim>>
        /\ sleep_q' = [sleep_q EXCEPT ![r] = <<>>]
    BY <1>3 DEF FreePurge, bits
  <2>2. s \in Stas /\ s \in Rcv /\ DOMAIN sleep_q = Rcv
    BY <2>1, TypedParts DEF TypedStations, TypedSleep, Rcv
  <2>3. CASE s = r
    BY <2>1, <2>2, <2>3 DEF Tells
  <2>4. CASE s # r
    <3>1. sleep_q'[s] = sleep_q[s]
      BY <2>1, <2>2, <2>4
    <3> QED BY <2>1, <3>1, TellsStill
  <2> QED BY <2>3, <2>4
<1> QED BY <1>1, <1>2, <1>3 DEF FreeSteps

LEMMA MarkedStep ==
    ASSUME SMP = FALSE, ParamAssumption, BacklogInv, TimInv, [Next]_vars
    PROVE  Marked'
<1>0. Typed /\ AwakeInv /\ Bounded /\ LonerInv /\ LenCounts /\ Marked /\ TimFresh /\ GoneIsEmpty
  BY DEF BacklogInv, TimInv
<1> SUFFICES ASSUME NEW s \in asleep' \ changed' PROVE Tells(s)
  BY <1>0, TellsTold
<1>1. ASSUME NEW q \in Rcv, NEW ac \in ACs, TxBuffer(q, ac) \/ TxDirect(q, ac) \/ TxPass
      PROVE  Tells(s)
  <2>1. CASE TxBuffer(q, ac)
    BY <1>0, <2>1, TellsTx, ParamAssumption
  <2>2. CASE TxDirect(q, ac) \/ TxPass
    BY <2>2, TellsStill DEF TxDirect, TxPass, bits, stations, queues
  <2> QED BY <1>1, <2>1, <2>2
<1>2. Bmc \in Rcv /\ "be" \in ACs /\ Stas \subseteq Rcv
  BY DEF Rcv, ACs
<1>3. CASE TaskletSteps \/ HiqDrains
  BY <1>3, TellsStill DEF TaskletSteps, XmitTasklet, HiqDrains, bits, stations, ghosts, queues
<1>4. ASSUME NEW r \in Stas, Station(r) PROVE Tells(s)
  <2>1. ASSUME NEW u \in SUBSET ACs, Assoc(r, u) PROVE Tells(s)
    <3>1. /\ uapsd' = [uapsd EXCEPT ![r] = u] /\ UNCHANGED <<tim, asleep, sleep_q>>
          /\ changed' = IF r \in linked /\ sleep_q[r] # <<>> THEN changed \cup {r} ELSE changed
      BY <2>1 DEF Assoc, bits, queues
    <3>2. s \in Stas /\ DOMAIN uapsd = Stas
      BY <1>0, <3>1, TypedParts DEF TypedStations
    <3>3. CASE s = r
      <4>1. sleep_q[s] = <<>>
        BY <1>0, <3>1, <3>2, <3>3 DEF GoneIsEmpty
      <4> QED BY <3>1, <4>1 DEF Tells
    <3>4. CASE s # r
      <4>1. uapsd'[s] = uapsd[s] /\ s \in asleep \ changed
        BY <3>1, <3>2, <3>4
      <4> QED BY <3>1, <4>1 DEF Tells
    <3> QED BY <3>3, <3>4
  <2>2. ASSUME NEW ac \in ACs, Poll(r, ac) PROVE Tells(s)
    BY <1>0, <2>2, TellsPoll, ParamAssumption
  <2>3. ASSUME NEW ac \in ACs, PollNone(r, ac) PROVE Tells(s)
    BY <2>3, TellsStill DEF PollNone, bits, queues, ghosts
  <2>4. ASSUME NEW ac \in ACs, Trigger(r, ac) PROVE Tells(s)
    BY <1>0, <2>4, TellsTrigger, ParamAssumption
  <2>5. CASE Sleep(r)
    BY <1>0, <2>5, TellsSleep, ParamAssumption
  <2>6. CASE RxWake(r)
    BY <1>0, <2>6, TellsWake, ParamAssumption DEF RxWake
  <2> QED BY <1>4, <2>1, <2>2, <2>3, <2>4, <2>5, <2>6 DEF Station
<1>5. CASE RxSteps \/ CmdSteps
  BY <1>0, <1>5, TellsThreads, ParamAssumption
<1>6. ASSUME NEW r \in Stas, ExpireRead(r) \/ ExpireWake(r) PROVE Tells(s)
  <2>1. CASE ExpireRead(r)
    BY <2>1, TellsStill DEF ExpireRead, bits, queues, stations
  <2>2. CASE ExpireWake(r)
    BY <1>0, <2>2, TellsWake, ParamAssumption DEF ExpireWake
  <2> QED BY <1>6, <2>1, <2>2
<1>7. CASE FreeSteps \/ \E r \in Stas : FreePurge(r)
  BY <1>0, <1>7, TellsFree, ParamAssumption
<1>8. CASE UNCHANGED vars
  BY <1>8, TellsStill DEF vars, bits, stations, ghosts, queues
<1> QED BY <1>1, <1>2, <1>3, <1>4, <1>5, <1>6, <1>7, <1>8 DEF Next

(* On one processor a dozing station learns of every frame held for it     *)
(* that the U-APSD rules want shown: its bit is in tim_bitmap and in the   *)
(* element, and the beacon with it is on the air or a command to send it   *)
(* waits, unless the hardware has refused a beacon or the station has      *)
(* changed its U-APSD setting with frames queued.                          *)
THEOREM HeldIsShown ==
    ASSUME SMP = FALSE
    PROVE  Spec => []TimShown
<1> DEFINE I == BacklogInv /\ TimInv
<1>1. Init => I
  <2> SUFFICES ASSUME Init PROVE TimInv
    BY BacklogInit, ParamAssumption
  <2>1. TimFresh /\ OnAir /\ Marked
    BY DEF Init, TimFresh, OnAir, Marked, Contexts
  <2>2. GoneIsEmpty
    BY DEF Init, GoneIsEmpty, Rcv
  <2> QED BY <2>1, <2>2 DEF TimInv
<1>2. I /\ [Next]_vars => I'
  <2> SUFFICES ASSUME I, [Next]_vars PROVE I'
    OBVIOUS
  <2>1. BacklogInv'
    BY BacklogStep, ParamAssumption
  <2>2. Typed /\ Typed' /\ TimFresh /\ OnAir /\ GoneIsEmpty
    BY <2>1 DEF BacklogInv, TimInv
  <2>3. TimFresh'
    BY <2>2, FreshNext, ParamAssumption
  <2>4. OnAir'
    BY <2>2, AirStep, ParamAssumption
  <2>5. GoneIsEmpty'
    BY <2>2, GoneStep, ParamAssumption
  <2>6. Marked'
    BY MarkedStep, ParamAssumption
  <2> QED BY <2>1, <2>3, <2>4, <2>5, <2>6 DEF TimInv
<1>3. I => TimShown
  <2> SUFFICES ASSUME I, NEW s \in (linked \cap asleep) \ changed, Held(s) # {}
               PROVE  /\ s \in tim /\ s \in tim_ie
                      /\ faults > 0 \/ s \in beacon \/ \E i \in 1..Len(cmds) : cmds[i] = "beacon"
    BY DEF TimShown
  <2>1. s \in tim
    <3> SUFFICES ASSUME sleep_q[s] \in Seq(Hidden(s)) PROVE FALSE
      BY DEF TimInv, Marked, Told
    <3>1. PICK i \in 1..Len(sleep_q[s]) : ShownInTim(s, sleep_q[s][i])
      BY DEF Held
    <3>2. sleep_q[s][i] \in Hidden(s)
      BY <3>1
    <3> QED BY <3>1, <3>2 DEF Hidden
  <2>2. s \in tim_ie /\ (faults > 0 \/ Asks(cmds) \/ s \in beacon)
    BY <2>1 DEF TimInv, OnAir
  <2> QED BY <2>1, <2>2 DEF Asks
<1> HIDE DEF I
<1> QED BY <1>1, <1>2, <1>3, PTL DEF Spec
=============================================================================
