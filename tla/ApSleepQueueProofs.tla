------------------------- MODULE ApSleepQueueProofs -------------------------
(***************************************************************************)
(* Two facts about the power saving of an access point that hold on one    *)
(* processor for every set of stations and every bound.                    *)
(*                                                                         *)
(* AwakeIsEmpty.  (On several processors expire_timeout_chk, which writes  *)
(* psta->state back without the lock, may wake a station up on paper with  *)
(* frames in its queue.)  It is not inductive alone: rtw_free_stainfo      *)
(* clears WIFI_SLEEP_STATE two steps after it has emptied the queue, so    *)
(* AwakeInv adds that nothing is queued in between, which holds because a  *)
(* station that leaves is no longer in the hash table.                     *)
(*                                                                         *)
(* DzMatches.  The two unlocked writers of sta_dz_bitmap write back what   *)
(* they read; DzInv adds that it is still current.                         *)
(*                                                                         *)
(* Behind them are the lemmas about lists of frames that the theorems of   *)
(* ApSleepBacklogProofs rest on.                                           *)
(***************************************************************************)
EXTENDS ApSleepQueue, SeqInduction, TLAPS

Shape ==
    /\ pc \in [Contexts -> Labels]
    /\ DOMAIN arg = Contexts
    /\ DOMAIN sleep_q = Rcv
    /\ linked \subseteq Stas

Leaving ==
    pc["free"] # "idle" =>
        arg["free"] \in Stas \ linked /\ sleep_q[arg["free"]] = <<>>

AwakeInv == Shape /\ AwakeIsEmpty /\ Leaving

(* What no step of tx, rx or cmd touches.                                  *)
LEMMA OtherContext ==
    ASSUME Shape, NEW c \in {"tx", "rx", "cmd"}, NEW label \in Labels, NEW q,
           Goto(c, label, q)
    PROVE  /\ pc' \in [Contexts -> Labels] /\ DOMAIN arg' = Contexts
           /\ pc'["free"] = pc["free"] /\ arg'["free"] = arg["free"]
BY DEF Shape, Goto, Contexts

(* A step that leaves sleep_q and the station sets alone, and is not one   *)
(* of rtw_free_stainfo.                                                    *)
LEMMA QuietStep ==
    ASSUME AwakeInv, sleep_q' = sleep_q, asleep' = asleep, linked' = linked,
           pc' \in [Contexts -> Labels], DOMAIN arg' = Contexts,
           pc'["free"] = pc["free"], arg'["free"] = arg["free"]
    PROVE  AwakeInv'
BY DEF AwakeInv, Shape, AwakeIsEmpty, Leaving

LEMMA WakeKeeps ==
    ASSUME AwakeInv, NEW s \in Stas, NEW c \in {"rx", "cmd"}, Wake(c, s)
    PROVE  AwakeInv'
<1>1. /\ DOMAIN sleep_q' = Rcv
      /\ sleep_q'[s] = <<>>
      /\ \A q \in Rcv : sleep_q'[q] = <<>> \/ sleep_q'[q] = sleep_q[q]
      /\ linked' = linked
  BY DEF Wake, Rcv
<1>2. asleep \ {s} \subseteq asleep'
  BY DEF Wake
<1>3. /\ pc' \in [Contexts -> Labels] /\ DOMAIN arg' = Contexts
      /\ pc'["free"] = pc["free"] /\ arg'["free"] = arg["free"]
  <2>1. CASE Goto(c, "update", s)
    BY <2>1, OtherContext DEF Labels, AwakeInv
  <2>2. CASE UNCHANGED <<pc, arg>>
    BY <2>2 DEF AwakeInv, Shape
  <2> QED BY <2>1, <2>2 DEF Wake
<1>4. AwakeIsEmpty'
  BY <1>1, <1>2 DEF AwakeIsEmpty, AwakeInv, Rcv
<1>5. Leaving'
  BY <1>1, <1>3 DEF Leaving, AwakeInv, Rcv
<1> QED BY <1>1, <1>3, <1>4, <1>5 DEF AwakeInv, Shape

LEMMA TxBufferKeeps ==
    ASSUME AwakeInv, NEW q \in Rcv, NEW ac, TxBuffer(q, ac), ParamAssumption
    PROVE  AwakeInv'
<1>1. q # Bmc => q \in linked \cap asleep
  BY DEF TxBuffer, Buffers
<1>2. /\ DOMAIN sleep_q' = Rcv
      /\ \A r \in Rcv \ {q} : sleep_q'[r] = sleep_q[r]
  BY DEF TxBuffer, AwakeInv, Shape
<1>3. UNCHANGED <<linked, asleep, pc, arg>>
  BY DEF TxBuffer, stations, control
<1>4. AwakeIsEmpty'
  BY <1>1, <1>2, <1>3, ParamAssumption DEF AwakeIsEmpty, AwakeInv, Rcv
<1>5. Leaving'
  BY <1>1, <1>2, <1>3, ParamAssumption DEF Leaving, AwakeInv, Rcv
<1> QED BY <1>2, <1>3, <1>4, <1>5 DEF AwakeInv, Shape

(* Steps of the RX tasklet for a dozing station s of the hash table, which *)
(* touch no other queue than that of s.                                    *)
LEMMA DozingStep ==
    ASSUME AwakeInv, NEW s \in linked \cap asleep, DOMAIN sleep_q' = Rcv,
           \A r \in Rcv \ {s} : sleep_q'[r] = sleep_q[r],
           UNCHANGED <<linked, asleep, pc, arg>>
    PROVE  AwakeInv'
<1>1. AwakeIsEmpty'
  BY DEF AwakeIsEmpty, AwakeInv, Rcv
<1>2. Leaving'
  BY DEF Leaving, AwakeInv, Rcv
<1> QED BY <1>1, <1>2 DEF AwakeInv, Shape

LEMMA SleepKeeps ==
    ASSUME AwakeInv, NEW s \in Stas, Sleep(s), ParamAssumption
    PROVE  AwakeInv'
<1>1. /\ DOMAIN sleep_q' = Rcv
      /\ \A r \in Rcv \ {s, Bmc} : sleep_q'[r] = sleep_q[r]
  BY DEF Sleep, AwakeInv, Shape
<1>2. s \in linked /\ asleep' = asleep \cup {s} /\ UNCHANGED <<linked, pc, arg>>
  BY DEF Sleep, control
<1>3. AwakeIsEmpty'
  BY <1>1, <1>2, ParamAssumption DEF AwakeIsEmpty, AwakeInv, Rcv
<1>4. Leaving'
  BY <1>1, <1>2, ParamAssumption DEF Leaving, AwakeInv, Rcv
<1> QED BY <1>1, <1>2, <1>3, <1>4 DEF AwakeInv, Shape

LEMMA StationKeeps ==
    ASSUME AwakeInv, NEW s \in Stas, Station(s), ParamAssumption
    PROVE  AwakeInv'
<1>1. ASSUME NEW u \in SUBSET ACs, Assoc(s, u) PROVE AwakeInv'
  <2>1. UNCHANGED <<sleep_q, asleep, pc, arg>>
    BY <1>1 DEF Assoc, queues, control
  <2>2. linked' = linked \cup {s} /\ arg["free"] # s
    BY <1>1 DEF Assoc
  <2> QED BY <2>1, <2>2 DEF AwakeInv, Shape, AwakeIsEmpty, Leaving
<1>2. ASSUME NEW ac \in ACs, Poll(s, ac) PROVE AwakeInv'
  <2>1. /\ s \in linked \cap asleep
        /\ sleep_q' = [sleep_q EXCEPT ![s] = Tail(@)]
        /\ UNCHANGED <<linked, asleep, pc, arg>>
    BY <1>2 DEF Poll, control
  <2> QED BY <2>1, DozingStep DEF AwakeInv, Shape
<1>3. ASSUME NEW ac \in ACs, PollNone(s, ac) PROVE AwakeInv'
  <2>1. UNCHANGED <<sleep_q, asleep, linked>>
    BY <1>3 DEF PollNone, queues
  <2>2. CASE Goto("rx", "poll", s)
    BY <2>1, <2>2, OtherContext, QuietStep DEF Labels, AwakeInv
  <2>3. CASE UNCHANGED <<pc, arg>>
    BY <2>1, <2>3, QuietStep DEF AwakeInv, Shape
  <2> QED BY <1>3, <2>2, <2>3 DEF PollNone
<1>4. ASSUME NEW ac \in ACs, Trigger(s, ac) PROVE AwakeInv'
  <2>1. s \in linked \cap asleep /\ UNCHANGED <<linked, asleep, pc, arg>>
    BY <1>4 DEF Trigger, stations, control
  <2>2. \/ sleep_q' = sleep_q
        \/ sleep_q' = [sleep_q EXCEPT ![s] = Legacies(s, @)]
    BY <1>4 DEF Trigger, queues
  <2> QED BY <2>1, <2>2, DozingStep DEF AwakeInv, Shape
<1>5. CASE Sleep(s)
  BY <1>5, SleepKeeps
<1>6. CASE RxWake(s)
  BY <1>6, WakeKeeps DEF RxWake
<1> QED BY <1>1, <1>2, <1>3, <1>4, <1>5, <1>6 DEF Station

LEMMA CmdKeeps ==
    ASSUME SMP = FALSE, AwakeInv, CmdSteps \/ RxSteps
    PROVE  AwakeInv'
<1>1. ASSUME NEW c \in {"rx", "cmd"}, BeaconAfter(c) PROVE AwakeInv'
  BY <1>1, OtherContext, QuietStep DEF BeaconAfter, queues, stations, Labels, AwakeInv
<1>2. CASE CmdBeacon
  BY <1>2, OtherContext, QuietStep DEF CmdBeacon, queues, stations, Labels, AwakeInv
<1>3. CASE CmdBeaconFails
  BY <1>3, QuietStep DEF CmdBeaconFails, queues, stations, control, AwakeInv, Shape
<1>4. CASE CmdBmc
  BY <1>4, OtherContext, QuietStep DEF CmdBmc, queues, stations, Labels, AwakeInv
<1>5. CASE CmdFlush
  <2>1. /\ sleep_q' = [sleep_q EXCEPT ![Bmc] = <<>>]
        /\ UNCHANGED <<linked, asleep>>
    BY <1>5 DEF CmdFlush, stations
  <2>2. /\ pc' \in [Contexts -> Labels] /\ DOMAIN arg' = Contexts
        /\ pc'["free"] = pc["free"] /\ arg'["free"] = arg["free"]
    BY <1>5, OtherContext DEF CmdFlush, Labels, AwakeInv
  <2> QED BY <2>1, <2>2 DEF AwakeInv, Shape, AwakeIsEmpty, Leaving, Rcv
<1>6. CASE CmdHiq
  BY <1>6, OtherContext, QuietStep DEF CmdHiq, queues, stations, Labels, AwakeInv
<1>7. CASE HiqRead
  BY <1>7, OtherContext, QuietStep DEF HiqRead, queues, stations, Labels, AwakeInv
<1>8. CASE HiqWrite
  BY <1>8, OtherContext, QuietStep DEF HiqWrite, queues, stations, Labels, AwakeInv
<1>9. CASE ExpireWrite
  BY <1>9, OtherContext, QuietStep DEF ExpireWrite, queues, stations, Labels, AwakeInv
<1>10. CASE PollTim
  <2>1. UNCHANGED <<sleep_q, asleep, linked>>
    BY <1>10 DEF PollTim, stations
  <2>2. Goto("rx", "clear", arg["rx"]) \/ Goto("rx", "idle", None)
    BY <1>10 DEF PollTim
  <2> QED BY <2>1, <2>2, OtherContext, QuietStep DEF Labels, AwakeInv
<1>11. CASE PollClear
  BY <1>11, OtherContext, QuietStep DEF PollClear, queues, stations, Labels, AwakeInv
<1>12. CASE ExpireMark
  <2>1. UNCHANGED <<sleep_q, asleep, linked>> /\ Goto("cmd", "alive", arg["cmd"])
    BY <1>12 DEF ExpireMark, queues
  <2> QED BY <2>1, OtherContext, QuietStep DEF Labels, AwakeInv
<1> QED BY <1>1, <1>2, <1>3, <1>4, <1>5, <1>6, <1>7, <1>8, <1>9, <1>10, <1>11, <1>12
        DEF CmdSteps, RxSteps

LEMMA FreeKeeps ==
    ASSUME AwakeInv, FreeSteps \/ \E s \in Stas : FreePurge(s)
    PROVE  AwakeInv'
<1>1. ASSUME NEW s \in Stas, FreePurge(s) PROVE AwakeInv'
  BY <1>1 DEF FreePurge, Goto, Labels, Contexts, Rcv, AwakeInv, Shape, AwakeIsEmpty, Leaving
<1>2. CASE FreeRead
  BY <1>2 DEF FreeRead, Goto, At, Labels, Contexts, queues, stations, AwakeInv, Shape,
              AwakeIsEmpty, Leaving
<1>3. CASE FreeWrite
  <2>1. arg["free"] \in Stas \ linked /\ sleep_q[arg["free"]] = <<>>
    BY <1>3 DEF FreeWrite, At, AwakeInv, Leaving
  <2>2. /\ asleep' = asleep \ {arg["free"]}
        /\ UNCHANGED <<linked, sleep_q>>
        /\ Goto("free", "idle", None)
    BY <1>3 DEF FreeWrite
  <2> QED BY <2>1, <2>2 DEF Goto, Labels, Contexts, AwakeInv, Shape, AwakeIsEmpty, Leaving
<1> QED BY <1>1, <1>2, <1>3 DEF FreeSteps

LEMMA AwakeStep ==
    ASSUME SMP = FALSE, ParamAssumption, AwakeInv, [Next]_vars
    PROVE  AwakeInv'
<1>1. CASE \E q \in Stas, ac \in ACs : TxBuffer(q, ac) \/ TxDirect(q, ac)
  <2> PICK q \in Stas, ac \in ACs : TxBuffer(q, ac) \/ TxDirect(q, ac)
    BY <1>1
  <2>1. CASE TxBuffer(q, ac)
    BY <2>1, TxBufferKeeps DEF Rcv
  <2>2. CASE TxDirect(q, ac)
    BY <2>2, OtherContext, QuietStep DEF TxDirect, queues, stations, Labels, AwakeInv
  <2> QED BY <2>1, <2>2
<1>2. CASE TxBuffer(Bmc, "be")
  BY <1>2, TxBufferKeeps DEF Rcv
<1>3. CASE TxDirect(Bmc, "be")
  BY <1>3, OtherContext, QuietStep DEF TxDirect, queues, stations, Labels, AwakeInv
<1>4. CASE TxPass
  BY <1>4, OtherContext, QuietStep DEF TxPass, stations, Labels, AwakeInv
<1>5. CASE TaskletSteps
  BY <1>5, QuietStep DEF TaskletSteps, XmitTasklet, stations, control, AwakeInv, Shape
<1>6. CASE HiqDrains
  BY <1>6, QuietStep DEF HiqDrains, queues, stations, control, AwakeInv, Shape
<1>7. CASE \E s \in Stas : Station(s)
  BY <1>7, StationKeeps
<1>8. CASE RxSteps \/ CmdSteps
  BY <1>8, CmdKeeps
<1>9. CASE \E s \in Stas : ExpireRead(s) \/ ExpireWake(s)
  <2> PICK s \in Stas : ExpireRead(s) \/ ExpireWake(s)
    BY <1>9
  <2>1. CASE ExpireRead(s)
    BY <2>1, OtherContext, QuietStep DEF ExpireRead, queues, stations, Labels, AwakeInv
  <2>2. CASE ExpireWake(s)
    BY <2>2, WakeKeeps DEF ExpireWake
  <2> QED BY <2>1, <2>2
<1>10. CASE FreeSteps \/ \E s \in Stas : FreePurge(s)
  BY <1>10, FreeKeeps
<1>11. CASE UNCHANGED vars
  BY <1>11, QuietStep DEF vars, queues, stations, control, AwakeInv, Shape
<1> QED BY <1>1, <1>2, <1>3, <1>4, <1>5, <1>6, <1>7, <1>8, <1>9, <1>10, <1>11 DEF Next

(* On one processor a station that is awake has nothing left in its sleep  *)
(* queue, whatever the interleaving of rtw_xmit, the RX tasklet, the       *)
(* command thread and rtw_free_stainfo, which stop in the middle of their  *)
(* unlocked writes.                                                        *)
THEOREM AwakeHasNoBacklog ==
    ASSUME SMP = FALSE
    PROVE  Spec => []AwakeIsEmpty
<1>1. Init => AwakeInv
  BY DEF Init, AwakeInv, Shape, AwakeIsEmpty, Leaving, Contexts, Labels, Rcv
<1>2. AwakeInv /\ [Next]_vars => AwakeInv'
  BY AwakeStep, ParamAssumption
<1>3. AwakeInv => AwakeIsEmpty
  BY DEF AwakeInv
<1> QED BY <1>1, <1>2, <1>3, PTL DEF Spec

-----------------------------------------------------------------------------
(* What a context that is about to write a bitmap back has read.           *)
SnapShape ==
    /\ Shape
    /\ DOMAIN snap = Contexts
    /\ asleep \subseteq Stas
    /\ pc["free"] # "idle" => arg["free"] \in Stas

SnapFresh ==
    /\ pc["cmd"] = "write" => snap["cmd"][2] = dz
    /\ pc["free"] = "write" => snap["free"][2] = dz

DzInv == SnapShape /\ SnapFresh /\ DzMatches

(* On one processor nobody is inside a read-modify-write while tx, rx or a *)
(* tasklet takes a step, and at most one of cmd and free is.               *)
LEMMA NobodyWrites ==
    ASSUME SMP = FALSE, NEW c, Runs(c)
    PROVE  /\ c # "cmd" => pc["cmd"] # "write"
           /\ c # "free" => pc["free"] # "write"
BY DEF Runs, Busy, Contexts

(* A step of context c that leaves the dozing stations as they are.        *)
LEMMA DzQuiet ==
    ASSUME DzInv, UNCHANGED <<dz, asleep>>, SnapShape',
           pc'["cmd"] = "write" => pc["cmd"] = "write" /\ snap'["cmd"] = snap["cmd"],
           pc'["free"] = "write" => pc["free"] = "write" /\ snap'["free"] = snap["free"]
    PROVE  DzInv'
BY DEF DzInv, SnapFresh, DzMatches

(* A step that changes them, taken while nobody is writing.                *)
LEMMA DzChanges ==
    ASSUME SnapShape', pc'["cmd"] # "write", pc'["free"] # "write", DzMatches'
    PROVE  DzInv'
BY DEF DzInv, SnapFresh

LEMMA DzWake ==
    ASSUME SMP = FALSE, ParamAssumption, DzInv, NEW s \in Stas,
           NEW c \in {"rx", "cmd"}, At(c, "idle"), Wake(c, s)
    PROVE  DzInv'
<1>1. pc["cmd"] # "write" /\ pc["free"] # "write"
  BY NobodyWrites DEF At
<1> DEFINE woken == IF Minus(len[s], Len(sleep_q[s])) = 0 THEN {s} ELSE {}
           group == (dz \ woken) \ {Bmc} = {} /\ Minus(len[Bmc], Len(sleep_q[Bmc])) = 0
           off   == woken \cup (IF group THEN {Bmc} ELSE {})
<1>2. asleep' = asleep \ woken /\ dz' = dz \ off
  BY DEF Wake
<1>3. DzMatches'
  <2>1. off \ {Bmc} = woken \ {Bmc}
    OBVIOUS
  <2>2. Bmc \notin asleep
    BY ParamAssumption DEF DzInv, SnapShape
  <2> HIDE DEF woken, off
  <2> QED BY <1>2, <2>1, <2>2 DEF DzInv, DzMatches
<1> HIDE DEF woken, off
<1>4. DOMAIN sleep_q' = Rcv /\ linked' = linked /\ snap' = snap
  BY DEF Wake
<1>5. /\ pc' \in [Contexts -> Labels] /\ DOMAIN arg' = Contexts
      /\ pc'["free"] = pc["free"] /\ arg'["free"] = arg["free"]
      /\ pc'["cmd"] # "write"
  <2>1. CASE Goto(c, "update", s)
    <3>1. pc'["cmd"] # "write"
      BY <1>1, <2>1 DEF Goto, DzInv, SnapShape, Shape, Contexts
    <3> QED BY <2>1, <3>1, OtherContext DEF Labels, DzInv, SnapShape
  <2>2. CASE UNCHANGED <<pc, arg>>
    BY <1>1, <2>2 DEF DzInv, SnapShape, Shape
  <2> QED BY <2>1, <2>2 DEF Wake
<1>6. SnapShape'
  BY <1>2, <1>4, <1>5 DEF DzInv, SnapShape, Shape
<1> QED BY <1>1, <1>3, <1>5, <1>6, DzChanges

(* Steps that leave the dozing stations alone, by what they may do.        *)
LEMMA DzSmall ==
    ASSUME DzInv, UNCHANGED <<dz, asleep>>, DOMAIN sleep_q' = Rcv, linked' \subseteq Stas,
           pc' \in [Contexts -> Labels], DOMAIN arg' = Contexts, DOMAIN snap' = Contexts,
           pc'["free"] = pc["free"], arg'["free"] = arg["free"],
           snap'["free"] = snap["free"],
           pc'["cmd"] = "write" => pc["cmd"] = "write" /\ snap'["cmd"] = snap["cmd"]
    PROVE  DzInv'
<1>1. SnapShape'
  BY DEF DzInv, SnapShape, Shape
<1> QED BY <1>1, DzQuiet

(* The same for a step of tx or rx, and for one of cmd that does not start *)
(* to write.                                                               *)
LEMMA DzSoft ==
    ASSUME DzInv, UNCHANGED <<dz, asleep>>, DOMAIN sleep_q' = Rcv, linked' \subseteq Stas,
           NEW c \in {"tx", "rx"}, NEW label \in Labels, NEW q, Goto(c, label, q),
           DOMAIN snap' = Contexts, snap'["cmd"] = snap["cmd"], snap'["free"] = snap["free"]
    PROVE  DzInv'
<1>1. pc'["cmd"] = pc["cmd"]
  BY DEF Goto, DzInv, SnapShape, Shape, Contexts
<1> QED BY <1>1, OtherContext, DzSmall DEF DzInv, SnapShape

LEMMA DzCmd ==
    ASSUME DzInv, UNCHANGED <<dz, asleep>>, DOMAIN sleep_q' = Rcv, linked' \subseteq Stas,
           NEW label \in Labels \ {"write"}, NEW q, Goto("cmd", label, q),
           DOMAIN snap' = Contexts, snap'["free"] = snap["free"]
    PROVE  DzInv'
<1>1. pc'["cmd"] # "write"
  BY DEF Goto, DzInv, SnapShape, Shape, Contexts
<1> QED BY <1>1, OtherContext, DzSmall DEF DzInv, SnapShape

LEMMA DzStill ==
    ASSUME DzInv, UNCHANGED <<dz, asleep, pc, arg, snap>>, DOMAIN sleep_q' = Rcv,
           linked' \subseteq Stas
    PROVE  DzInv'
BY DzSmall DEF DzInv, SnapShape, Shape

LEMMA DzTx ==
    ASSUME SMP = FALSE, ParamAssumption, DzInv, NEW q \in Rcv, NEW ac,
           TxBuffer(q, ac) \/ TxDirect(q, ac) \/ TxPass
    PROVE  DzInv'
<1>1. CASE TxBuffer(q, ac)
  <2>1. pc["cmd"] # "write" /\ pc["free"] # "write"
    BY <1>1, NobodyWrites DEF TxBuffer, At
  <2>2. dz' \ {Bmc} = dz \ {Bmc} /\ UNCHANGED <<asleep, linked, pc, arg, snap>>
    BY <1>1 DEF TxBuffer, stations, control
  <2>3. DOMAIN sleep_q' = Rcv
    BY <1>1 DEF TxBuffer, DzInv, SnapShape, Shape
  <2>4. SnapShape' /\ DzMatches'
    BY <2>2, <2>3 DEF DzInv, SnapShape, Shape, DzMatches
  <2> QED BY <2>1, <2>2, <2>4, DzChanges
<1>2. CASE TxDirect(q, ac)
  BY <1>2, DzSoft DEF TxDirect, bits, stations, queues, Labels, DzInv, SnapShape, Shape
<1>3. CASE TxPass
  BY <1>3, DzSoft DEF TxPass, bits, stations, Labels, DzInv, SnapShape, Shape
<1> QED BY <1>1, <1>2, <1>3

LEMMA DzStation ==
    ASSUME SMP = FALSE, ParamAssumption, DzInv, NEW s \in Stas, Station(s)
    PROVE  DzInv'
<1>1. ASSUME NEW u \in SUBSET ACs, Assoc(s, u) PROVE DzInv'
  <2>1. UNCHANGED <<dz, asleep, sleep_q, pc, arg, snap>> /\ linked' = linked \cup {s}
    BY <1>1 DEF Assoc, bits, queues, control
  <2> QED BY <2>1, DzStill DEF DzInv, SnapShape, Shape
<1>2. ASSUME NEW ac \in ACs, Poll(s, ac) PROVE DzInv'
  <2>1. /\ UNCHANGED <<dz, asleep, linked, pc, arg, snap>>
        /\ sleep_q' = [sleep_q EXCEPT ![s] = Tail(@)]
    BY <1>2 DEF Poll, control
  <2> QED BY <2>1, DzStill DEF DzInv, SnapShape, Shape
<1>3. ASSUME NEW ac \in ACs, PollNone(s, ac) PROVE DzInv'
  <2>1. UNCHANGED <<dz, asleep, linked, sleep_q, snap>>
    BY <1>3 DEF PollNone, bits, queues
  <2>2. CASE Goto("rx", "poll", s)
    BY <2>1, <2>2, DzSoft DEF Labels, DzInv, SnapShape, Shape
  <2>3. CASE UNCHANGED <<pc, arg>>
    BY <2>1, <2>3, DzStill DEF DzInv, SnapShape, Shape
  <2> QED BY <1>3, <2>2, <2>3 DEF PollNone
<1>4. ASSUME NEW ac \in ACs, Trigger(s, ac) PROVE DzInv'
  <2>1. UNCHANGED <<dz, asleep, linked, pc, arg, snap>>
    BY <1>4 DEF Trigger, bits, stations, control
  <2>2. \/ sleep_q' = sleep_q
        \/ sleep_q' = [sleep_q EXCEPT ![s] = Legacies(s, @)]
    BY <1>4 DEF Trigger, queues
  <2> QED BY <2>1, <2>2, DzStill DEF DzInv, SnapShape, Shape
<1>5. CASE Sleep(s)
  <2>1. pc["cmd"] # "write" /\ pc["free"] # "write"
    BY <1>5, NobodyWrites DEF Sleep, At
  <2>2. /\ asleep' = asleep \cup {s} /\ UNCHANGED <<linked, pc, arg, snap>>
        /\ DOMAIN sleep_q' = Rcv
    BY <1>5 DEF Sleep, control, DzInv, SnapShape, Shape
  <2>3. dz' = dz \cup {s} \/ dz' = dz \cup {s, Bmc}
    <3> DEFINE more == (IF \E i \in 1..Len(Mark(pending[<<s, "vo">>] \o pending[<<s, "be">>], "new")) :
                              ShownInTim(s, Mark(pending[<<s, "vo">>] \o pending[<<s, "be">>], "new")[i])
                          THEN {s} ELSE {})
                       \cup (IF Mark(pending[<<Bmc, "be">>], "new") # <<>> THEN {Bmc} ELSE {})
    <3>1. dz' = dz \cup {s} \cup (more \cap {Bmc})
      BY <1>5 DEF Sleep
    <3> HIDE DEF more
    <3> QED BY <3>1
  <2>4. SnapShape'
    BY <2>2 DEF DzInv, SnapShape, Shape
  <2>5. DzMatches'
    BY <2>2, <2>3, ParamAssumption DEF DzInv, DzMatches
  <2> QED BY <2>1, <2>2, <2>4, <2>5, DzChanges
<1>6. CASE RxWake(s)
  BY <1>6, DzWake DEF RxWake
<1> QED BY <1>1, <1>2, <1>3, <1>4, <1>5, <1>6 DEF Station

LEMMA DzThreads ==
    ASSUME SMP = FALSE, ParamAssumption, DzInv, CmdSteps \/ RxSteps
    PROVE  DzInv'
<1> USE DEF Labels
<1>1. CASE BeaconAfter("cmd")
  BY <1>1, DzCmd DEF BeaconAfter, bits, queues, stations, DzInv, SnapShape, Shape
<1>2. CASE BeaconAfter("rx")
  BY <1>2, DzSoft DEF BeaconAfter, bits, queues, stations, DzInv, SnapShape, Shape
<1>3. CASE CmdBeacon
  BY <1>3, DzCmd DEF CmdBeacon, bits, queues, stations, DzInv, SnapShape, Shape
<1>4. CASE CmdBeaconFails
  BY <1>4, DzStill DEF CmdBeaconFails, bits, queues, stations, control, DzInv, SnapShape, Shape
<1>5. CASE CmdBmc
  BY <1>5, DzCmd DEF CmdBmc, bits, queues, stations, DzInv, SnapShape, Shape
<1>6. CASE CmdFlush
  BY <1>6, DzCmd DEF CmdFlush, bits, stations, DzInv, SnapShape, Shape
<1>7. CASE CmdHiq
  BY <1>7, DzCmd DEF CmdHiq, bits, queues, stations, DzInv, SnapShape, Shape
<1>8. CASE HiqRead
  <2>1. /\ UNCHANGED <<dz, asleep, linked, sleep_q>> /\ Goto("cmd", "write", Bmc)
        /\ snap' = [snap EXCEPT !["cmd"] = bits]
    BY <1>8 DEF HiqRead, bits, queues, stations
  <2>2. pc["free"] # "write"
    BY <1>8, NobodyWrites DEF HiqRead, At
  <2>3. /\ pc' \in [Contexts -> Labels] /\ DOMAIN arg' = Contexts
        /\ pc'["free"] = pc["free"] /\ arg'["free"] = arg["free"]
    BY <2>1, OtherContext DEF DzInv, SnapShape
  <2>4. snap'["cmd"][2] = dz' /\ DOMAIN snap' = Contexts
    BY <2>1 DEF bits, DzInv, SnapShape, Contexts
  <2>5. SnapShape' /\ DzMatches'
    BY <2>1, <2>3, <2>4 DEF DzInv, SnapShape, Shape, DzMatches
  <2> QED BY <2>2, <2>3, <2>4, <2>5 DEF DzInv, SnapFresh
<1>9. CASE HiqWrite
  <2>1. snap["cmd"][2] = dz
    BY <1>9 DEF HiqWrite, At, DzInv, SnapFresh
  <2>2. dz' = dz \ {Bmc} /\ UNCHANGED <<asleep, linked, sleep_q>>
    BY <1>9, <2>1 DEF HiqWrite, Torn, queues, stations
  <2>3. Goto("cmd", "idle", None) /\ snap' = [snap EXCEPT !["cmd"] = <<{}, {}>>]
    BY <1>9 DEF HiqWrite
  <2>4. /\ pc' \in [Contexts -> Labels] /\ DOMAIN arg' = Contexts
        /\ pc'["free"] = pc["free"] /\ arg'["free"] = arg["free"]
    BY <2>3, OtherContext DEF DzInv, SnapShape
  <2>5. pc'["cmd"] # "write" /\ pc["free"] # "write"
    <3>1. pc["free"] # "write"
      BY <1>9, NobodyWrites DEF HiqWrite, At
    <3> QED BY <2>3, <3>1 DEF Goto, DzInv, SnapShape, Shape, Contexts
  <2>6. SnapShape'
    BY <2>2, <2>3, <2>4 DEF DzInv, SnapShape, Shape
  <2>7. DzMatches'
    BY <2>2 DEF DzInv, DzMatches
  <2> QED BY <2>4, <2>5, <2>6, <2>7, DzChanges
<1>10. CASE ExpireWrite
  BY <1>10, DzCmd DEF ExpireWrite, queues, stations, DzInv, SnapShape, Shape, Contexts
<1>13. CASE ExpireMark
  <2>1. /\ UNCHANGED <<dz, asleep, linked, sleep_q>> /\ Goto("cmd", "alive", arg["cmd"])
        /\ snap' = [snap EXCEPT !["cmd"] = bits]
    BY <1>13 DEF ExpireMark, bits, queues
  <2> QED BY <2>1, DzCmd DEF DzInv, SnapShape, Shape, Contexts
<1>11. CASE PollTim
  <2>1. /\ UNCHANGED <<dz, asleep, linked, sleep_q>>
        /\ snap' = snap \/ snap' = [snap EXCEPT !["rx"] = bits]
    BY <1>11 DEF PollTim, bits, stations
  <2>2. Goto("rx", "clear", arg["rx"]) \/ Goto("rx", "idle", None)
    BY <1>11 DEF PollTim
  <2>3. DOMAIN snap' = Contexts /\ snap'["cmd"] = snap["cmd"] /\ snap'["free"] = snap["free"]
    BY <2>1 DEF DzInv, SnapShape, Contexts
  <2> QED BY <2>1, <2>2, <2>3, DzSoft DEF DzInv, SnapShape, Shape
<1>12. CASE PollClear
  <2>1. UNCHANGED <<dz, asleep, linked, sleep_q>> /\ Goto("rx", "idle", None)
    BY <1>12 DEF PollClear, queues, stations
  <2>2. DOMAIN snap' = Contexts /\ snap'["cmd"] = snap["cmd"] /\ snap'["free"] = snap["free"]
    BY <1>12 DEF PollClear, DzInv, SnapShape
  <2> QED BY <2>1, <2>2, DzSoft DEF DzInv, SnapShape, Shape
<1> QED BY <1>1, <1>2, <1>3, <1>4, <1>5, <1>6, <1>7, <1>8, <1>9, <1>10, <1>11, <1>12,
           <1>13
        DEF CmdSteps, RxSteps

LEMMA DzFree ==
    ASSUME SMP = FALSE, ParamAssumption, DzInv, FreeSteps \/ \E s \in Stas : FreePurge(s)
    PROVE  DzInv'
<1>1. ASSUME NEW s \in Stas, FreePurge(s) PROVE DzInv'
  <2>1. /\ UNCHANGED <<dz, asleep, snap>> /\ Goto("free", "clear", s)
        /\ linked' = linked \ {s} /\ sleep_q' = [sleep_q EXCEPT ![s] = <<>>]
    BY <1>1 DEF FreePurge, bits
  <2>2. /\ pc' \in [Contexts -> Labels] /\ DOMAIN arg' = Contexts
        /\ pc'["cmd"] = pc["cmd"] /\ pc'["free"] = "clear" /\ arg'["free"] = s
    BY <2>1 DEF Goto, DzInv, SnapShape, Shape, Contexts, Labels
  <2>3. SnapShape'
    BY <2>1, <2>2 DEF DzInv, SnapShape, Shape
  <2> QED BY <2>1, <2>2, <2>3, DzQuiet
<1>2. CASE FreeRead
  <2>1. /\ UNCHANGED <<dz, asleep, linked, sleep_q>> /\ Goto("free", "write", arg["free"])
        /\ snap' = [snap EXCEPT !["free"] = bits]
    BY <1>2 DEF FreeRead, bits, queues, stations
  <2>2. pc["cmd"] # "write" /\ arg["free"] \in Stas
    <3>1. pc["cmd"] # "write"
      BY <1>2, NobodyWrites DEF FreeRead, At
    <3> QED BY <1>2, <3>1 DEF FreeRead, At, DzInv, SnapShape
  <2>3. /\ pc' \in [Contexts -> Labels] /\ DOMAIN arg' = Contexts
        /\ pc'["cmd"] = pc["cmd"] /\ arg'["free"] = arg["free"]
    BY <2>1 DEF Goto, DzInv, SnapShape, Shape, Contexts, Labels
  <2>4. snap'["free"][2] = dz' /\ DOMAIN snap' = Contexts
    BY <2>1 DEF bits, DzInv, SnapShape, Contexts
  <2>5. SnapShape' /\ DzMatches'
    BY <2>1, <2>2, <2>3, <2>4 DEF DzInv, SnapShape, Shape, DzMatches
  <2> QED BY <2>2, <2>3, <2>4, <2>5 DEF DzInv, SnapFresh
<1>3. CASE FreeWrite
  <2>1. snap["free"][2] = dz /\ arg["free"] \in Stas
    BY <1>3 DEF FreeWrite, At, DzInv, SnapFresh, SnapShape
  <2>2. /\ dz' = dz \ {arg["free"]} /\ asleep' = asleep \ {arg["free"]}
        /\ UNCHANGED <<linked, sleep_q>>
    BY <1>3, <2>1 DEF FreeWrite, Torn
  <2>3. Goto("free", "idle", None) /\ snap' = [snap EXCEPT !["free"] = <<{}, {}>>]
    BY <1>3 DEF FreeWrite
  <2>4. /\ pc' \in [Contexts -> Labels] /\ DOMAIN arg' = Contexts
        /\ pc'["cmd"] = pc["cmd"] /\ pc'["free"] = "idle"
    BY <2>3 DEF Goto, DzInv, SnapShape, Shape, Contexts, Labels
  <2>5. pc["cmd"] # "write"
    BY <1>3, NobodyWrites DEF FreeWrite, At
  <2>6. SnapShape'
    BY <2>2, <2>3, <2>4 DEF DzInv, SnapShape, Shape
  <2>7. DzMatches'
    BY <2>1, <2>2 DEF DzInv, DzMatches
  <2> QED BY <2>4, <2>5, <2>6, <2>7, DzChanges
<1> QED BY <1>1, <1>2, <1>3 DEF FreeSteps

LEMMA DzStep == ASSUME SMP = FALSE, ParamAssumption, DzInv, [Next]_vars PROVE DzInv'
<1>1. CASE \E q \in Stas, ac \in ACs : TxBuffer(q, ac) \/ TxDirect(q, ac)
  BY <1>1, DzTx DEF Rcv
<1>2. CASE TxBuffer(Bmc, "be") \/ TxDirect(Bmc, "be") \/ TxPass
  BY <1>2, DzTx DEF Rcv
<1>3. CASE TaskletSteps
  BY <1>3, DzStill DEF TaskletSteps, XmitTasklet, bits, stations, control, DzInv, SnapShape, Shape
<1>4. CASE HiqDrains
  BY <1>4, DzStill DEF HiqDrains, bits, queues, stations, control, DzInv, SnapShape, Shape
<1>5. CASE \E s \in Stas : Station(s)
  BY <1>5, DzStation
<1>6. CASE RxSteps \/ CmdSteps
  BY <1>6, DzThreads
<1>7. CASE \E s \in Stas : ExpireRead(s) \/ ExpireWake(s)
  <2> PICK s \in Stas : ExpireRead(s) \/ ExpireWake(s)
    BY <1>7
  <2>1. CASE ExpireRead(s)
    BY <2>1, DzCmd DEF ExpireRead, bits, queues, stations, Labels, DzInv, SnapShape, Shape
  <2>2. CASE ExpireWake(s)
    BY <2>2, DzWake DEF ExpireWake
  <2> QED BY <2>1, <2>2
<1>8. CASE FreeSteps \/ \E s \in Stas : FreePurge(s)
  BY <1>8, DzFree
<1>9. CASE UNCHANGED vars
  BY <1>9, DzStill DEF vars, bits, queues, stations, control, DzInv, SnapShape, Shape
<1> QED BY <1>1, <1>2, <1>3, <1>4, <1>5, <1>6, <1>7, <1>8, <1>9 DEF Next

(* On one processor sta_dz_bitmap is, at every step, the set of stations   *)
(* with WIFI_SLEEP_STATE (and BIT(0) for the group): rtw_chk_hi_queue_hdl  *)
(* and rtw_free_stainfo, which write it without the lock, lose no bit.     *)
THEOREM DozingIsKnown ==
    ASSUME SMP = FALSE
    PROVE  Spec => []DzMatches
<1>1. Init => DzInv
  BY DEF Init, DzInv, SnapShape, SnapFresh, DzMatches, Shape, Contexts, Labels, Rcv
<1>2. DzInv /\ [Next]_vars => DzInv'
  BY DzStep, ParamAssumption
<1>3. DzInv => DzMatches
  BY DEF DzInv
<1> QED BY <1>1, <1>2, <1>3, PTL DEF Spec

-----------------------------------------------------------------------------
(* Lists of frames: what picking the frames of some access categories out  *)
(* of a sleep queue does to their number, their order and their contents.  *)

(* How the list grows with every frame looked at.                          *)
Grown(g, fs, A, i) ==
    IF i = 0 THEN <<>>
    ELSE IF fs[i].ac \in A THEN Append(g[i - 1], fs[i])
    ELSE g[i - 1]

Growth(g, fs, A, n) == g = [i \in 0..n |-> Grown(g, fs, A, i)]

(* The recursion has a solution for the first m frames.                    *)
LEMMA GrowthExists ==
    ASSUME NEW fs, NEW A, NEW m \in Nat
    PROVE  \E g : Growth(g, fs, A, m)
  <1> DEFINE S == {n \in Nat : \E g : Growth(g, fs, A, n)}
  <1>1. 0 \in S
    <2> DEFINE g == [i \in 0..0 |-> <<>>]
    <2>1. Growth(g, fs, A, 0)
      BY DEF Grown, Growth
    <2> QED
      BY <2>1
  <1>2. ASSUME NEW n \in S PROVE n + 1 \in S
    <2>1. PICK g : Growth(g, fs, A, n)
      OBVIOUS
    <2> DEFINE h == [i \in 0..(n + 1) |-> IF i = n + 1 THEN Grown(g, fs, A, i) ELSE g[i]]
    <2>2. ASSUME NEW i \in 0..(n + 1) PROVE h[i] = Grown(h, fs, A, i)
      <3>1. i # 0 => i - 1 \in 0..n /\ h[i - 1] = g[i - 1]
        OBVIOUS
      <3>2. h[i] = Grown(g, fs, A, i)
        <4>1. CASE i = n + 1
          BY <4>1
        <4>2. CASE i # n + 1
          <5>1. i \in 0..n
            BY <4>2
          <5>2. g[i] = Grown(g, fs, A, i)
            BY <2>1, <5>1 DEF Growth
          <5> QED
            BY <4>2, <5>2
        <4> QED
          BY <4>1, <4>2
      <3> QED
        BY <3>1, <3>2 DEF Grown
    <2>3. Growth(h, fs, A, n + 1)
      BY <2>2 DEF Growth
    <2> HIDE DEF h
    <2> QED
      BY <2>3
  <1>3. S = Nat
    <2> HIDE DEF S
    <2>1. S \in SUBSET Nat
      BY DEF S
    <2> QED
      BY <1>1, <1>2, <2>1, NatAll
  <1> QED
    BY <1>3

(* OfACs computes it.                                                      *)
LEMMA OfACsDef ==
    ASSUME NEW fs, NEW A, Len(fs) \in Nat
    PROVE  \E g : Growth(g, fs, A, Len(fs)) /\ OfACs(fs, A) = g[Len(fs)]
  <1> DEFINE Upto[i \in 0..Len(fs)] ==
            IF i = 0 THEN <<>>
            ELSE IF fs[i].ac \in A THEN Append(Upto[i - 1], fs[i])
            ELSE Upto[i - 1]
  <1>1. \E g : g = [i \in 0..Len(fs) |-> IF i = 0 THEN <<>>
            ELSE IF fs[i].ac \in A THEN Append(g[i - 1], fs[i])
            ELSE g[i - 1]]
    <2>1. PICK g : Growth(g, fs, A, Len(fs))
      BY GrowthExists
    <2>2. g = [i \in 0..Len(fs) |-> IF i = 0 THEN <<>>
            ELSE IF fs[i].ac \in A THEN Append(g[i - 1], fs[i])
            ELSE g[i - 1]]
      BY <2>1, Zenon DEF Grown, Growth
    <2> QED
      BY <2>2, Zenon
  <1>2. Upto = [i \in 0..Len(fs) |-> IF i = 0 THEN <<>>
            ELSE IF fs[i].ac \in A THEN Append(Upto[i - 1], fs[i])
            ELSE Upto[i - 1]]
    BY <1>1, Zenon
  <1>3. OfACs(fs, A) = Upto[Len(fs)]
    BY Zenon DEF OfACs
  <1> HIDE DEF Upto
  <1>4. Growth(Upto, fs, A, Len(fs))
    BY <1>2, Zenon DEF Grown, Growth
  <1> QED
    BY <1>3, <1>4, Zenon

(* Two lists that start alike grow alike.                                  *)
LEMMA GrowthUnique ==
    ASSUME NEW fs, NEW gs, NEW A, NEW m \in Nat, NEW n \in Nat, n <= m,
           NEW g, NEW h, Growth(g, fs, A, m), Growth(h, gs, A, n),
           \A i \in 1..n : fs[i] = gs[i]
    PROVE  g[n] = h[n]
  <1> DEFINE S == {k \in Nat : k <= n => g[k] = h[k]}
  <1>1. 0 \in S
    <2>1. g[0] = <<>> /\ h[0] = <<>>
      BY DEF Growth, Grown
    <2> QED
      BY <2>1
  <1>2. ASSUME NEW k \in S PROVE k + 1 \in S
    <2> SUFFICES ASSUME k + 1 <= n PROVE g[k + 1] = h[k + 1]
      OBVIOUS
    <2>1. g[k] = h[k] /\ k \in Nat
      OBVIOUS
    <2>2. g[k + 1] = Grown(g, fs, A, k + 1)
      <3>1. k + 1 \in 0..m
        BY <2>1
      <3> QED
        BY <3>1 DEF Growth
    <2>3. h[k + 1] = Grown(h, gs, A, k + 1)
      <3>1. k + 1 \in 0..n
        BY <2>1
      <3> QED
        BY <3>1 DEF Growth
    <2>4. fs[k + 1] = gs[k + 1] /\ (k + 1) - 1 = k /\ k + 1 # 0
      BY <2>1
    <2> QED
      BY <2>1, <2>2, <2>3, <2>4 DEF Grown
  <1>3. S = Nat
    <2> HIDE DEF S
    <2>1. S \in SUBSET Nat
      BY DEF S
    <2> QED
      BY <1>1, <1>2, <2>1, NatAll
  <1>4. n \in S
    BY <1>3
  <1> QED
    BY <1>4

(* Nothing is picked out of nothing.                                       *)
LEMMA OfACsEmpty ==
    ASSUME NEW A
    PROVE  OfACs(<<>>, A) = <<>>
  <1>1. Len(<<>>) = 0
    OBVIOUS
  <1>2. PICK g : Growth(g, <<>>, A, 0) /\ OfACs(<<>>, A) = g[0]
    BY <1>1, OfACsDef
  <1> QED
    BY <1>2 DEF Growth, Grown

(* One more frame is picked, at the end, when its category is in A.        *)
LEMMA OfACsAppend ==
    ASSUME NEW E, NEW fs \in Seq(E), NEW f \in E, NEW A
    PROVE  OfACs(Append(fs, f), A) =
             IF f.ac \in A THEN Append(OfACs(fs, A), f) ELSE OfACs(fs, A)
  <1> DEFINE n == Len(fs)
             gs == Append(fs, f)
  <1>1. /\ n \in Nat /\ Len(gs) = n + 1 /\ gs[n + 1] = f
        /\ \A i \in 1..n : gs[i] = fs[i]
    OBVIOUS
  <1>2. PICK h : Growth(h, fs, A, n) /\ OfACs(fs, A) = h[n]
    BY <1>1, OfACsDef
  <1> HIDE DEF n, gs
  <1>3. PICK g : Growth(g, gs, A, n + 1) /\ OfACs(gs, A) = g[n + 1]
    <2>1. Len(gs) \in Nat
      BY <1>1
    <2>2. \E g : Growth(g, gs, A, Len(gs)) /\ OfACs(gs, A) = g[Len(gs)]
      BY <2>1, OfACsDef
    <2> QED
      BY <1>1, <2>2
  <1>4. g[n] = h[n]
    BY <1>1, <1>2, <1>3, GrowthUnique
  <1>5. g[n + 1] = Grown(g, gs, A, n + 1)
    BY <1>1, <1>2 DEF Growth
  <1>6. (n + 1) - 1 = n /\ n + 1 # 0
    BY <1>1
  <1>7. OfACs(gs, A) = IF f.ac \in A THEN Append(OfACs(fs, A), f) ELSE OfACs(fs, A)
    BY <1>1, <1>2, <1>3, <1>4, <1>5, <1>6 DEF Grown
  <1> QED
    BY <1>7 DEF gs

(* What is picked are frames of the list.                                  *)
LEMMA OfACsType ==
    ASSUME NEW E, NEW A, NEW fs \in Seq(E)
    PROVE  OfACs(fs, A) \in Seq(E)
  <1> DEFINE T == {gs \in Seq(E) : OfACs(gs, A) \in Seq(E)}
  <1>1. <<>> \in T
    <2>1. OfACs(<<>>, A) = <<>> /\ <<>> \in Seq(E)
      BY OfACsEmpty
    <2> QED
      BY <2>1
  <1>2. ASSUME NEW gs \in T, NEW f \in E PROVE Append(gs, f) \in T
    <2>1. gs \in Seq(E) /\ OfACs(gs, A) \in Seq(E)
      OBVIOUS
    <2>2. OfACs(Append(gs, f), A) \in {OfACs(gs, A), Append(OfACs(gs, A), f)}
      BY <2>1, OfACsAppend
    <2>3. Append(OfACs(gs, A), f) \in Seq(E)
      BY <2>1
    <2>4. OfACs(Append(gs, f), A) \in Seq(E)
      BY <2>1, <2>2, <2>3, Zenon
    <2>5. Append(gs, f) \in Seq(E)
      BY <2>1
    <2> QED
      BY <2>4, <2>5
  <1>3. T = Seq(E)
    <2> HIDE DEF T
    <2>1. T \in SUBSET Seq(E)
      BY DEF T
    <2> QED
      BY <1>1, <1>2, <2>1, SeqAll
  <1>4. fs \in T
    BY <1>3
  <1> QED
    BY <1>4

(* Their categories are in A.                                              *)
LEMMA OfACsIn ==
    ASSUME NEW E, NEW A, NEW fs \in Seq(E)
    PROVE  OfACs(fs, A) \in Seq({f \in E : f.ac \in A})
  <1> DEFINE D == {f \in E : f.ac \in A}
             T == {gs \in Seq(E) : OfACs(gs, A) \in Seq(D)}
  <1>1. <<>> \in T
    <2>1. OfACs(<<>>, A) = <<>> /\ <<>> \in Seq(E) /\ <<>> \in Seq(D)
      BY OfACsEmpty
    <2> QED
      BY <2>1
  <1>2. ASSUME NEW gs \in T, NEW f \in E PROVE Append(gs, f) \in T
    <2>1. gs \in Seq(E) /\ OfACs(gs, A) \in Seq(D)
      OBVIOUS
    <2>2. CASE f.ac \in A
      <3>1. f \in D
        BY <2>2
      <3>2. OfACs(Append(gs, f), A) = Append(OfACs(gs, A), f)
        BY <2>1, <2>2, OfACsAppend
      <3> HIDE DEF D
      <3> QED
        BY <2>1, <3>1, <3>2
    <2>3. CASE f.ac \notin A
      <3>1. OfACs(Append(gs, f), A) = OfACs(gs, A)
        BY <2>1, <2>3, OfACsAppend
      <3> QED
        BY <2>1, <3>1
    <2> QED
      BY <2>2, <2>3
  <1>3. T = Seq(E)
    <2> HIDE DEF T
    <2>1. T \in SUBSET Seq(E)
      BY DEF T
    <2> QED
      BY <1>1, <1>2, <2>1, SeqAll
  <1>4. fs \in T
    BY <1>3
  <1> QED
    BY <1>4

(* To append to the second of two lists is to append to both of them.      *)
LEMMA AppendAfter ==
    ASSUME NEW E, NEW p \in Seq(E), NEW w \in Seq(E), NEW f \in E
    PROVE  p \o Append(w, f) = Append(p \o w, f)
  OBVIOUS

(* From a list after a list one picks from each.                           *)
LEMMA OfACsConcat ==
    ASSUME NEW E, NEW A, NEW fs \in Seq(E), NEW gs \in Seq(E)
    PROVE  OfACs(fs \o gs, A) = OfACs(fs, A) \o OfACs(gs, A)
  <1> DEFINE T == {hs \in Seq(E) : OfACs(fs \o hs, A) = OfACs(fs, A) \o OfACs(hs, A)}
  <1>0. OfACs(fs, A) \in Seq(E)
    BY OfACsType
  <1>1. <<>> \in T
    <2>1. fs \o <<>> = fs /\ OfACs(fs, A) \o <<>> = OfACs(fs, A)
      BY <1>0
    <2>2. OfACs(<<>>, A) = <<>> /\ <<>> \in Seq(E)
      BY OfACsEmpty
    <2> QED
      BY <2>1, <2>2
  <1>2. ASSUME NEW hs \in T, NEW f \in E PROVE Append(hs, f) \in T
    <2>1. /\ hs \in Seq(E) /\ fs \o hs \in Seq(E)
          /\ OfACs(fs \o hs, A) = OfACs(fs, A) \o OfACs(hs, A)
      OBVIOUS
    <2>2. OfACs(hs, A) \in Seq(E)
      BY <2>1, OfACsType
    <2>3. /\ fs \o Append(hs, f) = Append(fs \o hs, f)
          /\ OfACs(fs, A) \o Append(OfACs(hs, A), f)
               = Append(OfACs(fs, A) \o OfACs(hs, A), f)
      <3>1. fs \o Append(hs, f) = Append(fs \o hs, f)
        BY <2>1, AppendAfter
      <3>2. OfACs(fs, A) \o Append(OfACs(hs, A), f) = Append(OfACs(fs, A) \o OfACs(hs, A), f)
        BY <1>0, <2>2, AppendAfter
      <3> QED
        BY <3>1, <3>2
    <2> HIDE DEF T
    <2>4. OfACs(fs \o Append(hs, f), A) = OfACs(fs, A) \o OfACs(Append(hs, f), A)
      <3>1. OfACs(Append(fs \o hs, f), A) =
              IF f.ac \in A THEN Append(OfACs(fs \o hs, A), f) ELSE OfACs(fs \o hs, A)
        <4> DEFINE js == fs \o hs
        <4>1. js \in Seq(E)
          BY <2>1
        <4> HIDE DEF js
        <4>2. OfACs(Append(js, f), A) =
                IF f.ac \in A THEN Append(OfACs(js, A), f) ELSE OfACs(js, A)
          BY <4>1, OfACsAppend
        <4> QED
          BY <4>2 DEF js
      <3>2. OfACs(Append(hs, f), A) =
              IF f.ac \in A THEN Append(OfACs(hs, A), f) ELSE OfACs(hs, A)
        BY <2>1, OfACsAppend
      <3> QED
        BY <2>1, <2>3, <3>1, <3>2, Zenon
    <2>5. Append(hs, f) \in Seq(E)
      BY <2>1
    <2> QED
      BY <2>4, <2>5 DEF T
  <1>3. T = Seq(E)
    <2> HIDE DEF T
    <2>1. T \in SUBSET Seq(E)
      BY DEF T
    <2> QED
      BY <1>1, <1>2, <2>1, SeqAll
  <1>4. gs \in T
    BY <1>3
  <1> QED
    BY <1>4

(* The frames of A and the frames of B are all of them, when every frame   *)
(* is of one of the two.                                                   *)
LEMMA OfACsSplit ==
    ASSUME NEW E, NEW A, NEW B, NEW fs \in Seq(E),
           \A f \in E : f.ac \in A <=> f.ac \notin B
    PROVE  /\ Len(OfACs(fs, A)) \in Nat /\ Len(OfACs(fs, B)) \in Nat
           /\ Len(OfACs(fs, A)) + Len(OfACs(fs, B)) = Len(fs)
  <1> DEFINE T == {gs \in Seq(E) : Len(OfACs(gs, A)) + Len(OfACs(gs, B)) = Len(gs)}
  <1>1. <<>> \in T
    BY OfACsEmpty
  <1>2. ASSUME NEW gs \in T, NEW f \in E PROVE Append(gs, f) \in T
    <2>1. gs \in Seq(E) /\ Len(OfACs(gs, A)) + Len(OfACs(gs, B)) = Len(gs)
      OBVIOUS
    <2>2. OfACs(gs, A) \in Seq(E) /\ OfACs(gs, B) \in Seq(E)
      BY <2>1, OfACsType
    <2>3. CASE f.ac \in A
      <3>1. /\ OfACs(Append(gs, f), A) = Append(OfACs(gs, A), f)
            /\ OfACs(Append(gs, f), B) = OfACs(gs, B)
        BY <2>1, <2>3, OfACsAppend
      <3> QED
        BY <2>1, <2>2, <3>1
    <2>4. CASE f.ac \notin A
      <3>1. /\ OfACs(Append(gs, f), B) = Append(OfACs(gs, B), f)
            /\ OfACs(Append(gs, f), A) = OfACs(gs, A)
        BY <2>1, <2>4, OfACsAppend
      <3> QED
        BY <2>1, <2>2, <3>1
    <2> QED
      BY <2>3, <2>4
  <1>3. T = Seq(E)
    <2> HIDE DEF T
    <2>1. T \in SUBSET Seq(E)
      BY DEF T
    <2> QED
      BY <1>1, <1>2, <2>1, SeqAll
  <1>4. fs \in T
    BY <1>3
  <1>5. OfACs(fs, A) \in Seq(E) /\ OfACs(fs, B) \in Seq(E)
    BY OfACsType
  <1> QED
    BY <1>4, <1>5

(* Picking A and then B is picking what is in both, and picking a category *)
(* that no frame has, or that every frame has, is picking none or all.     *)
LEMMA OfACsTwice ==
    ASSUME NEW E, NEW A, NEW B, NEW fs \in Seq(E)
    PROVE  OfACs(OfACs(fs, A), B) = OfACs(fs, A \cap B)
  <1> DEFINE T == {gs \in Seq(E) : OfACs(OfACs(gs, A), B) = OfACs(gs, A \cap B)}
  <1>1. <<>> \in T
    <2>1. /\ OfACs(<<>>, A) = <<>> /\ OfACs(<<>>, B) = <<>>
          /\ OfACs(<<>>, A \cap B) = <<>> /\ <<>> \in Seq(E)
      BY OfACsEmpty
    <2> QED
      BY <2>1
  <1>2. ASSUME NEW gs \in T, NEW f \in E PROVE Append(gs, f) \in T
    <2>1. gs \in Seq(E) /\ OfACs(OfACs(gs, A), B) = OfACs(gs, A \cap B)
      OBVIOUS
    <2>2. OfACs(gs, A) \in Seq(E)
      BY <2>1, OfACsType
    <2>3. OfACs(Append(gs, f), A \cap B) =
            IF f.ac \in A \cap B THEN Append(OfACs(gs, A \cap B), f) ELSE OfACs(gs, A \cap B)
      <3> DEFINE C == A \cap B
      <3> HIDE DEF C
      <3>1. OfACs(Append(gs, f), C) =
              IF f.ac \in C THEN Append(OfACs(gs, C), f) ELSE OfACs(gs, C)
        BY <2>1, OfACsAppend
      <3> QED
        BY <3>1 DEF C
    <2>4. CASE f.ac \in A
      <3>1. OfACs(Append(gs, f), A) = Append(OfACs(gs, A), f)
        BY <2>1, <2>4, OfACsAppend, Zenon
      <3>2. OfACs(Append(OfACs(gs, A), f), B) =
              IF f.ac \in B THEN Append(OfACs(OfACs(gs, A), B), f) ELSE OfACs(OfACs(gs, A), B)
        <4> DEFINE hs == OfACs(gs, A)
        <4> HIDE DEF hs
        <4>0. hs \in Seq(E)
          BY <2>2 DEF hs
        <4>1. OfACs(Append(hs, f), B) =
                IF f.ac \in B THEN Append(OfACs(hs, B), f) ELSE OfACs(hs, B)
          BY <4>0, OfACsAppend
        <4> QED
          BY <4>1 DEF hs
      <3>3. f.ac \in A \cap B <=> f.ac \in B
        BY <2>4
      <3>4. OfACs(OfACs(Append(gs, f), A), B) = OfACs(Append(gs, f), A \cap B)
        BY <2>1, <2>3, <3>1, <3>2, <3>3, Zenon
      <3> QED
        BY <2>1, <3>4
    <2>5. CASE f.ac \notin A
      <3>1. OfACs(Append(gs, f), A) = OfACs(gs, A)
        BY <2>1, <2>5, OfACsAppend
      <3>2. OfACs(OfACs(Append(gs, f), A), B) = OfACs(Append(gs, f), A \cap B)
        BY <2>1, <2>3, <2>5, <3>1, Zenon
      <3> QED
        BY <2>1, <3>2
    <2> QED
      BY <2>4, <2>5
  <1>3. T = Seq(E)
    <2> HIDE DEF T
    <2>1. T \in SUBSET Seq(E)
      BY DEF T
    <2> QED
      BY <1>1, <1>2, <2>1, SeqAll
  <1>4. fs \in T
    BY <1>3
  <1> QED
    BY <1>4

LEMMA OfACsNone ==
    ASSUME NEW E, NEW A, NEW fs \in Seq(E), \A f \in E : f.ac \notin A
    PROVE  OfACs(fs, A) = <<>>
  <1> DEFINE T == {gs \in Seq(E) : OfACs(gs, A) = <<>>}
  <1>1. <<>> \in T
    <2>1. OfACs(<<>>, A) = <<>> /\ <<>> \in Seq(E)
      BY OfACsEmpty
    <2> QED
      BY <2>1
  <1>2. ASSUME NEW gs \in T, NEW f \in E PROVE Append(gs, f) \in T
    <2>1. gs \in Seq(E) /\ OfACs(gs, A) = <<>>
      OBVIOUS
    <2>2. OfACs(Append(gs, f), A) = OfACs(gs, A)
      BY <2>1, OfACsAppend
    <2> QED
      BY <2>1, <2>2
  <1>3. T = Seq(E)
    <2> HIDE DEF T
    <2>1. T \in SUBSET Seq(E)
      BY DEF T
    <2> QED
      BY <1>1, <1>2, <2>1, SeqAll
  <1>4. fs \in T
    BY <1>3
  <1> QED
    BY <1>4

LEMMA OfACsAll ==
    ASSUME NEW E, NEW A, NEW fs \in Seq(E), \A f \in E : f.ac \in A
    PROVE  OfACs(fs, A) = fs
  <1> DEFINE T == {gs \in Seq(E) : OfACs(gs, A) = gs}
  <1>1. <<>> \in T
    <2>1. OfACs(<<>>, A) = <<>> /\ <<>> \in Seq(E)
      BY OfACsEmpty
    <2> QED
      BY <2>1
  <1>2. ASSUME NEW gs \in T, NEW f \in E PROVE Append(gs, f) \in T
    <2>1. gs \in Seq(E) /\ OfACs(gs, A) = gs
      OBVIOUS
    <2>2. OfACs(Append(gs, f), A) = Append(OfACs(gs, A), f)
      BY <2>1, OfACsAppend
    <2> QED
      BY <2>1, <2>2
  <1>3. T = Seq(E)
    <2> HIDE DEF T
    <2>1. T \in SUBSET Seq(E)
      BY DEF T
    <2> QED
      BY <1>1, <1>2, <2>1, SeqAll
  <1>4. fs \in T
    BY <1>3
  <1> QED
    BY <1>4

(* Marking frames keeps their number, their numbers and their categories,  *)
(* and so which of them are picked.                                        *)
LEMMA MarkType ==
    ASSUME NEW fs \in Seq(Frame), NEW v \in {"new", "release"}
    PROVE  /\ Mark(fs, v) \in Seq(Frame) /\ Len(Mark(fs, v)) = Len(fs)
           /\ \A i \in 1..Len(fs) : /\ Mark(fs, v)[i].n = fs[i].n
                                     /\ Mark(fs, v)[i].ac = fs[i].ac
                                     /\ Mark(fs, v)[i].via = v
  <1>1. \A i \in 1..Len(fs) : fs[i] \in Frame
    OBVIOUS
  <1>2. \A i \in 1..Len(fs) : /\ [fs[i] EXCEPT !.via = v] \in Frame
                              /\ [fs[i] EXCEPT !.via = v].n = fs[i].n
                              /\ [fs[i] EXCEPT !.via = v].ac = fs[i].ac
                              /\ [fs[i] EXCEPT !.via = v].via = v
    BY <1>1 DEF Frame
  <1>3. Len(fs) \in Nat
    OBVIOUS
  <1>4. Mark(fs, v) \in [1..Len(fs) -> Frame]
    BY <1>2 DEF Mark
  <1>5. Mark(fs, v) \in Seq(Frame) /\ Len(Mark(fs, v)) = Len(fs)
    BY <1>3, <1>4
  <1>6. \A i \in 1..Len(fs) : Mark(fs, v)[i] = [fs[i] EXCEPT !.via = v]
    BY DEF Mark
  <1> QED
    BY <1>2, <1>5, <1>6

LEMMA RaisedType ==
    ASSUME NEW fs \in Seq(Frame), NEW special
    PROVE  /\ Raised(fs, special) \in Seq(Frame) /\ Len(Raised(fs, special)) = Len(fs)
           /\ \A i \in 1..Len(fs) : /\ Raised(fs, special)[i].n = fs[i].n
                                     /\ Raised(fs, special)[i].ac = fs[i].ac
  <1>1. \A i \in 1..Len(fs) : fs[i] \in Frame
    OBVIOUS
  <1>2. ASSUME NEW i \in 1..Len(fs)
        PROVE  LET g == [fs[i] EXCEPT !.hi = @ \/ fs[i].n \in special]
               IN  g \in Frame /\ g.n = fs[i].n /\ g.ac = fs[i].ac
    <2>1. (fs[i].hi \/ fs[i].n \in special) \in BOOLEAN
      BY <1>1 DEF Frame
    <2> QED
      BY <1>1, <2>1 DEF Frame
  <1>3. Len(fs) \in Nat
    OBVIOUS
  <1>4. Raised(fs, special) \in [1..Len(fs) -> Frame]
    BY <1>2 DEF Raised
  <1>5. Raised(fs, special) \in Seq(Frame) /\ Len(Raised(fs, special)) = Len(fs)
    BY <1>3, <1>4
  <1>6. \A i \in 1..Len(fs) :
          Raised(fs, special)[i] = [fs[i] EXCEPT !.hi = @ \/ fs[i].n \in special]
    BY DEF Raised
  <1> QED
    BY <1>2, <1>5, <1>6

(* Lists of the same frames, marked or not.                                *)
Alike(fs, gs) ==
    /\ Len(fs) = Len(gs)
    /\ \A i \in 1..Len(fs) : fs[i].n = gs[i].n /\ fs[i].ac = gs[i].ac

LEMMA AlikeAppend ==
    ASSUME NEW fs \in Seq(Frame), NEW gs \in Seq(Frame), NEW f \in Frame, NEW g \in Frame
    PROVE  Alike(Append(fs, f), Append(gs, g)) <=>
             Alike(fs, gs) /\ f.n = g.n /\ f.ac = g.ac
  <1> DEFINE ff == Append(fs, f)
             gg == Append(gs, g)
  <1>1. /\ Len(fs) \in Nat /\ Len(gs) \in Nat
        /\ Len(ff) = Len(fs) + 1 /\ Len(gg) = Len(gs) + 1
        /\ ff[Len(fs) + 1] = f /\ gg[Len(gs) + 1] = g
        /\ \A i \in 1..Len(fs) : ff[i] = fs[i]
        /\ \A i \in 1..Len(gs) : gg[i] = gs[i]
    OBVIOUS
  <1> HIDE DEF ff, gg
  <1>2. Alike(ff, gg) <=> Alike(fs, gs) /\ f.n = g.n /\ f.ac = g.ac
    BY <1>1 DEF Alike
  <1> QED
    BY <1>2 DEF ff, gg

LEMMA AlikePicked ==
    ASSUME NEW A, NEW ls \in Seq(Frame), NEW rs \in Seq(Frame), Alike(ls, rs)
    PROVE  Alike(OfACs(ls, A), OfACs(rs, A))
  <1> DEFINE Ok(fs) == \A gs \in Seq(Frame) : Alike(fs, gs) => Alike(OfACs(fs, A), OfACs(gs, A))
             T == {fs \in Seq(Frame) : Ok(fs)}
  <1>1. <<>> \in T
    <2> SUFFICES ASSUME NEW gs \in Seq(Frame), Alike(<<>>, gs)
                 PROVE  Alike(OfACs(<<>>, A), OfACs(gs, A))
      OBVIOUS
    <2>1. gs = <<>>
      BY DEF Alike
    <2>2. OfACs(<<>>, A) = <<>>
      BY OfACsEmpty
    <2> QED
      BY <2>1, <2>2 DEF Alike
  <1>2. ASSUME NEW fs \in T, NEW f \in Frame PROVE Append(fs, f) \in T
    <2> SUFFICES ASSUME NEW hs \in Seq(Frame), Alike(Append(fs, f), hs)
                 PROVE  Alike(OfACs(Append(fs, f), A), OfACs(hs, A))
      OBVIOUS
    <2>1. fs \in Seq(Frame) /\ Ok(fs)
      OBVIOUS
    <2> HIDE DEF Ok
    <2>2. hs # <<>>
      BY <2>1 DEF Alike
    <2>3. PICK gs \in Seq(Frame), g \in Frame : hs = Append(gs, g)
      BY <2>2, SequenceEmptyOrAppend
    <2>4. Alike(fs, gs) /\ f.n = g.n /\ f.ac = g.ac
      BY <2>1, <2>3, AlikeAppend
    <2>5. Alike(OfACs(fs, A), OfACs(gs, A))
      BY <2>1, <2>4 DEF Ok
    <2>6. OfACs(fs, A) \in Seq(Frame) /\ OfACs(gs, A) \in Seq(Frame)
      BY <2>1, OfACsType
    <2>7. CASE f.ac \in A
      <3>1. OfACs(Append(fs, f), A) = Append(OfACs(fs, A), f)
        BY <2>1, <2>7, OfACsAppend
      <3>2. OfACs(hs, A) = Append(OfACs(gs, A), g)
        BY <2>3, <2>4, <2>7, OfACsAppend
      <3> QED
        BY <2>4, <2>5, <2>6, <3>1, <3>2, AlikeAppend
    <2>8. CASE f.ac \notin A
      <3>1. OfACs(Append(fs, f), A) = OfACs(fs, A)
        BY <2>1, <2>8, OfACsAppend
      <3>2. OfACs(hs, A) = OfACs(gs, A)
        BY <2>3, <2>4, <2>8, OfACsAppend
      <3> QED
        BY <2>5, <3>1, <3>2
    <2> QED
      BY <2>7, <2>8
  <1>3. T = Seq(Frame)
    <2> HIDE DEF T
    <2>1. T \in SUBSET Seq(Frame)
      BY DEF T
    <2> QED
      BY <1>1, <1>2, <2>1, SeqAll
  <1>4. ls \in T
    BY <1>3
  <1> QED
    BY <1>4

LEMMA AlikeMarked ==
    ASSUME NEW fs \in Seq(Frame), NEW v \in {"new", "release"}, NEW A
    PROVE  /\ OfACs(fs, A) \in Seq(Frame) /\ OfACs(Mark(fs, v), A) \in Seq(Frame)
           /\ Alike(OfACs(fs, A), OfACs(Mark(fs, v), A))
  <1>1. Mark(fs, v) \in Seq(Frame) /\ Alike(fs, Mark(fs, v))
    BY MarkType DEF Alike
  <1> QED
    BY <1>1, OfACsType, AlikePicked

LEMMA AlikeBefore ==
    ASSUME NEW ps \in Seq(Frame), NEW fs \in Seq(Frame), NEW gs \in Seq(Frame), Alike(fs, gs)
    PROVE  Alike(ps \o fs, ps \o gs)
  <1> DEFINE ls == ps \o fs
             rs == ps \o gs
  <1>1. /\ Len(ls) = Len(ps) + Len(fs)
        /\ \A i \in 1..(Len(ps) + Len(fs)) : ls[i] = IF i <= Len(ps) THEN ps[i] ELSE fs[i - Len(ps)]
    BY ConcatProperties
  <1>2. /\ Len(rs) = Len(ps) + Len(gs)
        /\ \A i \in 1..(Len(ps) + Len(gs)) : rs[i] = IF i <= Len(ps) THEN ps[i] ELSE gs[i - Len(ps)]
    BY ConcatProperties
  <1>3. Len(ps) \in Nat /\ Len(fs) \in Nat /\ Len(fs) = Len(gs)
    BY DEF Alike
  <1> HIDE DEF ls, rs
  <1>4. ASSUME NEW i \in 1..Len(ls) PROVE ls[i].n = rs[i].n /\ ls[i].ac = rs[i].ac
    <2>1. CASE i <= Len(ps)
      BY <1>1, <1>2, <1>3, <2>1
    <2>2. CASE ~ (i <= Len(ps))
      <3>1. i - Len(ps) \in 1..Len(fs)
        BY <1>1, <1>3, <2>2
      <3>2. ls[i] = fs[i - Len(ps)] /\ rs[i] = gs[i - Len(ps)]
        BY <1>1, <1>2, <1>3, <2>2
      <3> QED
        BY <3>1, <3>2 DEF Alike
    <2> QED
      BY <2>1, <2>2
  <1>5. Alike(ls, rs)
    BY <1>1, <1>2, <1>3, <1>4 DEF Alike
  <1> QED
    BY <1>5 DEF ls, rs

LEMMA AlikeAfter ==
    ASSUME NEW ps \in Seq(Frame), NEW fs \in Seq(Frame), NEW gs \in Seq(Frame), Alike(fs, gs)
    PROVE  Alike(fs \o ps, gs \o ps)
  <1> DEFINE ls == fs \o ps
             rs == gs \o ps
  <1>1. /\ Len(ls) = Len(fs) + Len(ps)
        /\ \A i \in 1..(Len(fs) + Len(ps)) : ls[i] = IF i <= Len(fs) THEN fs[i] ELSE ps[i - Len(fs)]
    BY ConcatProperties
  <1>2. /\ Len(rs) = Len(gs) + Len(ps)
        /\ \A i \in 1..(Len(gs) + Len(ps)) : rs[i] = IF i <= Len(gs) THEN gs[i] ELSE ps[i - Len(gs)]
    BY ConcatProperties
  <1>3. Len(ps) \in Nat /\ Len(fs) \in Nat /\ Len(fs) = Len(gs)
    BY DEF Alike
  <1> HIDE DEF ls, rs
  <1>4. ASSUME NEW i \in 1..Len(ls) PROVE ls[i].n = rs[i].n /\ ls[i].ac = rs[i].ac
    <2>1. CASE i <= Len(fs)
      <3>1. i \in 1..Len(fs) /\ ls[i] = fs[i] /\ rs[i] = gs[i]
        BY <1>1, <1>2, <1>3, <2>1
      <3> QED
        BY <3>1 DEF Alike
    <2>2. CASE ~ (i <= Len(fs))
      BY <1>1, <1>2, <1>3, <2>2
    <2> QED
      BY <2>1, <2>2
  <1>5. Alike(ls, rs)
    BY <1>1, <1>2, <1>3, <1>4 DEF Alike
  <1> QED
    BY <1>5 DEF ls, rs

(* The numbers of ls rise from above k to at most top.                     *)
Rises(ls, k, top) ==
    /\ \A i, j \in 1..Len(ls) : i < j => ls[i].n < ls[j].n
    /\ \A i \in 1..Len(ls) : k < ls[i].n /\ ls[i].n <= top

LEMMA RisesAlike ==
    ASSUME NEW ls, NEW rs, NEW k, NEW top, Alike(ls, rs), Rises(ls, k, top)
    PROVE  Rises(rs, k, top)
BY DEF Alike, Rises

LEMMA RisesHigher ==
    ASSUME NEW ls \in Seq(Frame), NEW k, NEW top \in Int, NEW up \in Int, top <= up,
           Rises(ls, k, top)
    PROVE  Rises(ls, k, up)
  <1>1. \A i \in 1..Len(ls) : ls[i] \in Frame
    OBVIOUS
  <1>2. \A i \in 1..Len(ls) : ls[i].n \in Int
    BY <1>1 DEF Frame
  <1> QED
    BY <1>2 DEF Rises

LEMMA RisesAppend ==
    ASSUME NEW ls \in Seq(Frame), NEW f \in Frame, NEW k \in Int, NEW top \in Int,
           NEW up \in Int, Rises(ls, k, top), k <= top, top < f.n, f.n <= up
    PROVE  Rises(Append(ls, f), k, up)
  <1> DEFINE rs == Append(ls, f)
  <1>1. /\ Len(rs) = Len(ls) + 1 /\ Len(ls) \in Nat /\ rs[Len(ls) + 1] = f
        /\ \A i \in 1..Len(ls) : rs[i] = ls[i] /\ ls[i] \in Frame
    OBVIOUS
  <1> HIDE DEF rs
  <1>2. f.n \in Int /\ \A i \in 1..Len(ls) : ls[i].n \in Int
    BY <1>1 DEF Frame
  <1>3. \A i \in 1..Len(ls) : k < ls[i].n /\ ls[i].n <= top
    BY DEF Rises
  <1>4. ASSUME NEW i \in 1..Len(rs) PROVE k < rs[i].n /\ rs[i].n <= up
    <2>1. CASE i = Len(ls) + 1
      BY <1>1, <1>2, <2>1
    <2>2. CASE i \in 1..Len(ls)
      BY <1>1, <1>2, <1>3, <2>2
    <2> QED
      BY <1>1, <2>1, <2>2
  <1>5. ASSUME NEW i \in 1..Len(rs), NEW j \in 1..Len(rs), i < j PROVE rs[i].n < rs[j].n
    <2>0. i \in 1..Len(ls)
      BY <1>1, <1>5
    <2>1. CASE j = Len(ls) + 1
      BY <1>1, <1>2, <1>3, <2>0, <2>1
    <2>2. CASE j \in 1..Len(ls)
      BY <1>1, <1>5, <2>0, <2>2 DEF Rises
    <2> QED
      BY <1>1, <2>1, <2>2
  <1>6. Rises(rs, k, up)
    BY <1>4, <1>5 DEF Rises
  <1> QED
    BY <1>6 DEF rs

LEMMA RisesDrop ==
    ASSUME NEW p \in Seq(Frame), NEW w \in Seq(Frame), NEW k \in Int, NEW top \in Int,
           p # <<>>, Rises(p \o w, k, top)
    PROVE  Rises(Tail(p) \o w, Head(p).n, top) /\ Head(p).n \in Int /\ Head(p).n <= top
  <1> DEFINE ls == p \o w
             t  == Tail(p)
             rs == t \o w
  <1>1. /\ t \in Seq(Frame) /\ Len(t) = Len(p) - 1 /\ Len(p) \in Nat /\ Len(p) > 0
        /\ Len(w) \in Nat /\ Head(p) = p[1] /\ p[1] \in Frame
        /\ \A i \in 1..Len(t) : t[i] = p[i + 1]
    OBVIOUS
  <1>2. /\ Len(ls) = Len(p) + Len(w)
        /\ \A i \in 1..(Len(p) + Len(w)) : ls[i] = IF i <= Len(p) THEN p[i] ELSE w[i - Len(p)]
    BY ConcatProperties
  <1> HIDE DEF t
  <1>3. /\ Len(rs) = Len(t) + Len(w)
        /\ \A i \in 1..(Len(t) + Len(w)) : rs[i] = IF i <= Len(t) THEN t[i] ELSE w[i - Len(t)]
    BY <1>1, ConcatProperties
  <1> HIDE DEF ls, rs
  <1>4. Rises(ls, k, top)
    BY DEF ls
  <1>5. Len(ls) = Len(rs) + 1 /\ Len(rs) \in Nat
    BY <1>1, <1>2, <1>3
  <1>6. ASSUME NEW i \in 1..Len(rs) PROVE rs[i] = ls[i + 1] /\ i + 1 \in 1..Len(ls)
    <2>1. CASE i <= Len(t)
      BY <1>1, <1>2, <1>3, <2>1
    <2>2. CASE ~ (i <= Len(t))
      <3>1. i - Len(t) = (i + 1) - Len(p)
        BY <1>1
      <3>2. i + 1 \in 1..Len(ls) /\ i + 1 \in 1..(Len(p) + Len(w)) /\ ~ (i + 1 <= Len(p))
        BY <1>1, <1>2, <1>5, <2>2
      <3>3. ls[i + 1] = w[(i + 1) - Len(p)]
        BY <1>2, <3>2
      <3>4. rs[i] = w[i - Len(t)]
        BY <1>3, <2>2
      <3> QED
        BY <3>1, <3>2, <3>3, <3>4, Zenon
    <2> QED
      BY <2>1, <2>2
  <1>7. 1 \in 1..Len(ls) /\ ls[1] = Head(p) /\ Head(p).n \in Int
    <2>1. 1 \in 1..Len(ls) /\ ls[1] = Head(p)
      BY <1>1, <1>2
    <2> QED
      BY <1>1, <2>1 DEF Frame
  <1>8. Rises(rs, Head(p).n, top)
    <2>1. ASSUME NEW i \in 1..Len(rs), NEW j \in 1..Len(rs), i < j PROVE rs[i].n < rs[j].n
      <3>1. i + 1 < j + 1
        BY <2>1
      <3> QED
        BY <1>4, <1>6, <3>1 DEF Rises
    <2>2. ASSUME NEW i \in 1..Len(rs) PROVE Head(p).n < rs[i].n /\ rs[i].n <= top
      <3>1. 1 < i + 1
        OBVIOUS
      <3> QED
        BY <1>4, <1>6, <1>7, <3>1 DEF Rises
    <2> QED
      BY <2>1, <2>2 DEF Rises
  <1> QED
    BY <1>4, <1>7, <1>8 DEF Rises, rs, t
=============================================================================
