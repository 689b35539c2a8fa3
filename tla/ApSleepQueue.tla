---------------------------- MODULE ApSleepQueue ----------------------------
(***************************************************************************)
(* Power saving of the stations of an access point: the frames held for    *)
(* dozing stations, the TIM the beacon shows, PS-Poll and U-APSD release,  *)
(* and the group frames that wait for the command thread                   *)
(* (core/rtw_xmit.c, rtw_recv.c, rtw_mlme_ext.c, rtw_cmd.c, rtw_ap.c).     *)
(*                                                                         *)
(* Four contexts: "tx" (rtw_xmit, bottom halves disabled), "rx" (the RX    *)
(* tasklet), "cmd" (the command thread) and "free" (rtw_free_stainfo).     *)
(* The queues are only touched under pxmitpriv->lock, so each critical     *)
(* section is one step; the two bitmaps and the counters are also read and *)
(* written without it.                                                     *)
(*                                                                         *)
(* SMP says on how many processors the driver runs.  On one, a tasklet or  *)
(* a thread with bottom halves disabled is not interrupted by the others   *)
(* and a read-modify-write of a bitmap is not torn.                        *)
(***************************************************************************)
EXTENDS Integers, Sequences, FiniteSets

CONSTANTS Stas,      \* stations; each stands for its aid as well
          Bmc,       \* the receiver of group frames: aid 0, BIT(0)
          None,      \* no receiver
          SMP,       \* more than one processor
          LenMod,    \* 2^32: sleepq_len and sleepq_ac_len are unsigned int
          MaxFrames, \* bound: frames handed to rtw_xmit
          MaxEvents, \* bound: associations, frees, sleeps and alive checks
          MaxFaults  \* bound: beacons the hardware does not take

ASSUME ParamAssumption ==
    /\ Bmc \notin Stas /\ None \notin Stas /\ None # Bmc
    /\ SMP \in BOOLEAN
    /\ LenMod \in Nat /\ LenMod > MaxFrames
    /\ MaxFrames \in Nat
    /\ MaxEvents \in Nat
    /\ MaxFaults \in Nat

VARIABLES
    tim,      \* tim_bitmap
    dz,       \* sta_dz_bitmap
    tim_ie,   \* the receivers in the TIM element update_BCNTIM last wrote
    beacon,   \* the TIM element the hardware sends
    linked,   \* stations in the hash table with _FW_LINKED
    asleep,   \* stations with WIFI_SLEEP_STATE
    alive,    \* stations with WIFI_STA_ALIVE_CHK_STATE
    uapsd,    \* the access categories a station made delivery-enabled
    sleep_q,  \* psta->sleep_q
    len,      \* psta->sleepq_len
    ac_len,   \* psta->sleepq_ac_len
    pending,  \* the sta_pending queues the xmit tasklet serves
    cmds,     \* the command queue, as far as it concerns beacons
    hiq,      \* the hardware's high queue holds group frames
    pc,       \* where the four contexts are
    arg,      \* the station, or the receiver of the frame, each works on
    hand,     \* the frame rtw_xmit has in hand
    snap,     \* the bitmaps a context read and is about to write back
    frames,   \* ghost: frames so far
    events,   \* ghost: events so far
    faults,   \* ghost: beacons lost so far
    changed,  \* ghost: stations that changed U-APSD with frames queued
    last,     \* ghost: the last frame transmitted to a receiver, by category
    service   \* ghost: how the last U-APSD service period ended

bits == <<tim, dz>>
air == <<tim_ie, beacon, cmds>>
queues == <<sleep_q, len, ac_len, pending>>
stations == <<linked, asleep, alive, uapsd>>
control == <<pc, arg, hand, snap>>
ghosts == <<frames, events, faults, changed, last, service>>
vars == <<bits, air, stations, queues, hiq, control, ghosts>>

Contexts == {"tx", "rx", "cmd", "free"}
Rcv == Stas \cup {Bmc}
ACs == {"vo", "be"}     \* two of the four access categories, all alike
Frame == [n : 1..MaxFrames, ac : ACs, via : {"new", "release"}, hi : BOOLEAN]
                        \* via: triggered; hi: qsel is QSLT_HIGH
Bitmap == SUBSET Rcv
Labels == {"idle", "pass", "poll", "flush", "hiq", "clear", "write", "update",
           "check", "alive"}

TypeOK ==
    /\ tim \in Bitmap /\ dz \in Bitmap
    /\ tim_ie \in Bitmap /\ beacon \in Bitmap
    /\ linked \subseteq Stas /\ asleep \subseteq Stas /\ alive \subseteq Stas
    /\ uapsd \in [Stas -> SUBSET ACs]
    /\ sleep_q \in [Rcv -> Seq(Frame)]
    /\ len \in [Rcv -> 0..(LenMod - 1)]
    /\ ac_len \in [Rcv -> 0..(LenMod - 1)]
    /\ pending \in [Rcv \X ACs -> Seq(Frame)]
    /\ cmds \in Seq({"beacon", "bmc", "hiq"})
    /\ hiq \in BOOLEAN
    /\ pc \in [Contexts -> Labels]
    /\ arg \in [Contexts -> Rcv \cup {None}]
    /\ hand \in Seq(Frame)
    /\ snap \in [Contexts -> Bitmap \X Bitmap]
    /\ frames \in 0..MaxFrames /\ events \in 0..MaxEvents /\ faults \in 0..MaxFaults
    /\ changed \subseteq Stas
    /\ last \in [Rcv \X ACs -> 0..MaxFrames]
    /\ service \in {"ended", "open"}

Init ==
    /\ tim = {} /\ dz = {} /\ tim_ie = {} /\ beacon = {}
    /\ linked = {} /\ asleep = {} /\ alive = {}
    /\ uapsd = [s \in Stas |-> {}]
    /\ sleep_q = [q \in Rcv |-> <<>>]
    /\ len = [q \in Rcv |-> 0]
    /\ ac_len = [q \in Rcv |-> 0]
    /\ pending = [p \in Rcv \X ACs |-> <<>>]
    /\ cmds = <<>>
    /\ hiq = FALSE
    /\ pc = [c \in Contexts |-> "idle"]
    /\ arg = [c \in Contexts |-> None]
    /\ hand = <<>>
    /\ snap = [c \in Contexts |-> <<{}, {}>>]
    /\ frames = 0 /\ events = 0 /\ faults = 0
    /\ changed = {}
    /\ last = [p \in Rcv \X ACs |-> 0]
    /\ service = "ended"

-----------------------------------------------------------------------------
(* On one processor nothing runs while another context has bottom halves   *)
(* disabled or is inside a read-modify-write.                              *)
Busy(c) == IF c \in {"tx", "rx"} THEN pc[c] # "idle" ELSE pc[c] \in {"write", "check", "alive"}
Runs(c) == SMP \/ \A d \in Contexts \ {c} : ~Busy(d)
At(c, label) == Runs(c) /\ pc[c] = label
Goto(c, label, q) == pc' = [pc EXCEPT ![c] = label] /\ arg' = [arg EXCEPT ![c] = q]

CountEvent == events < MaxEvents /\ events' = events + 1

(* A read-modify-write of a bitmap that the lock does not order against    *)
(* the others: what was read is written back, and may at once be           *)
(* overwritten by an update it overlapped.                                 *)
Torn(now, read, new) == {new} \cup (IF now # read THEN {now} ELSE {})

(* update_beacon(_TIM_IE_): the element is written and a command posted.   *)
(* TimElement shows that it names the receivers of the bitmap, for as long *)
(* as all association ids are below 8, which is assumed of Stas.           *)
UpdateBeacon_NoTx(newtim) == tim_ie' = newtim /\ UNCHANGED <<beacon, cmds>>   \* mutant
UpdateBeacon(newtim) ==
    /\ tim_ie' = newtim
    /\ cmds' = Append(cmds, "beacon")
    /\ UNCHANGED beacon

(* unsigned int arithmetic.                                                *)
Minus_NoWrap(a, k) == a - k             \* mutant: a signed counter
Minus(a, k) == (a - k) % LenMod
Plus(a, k) == (a + k) % LenMod

-----------------------------------------------------------------------------
(* How xmitframe_enqueue_for_sleeping_sta classifies a frame.              *)
Delivery(s, f) == f.ac \in uapsd[s]
HasLegacy(s) == uapsd[s] # ACs
ShownInTim(s, f) == \/ HasLegacy(s) /\ ~Delivery(s, f)
                    \/ ~HasLegacy(s) /\ Delivery(s, f)

Buffers(q) == IF q = Bmc THEN dz # {} ELSE q \in linked /\ q \in asleep /\ q \in dz

(* The frames of fs of the categories A, in order.                         *)
OfACs(fs, A) ==
    LET Upto[i \in 0..Len(fs)] ==
            IF i = 0 THEN <<>>
            ELSE IF fs[i].ac \in A THEN Append(Upto[i - 1], fs[i])
            ELSE Upto[i - 1]
    IN  Upto[Len(fs)]

Deliveries(s, fs) == OfACs(fs, uapsd[s])
Legacies_Gone(s, fs) == <<>>            \* mutant: unlinked before it is looked at
Legacies(s, fs) == OfACs(fs, ACs \ uapsd[s])
OfAC(fs, ac) == OfACs(fs, {ac})
Mark(fs, v) == [i \in 1..Len(fs) |-> [fs[i] EXCEPT !.via = v]]

(* xmitframe_hiq_filter lets the special ones among fs use the high queue. *)
Raised(fs, special) ==
    [i \in 1..Len(fs) |-> [fs[i] EXCEPT !.hi = @ \/ fs[i].n \in special]]

(* rtw_hal_xmitframe_enqueue of every frame of fs, in order.               *)
Queued(old, q, fs, v) ==
    [p \in Rcv \X ACs |->
        IF p[1] = q THEN old[p] \o OfAC(Mark(fs, v), p[2]) ELSE old[p]]

(* The commands that buffering k more group frames posts.                  *)
BmcCmds(k) ==
    [i \in 1..k |-> IF i = 1 /\ Bmc \notin tim THEN "beacon" ELSE "bmc"]

-----------------------------------------------------------------------------
(* rtw_xmit: the frame is buffered, or waits for rtw_hal_xmit outside of   *)
(* the lock.                                                               *)
NewFrame(ac) == [n |-> frames + 1, ac |-> ac, via |-> "new", hi |-> FALSE]

TxBuffer(q, ac) ==
    LET f == NewFrame(ac)
        shown == IF q = Bmc THEN TRUE ELSE ShownInTim(q, f)
    IN  /\ At("tx", "idle")
        /\ frames < MaxFrames
        /\ Buffers(q)
        /\ frames' = frames + 1
        /\ sleep_q' = [sleep_q EXCEPT ![q] = Append(@, f)]
        /\ len' = [len EXCEPT ![q] = Plus(@, 1)]
        /\ ac_len' = IF q # Bmc /\ Delivery(q, f)
                       THEN [ac_len EXCEPT ![q] = Plus(@, 1)] ELSE ac_len
        /\ tim' = IF shown THEN tim \cup {q} ELSE tim
        /\ dz' = IF q = Bmc THEN dz \cup {Bmc} ELSE dz
        /\ IF shown /\ q \notin tim
             THEN UpdateBeacon(tim')
             ELSE /\ cmds' = IF q = Bmc THEN Append(cmds, "bmc") ELSE cmds
                  /\ UNCHANGED <<tim_ie, beacon>>
        /\ UNCHANGED <<stations, pending, hiq, control, events, faults, changed,
                       last, service>>

TxDirect(q, ac) ==
    /\ At("tx", "idle")
    /\ frames < MaxFrames
    /\ q = Bmc \/ q \in linked
    /\ ~Buffers(q)
    /\ frames' = frames + 1
    /\ hand' = <<NewFrame(ac)>>
    /\ Goto("tx", "pass", q)
    /\ UNCHANGED <<bits, air, stations, queues, hiq, snap, events, faults,
                   changed, last, service>>

(* pre_xmitframe: behind the frames of its category, or when the driver    *)
(* scans or is out of buffers, it is queued, and otherwise sent.  Nobody   *)
(* receives a frame whose station has gone.                                *)
Transmit(q, f) ==
    /\ last' = [last EXCEPT ![<<q, f.ac>>] = f.n]
    /\ hiq' = (hiq \/ f.hi)

TxPass ==
    LET q == arg["tx"]
        p == <<q, hand[1].ac>>
    IN  /\ At("tx", "pass")
        /\ \/ /\ q = Bmc \/ q \in linked
              /\ pending' = [pending EXCEPT ![p] = Append(@, hand[1])]
              /\ UNCHANGED <<last, hiq>>
           \/ /\ q = Bmc \/ q \in linked
              /\ pending[p] = <<>>
              /\ Transmit(q, hand[1])
              /\ UNCHANGED pending
           \/ /\ q \in Stas \ linked
              /\ UNCHANGED <<pending, last, hiq>>
        /\ hand' = <<>>
        /\ Goto("tx", "idle", None)
        /\ UNCHANGED <<bits, air, stations, sleep_q, len, ac_len, snap, frames,
                       events, faults, changed, service>>

(* rtl8812au_xmit_tasklet takes one frame.                                 *)
XmitTasklet(p) ==
    /\ Runs("tasklet")
    /\ pending[p] # <<>>
    /\ Transmit(p[1], Head(pending[p]))
    /\ pending' = [pending EXCEPT ![p] = Tail(@)]
    /\ UNCHANGED <<bits, air, stations, sleep_q, len, ac_len, control, frames,
                   events, faults, changed, service>>

(* The hardware sends the group frames after the beacon.                   *)
HiqDrains ==
    /\ hiq
    /\ hiq' = FALSE
    /\ UNCHANGED <<bits, air, stations, queues, control, ghosts>>

-----------------------------------------------------------------------------
(* stop_sta_xmit: a data frame with the power management bit.  The frames  *)
(* that wait for the tasklet are buffered again, those to the group too.   *)
Sleep_Pending(s) ==                     \* mutant: what waits is not moved
    /\ At("rx", "idle")
    /\ s \in linked \ asleep
    /\ CountEvent
    /\ asleep' = asleep \cup {s}
    /\ dz' = dz \cup {s}
    /\ UNCHANGED <<tim, air, linked, alive, uapsd, queues, hiq, control, frames,
                   faults, changed, last, service>>

Sleep(s) ==
    LET mine  == Mark(pending[<<s, "vo">>] \o pending[<<s, "be">>], "new")
        group == Mark(pending[<<Bmc, "be">>], "new")
        shown == \E i \in 1..Len(mine) : ShownInTim(s, mine[i])
        more  == (IF shown THEN {s} ELSE {}) \cup (IF group # <<>> THEN {Bmc} ELSE {})
    IN  /\ At("rx", "idle")
        /\ s \in linked \ asleep
        /\ CountEvent
        /\ asleep' = asleep \cup {s}
        /\ dz' = dz \cup {s} \cup (more \cap {Bmc})
        /\ sleep_q' = [sleep_q EXCEPT ![s] = @ \o mine, ![Bmc] = @ \o group]
        /\ len' = [len EXCEPT ![s] = Plus(@, Len(mine)), ![Bmc] = Plus(@, Len(group))]
        /\ ac_len' = [ac_len EXCEPT ![s] = Plus(@, Len(Deliveries(s, mine)))]
        /\ pending' = [p \in Rcv \X ACs |->
                         IF p[1] = s \/ p = <<Bmc, "be">> THEN <<>> ELSE pending[p]]
        /\ tim' = tim \cup more
        /\ tim_ie' = IF tim' # tim THEN tim' ELSE tim_ie
        /\ cmds' = cmds \o (IF shown /\ s \notin tim THEN <<"beacon">> ELSE <<>>)
                        \o BmcCmds(Len(group))
        /\ UNCHANGED <<beacon, linked, alive, uapsd, hiq, control, frames, faults,
                       changed, last, service>>

(* wakeup_sta_to_xmit, run by context c: everything buffered for s is      *)
(* released, and the group frames when no other station dozes.  The beacon *)
(* is updated after the unlock.                                            *)
Wake(c, s) ==
    LET left  == Minus(len[s], Len(sleep_q[s]))
        woken == IF left = 0 THEN {s} ELSE {}
        empty == (dz \ woken) \ {Bmc} = {}
        bleft == Minus(len[Bmc], Len(sleep_q[Bmc]))
        off   == woken \cup (IF empty /\ bleft = 0 THEN {Bmc} ELSE {})
        mine  == Queued(pending, s, sleep_q[s], "release")
    IN  /\ tim' = tim \ off
        /\ dz' = dz \ off
        /\ asleep' = asleep \ woken
        /\ alive' = alive \ woken
        /\ sleep_q' = [q \in Rcv |-> IF q = s \/ (q = Bmc /\ empty) THEN <<>> ELSE sleep_q[q]]
        /\ len' = [q \in Rcv |-> IF q = s THEN left
                                 ELSE IF q = Bmc /\ empty THEN bleft ELSE len[q]]
        /\ ac_len' = [ac_len EXCEPT ![s] = Minus(@, Len(Deliveries(s, sleep_q[s])))]
        /\ pending' = IF empty THEN Queued(mine, Bmc, sleep_q[Bmc], "release") ELSE mine
        /\ IF tim' # tim THEN Goto(c, "update", s) ELSE UNCHANGED <<pc, arg>>
        /\ UNCHANGED <<air, linked, uapsd, hiq, hand, snap, ghosts>>

(* A data frame without the power management bit.                          *)
RxWake(s) == At("rx", "idle") /\ s \in linked \cap asleep /\ Wake("rx", s)

(* expire_timeout_chk finds too many frames held for s.                    *)
ExpireWake(s) == At("cmd", "idle") /\ s \in linked /\ len[s] > 0 /\ Wake("cmd", s)

BeaconAfter(c) ==
    /\ At(c, "update")
    /\ UpdateBeacon(tim)
    /\ Goto(c, "idle", None)
    /\ UNCHANGED <<bits, stations, queues, hiq, hand, snap, ghosts>>

(* process_wmmps_data: a trigger frame of a dozing station releases what   *)
(* is delivery-enabled (xmit_delivery_enabled_frames), or is answered by a *)
(* QoS null frame that ends the service period.                            *)
Trigger(s, ac) ==
    LET sent == Deliveries(s, sleep_q[s])
        k    == Len(sent)
        done == ac_len[s] \in 1..k /\ ~HasLegacy(s)
    IN  /\ At("rx", "idle")
        /\ s \in linked \cap asleep
        /\ ac \in uapsd[s]
        /\ \/ /\ ac_len[s] = 0
              /\ service' = "ended"
              /\ UNCHANGED <<bits, air, queues>>
           \/ /\ ac_len[s] > 0
              /\ service' = IF k > 0 /\ ac_len[s] = k THEN "ended" ELSE "open"
              /\ sleep_q' = [sleep_q EXCEPT ![s] = Legacies(s, @)]
              /\ len' = [len EXCEPT ![s] = Minus(@, k)]
              /\ ac_len' = [ac_len EXCEPT ![s] = Minus(@, k)]
              /\ pending' = Queued(pending, s, sent, "release")
              /\ tim' = IF done THEN tim \ {s} ELSE tim
              /\ IF done THEN UpdateBeacon(tim') ELSE UNCHANGED air
              /\ UNCHANGED dz
        /\ UNCHANGED <<stations, hiq, control, frames, events, faults, changed, last>>

-----------------------------------------------------------------------------
(* validate_recv_ctrl_frame: a PS-Poll releases the first frame, unless    *)
(* the category the RX descriptor reports for it is delivery-enabled.      *)
Poll_NoCount(s, ac) ==                  \* mutant: sleepq_len is forgotten
    /\ At("rx", "idle")
    /\ s \in linked \cap asleep \cap dz
    /\ ac \notin uapsd[s]
    /\ sleep_q[s] # <<>>
    /\ alive' = alive \ {s}
    /\ sleep_q' = [sleep_q EXCEPT ![s] = Tail(@)]
    /\ pending' = Queued(pending, s, <<Head(sleep_q[s])>>, "release")
    /\ UNCHANGED <<bits, air, linked, asleep, uapsd, len, ac_len, hiq, control,
                   ghosts>>

Poll_Clears(s, ac) ==                   \* mutant: one frame clears the TIM bit
    /\ At("rx", "idle")
    /\ s \in linked \cap asleep \cap dz
    /\ ac \notin uapsd[s]
    /\ sleep_q[s] # <<>>
    /\ alive' = alive \ {s}
    /\ sleep_q' = [sleep_q EXCEPT ![s] = Tail(@)]
    /\ len' = [len EXCEPT ![s] = Minus(@, 1)]
    /\ pending' = Queued(pending, s, <<Head(sleep_q[s])>>, "release")
    /\ tim' = tim \ {s}
    /\ UpdateBeacon(tim')
    /\ UNCHANGED <<dz, linked, asleep, uapsd, ac_len, hiq, control, ghosts>>

Poll(s, ac) ==
    LET left == Minus(len[s], 1)
    IN  /\ At("rx", "idle")
        /\ s \in linked \cap asleep \cap dz
        /\ ac \notin uapsd[s]
        /\ sleep_q[s] # <<>>
        /\ alive' = alive \ {s}
        /\ sleep_q' = [sleep_q EXCEPT ![s] = Tail(@)]
        /\ len' = [len EXCEPT ![s] = left]
        /\ pending' = Queued(pending, s, <<Head(sleep_q[s])>>, "release")
        /\ tim' = IF left = 0 THEN tim \ {s} ELSE tim
        /\ IF left = 0 THEN UpdateBeacon(tim') ELSE UNCHANGED air
        /\ UNCHANGED <<dz, linked, asleep, uapsd, ac_len, hiq, control, ghosts>>

(* Nothing is buffered: seen under the lock, acted upon after it.          *)
PollNone(s, ac) ==
    /\ At("rx", "idle")
    /\ s \in linked
    /\ ac \notin uapsd[s]
    /\ s \in asleep \cap dz => sleep_q[s] = <<>>
    /\ alive' = alive \ {s}
    /\ IF s \in asleep \cap dz THEN Goto("rx", "poll", s) ELSE UNCHANGED <<pc, arg>>
    /\ UNCHANGED <<bits, air, linked, asleep, uapsd, queues, hiq, hand, snap, ghosts>>

PollTim ==
    LET s == arg["rx"]
    IN  /\ At("rx", "poll")
        /\ IF s \in tim
             THEN /\ len' = [len EXCEPT ![s] = 0]
                  /\ snap' = [snap EXCEPT !["rx"] = bits]
                  /\ Goto("rx", "clear", s)
             ELSE /\ UNCHANGED <<len, snap>>
                  /\ Goto("rx", "idle", None)
        /\ UNCHANGED <<bits, air, stations, sleep_q, ac_len, pending, hiq, hand, ghosts>>

PollClear ==
    LET s == arg["rx"]
    IN  /\ At("rx", "clear")
        /\ tim' \in Torn(tim, snap["rx"][1], snap["rx"][1] \ {s})
        /\ UpdateBeacon(tim')
        /\ snap' = [snap EXCEPT !["rx"] = <<{}, {}>>]
        /\ Goto("rx", "idle", None)
        /\ UNCHANGED <<dz, stations, queues, hiq, hand, ghosts>>

-----------------------------------------------------------------------------
(* The command thread.  tx_beacon_hdl and chk_bmc_sleepq_hdl look at the   *)
(* group queue without the lock, and sleep 10 ms before they release it.   *)
Pops(cmd) == At("cmd", "idle") /\ cmds # <<>> /\ Head(cmds) = cmd

CmdBeacon ==
    /\ Pops("beacon")
    /\ beacon' = tim_ie
    /\ Goto("cmd", IF Bmc \in tim /\ len[Bmc] > 0 THEN "flush" ELSE "idle", None)
    /\ cmds' = Tail(cmds)
    /\ UNCHANGED <<bits, tim_ie, stations, queues, hiq, hand, snap, ghosts>>

(* send_beacon gives up.                                                   *)
CmdBeaconFails ==
    /\ Pops("beacon")
    /\ faults < MaxFaults
    /\ faults' = faults + 1
    /\ cmds' = Tail(cmds)
    /\ UNCHANGED <<bits, tim_ie, beacon, stations, queues, hiq, control, frames,
                   events, changed, last, service>>

CmdBmc ==
    /\ Pops("bmc")
    /\ Goto("cmd", IF Bmc \in tim /\ len[Bmc] > 0 THEN "flush" ELSE "idle", None)
    /\ cmds' = Tail(cmds)
    /\ UNCHANGED <<bits, tim_ie, beacon, stations, queues, hiq, hand, snap, ghosts>>

CmdFlush ==
    /\ At("cmd", "flush")
    /\ sleep_q' = [sleep_q EXCEPT ![Bmc] = <<>>]
    /\ len' = [len EXCEPT ![Bmc] = Minus(@, Len(sleep_q[Bmc]))]
    /\ \E special \in SUBSET {sleep_q[Bmc][i].n : i \in 1..Len(sleep_q[Bmc])} :
          pending' = Queued(pending, Bmc, Raised(sleep_q[Bmc], special), "release")
    /\ cmds' = Append(cmds, "hiq")
    /\ Goto("cmd", "idle", None)
    /\ UNCHANGED <<bits, tim_ie, beacon, stations, ac_len, hiq, hand, snap, ghosts>>

(* rtw_chk_hi_queue_hdl.  The length is read without the lock.             *)
CmdHiq ==
    /\ Pops("hiq")
    /\ cmds' = IF len[Bmc] = 0 /\ hiq THEN Append(Tail(cmds), "hiq") ELSE Tail(cmds)
    /\ Goto("cmd", IF len[Bmc] = 0 /\ ~hiq THEN "hiq" ELSE "idle", None)
    /\ UNCHANGED <<bits, tim_ie, beacon, stations, queues, hiq, hand, snap, ghosts>>

HiqRead ==
    /\ At("cmd", "hiq")
    /\ snap' = [snap EXCEPT !["cmd"] = bits]
    /\ Goto("cmd", "write", Bmc)
    /\ UNCHANGED <<bits, air, stations, queues, hiq, hand, ghosts>>

HiqWrite_All ==                         \* mutant: the whole bitmap is cleared
    /\ At("cmd", "write")
    /\ tim' = tim \ {Bmc}
    /\ dz' = {}
    /\ IF Bmc \in tim THEN UpdateBeacon(tim') ELSE UNCHANGED air
    /\ snap' = [snap EXCEPT !["cmd"] = <<{}, {}>>]
    /\ Goto("cmd", "idle", None)
    /\ UNCHANGED <<stations, queues, hiq, hand, ghosts>>

HiqWrite ==
    LET old == snap["cmd"]
    IN  /\ At("cmd", "write")
        /\ tim' \in Torn(tim, old[1], old[1] \ {Bmc})
        /\ dz' \in Torn(dz, old[2], old[2] \ {Bmc})
        /\ IF Bmc \in old[1] THEN UpdateBeacon(tim') ELSE UNCHANGED air
        /\ snap' = [snap EXCEPT !["cmd"] = <<{}, {}>>]
        /\ Goto("cmd", "idle", None)
        /\ UNCHANGED <<stations, queues, hiq, hand, ghosts>>

(* expire_timeout_chk: a dozing station that has been silent is shown in   *)
(* the TIM to make it poll.                                                *)
ExpireRead(s) ==
    /\ At("cmd", "idle")
    /\ s \in linked /\ s \in asleep \ alive
    /\ CountEvent
    /\ Goto("cmd", "check", s)
    /\ UNCHANGED <<bits, air, stations, queues, hiq, hand, snap, frames, faults,
                   changed, last, service>>

(* psta->state is read, modified and written back without pxmitpriv->lock: *)
(* on several processors the station may have woken up or dozed off        *)
(* meanwhile, and its WIFI_SLEEP_STATE is written back as it was.          *)
ExpireMark ==
    LET s == arg["cmd"]
    IN  /\ At("cmd", "check")
        /\ alive' = alive \cup {s}
        /\ asleep' \in IF SMP THEN {asleep, asleep \cup {s}, asleep \ {s}} ELSE {asleep}
        /\ snap' = [snap EXCEPT !["cmd"] = bits]
        /\ Goto("cmd", "alive", s)
        /\ UNCHANGED <<bits, air, linked, uapsd, queues, hiq, hand, ghosts>>

ExpireWrite ==
    LET old == snap["cmd"]
    IN  /\ At("cmd", "alive")
        /\ tim' \in Torn(tim, old[1], old[1] \cup {arg["cmd"]})
        /\ UpdateBeacon(tim')
        /\ snap' = [snap EXCEPT !["cmd"] = <<{}, {}>>]
        /\ Goto("cmd", "idle", None)
        /\ UNCHANGED <<dz, stations, queues, hiq, hand, ghosts>>

-----------------------------------------------------------------------------
(* OnAssocReq.  A station that associates again keeps its power save state *)
(* and its frames, with a new U-APSD setting.                              *)
Assoc(s, u) ==
    /\ At("rx", "idle")
    /\ arg["free"] # s
    /\ CountEvent
    /\ linked' = linked \cup {s}
    /\ uapsd' = [uapsd EXCEPT ![s] = u]
    /\ changed' = IF s \in linked /\ sleep_q[s] # <<>> THEN changed \cup {s} ELSE changed
    /\ UNCHANGED <<bits, air, asleep, alive, queues, hiq, control, frames, faults,
                   last, service>>

(* rtw_free_stainfo: the queues under the lock, the bitmaps after it.  The *)
(* beacon is not updated.                                                  *)
FreePurge(s) ==
    /\ At("free", "idle")
    /\ s \in linked
    /\ CountEvent
    /\ linked' = linked \ {s}
    /\ sleep_q' = [sleep_q EXCEPT ![s] = <<>>]
    /\ len' = [len EXCEPT ![s] = 0]
    /\ pending' = [p \in Rcv \X ACs |-> IF p[1] = s THEN <<>> ELSE pending[p]]
    /\ Goto("free", "clear", s)
    /\ UNCHANGED <<bits, air, asleep, alive, uapsd, ac_len, hiq, hand, snap,
                   frames, faults, changed, last, service>>

FreeRead ==
    /\ At("free", "clear")
    /\ snap' = [snap EXCEPT !["free"] = bits]
    /\ Goto("free", "write", arg["free"])
    /\ UNCHANGED <<bits, air, stations, queues, hiq, hand, ghosts>>

FreeWrite ==
    LET old == snap["free"]
        s   == arg["free"]
    IN  /\ At("free", "write")
        /\ dz' \in Torn(dz, old[2], old[2] \ {s})
        /\ tim' \in Torn(tim, old[1], old[1] \ {s})
        /\ asleep' = asleep \ {s}
        /\ alive' = alive \ {s}
        /\ uapsd' = [uapsd EXCEPT ![s] = {}]
        /\ ac_len' = [ac_len EXCEPT ![s] = 0]
        /\ changed' = changed \ {s}
        /\ snap' = [snap EXCEPT !["free"] = <<{}, {}>>]
        /\ Goto("free", "idle", None)
        /\ UNCHANGED <<air, linked, sleep_q, len, pending, hiq, hand, frames,
                       events, faults, last, service>>

-----------------------------------------------------------------------------
CmdSteps ==
    \/ CmdBeacon \/ CmdBeaconFails \/ CmdBmc \/ CmdFlush
    \/ CmdHiq \/ HiqRead \/ HiqWrite
    \/ BeaconAfter("cmd") \/ ExpireMark \/ ExpireWrite

RxSteps == PollTim \/ PollClear \/ BeaconAfter("rx")
TaskletSteps == \E p \in Rcv \X ACs : XmitTasklet(p)
FreeSteps == FreeRead \/ FreeWrite

Station(s) ==
    \/ \E u \in SUBSET ACs : Assoc(s, u)
    \/ \E ac \in ACs : Poll(s, ac) \/ PollNone(s, ac) \/ Trigger(s, ac)
    \/ Sleep(s) \/ RxWake(s)

Next ==
    \/ \E q \in Stas, ac \in ACs : TxBuffer(q, ac) \/ TxDirect(q, ac)
    \/ TxBuffer(Bmc, "be") \/ TxDirect(Bmc, "be")
    \/ TxPass
    \/ TaskletSteps
    \/ HiqDrains
    \/ \E s \in Stas : Station(s)
    \/ RxSteps
    \/ CmdSteps
    \/ \E s \in Stas : ExpireRead(s) \/ ExpireWake(s)
    \/ \E s \in Stas : FreePurge(s)
    \/ FreeSteps

Spec == Init /\ [][Next]_vars

(* What runs, runs on.  The command thread gets the processor between two  *)
(* tasklets.  A dozing station that the beacon names polls, or triggers    *)
(* when all of its categories are delivery-enabled, until it is answered.  *)
(* A PS-Poll has no TID of its own: the station does not choose it, and    *)
(* what the hardware reports is taken to be 0, best effort.                *)
PollAC == "be"

Answers(s) ==
    /\ s \in beacon
    /\ Poll(s, PollAC) \/ \E ac \in ACs : Trigger(s, ac)

FairSpec ==
    /\ Spec
    /\ SF_vars(CmdSteps)
    /\ WF_vars(TxPass)
    /\ WF_vars(RxSteps)
    /\ SF_vars(TaskletSteps)
    /\ WF_vars(HiqDrains)
    /\ SF_vars(FreeSteps)
    /\ \A s \in Stas : SF_vars(Answers(s))

-----------------------------------------------------------------------------
(* Frames of sleep_q[s] the TIM must show.                                 *)
Held(s) == {sleep_q[s][i].n : i \in {j \in 1..Len(sleep_q[s]) : ShownInTim(s, sleep_q[s][j])}}

(* sleepq_len is the number of frames in sleep_q, for every receiver:      *)
(* buffering, PS-Poll, triggers, wake-ups, the command thread and frees    *)
(* agree on it.  The More Data bit and the end of dozing depend on it.     *)
LenCounts == \A q \in Rcv : len[q] = Len(sleep_q[q])

(* No frame is left behind in the sleep queue of a station that is awake.  *)
AwakeIsEmpty == \A s \in Stas \ asleep : sleep_q[s] = <<>>

(* sta_dz_bitmap says which stations doze, and nothing else: it agrees     *)
(* with WIFI_SLEEP_STATE of every station, also of one that is leaving or  *)
(* comes back.  Group frames are held back on the bitmap's word.           *)
DzMatches == dz \ {Bmc} = asleep

(* A dozing station can learn of every frame held for it (that the U-APSD  *)
(* rules want shown): its bit is in tim_bitmap and in the beacon's TIM     *)
(* element, and the beacon is on the air or the command to send it waits.  *)
TimShown ==
    \A s \in (linked \cap asleep) \ changed :
        Held(s) # {} =>
            /\ s \in tim /\ s \in tim_ie
            /\ faults > 0 \/ s \in beacon \/ \E i \in 1..Len(cmds) : cmds[i] = "beacon"

(* Frames of one category go to a station in the order rtw_xmit got them:  *)
(* putting queued frames back in stop_sta_xmit and releasing them by       *)
(* PS-Poll, trigger or wake-up never swaps two.                            *)
OrderKept ==
    \A s \in Stas, ac \in ACs :
        LET line == <<[n |-> last[<<s, ac>>]]>> \o pending[<<s, ac>>] \o OfAC(sleep_q[s], ac)
        IN  \A i, j \in 1..Len(line) : i < j => line[i].n < line[j].n

(* The frames that wait for station p[1] in category p[2], by their        *)
(* numbers: those the tasklet has, those in sleep_q, and the one that      *)
(* rtw_xmit has in hand.                                                   *)
Numbers(fs) == [i \in 1..Len(fs) |-> fs[i].n]
Carried(p) ==
    IF pc["tx"] = "pass" /\ arg["tx"] = p[1] /\ hand[1].ac = p[2] THEN hand ELSE <<>>
Backlog(p) == (pending[p] \o OfAC(sleep_q[p[1]], p[2])) \o Carried(p)

Waits == [p \in Stas \X ACs |-> Numbers(Backlog(p))]
LastSent == [p \in Stas \X ACs |-> last[p]]

Stations == INSTANCE StationLine WITH
    Kinds <- ACs, members <- linked, given <- frames, line <- Waits, sent <- LastSent

(* The driver implements StationLine: stop_sta_xmit puts pending frames    *)
(* back, PS-Poll, triggers, wake-ups and alive checks take them out again, *)
(* and rtw_xmit passes the queues by, and still no frame of a station is   *)
(* lost, sent twice or overtaken in its category until rtw_free_stainfo    *)
(* purges the queues of this station and of no other.                      *)
LineSpec == Stations!Spec

(* While a station dozes, only frames it asked for wait for the tasklet.   *)
NoneToDozing ==
    \A s \in linked \cap asleep, ac \in ACs :
        \A i \in 1..Len(pending[<<s, ac>>]) : pending[<<s, ac>>][i].via # "new"

(* The PS-Polls of a station that keeps some categories out of U-APSD, but *)
(* not best effort, are refused.                                           *)
PollsRefused(s) == PollAC \in uapsd[s] /\ HasLegacy(s)

(* Every frame the TIM must show is released, as long as the station       *)
(* listens: the bit, the beacon command, the beacon and the answer follow. *)
(* The exception is a station whose polls validate_recv_ctrl_frame refuses *)
(* because best effort is delivery-enabled, whatever the frame held is.    *)
FrameLeaves ==
    \A s \in Stas, n \in 1..MaxFrames :
        (n \in Held(s) /\ s \notin changed)
            ~> (n \notin Held(s) \/ s \in changed \/ PollsRefused(s))

(* Every service period a trigger frame starts is ended: by a frame with   *)
(* EOSP, or by a QoS null frame when nothing is buffered.                  *)
ServicePeriodEnds == service = "ended"

(* Group frames are sent after the beacon that announces them.             *)
GroupFramesLeave ==
    \A n \in 1..MaxFrames :
        (\E i \in 1..Len(sleep_q[Bmc]) : sleep_q[Bmc][i].n = n) ~>
            (\A i \in 1..Len(sleep_q[Bmc]) : sleep_q[Bmc][i].n # n)
=============================================================================
