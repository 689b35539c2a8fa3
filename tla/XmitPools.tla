------------------------------ MODULE XmitPools ------------------------------
(***************************************************************************)
(* The transmit path between the network stack and the USB bulk pipes:     *)
(* the pools of struct xmit_priv (xmit_frame, xmit_buf), the pending       *)
(* queues per station and access category, the senders in                  *)
(* _rtw_xmit_entry, the xmit tasklet and the URB completions.              *)
(*                                                                         *)
(* The stack runs one sender per transmit queue of the device.  The queue  *)
(* of a packet (rtw_select_queue: skb->priority, DSCP) and the category of *)
(* its frame (update_attrib: the TOS, or best effort for a peer without    *)
(* QoS) are found separately and may differ, while the flow control of a   *)
(* transmit queue looks at the category of the same index.  A frame is     *)
(* known by the transmit queue of its packet.  pxmitpriv->lock and the     *)
(* locks of the pools make each step below atomic; what the code does      *)
(* after it releases a lock is another step.  The AP's sleep queues are    *)
(* the subject of ApSleepQueue.                                            *)
(***************************************************************************)
EXTENDS Naturals, FiniteSetsExt, SequencesExt

CONSTANTS Sta,           \* entries of the station table
          NoSta,         \* no station, no packet: NULL
          Inx,           \* access categories, and the transmit queues of the
                         \* same index, in the order they are served
          NrXmitFrame,   \* NR_XMITFRAME
          NrXmitBuff,    \* NR_XMITBUFF
          StopLevel,     \* free frames at which a transmit queue is stopped
          WmmThreshold,  \* WMM_XMIT_THRESHOLD
          Classes,       \* bound on the categories of a transmit queue's packets
          MaxPkts,       \* bound on the packets the stack sends
          MaxScans       \* bound on the scans and joins

\* With a single buffer (CONFIG_SINGLE_XMIT_BUF) PendingDriven does not hold:
\* see the README.
ASSUME PoolAssumption == /\ NrXmitFrame \in Nat \ {0}
                         /\ NrXmitBuff \in Nat \ {0, 1}
                         /\ StopLevel \in Nat
                         /\ WmmThreshold \in Nat \ {0}
                         /\ MaxPkts \in Nat
                         /\ MaxScans \in Nat

ASSUME StaAssumption == IsFiniteSet(Sta) /\ NoSta \notin Sta

ASSUME InxAssumption == /\ Inx \in Seq(Range(Inx))
                        /\ Inx # <<>>
                        /\ IsInjective(Inx)
                        /\ Classes \in [Range(Inx) -> SUBSET Range(Inx)]

AC == Range(Inx)

VARIABLES wifi_spec,  \* registrypriv.wifi_spec, fixed when the driver is loaded
          frames,     \* free_xmitframe_cnt
          bufs,       \* free_xmitbuf_cnt
          pending,    \* qcnt of each station and category: frames in sta_pending
          skbs,       \* sta_pending: the transmit queues of its packets, in order
          staQueue,   \* hwxmits[ac].sta_queue: the stations listed for ac
          accnt,      \* hwxmits[ac].accnt
          stopped,    \* is the transmit queue of the stack stopped?
          sender,     \* per transmit queue: where _rtw_xmit_entry is, the
                      \* station and the category of its frame
          tasklet,    \* xmit_tasklet: scheduled?, where it is, its first frame
                      \* and the transmit queue of that frame's packet
          inflight,   \* URBs submitted and not completed
          mode,       \* what fw_state and its callbacks do to transmission
          cannotTx,   \* RTW_CANNOT_TX
          unheralded, \* ghost: a fault let queued frames go, and nobody was told
          foreign,    \* ghost: the categories that have, under wifi_spec, held
                      \* a packet of the transmit queue of another one
          sent,       \* packets sent so far
          scans       \* scans and joins so far

vars == <<wifi_spec, frames, bufs, pending, skbs, staQueue, accnt, stopped,
          sender, tasklet, inflight, mode, cannotTx, unheralded, foreign, sent,
          scans>>

pools == <<frames, bufs>>
queues == <<pending, skbs, staQueue, accnt, foreign>>
env == <<wifi_spec, mode, sent, scans>>

SenderSteps == {"idle", "alloc", "pre", "direct", "free"}
TaskletSteps == {"idle", "check", "alloc", "dequeue", "coalesce", "agg",
                 "write", "free", "release"}

TypeOK == /\ wifi_spec \in BOOLEAN
          /\ frames \in 0..NrXmitFrame
          /\ bufs \in 0..NrXmitBuff
          /\ pending \in [Sta -> [AC -> 0..NrXmitFrame]]
          /\ skbs \in [Sta -> [AC -> Seq(AC)]]
          /\ staQueue \in [AC -> Seq(Sta)]
          /\ accnt \in [AC -> 0..NrXmitFrame]
          /\ stopped \in [AC -> BOOLEAN]
          /\ sender \in [AC -> [pc : SenderSteps, sta : Sta \cup {NoSta}, ac : AC]]
          /\ tasklet \in [sched : BOOLEAN, pc : TaskletSteps, ac : AC,
                          sta : Sta \cup {NoSta}, skb : AC \cup {NoSta}]
          /\ inflight \in 0..NrXmitBuff
          /\ mode \in {"open", "survey", "linking", "done"}
          /\ cannotTx \in BOOLEAN
          /\ unheralded \in BOOLEAN
          /\ foreign \in SUBSET AC
          /\ sent \in 0..MaxPkts
          /\ scans \in 0..MaxScans

Init == /\ wifi_spec \in BOOLEAN
        /\ frames = NrXmitFrame
        /\ bufs = NrXmitBuff
        /\ pending = [s \in Sta |-> [q \in AC |-> 0]]
        /\ skbs = [s \in Sta |-> [q \in AC |-> <<>>]]
        /\ staQueue = [q \in AC |-> <<>>]
        /\ accnt = [q \in AC |-> 0]
        /\ stopped = [q \in AC |-> FALSE]
        /\ sender = [q \in AC |-> [pc |-> "idle", sta |-> NoSta, ac |-> q]]
        /\ tasklet = [sched |-> FALSE, pc |-> "idle", ac |-> Inx[1], sta |-> NoSta,
                      skb |-> NoSta]
        /\ inflight = 0
        /\ mode = "open"
        /\ cannotTx = FALSE
        /\ unheralded = FALSE
        /\ foreign = {}
        /\ sent = 0
        /\ scans = 0

-----------------------------------------------------------------------------
(* The transmit queues of the stack.                                       *)

rtw_os_need_wake_queue(q) == wifi_spec => accnt[q] < WmmThreshold

rtw_os_need_stop_queue(q) == IF wifi_spec THEN accnt[q] > WmmThreshold
                                          ELSE frames <= StopLevel

\* A packet of transmit queue q is given back to the stack.
rtw_os_pkt_complete(q) ==
    stopped' = [stopped EXCEPT ![q] = @ /\ ~rtw_os_need_wake_queue(q)]

\* A frame and its packet are given back.
rtw_free_xmitframe(q) == frames' = frames + 1 /\ rtw_os_pkt_complete(q)

\* tasklet_hi_schedule: an already scheduled tasklet is not scheduled twice,
\* a running one runs once more.
Schedule == tasklet' = [tasklet EXCEPT !.sched = TRUE] /\ unheralded' = FALSE

NoSchedule == UNCHANGED <<tasklet, unheralded>>

\* A station leaves a list: rtw_list_delete, which does nothing to a station
\* that is on no list.
rtw_list_delete(list, s) ==
    IF s \in Range(list)
      THEN RemoveAt(list, CHOOSE i \in DOMAIN list : list[i] = s)
      ELSE list

\* The length of all the queues together, f[x] being the length of queue x:
\* the number of places in them.
Places(f) == UNION {{x} \X (1 .. f[x]) : x \in DOMAIN f}
Total(f) == Cardinality(Places(f))

rtw_txframes_pending == \E q \in AC : staQueue[q] # <<>>

\* A fault lets queued frames go, and the tasklet is not scheduled.
Unheralded ==
    unheralded' = (unheralded \/ (rtw_txframes_pending /\ ~tasklet.sched))

-----------------------------------------------------------------------------
(* The sender of q: _rtw_xmit_entry, rtw_xmit, pre_xmitframe.              *)

Goto(q, pc) == sender' = [sender EXCEPT ![q].pc = pc]
Return(q) == sender' = [sender EXCEPT ![q] = [pc |-> "idle", sta |-> NoSta, ac |-> q]]

\* The stack hands over a packet for station s, unless it has been told to
\* stop.  With the interface down it is dropped, otherwise the queue is
\* stopped when resources are short and the packet is sent all the same.
_rtw_xmit_entry(q, s) ==
    /\ sender[q].pc = "idle"
    /\ ~stopped[q]
    /\ sent < MaxPkts
    /\ sent' = sent + 1
    /\ IF cannotTx
         THEN UNCHANGED <<sender, stopped>>
         ELSE /\ sender' = [sender EXCEPT ![q] = [pc |-> "alloc", sta |-> s, ac |-> q]]
              /\ stopped' = [stopped EXCEPT ![q] = rtw_os_need_stop_queue(q)]
    /\ NoSchedule
    /\ UNCHANGED <<pools, queues, wifi_spec, mode, scans, inflight, cannotTx>>

\* rtw_xmit: update_attrib gives the frame its category.  Without a frame, or
\* for a packet update_attrib refuses, the packet is dropped and completed by
\* _rtw_xmit_entry.
rtw_xmit(q) ==
    /\ sender[q].pc = "alloc"
    /\ \/ /\ frames > 0
          /\ frames' = frames - 1
          /\ \E a \in Classes[q] : sender' = [sender EXCEPT ![q].pc = "pre", ![q].ac = a]
          /\ UNCHANGED stopped
       \/ rtw_os_pkt_complete(q) /\ Return(q) /\ UNCHANGED frames
    /\ NoSchedule
    /\ UNCHANGED <<bufs, queues, env, inflight, cannotTx>>

\* Station s is listed for category q when it was not, and the frame, with a
\* packet of transmit queue i, is queued.
rtw_xmit_classifier(q, s, i) ==
    /\ staQueue' = [staQueue EXCEPT ![q] = IF pending[s][q] = 0 THEN Append(@, s) ELSE @]
    /\ pending' = [pending EXCEPT ![s][q] = @ + 1]
    /\ skbs' = [skbs EXCEPT ![s][q] = Append(@, i)]
    /\ accnt' = [accnt EXCEPT ![q] = @ + 1]
    /\ foreign' = IF i = q \/ ~wifi_spec THEN foreign ELSE foreign \cup {q}

\* What pre_xmitframe decides under pxmitpriv->lock: behind frames of the same
\* station and category, during a scan or a join, and without a buffer the
\* frame is queued, and nobody is told.  Otherwise it takes a buffer.  The
\* classifier refuses a station that has gone.
Enqueues(q) == \/ pending[sender[q].sta][sender[q].ac] > 0
               \/ mode \in {"survey", "linking"}
               \/ bufs = 0

pre_xmitframe(q) ==
    /\ sender[q].pc = "pre"
    /\ \/ /\ Enqueues(q)
          /\ rtw_xmit_classifier(sender[q].ac, sender[q].sta, q)
          /\ Return(q)
          /\ UNCHANGED <<pools, stopped>>
       \/ /\ Enqueues(q)
          /\ rtw_free_xmitframe(q)
          /\ Return(q)
          /\ UNCHANGED <<bufs, queues>>
       \/ /\ ~Enqueues(q)
          /\ bufs' = bufs - 1
          /\ sender' = [sender EXCEPT ![q].pc = "direct", ![q].ac = q]
          /\ UNCHANGED <<frames, stopped, queues>>
    /\ NoSchedule
    /\ UNCHANGED <<env, inflight, cannotTx>>

\* Mutant: the caller frees the buffer of a failed write a second time.
NotSubmitted_Twice == bufs' = bufs + 2 /\ cannotTx' \in {cannotTx, TRUE} /\ UNCHANGED inflight

\* usb_write_port: the URB is submitted, or the buffer goes back to the pool;
\* when the device has gone (-ENODEV) transmission stops for good.
Submitted == ~cannotTx /\ inflight' = inflight + 1 /\ UNCHANGED <<bufs, cannotTx>>
NotSubmitted == bufs' = bufs + 1 /\ cannotTx' \in {cannotTx, TRUE} /\ UNCHANGED inflight

\* xmitframe_direct and the write in rtw_dump_xframe.  A frame that cannot be
\* coalesced gives its buffer back like one that cannot be submitted.
xmitframe_direct(q) ==
    /\ sender[q].pc = "direct"
    /\ \/ Submitted /\ UNCHANGED unheralded
       \/ NotSubmitted /\ Unheralded
    /\ Goto(q, "free")
    /\ UNCHANGED <<frames, queues, env, stopped, tasklet>>

\* The end of rtw_dump_xframe.
DumpDone(q) ==
    /\ sender[q].pc = "free"
    /\ rtw_free_xmitframe(q)
    /\ Return(q)
    /\ NoSchedule
    /\ UNCHANGED <<bufs, queues, env, inflight, cannotTx>>

SenderStep(q) == \/ rtw_xmit(q) \/ pre_xmitframe(q)
                 \/ xmitframe_direct(q) \/ DumpDone(q)

-----------------------------------------------------------------------------
(* The xmit tasklet: rtl8812au_xmit_tasklet, rtl8812au_xmitframe_complete. *)

At(pc) == tasklet.pc = pc
To(pc) == tasklet' = [tasklet EXCEPT !.pc = pc]

RunTasklet ==
    /\ At("idle") /\ tasklet.sched
    /\ tasklet' = [tasklet EXCEPT !.sched = FALSE, !.pc = "check"]
    /\ UNCHANGED <<pools, queues, env, stopped, sender, inflight, cannotTx, unheralded>>

\* The head of the loop, and the buffer taken before any frame is looked for.
rtl8812au_xmit_tasklet ==
    /\ At("check")
    /\ To(IF cannotTx \/ mode = "survey" THEN "idle" ELSE "alloc")
    /\ UNCHANGED <<pools, queues, env, stopped, sender, inflight, cannotTx, unheralded>>

rtw_alloc_xmitbuf ==
    /\ At("alloc")
    /\ IF bufs = 0 THEN To("idle") /\ UNCHANGED bufs
                   ELSE To("dequeue") /\ bufs' = bufs - 1
    /\ UNCHANGED <<frames, queues, env, stopped, sender, inflight, cannotTx, unheralded>>

\* Mutant: the station leaves the list whatever is left in its queue.
Take_Delist(q, s, k) ==
    /\ pending' = [pending EXCEPT ![s][q] = @ - k]
    /\ skbs' = [skbs EXCEPT ![s][q] = SubSeq(@, k + 1, Len(@))]
    /\ accnt' = [accnt EXCEPT ![q] = @ - k]
    /\ UNCHANGED foreign
    /\ staQueue' = [staQueue EXCEPT ![q] = rtw_list_delete(@, s)]

\* k frames of station s leave the queue of category q, and with the last
\* one the station leaves the list.
Take(q, s, k) ==
    /\ pending' = [pending EXCEPT ![s][q] = @ - k]
    /\ skbs' = [skbs EXCEPT ![s][q] = SubSeq(@, k + 1, Len(@))]
    /\ accnt' = [accnt EXCEPT ![q] = @ - k]
    /\ UNCHANGED foreign
    /\ staQueue' = [staQueue EXCEPT ![q] = IF pending[s][q] = k THEN rtw_list_delete(@, s) ELSE @]

\* The first frame of the first station of the first category with a station.
rtw_dequeue_xframe ==
    /\ At("dequeue")
    /\ LET busy == {i \in DOMAIN Inx : staQueue[Inx[i]] # <<>>} IN
       IF busy = {}
         THEN To("release") /\ UNCHANGED queues
         ELSE LET q == Inx[Min(busy)]
                  s == Head(staQueue[q])
              IN Take(q, s, 1)
                 /\ tasklet' = [tasklet EXCEPT !.pc = "coalesce", !.ac = q, !.sta = s,
                                               !.skb = Head(skbs[s][q])]
    /\ UNCHANGED <<pools, env, stopped, sender, inflight, cannotTx, unheralded>>

\* The packet is given back once it is in the buffer; a frame that cannot be
\* coalesced is freed at the head of the loop, which looks for another.
CoalesceFirst ==
    /\ At("coalesce")
    /\ \/ /\ tasklet' = [tasklet EXCEPT !.pc = "agg", !.skb = NoSta]
          /\ rtw_os_pkt_complete(tasklet.skb)
          /\ UNCHANGED frames
       \/ /\ tasklet' = [tasklet EXCEPT !.pc = "dequeue", !.skb = NoSta]
          /\ rtw_free_xmitframe(tasklet.skb)
    /\ UNCHANGED <<bufs, queues, env, sender, inflight, cannotTx, unheralded>>

\* More frames of the same station and category, as many as fit, are copied
\* behind the first and freed at once, under pxmitpriv->lock; each completes
\* its packet after accnt is counted down: Left(q, k, i) frames of category i
\* are queued once k of category q have been taken.
Left(q, k, i) == IF i = q THEN accnt[i] - k ELSE accnt[i]

Aggregate ==
    /\ At("agg")
    /\ \E k \in 0..pending[tasklet.sta][tasklet.ac] :
         /\ Take(tasklet.ac, tasklet.sta, k)
         /\ frames' = frames + k
         /\ stopped' = [i \in AC |-> stopped[i] /\ ~ \E n \in 1..k :
              /\ skbs[tasklet.sta][tasklet.ac][n] = i
              /\ wifi_spec => Left(tasklet.ac, n, i) < WmmThreshold]
    /\ To("write")
    /\ UNCHANGED <<bufs, env, sender, inflight, cannotTx, unheralded>>

TaskletWrite ==
    /\ At("write")
    /\ Submitted \/ NotSubmitted
    /\ To("free")
    /\ UNCHANGED <<frames, queues, env, stopped, sender, unheralded>>

\* Mutant: one frame per run of the tasklet.
TaskletFree_Once ==
    /\ At("free")
    /\ frames' = frames + 1
    /\ tasklet' = [tasklet EXCEPT !.pc = "idle", !.sta = NoSta]
    /\ UNCHANGED <<bufs, queues, env, stopped, sender, inflight, cannotTx, unheralded>>

\* The first frame has no packet any more; then round the loop again.
TaskletFree ==
    /\ At("free")
    /\ frames' = frames + 1
    /\ tasklet' = [tasklet EXCEPT !.pc = "check", !.sta = NoSta]
    /\ UNCHANGED <<bufs, queues, env, stopped, sender, inflight, cannotTx, unheralded>>

\* Mutant: the buffer is not given back when there is no frame.
TaskletRelease_Leak ==
    /\ At("release")
    /\ To("idle")
    /\ UNCHANGED <<pools, queues, env, stopped, sender, inflight, cannotTx, unheralded>>

\* No frame: the buffer goes back and the tasklet ends.
TaskletRelease ==
    /\ At("release")
    /\ bufs' = bufs + 1
    /\ To("idle")
    /\ UNCHANGED <<frames, queues, env, stopped, sender, inflight, cannotTx, unheralded>>

TaskletStep == \/ RunTasklet \/ rtl8812au_xmit_tasklet \/ rtw_alloc_xmitbuf
               \/ rtw_dequeue_xframe \/ CoalesceFirst \/ Aggregate
               \/ TaskletWrite \/ TaskletFree \/ TaskletRelease

-----------------------------------------------------------------------------
(* The environment: URB completions, scans and joins, stations that leave. *)

\* Mutant: a completion does not schedule the tasklet.
usb_write_port_complete_Quiet ==
    /\ inflight > 0
    /\ inflight' = inflight - 1
    /\ bufs' = bufs + 1
    /\ cannotTx' \in {cannotTx, TRUE}
    /\ NoSchedule
    /\ UNCHANGED <<frames, queues, env, stopped, sender>>

\* A URB ends, with a status that may stop transmission; in every case its
\* buffer is freed and the tasklet scheduled.
usb_write_port_complete ==
    /\ inflight > 0
    /\ inflight' = inflight - 1
    /\ bufs' = bufs + 1
    /\ cannotTx' \in {cannotTx, TRUE}
    /\ Schedule
    /\ UNCHANGED <<frames, queues, env, stopped, sender>>

\* A scan or a join sets its bit of fw_state.
SetFwState ==
    /\ mode = "open"
    /\ scans < MaxScans
    /\ scans' = scans + 1
    /\ mode' \in {"survey", "linking"}
    /\ NoSchedule
    /\ UNCHANGED <<pools, queues, wifi_spec, sent, stopped, sender, inflight, cannotTx>>

\* rtw_surveydone_event_callback and rtw_joinbss_event_prehandle clear it; the
\* call of rtw_os_xmit_schedule comes later, without pmlmepriv->lock.
ClrFwState ==
    /\ mode \in {"survey", "linking"}
    /\ mode' = "done"
    /\ NoSchedule
    /\ UNCHANGED <<pools, queues, wifi_spec, sent, scans, stopped, sender, inflight, cannotTx>>

\* Mutant: the end of a scan or a join schedules nothing.
rtw_os_xmit_schedule_Skip ==
    /\ mode = "done"
    /\ mode' = "open"
    /\ NoSchedule
    /\ UNCHANGED <<pools, queues, wifi_spec, sent, scans, stopped, sender, inflight, cannotTx>>

rtw_os_xmit_schedule ==
    /\ mode = "done"
    /\ mode' = "open"
    /\ IF rtw_txframes_pending THEN Schedule ELSE NoSchedule
    /\ UNCHANGED <<pools, queues, wifi_spec, sent, scans, stopped, sender, inflight, cannotTx>>

\* rtw_scan_timeout_handler and _rtw_join_timeout_handler clear it and do not
\* call rtw_os_xmit_schedule.
FwStateTimeout ==
    /\ mode \in {"survey", "linking"}
    /\ mode' = "open"
    /\ Unheralded
    /\ UNCHANGED <<pools, queues, wifi_spec, sent, scans, stopped, sender, tasklet,
                   inflight, cannotTx>>

\* Mutant: without rtw_os_wake_queue_at_free_stainfo.
rtw_free_stainfo_NoWake(s) ==
    LET freed == {q \in AC : pending[s][q] > 0}
        packets == UNION {Range(skbs[s][q]) : q \in AC}
    IN /\ freed # {}
       /\ frames' = frames + Total(pending[s])
       /\ pending' = [pending EXCEPT ![s] = [q \in AC |-> 0]]
       /\ skbs' = [skbs EXCEPT ![s] = [q \in AC |-> <<>>]]
       /\ staQueue' = [q \in AC |-> rtw_list_delete(staQueue[q], s)]
       /\ accnt' = [q \in AC |-> accnt[q] - pending[s][q]]
       /\ stopped' = [q \in AC |-> stopped[q] /\ ~(q \in packets /\ rtw_os_need_wake_queue(q))]
       /\ NoSchedule
       /\ UNCHANGED <<bufs, env, sender, inflight, cannotTx, foreign>>

\* The pending frames of a station that leaves are freed; their packets are
\* completed while accnt still counts them, which is why the transmit queues
\* of the categories that were not empty are looked at once more when accnt
\* is right (rtw_os_wake_queue_at_free_stainfo).
rtw_free_stainfo(s) ==
    LET left(q) == accnt[q] - pending[s][q]
        freed == {q \in AC : pending[s][q] > 0}
        packets == UNION {Range(skbs[s][q]) : q \in AC}
    IN /\ freed # {}
       /\ frames' = frames + Total(pending[s])
       /\ pending' = [pending EXCEPT ![s] = [q \in AC |-> 0]]
       /\ skbs' = [skbs EXCEPT ![s] = [q \in AC |-> <<>>]]
       /\ staQueue' = [q \in AC |-> rtw_list_delete(staQueue[q], s)]
       /\ accnt' = [q \in AC |-> left(q)]
       /\ stopped' = [q \in AC |-> stopped[q] /\ ~( /\ q \in freed \cup packets
                                                    /\ wifi_spec => left(q) < WmmThreshold)]
       /\ NoSchedule
       /\ UNCHANGED <<bufs, env, sender, inflight, cannotTx, foreign>>

-----------------------------------------------------------------------------
Next == \/ \E q \in AC, s \in Sta : _rtw_xmit_entry(q, s)
        \/ \E q \in AC : SenderStep(q)
        \/ TaskletStep
        \/ usb_write_port_complete
        \/ SetFwState \/ ClrFwState \/ rtw_os_xmit_schedule \/ FwStateTimeout
        \/ \E s \in Sta : rtw_free_stainfo(s)

Spec == Init /\ [][Next]_vars

\* A sender that has a packet carries on, a scheduled tasklet runs, a submitted
\* URB completes, and a scan or a join that has begun ends.
Fairness == /\ \A q \in AC : WF_vars(SenderStep(q))
            /\ WF_vars(TaskletStep)
            /\ WF_vars(usb_write_port_complete)
            /\ WF_vars(ClrFwState)
            /\ WF_vars(rtw_os_xmit_schedule)

FairSpec == Spec /\ Fairness

-----------------------------------------------------------------------------
(* Properties.                                                             *)

\* The steps in which a sender, or the tasklet, holds a frame or a buffer.
HoldsFrame == {"pre", "direct", "free"}
FrameSteps == {"coalesce", "agg", "write", "free"}
BufSteps == {"dequeue", "coalesce", "agg", "write", "release"}
Senders(pcs) == Cardinality({q \in AC : sender[q].pc \in pcs})
Holds(pcs) == IF tasklet.pc \in pcs THEN 1 ELSE 0

\* No frame and no buffer is lost or freed twice: every one is free, queued, in
\* the hands of one sender or of the tasklet, or with the USB core, and
\* qcnt and hwxmits[ac].accnt count the queued frames, accnt those of all
\* stations, although packets are freed in four places.  This is over
\* every failure on the way: no frame, no buffer, no station, a frame that
\* cannot be coalesced, a URB that cannot be submitted.
PoolsBalanced ==
    /\ \A q \in AC : accnt[q] = Total([s \in Sta |-> pending[s][q]])
    /\ \A q \in AC, s \in Sta : pending[s][q] = Len(skbs[s][q])
    /\ NrXmitFrame = frames + Total(accnt)
                            + Senders(HoldsFrame) + Holds(FrameSteps)
    /\ NrXmitBuff = bufs + inflight + Senders({"direct"}) + Holds(BufSteps)

\* A station is on the list of a category exactly when it has frames queued
\* there, and once: rtw_dequeue_xframe and rtw_txframes_pending look at nothing
\* but the lists, which the sender extends and which the tasklet, in two
\* places, and rtw_free_stainfo shorten.
StationListed ==
    \A q \in AC : /\ Range(staQueue[q]) = {s \in Sta : pending[s][q] > 0}
                  /\ IsInjective(staQueue[q])

\* No wake-up is lost: pre_xmitframe queues a frame without scheduling the
\* tasklet, so while frames are queued something that will schedule it, or look
\* at the queues, is under way, unless a fault (a URB not submitted, a scan or
\* a join ended by its timer) has passed since the tasklet was last scheduled.
PendingDriven ==
    rtw_txframes_pending =>
        \/ tasklet.sched
        \/ tasklet.pc \notin {"idle", "release"}
        \/ inflight > 0
        \/ \E q \in AC : sender[q].pc = "direct"
        \/ mode # "open"
        \/ cannotTx
        \/ unheralded

\* The driver holds a packet of transmit queue i: with the sender, in a queue
\* of any station and category, or with the tasklet.
Carried(i) == \/ sender[i].pc # "idle"
              \/ \E s \in Sta, q \in AC : i \in Range(skbs[s][q])
              \/ tasklet.pc = "coalesce" /\ tasklet.skb = i

\* Under wifi_spec rtw_os_need_wake_queue(i) asks for the frames of category i,
\* and when packets of other transmit queues are among them (a peer without
\* QoS has all its frames in best effort) the last packet of i may be
\* completed while they keep accnt high: nobody wakes i any more.
Unmixed(i) == i \notin foreign

\* A transmit queue the driver has stopped is never left without a packet of
\* its own in the driver, whose completion wakes it: whatever the categories
\* of the packets when the free frames are counted, and as long as category i
\* holds packets of queue i only when wifi_spec counts its frames.  This is
\* over dropped packets, aggregation and stations that leave.
StoppedHasPacket == \A i \in AC : stopped[i] /\ Unmixed(i) => Carried(i)

\* A stopped transmit queue is woken.
QueueWakes ==
    \A i \in AC : stopped[i] ~> (~stopped[i] \/ ~Unmixed(i) \/ unheralded \/ cannotTx)

\* Queued frames leave, those of the last category too, once the stack stops
\* sending: the loop of the tasklet, the buffers and the completions keep one
\* another going.
PendingDrains == \A q \in AC : accnt[q] > 0 ~> (accnt[q] = 0 \/ unheralded \/ cannotTx)
=============================================================================
