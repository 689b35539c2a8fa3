------------------------------ MODULE RxReorder ------------------------------
(***************************************************************************)
(* The A-MPDU receive reorder buffer of one station and one TID            *)
(* (core/rtw_recv.c, struct recv_reorder_ctrl).                            *)
(*                                                                         *)
(* Four contexts share it:                                                 *)
(*   rx     the RX tasklet: recv_indicatepkt_reorder for data frames and   *)
(*          OnAction_back for ADDBA requests and DELBAs;                   *)
(*   timer  rtw_reordering_ctrl_timeout_handler, a kernel timer that may   *)
(*          run on another CPU;                                            *)
(*   a process context that sends a DELBA of its own or re-joins;          *)
(*   a process context that runs rtw_free_stainfo.                         *)
(* The queue is protected by pending_recvframe_queue.lock; "enable" and    *)
(* some of the writes of "indicate_seq" are not.                           *)
(*                                                                         *)
(* A data frame is an index n: the n-th frame of the peer.  The code only  *)
(* sees its 12-bit sequence number SN(n).  The indices, and the variables  *)
(* marked ghost, exist for the properties only.                            *)
(***************************************************************************)
EXTENDS Integers, Sequences

CONSTANTS Half,     \* half of the sequence number space (0x800)
          WSize,    \* wsize_b, the reorder window (64)
          MinSeq,   \* bound: the first frame index the peer sends
          MaxSeq,   \* bound: the last one
          MaxEvents \* bound: how often sessions are set up or torn down

\* The window is at most half of the sequence number space (64 and 2048).
ASSUME SizeAssumption ==
    /\ Half \in Nat \ {0, 1}
    /\ WSize \in 1..Half
    /\ MinSeq \in Nat
    /\ MaxSeq \in Nat
    /\ MaxEvents \in Nat

VARIABLES
    enable,        \* preorder_ctrl->enable
    indicate_seq,  \* preorder_ctrl->indicate_seq: WinStart, or Invalid
    pending,       \* preorder_ctrl->pending_recvframe_queue
    armed,         \* reordering_ctrl_timer is pending in the kernel
    lock,          \* holder of pending_recvframe_queue.lock
    pc,            \* where the RX tasklet and the timer handler are
    frame,         \* the frame the RX tasklet has in hand
    cur,           \* the frame the holder of the lock took off the queue
    nextseq,       \* the value it is about to store in indicate_seq
    sta,           \* how far rtw_free_stainfo has come
    stopped,       \* bDriverStopped or bSurpriseRemoved
    events,        \* ghost: ADDBAs, DELBAs and joins so far
    clean,         \* ghost: an undisturbed block ack session is running
    win,           \* ghost: the frame index indicate_seq stands for
    hi,            \* ghost: the highest index received in the session
    last,          \* ghost: the last index indicated in the session
    ordered        \* ghost: it was higher than the one before it

session == <<events, clean, win, hi, last, ordered>>
ctrl == <<enable, indicate_seq, pending, armed, lock>>
vars == <<ctrl, pc, frame, cur, nextseq, sta, stopped, session>>

Threads == {"rx", "timer"}
None == -1
SNMod == 2 * Half
Invalid == 16 * SNMod - 1               \* 0xFFFF
Frames == MinSeq..MaxSeq
SeqNums == 0..(SNMod - 1)

SN(n) == n % SNMod
SN_LESS_Plain(a, b) == a < b            \* mutant: forgets the wrap
SN_LESS(a, b) == (a - b) % SNMod >= Half
SN_EQUAL(a, b) == a = b

Labels == {"idle", "bypass", "bypassed", "reorder", "enqueue", "loop", "bump",
           "indicate", "cancel", "start"}

TypeOK ==
    /\ enable \in BOOLEAN
    /\ indicate_seq \in SeqNums \cup {Invalid}
    /\ pending \in Seq(Frames)
    /\ armed \in BOOLEAN
    /\ lock \in Threads \cup {"none"}
    /\ pc \in [Threads -> Labels]
    /\ pc["timer"] \in {"idle", "start", "loop", "bump", "indicate"}
    /\ pc["rx"] # "start"
    /\ frame \in Frames \cup {None}
    /\ cur \in Frames \cup {None}
    /\ nextseq \in SeqNums \cup {Invalid}
    /\ sta \in {"live", "unhashed", "cancelled", "freed"}
    /\ stopped \in BOOLEAN
    /\ events \in 0..MaxEvents
    /\ clean \in BOOLEAN
    /\ win \in Int
    /\ hi \in Frames \cup {None}
    /\ last \in Frames \cup {None}
    /\ ordered \in BOOLEAN

-----------------------------------------------------------------------------
(* What rtw_alloc_stainfo leaves.                                          *)
Init ==
    /\ enable = FALSE
    /\ indicate_seq = Invalid
    /\ pending = <<>>
    /\ armed = FALSE
    /\ lock = "none"
    /\ pc = [t \in Threads |-> "idle"]
    /\ frame = None
    /\ cur = None
    /\ nextseq = 0
    /\ sta = "live"
    /\ stopped = FALSE
    /\ events = 0
    /\ clean = FALSE
    /\ win = 0
    /\ hi = None
    /\ last = None
    /\ ordered = TRUE

Goto(t, label) == pc' = [pc EXCEPT ![t] = label]

(* Ghost: one more change of the session.                                  *)
CountEvent == events < MaxEvents /\ events' = events + 1

(* Ghost: a session that is disturbed makes no promise any more.           *)
EndSession ==
    /\ clean' = FALSE
    /\ win' = 0
    /\ last' = None
    /\ ordered' = TRUE
    /\ UNCHANGED hi

(* Ghost: frame n goes up the stack (rtw_recv_indicatepkt, amsdu_to_msdu). *)
Indicated(n) ==
    IF clean THEN last' = n /\ ordered' = (n > last)
             ELSE UNCHANGED <<last, ordered>>

(* Assumption on the peer: it never retransmits a frame half the number    *)
(* space behind the highest frame heard, and never runs that far ahead; an *)
(* undisturbed session may start anywhere.                                 *)
PeerSends(n) == hi # None => n \in (hi + 1 - Half)..(hi + Half - WSize)

-----------------------------------------------------------------------------
(* recv_indicatepkt_reorder, up to the lock: a QoS data frame of a station *)
(* that is still in the hash table.  "enable" is read without the lock.    *)
Receive(n) ==
    /\ pc["rx"] = "idle"
    /\ sta = "live"
    /\ PeerSends(n)
    /\ frame' = n
    /\ hi' = IF n > hi THEN n ELSE hi
    /\ Goto("rx", IF enable THEN "reorder" ELSE "bypass")
    /\ UNCHANGED <<ctrl, cur, nextseq, sta, stopped, events, clean, win, last, ordered>>

(* No block ack session: the frame goes straight up, without the lock.     *)
Bypass ==
    /\ pc["rx"] = "bypass"
    /\ indicate_seq' = SN(frame)
    /\ Indicated(frame)
    /\ Goto("rx", "bypassed")
    /\ UNCHANGED <<enable, pending, armed, lock, frame, cur, nextseq, sta,
                   stopped, events, clean, win, hi>>

Bypassed ==
    /\ pc["rx"] = "bypassed"
    /\ indicate_seq' = (indicate_seq + 1) % SNMod
    /\ frame' = None
    /\ Goto("rx", "idle")
    /\ UNCHANGED <<enable, pending, armed, lock, cur, nextseq, sta, stopped,
                   session>>

(* check_indicate_seq: WinStart once sn has been seen.  wend is computed   *)
(* before an Invalid indicate_seq is initialised.                          *)
WinStart(sn) == IF indicate_seq = Invalid THEN sn ELSE indicate_seq
Shifted_NoWrap(sn) == sn + 1 - WSize     \* mutant: no boundary case
Shifted(sn) == IF sn >= WSize - 1 THEN sn + 1 - WSize
                                  ELSE (SNMod - 1) - (WSize - (sn + 1)) + 1
BeyondWindow(sn) == SN_LESS((indicate_seq + WSize - 1) % SNMod, sn)

CheckIndicateSeq(sn) ==
    IF SN_EQUAL(sn, WinStart(sn)) THEN (WinStart(sn) + 1) % SNMod
    ELSE IF BeyondWindow(sn) THEN Shifted(sn)
    ELSE WinStart(sn)

(* Ghost: the index the new WinStart stands for.                           *)
CheckWin(n) ==
    IF SN_EQUAL(SN(n), WinStart(SN(n))) THEN n + 1
    ELSE IF BeyondWindow(SN(n)) THEN n + 1 - WSize
    ELSE win

(* Mutant: a frame before WinStart goes up instead of being dropped.       *)
CheckDrop_Up ==
    /\ pc["rx"] = "reorder"
    /\ lock = "none"
    /\ SN_LESS(SN(frame), WinStart(SN(frame)))
    /\ Indicated(frame)
    /\ frame' = None
    /\ Goto("rx", "idle")
    /\ UNCHANGED <<ctrl, cur, nextseq, sta, stopped, events, clean, win, hi>>

(* A frame before WinStart is dropped: _err_exit.                          *)
CheckDrop ==
    /\ pc["rx"] = "reorder"
    /\ lock = "none"
    /\ SN_LESS(SN(frame), WinStart(SN(frame)))
    /\ frame' = None
    /\ Goto("rx", "idle")
    /\ UNCHANGED <<ctrl, cur, nextseq, sta, stopped, session>>

CheckAccept ==
    /\ pc["rx"] = "reorder"
    /\ lock = "none"
    /\ ~SN_LESS(SN(frame), WinStart(SN(frame)))
    /\ lock' = "rx"
    /\ indicate_seq' = CheckIndicateSeq(SN(frame))
    /\ win' = IF clean THEN CheckWin(frame) ELSE win
    /\ Goto("rx", "enqueue")
    /\ UNCHANGED <<enable, pending, armed, frame, cur, nextseq, sta, stopped,
                   events, clean, hi, last, ordered>>

(* enqueue_reorder_recvframe: k is where the scan of the queue stops.      *)
ScanStops(k) ==
    /\ k \in 1..(Len(pending) + 1)
    /\ \A i \in 1..(k - 1) : SN_LESS(SN(pending[i]), SN(frame))
    /\ k <= Len(pending) => ~SN_LESS(SN(pending[k]), SN(frame))

Duplicate_Ignored(k) == FALSE           \* mutant: queues a duplicate
Duplicate(k) == k <= Len(pending) /\ SN_EQUAL(SN(pending[k]), SN(frame))

Inserted(k) == [i \in 1..(Len(pending) + 1) |->
                    IF i < k THEN pending[i]
                    ELSE IF i = k THEN frame ELSE pending[i - 1]]

EnqueueDrop(k) ==
    /\ pc["rx"] = "enqueue"
    /\ ScanStops(k)
    /\ Duplicate(k)
    /\ lock' = "none"
    /\ frame' = None
    /\ Goto("rx", "idle")
    /\ UNCHANGED <<enable, indicate_seq, pending, armed, cur, nextseq, sta,
                   stopped, session>>

Enqueue(k) ==
    /\ pc["rx"] = "enqueue"
    /\ ScanStops(k)
    /\ ~Duplicate(k)
    /\ pending' = Inserted(k)
    /\ frame' = None
    /\ Goto("rx", "loop")
    /\ UNCHANGED <<enable, indicate_seq, armed, lock, cur, nextseq, sta,
                   stopped, session>>

-----------------------------------------------------------------------------
(* The loop of recv_indicatepkts_in_order, run by the RX tasklet or by the *)
(* timer handler while it holds the lock.  indicate_seq is read twice and  *)
(* stored once per frame, and others write it without the lock.            *)
LoopTake(t) ==
    /\ pc[t] = "loop"
    /\ pending # <<>>
    /\ ~SN_LESS(indicate_seq, SN(Head(pending)))
    /\ cur' = Head(pending)
    /\ pending' = Tail(pending)
    /\ Goto(t, "bump")
    /\ UNCHANGED <<enable, indicate_seq, armed, lock, frame, nextseq, sta,
                   stopped, session>>

LoopBump(t) ==
    /\ pc[t] = "bump"
    /\ IF SN_EQUAL(indicate_seq, SN(cur))
         THEN nextseq' = (indicate_seq + 1) % SNMod
         ELSE nextseq' = Invalid
    /\ Goto(t, "indicate")
    /\ UNCHANGED <<ctrl, frame, cur, sta, stopped, session>>

(* While the driver is stopping, the frame is unlinked and not indicated.  *)
LoopIndicate(t) ==
    /\ pc[t] = "indicate"
    /\ indicate_seq' = IF nextseq = Invalid THEN indicate_seq ELSE nextseq
    /\ win' = IF clean /\ nextseq # Invalid THEN cur + 1 ELSE win
    /\ IF stopped THEN UNCHANGED <<last, ordered>> ELSE Indicated(cur)
    /\ cur' = None
    /\ nextseq' = 0
    /\ Goto(t, "loop")
    /\ UNCHANGED <<enable, pending, armed, lock, frame, sta, stopped, events,
                   clean, hi>>

LoopEnds(t) ==
    /\ pc[t] = "loop"
    /\ pending # <<>> => SN_LESS(indicate_seq, SN(Head(pending)))

(* Mutant: the timer is cancelled before the lock is released.             *)
RxLoopEnd_CancelLocked ==
    /\ LoopEnds("rx")
    /\ lock' = IF pending # <<>> THEN "none" ELSE "rx"
    /\ armed' = (pending # <<>> \/ armed)
    /\ Goto("rx", IF pending # <<>> THEN "idle" ELSE "cancel")
    /\ UNCHANGED <<enable, indicate_seq, pending, frame, cur, nextseq, sta,
                   stopped, session>>

(* The RX tasklet sets the timer under the lock, or unlocks and cancels.   *)
RxLoopEnd ==
    /\ LoopEnds("rx")
    /\ lock' = "none"
    /\ armed' = (pending # <<>> \/ armed)
    /\ Goto("rx", IF pending # <<>> THEN "idle" ELSE "cancel")
    /\ UNCHANGED <<enable, indicate_seq, pending, frame, cur, nextseq, sta,
                   stopped, session>>

(* _cancel_timer_ex is del_timer_sync: it waits for a running handler.     *)
RxCancel ==
    /\ pc["rx"] = "cancel"
    /\ pc["timer"] = "idle"
    /\ armed' = FALSE
    /\ Goto("rx", "idle")
    /\ UNCHANGED <<enable, indicate_seq, pending, lock, frame, cur, nextseq,
                   sta, stopped, session>>

(* Mutant: the handler does not set the timer again.                       *)
TimerLoopEnd_NoRearm ==
    /\ LoopEnds("timer")
    /\ lock' = "none"
    /\ Goto("timer", "idle")
    /\ UNCHANGED <<enable, indicate_seq, pending, armed, frame, cur, nextseq,
                   sta, stopped, session>>

TimerLoopEnd ==
    /\ LoopEnds("timer")
    /\ lock' = "none"
    /\ armed' = (pending # <<>> \/ armed)
    /\ Goto("timer", "idle")
    /\ UNCHANGED <<enable, indicate_seq, pending, frame, cur, nextseq, sta,
                   stopped, session>>

-----------------------------------------------------------------------------
(* rtw_reordering_ctrl_timeout_handler.                                    *)
TimerFire ==
    /\ armed
    /\ pc["timer"] = "idle"
    /\ armed' = FALSE
    /\ Goto("timer", IF stopped THEN "idle" ELSE "start")
    /\ UNCHANGED <<enable, indicate_seq, pending, lock, frame, cur, nextseq,
                   sta, stopped, session>>

(* Forced indication of an empty queue returns _TRUE: the timer is set.    *)
TimerEmpty ==
    /\ pc["timer"] = "start"
    /\ lock = "none"
    /\ pending = <<>>
    /\ armed' = TRUE
    /\ Goto("timer", "idle")
    /\ UNCHANGED <<enable, indicate_seq, pending, lock, frame, cur, nextseq,
                   sta, stopped, session>>

(* Forced indication: the gap before the first frame is given up.          *)
TimerForce ==
    /\ pc["timer"] = "start"
    /\ lock = "none"
    /\ pending # <<>>
    /\ lock' = "timer"
    /\ indicate_seq' = SN(Head(pending))
    /\ win' = IF clean THEN Head(pending) ELSE win
    /\ Goto("timer", "loop")
    /\ UNCHANGED <<enable, pending, armed, frame, cur, nextseq, sta, stopped,
                   events, clean, hi, last, ordered>>

-----------------------------------------------------------------------------
(* process_addba_req, in the RX tasklet; rtw_rx_ampdu_is_accept decides.   *)
(* Neither the lock is taken nor the queue flushed, so the session is only *)
(* undisturbed when no frame of an earlier one is left.                    *)
AddbaReq(accept) ==
    /\ CountEvent
    /\ pc["rx"] = "idle"
    /\ sta = "live"
    /\ indicate_seq' = Invalid
    /\ enable' = accept
    /\ clean' = (accept /\ pending = <<>> /\ lock = "none")
    /\ win' = 0
    /\ hi' = IF clean' THEN None ELSE hi
    /\ last' = None
    /\ ordered' = TRUE
    /\ UNCHANGED <<pending, armed, lock, pc, frame, cur, nextseq, sta, stopped>>

(* A DELBA from the peer, or one sent by rx_ampdu_apply_sta_tid.           *)
Delba ==
    /\ CountEvent
    /\ sta = "live"
    /\ enable' = FALSE
    /\ EndSession
    /\ UNCHANGED <<indicate_seq, pending, armed, lock, pc, frame, cur,
                   nextseq, sta, stopped>>

(* rtw_joinbss_update_stainfo finds the station it joins already there.    *)
JoinReset ==
    /\ CountEvent
    /\ sta = "live"
    /\ enable' = FALSE
    /\ indicate_seq' = Invalid
    /\ EndSession
    /\ UNCHANGED <<pending, armed, lock, pc, frame, cur, nextseq, sta, stopped>>

DriverStop ==
    /\ ~stopped
    /\ stopped' = TRUE
    /\ UNCHANGED <<ctrl, pc, frame, cur, nextseq, sta, session>>

-----------------------------------------------------------------------------
(* rtw_free_stainfo: off the hash table, then the timer, then the queue.   *)
FreeUnhash ==
    /\ sta = "live"
    /\ sta' = "unhashed"
    /\ UNCHANGED <<ctrl, pc, frame, cur, nextseq, stopped, session>>

FreeCancel ==
    /\ sta = "unhashed"
    /\ pc["timer"] = "idle"
    /\ armed' = FALSE
    /\ sta' = "cancelled"
    /\ UNCHANGED <<enable, indicate_seq, pending, lock, pc, frame, cur, nextseq,
                   stopped, session>>

FreeDrain ==
    /\ sta = "cancelled"
    /\ lock = "none"
    /\ pending' = <<>>
    /\ sta' = "freed"
    /\ UNCHANGED <<enable, indicate_seq, armed, lock, pc, frame, cur, nextseq,
                   stopped, session>>

-----------------------------------------------------------------------------
RxSteps ==
    \/ Bypass \/ Bypassed
    \/ CheckDrop \/ CheckAccept
    \/ \E k \in 1..(Len(pending) + 1) : EnqueueDrop(k) \/ Enqueue(k)
    \/ LoopTake("rx") \/ LoopBump("rx") \/ LoopIndicate("rx")
    \/ RxLoopEnd \/ RxCancel

TimerSteps ==
    \/ TimerFire \/ TimerEmpty \/ TimerForce
    \/ LoopTake("timer") \/ LoopBump("timer") \/ LoopIndicate("timer")
    \/ TimerLoopEnd

FreeSteps == FreeCancel \/ FreeDrain

Next ==
    \/ \E n \in Frames : Receive(n)
    \/ RxSteps
    \/ TimerSteps
    \/ \E accept \in BOOLEAN : AddbaReq(accept)
    \/ Delba
    \/ JoinReset
    \/ DriverStop
    \/ FreeUnhash
    \/ FreeSteps

Spec == Init /\ [][Next]_vars

(* A started tasklet, timer handler or free runs on, and an armed timer    *)
(* fires.  Kernel spinlocks are queued, so who waits for the lock gets it; *)
(* del_timer_sync spins until it meets the handler not running, which it   *)
(* does between two expiries 50 ms apart.                                  *)
FairSpec ==
    /\ Spec
    /\ WF_vars(RxSteps)
    /\ WF_vars(TimerSteps)
    /\ SF_vars(CheckDrop \/ CheckAccept)
    /\ SF_vars(TimerEmpty \/ TimerForce)
    /\ SF_vars(RxCancel)
    /\ SF_vars(FreeSteps)

-----------------------------------------------------------------------------
(* Frames of an undisturbed block ack session go up the stack in strictly  *)
(* increasing order: recv_indicatepkt_reorder and the timeout handler,     *)
(* interleaved any way, neither swap nor repeat one, across the wrap of    *)
(* the 12-bit sequence number.                                             *)
InOrder == ordered

(* In an undisturbed session the queue holds frames in order, each once,   *)
(* all of them above WinStart and inside the window whenever the lock is   *)
(* free: what enqueue_reorder_recvframe, the window shift of               *)
(* check_indicate_seq and the flush that follows keep up together.         *)
QueueInWindow ==
    clean /\ lock = "none" =>
        /\ \A i, j \in 1..Len(pending) : i < j => pending[i] < pending[j]
        /\ \A i \in 1..Len(pending) : pending[i] \in (win + 1)..(win + WSize - 1)

(* A buffered frame is never forgotten: while frames wait and nobody is    *)
(* working on the queue, the reorder timer is armed (or its handler is     *)
(* about to take the lock), until the driver stops or the station's timer  *)
(* is cancelled for good.                                                  *)
PendingHasTimer ==
    pending # <<>> /\ lock = "none" /\ ~stopped /\ sta \in {"live", "unhashed"} =>
        armed \/ pc["timer"] = "start"

(* A step in an undisturbed session that gives frames up (moves WinStart)  *)
(* never moves it back: a frame once passed over stays passed over.        *)
WindowAdvances ==
    [][clean /\ indicate_seq # Invalid /\ clean' /\ indicate_seq' # Invalid
        => win' >= win]_vars

(* Every buffered frame leaves the queue, whatever the peer does, unless   *)
(* the driver stops or the station is freed: the timer gives up a gap that *)
(* never fills.  The premise excludes the one schedule that starves it,    *)
(* an unlocked write of indicate_seq hitting the handler's loop for ever.  *)
FrameLeaves ==
    <>[][lock = "timer" /\ pc'["timer"] = pc["timer"]
            => indicate_seq' = indicate_seq]_vars
    => \A n \in Frames :
          (\E i \in 1..Len(pending) : pending[i] = n) ~>
             (stopped \/ sta = "freed" \/ \A i \in 1..Len(pending) : pending[i] # n)

(* The RX tasklet always comes back: waiting for the timer handler in      *)
(* del_timer_sync and the handler waiting for the queue lock never wait    *)
(* for one another.                                                        *)
RxReturns == (pc["rx"] # "idle") ~> (pc["rx"] = "idle")

(* The frames the driver has: queued, or in the hands of one of the two    *)
(* contexts.                                                               *)
HeldFrames ==
    {pending[i] : i \in 1..Len(pending)} \cup ({frame, cur} \ {None})

Delivery == INSTANCE OrderedDelivery WITH
                open <- clean, held <- HeldFrames, last <- last

(* The reorder buffer implements OrderedDelivery: whatever the tasklet,    *)
(* the timer handler, ADDBA, DELBA, re-join and free do together, only a   *)
(* frame received from the peer is indicated, and in an undisturbed        *)
(* session only one above the last one indicated.                          *)
DeliverySpec == Delivery!Spec

(* Once rtw_free_stainfo is done and the RX tasklet is idle, the reorder   *)
(* timer of the freed station is off and its queue is empty.               *)
FreedIsQuiet == sta = "freed" /\ pc["rx"] = "idle" => ~armed /\ pending = <<>>
=============================================================================
