# Formal models of the rtl8812AU/8821AU Linux driver

TLA+ models of the concurrent core of the Realtek 8812AU/8821AU USB Wi-Fi
driver, the TLC runs that check them on small instances, and TLAPS proofs of
the most important invariants for every value of the constants. Paths are
relative to the repository's root (`src/`); `PROJECT.json` maps every
definition to the lines it models.

The configuration modelled is the one the `Makefile` and
`include/rtl_autoconf.h` select: USB,
cfg80211, AP mode with the driver's own MLME, power saving (IPS, LPS), RX
reordering, TX acknowledgement reports; no TDLS, WAPI, concurrent interfaces
or BT coexistence.

## 1. The system

| Part | State it keeps | Operations | What is hard |
|---|---|---|---|
| **RX reorder buffer** (`core/rtw_recv.c`) | per station and TID: `enable`, `indicate_seq`, queue, timer | data frame, timeout, ADDBA, DELBA, join, free | RX tasklet against timer; 12-bit sequence numbers; writes without the lock |
| **Command queue and thread** (`core/rtw_cmd.c`) | queue, two semaphores, `cmdthd_running`, `stop_req`, `submit_ctx` of waiting callers | enqueue, run, complete, time out, start, stop, drain | lost wake-ups; a waiting caller's stack; stop against busy or dead threads |
| **AP power save** (`core/rtw_xmit.c`, `rtw_recv.c`, `rtw_mlme_ext.c`, `rtw_cmd.c`, `rtw_ap.c`) | sleep queues, their counters, `tim_bitmap`, `sta_dz_bitmap`, beacon commands, high queue | buffer, doze, wake, trigger, PS-Poll, beacon update, group frames, alive check, free | four contexts, one lock that covers the queues only, words shared by all stations |
| **TIM element** (`core/rtw_ap.c`) | bytes of the beacon's elements | `update_BCNTIM` | splicing; 16-bit bitmap cut to one or two bytes |
| TX acknowledgement (`core/rtw_xmit.c`, `rtw_mlme_ext.c`) | one `submit_ctx`, `ack_tx` | wait, TX report, timeout | a late report completes the next wait |
| **TX pools and scheduling** (`core/rtw_xmit.c`, `os_dep/linux/xmit_linux.c`, `hal/rtl8812a/usb/`) | free frames, free buffers, per-AC service queues, stopped transmit queues | allocate, classify, dequeue, aggregate, submit, complete | exhaustion, lost wake-ups of the tasklet and of the transmit queues, scans that hold frames back |
| RX defragmentation, frame pool (`core/rtw_recv.c`) | queue per station, free list | fragment, defragment, free | mixed-up fragments, leaks |
| Station table (`core/rtw_sta_mgt.c`) | hash table, free list, aids | allocate, free, look up | pointers used after the lock is dropped |
| **MLME, station mode** (`core/rtw_mlme.c`, `rtw_mlme_ext.c`, `os_dep/linux/ioctl_cfg80211.c`) | `fw_state`, `to_join`, `to_roam`, scanned networks, five timers, what cfg80211 has been told | scan, connect, disconnect, authenticate, associate, roam, time out | timeout against result; user operations overtaking commands; attempts that peter out |
| Block ack, transmit side (`rtw_mlme_ext.c`) | agreement bitmaps | ADDBA request, retry, DELBA | lost answers |
| Power control (`core/rtw_pwrctrl.c`) | `rf_pwrstate`, `bips_processing`, `ps_deny` | enter and leave IPS and LPS, suspend | flags tested without a common lock |
| P2P, silent reset, bridge extension, security, EFUSE, LED, HAL, other ioctls | | | see `PROJECT.json` for why they are not modelled |

Interaction. RX runs in a tasklet (data, PS-Poll and action frames), TX in the
caller of `rtw_xmit` with bottom halves disabled and in the xmit tasklet, timers
in soft interrupts, and everything that touches registers in the one command
thread, fed by `rtw_enqueue_cmd`. The reorder buffer has one spinlock per TID,
transmission one for the adapter (`pxmitpriv->lock`), stations one
(`sta_hash_lock`); several words are read and written outside all of them. Where
that happens the models split the operation into steps.

What makes the parts correct: frames of a session are delivered in order and
once and none waits for ever (reordering); commands are run, and neither side
of a synchronous command touches memory of the other that is gone (commands);
a join or a scan that was begun ends, and a connection the user counts on is
made, kept or reported gone (MLME); frames and buffers are conserved, nothing
queued is forgotten and no transmit queue stays stopped (transmission);
a dozing station is sent nothing it did not ask for, learns of everything held
for it, and an awake one has nothing held (power save); the beacon says what
the bitmap means and is otherwise unchanged (TIM element).

## 2. Modules

| Module | Models | Checked by | Proofs |
|---|---|---|---|
| `OrderedDelivery` | abstract: what the receive path promises the stack | through `RxReorder` | through `RxReorderProofs` |
| `RxReorder` | reorder buffer; implements `OrderedDelivery` | `MCRxReorder` | `RxReorderProofs` |
| `CommandService` | abstract: what the command queue promises its callers | through `CmdQueue` | through `CmdQueueProofs` |
| `CmdQueue` | command queue, thread, callers, start and stop; implements `CommandService` | `MCCmdQueue` | `CmdQueueProofs` |
| `StationLine` | abstract: the line of frames an AP keeps for a station and category | through `ApSleepQueue` | through `ApSleepBacklogProofs` |
| `ApSleepQueue` | power save of an AP's stations; implements `StationLine` on one processor | `MCApSleepQueue` | `ApSleepQueueProofs`, `ApSleepBacklogProofs` |
| `TimElement` | `update_BCNTIM` on bytes | `MCTimElement` | `TimElementProofs` |
| `MlmeJoin` | scan, join, roam, leave in station mode | `MCMlmeJoin` | `MlmeJoinProofs` |
| `XmitPools` | transmit path: pools, queues, tasklet, URBs, transmit queues | `MCXmitPools` | `XmitPoolsProofs` |
| `SeqInduction` | nothing: induction over numbers and sequences | | itself |

An operator whose name ends in `_Something` and whose comment says "mutant" is a
deliberately wrong version of the definition after it. `PROJECT.json` pairs
each property with the mutant that breaks it.

### RxReorder

A frame is an index in `MinSeq..MaxSeq`, the *n*-th frame of the peer; the code sees `SN(n)`, its
number modulo `2 * Half` (4096). Indices are ghosts that let the properties say
"in order" across the wrap. Variables are the fields of `recv_reorder_ctrl`,
whether the timer is pending, the holder of the queue's lock and what the two
lock takers have in hand. A critical section is split where others write
`indicate_seq` without the lock: the loop of `recv_indicatepkts_in_order` takes
a frame (`LoopTake`), computes the next number (`LoopBump`) and stores it
(`LoopIndicate`).

- RX tasklet: `Receive`, `Bypass`, `Bypassed` (no session), `CheckDrop`,
  `CheckAccept` (`check_indicate_seq`), `EnqueueDrop`, `Enqueue`, the loop,
  `RxLoopEnd`, `RxCancel` (`del_timer_sync`).
- Timer: `TimerFire`, `TimerEmpty`, `TimerForce`, the loop, `TimerLoopEnd`.
- Others: `AddbaReq`, `Delba`, `JoinReset`, `DriverStop`, `FreeUnhash`,
  `FreeCancel`, `FreeDrain`.

`PeerSends` is the assumption on the peer: it does not send half of the number
space away from what was heard. `clean` holds from an ADDBA that meets an empty
queue and a free lock until a DELBA, join or new ADDBA; the code promises an
order only there, because the other cases write `indicate_seq` under the feet
of a running loop and do not flush the queue.

`OrderedDelivery` says what is left when windows, locks and timers are taken
away: a set of frames the driver has, and deliveries that are in increasing
order while a session is open. The refinement mapping is in `RxReorder`: `open` is
`clean`, `last` the ghost of the same name, and `held` the frames that are queued or in
the hands of the tasklet or of the timer's handler. `DeliverySpec` is the abstract
specification under that mapping, a property of the run `reorder` and a theorem.

### CmdQueue

Every command is posted by a context of its own, synchronous or not, passing
the filter without hardware or not. Incarnations of the thread are `1..MaxStarts`.
The manager opens, suspends, resumes and removes. One step per access to a
shared variable: the filter reads `cmdthd_running` (`Submit`), then the object is
queued (`Enqueue`) and the semaphore raised (`Raise`). A synchronous caller waits
(`WaitEnds`: completion or 2000 ms), then detaches its `submit_ctx` under
`sctx_mutex` (`Detach`, `Leave`), which the thread takes to complete it (`ThreadPost`,
`ThreadComplete`, `ThreadClear`). Faults: an I/O error sets
`bDriverStopped`/`bSurpriseRemoved`, a signal interrupts the thread's `down` or the lock
of `sctx_mutex`, the 60 ms poll of `rtw_dev_unload` gives up.

`_enter_critical_mutex` is `mutex_lock_interruptible` (`include/osdep_service_linux.h:254`)
and neither `rtw_startbss_cmd` nor the thread looks at its result. `DetachRefused` and
`ThreadPostRefused` are what happens with a signal pending while the other party holds
the mutex: the code goes on as if it had it, and its unlock frees the mutex of the other.
The thread may then complete into a stack frame that is gone (`ThreadComplete`) or
dereference a pointer that became NULL after the test (`ThreadOops`). `mutex.refused`
remembers it. `StackSafe`, `DetachSafe` and the part of `CommandSpec` about answers are
promises until then (`Guarded`); the order in which commands are taken up is promised
throughout, and the wake-ups and the stop unless the thread died.

`CommandService` is what is left without semaphores, threads and restarts: a line of
commands, the callers that wait, and the answers. The mapping is in `CmdQueue`: `line` is
`queue`, the phase is `obj` with both ways of freeing an object taken as one, a caller
waits from `Submit` until it has returned, and an answer is a `status` of `done`.
`CommandSpec` allows a command to be discarded without an answer only while it is in the
queue; once the thread has taken it out, a caller that waits is answered before the
object is freed, unless the mutex was refused (`unguarded`).

Known holes that the model has and the properties leave out: the loop that
drains the queue frees commands whose caller may still wait (`obj` becomes
`dropped`, excluded from `DetachSafe`); a command enqueued after that loop stays
queued until another thread is started (`CommandLeaves` only promises progress
while a thread runs); a thread that ended by itself leaves a token that makes
the next `rtw_start_drv_threads` not wait for its thread, against the comment at
`os_dep/linux/os_intfs.c:999`.

### ApSleepQueue

Receivers are the stations and `Bmc` (aid 0). Each critical section of
`pxmitpriv->lock` is one step; the unlocked read-modify-writes of the bitmaps are
a read and a write step, and `Torn` gives the outcomes. `SMP = FALSE` models one
processor: tasklets and code with bottom halves disabled run to their end and a
single `&=` is not interrupted by one. `ExpireMark` is the unlocked `|=` on `psta->state`
(`core/rtw_ap.c:514-518`): on several processors it may write back a state with or
without the `WIFI_SLEEP_STATE` that `stop_sta_xmit` or a wake-up changes meanwhile.

- Transmission: `TxBuffer`, `TxDirect` then `TxPass`, `XmitTasklet`, `HiqDrains`
  (the chip).
- Station: `Sleep` (`stop_sta_xmit`), `RxWake`, `Trigger`, `Poll`, `PollNone`,
  `PollTim`, `PollClear`, `BeaconAfter`.
- Command thread: `CmdBeacon`, `CmdBeaconFails`, `CmdBmc`, `CmdFlush`, `CmdHiq`,
  `HiqRead`, `HiqWrite`, `ExpireRead`, `ExpireMark`, `ExpireWrite`, `ExpireWake`.
- Association and freeing: `Assoc`, `FreePurge`, `FreeRead`, `FreeWrite`.

Abstractions: two access categories of four, all handled alike; the limits on
free frames in `expire_timeout_chk` become "some frame is queued"; the TIM element
is the bitmap, which is right for aids below 8 (`TimElement`). `LenMod` stands for
2^32. Ghosts: `changed` (a station re-associated with another U-APSD setting while
frames were queued: its counters and TIM rule no longer fit), `last` (what was
transmitted last), `service` (how the last service period ended).

A PS-Poll has no TID. `validate_recv_ctrl_frame` judges it by the priority the RX
descriptor leaves in the attributes, best effort for a frame without one
(`hal/rtl8812a/rtl8812a_rxdesc.c:43`), and refuses it when that category is
delivery-enabled (`core/rtw_recv.c:1573-1594`). `Poll` is modelled for every priority the
descriptor could hold; the station that answers beacons (`Answers`) is only given the best
effort one (`PollAC`). A station with best effort delivery-enabled and the other category
not (`PollsRefused`) gets the frames of the other category no more while it dozes; this
is the exception in `FrameLeaves`.

`StationLine` forgets where a frame waits: for each station and category there is one
line, to which an associated station's frames are added, from which the first is sent,
and which is given up as a whole when the station leaves. The mapping is in
`ApSleepQueue`: a line is the numbers of the frames in the pending queue, in `sleep_q`, and
in the hands of `rtw_xmit`, in this order (`Waits`); what was sent is `last`. Polls, triggers,
wake-ups and `stop_sta_xmit` must then leave every line alone, and a frame that `rtw_xmit`
sends past the queues must be the only one of its line.

### TimElement

`rtw_get_ie` and `update_BCNTIM` translated to sequences of bytes; the bits of any
aid are set and cleared in any order, and `Announced` reads the element the way a
station does (external, IEEE 802.11). `BodyAssumption` says what user space may give.

The elements behind the TIM element are copied away and put back. The copy needs memory;
when there is none the code writes the element all the same and leaves behind it the
bytes that happen to lie there (`Overlaid`), some of which come from behind the old end of
the array (`Stale`). The ghost `torn` records this. A DS parameter set is a constant, `Ds`,
and may be empty, as for `rtw_check_beacon_data` (`core/rtw_ap.c:1421`); the code that
places the first TIM element nevertheless adds its three bytes without looking
(`core/rtw_ap.c:126`). The run and the theorems have a `Ds`. Without one TLC breaks
`RestKept` with the first element, which is put into the middle of the element behind the
rates.

### MlmeJoin

Five parties: the user's thread inside one cfg80211 operation (`user`), the
command thread (`cmd`, with the queue in `mlme.cmds`), the RX tasklet, and the
handlers of `assoc_timer` (`timeout`) and `link_timer`; two more timers drive the
survey and bound a scan. `mlme` is `struct mlme_priv`; a section under
`mlmepriv.lock` is an operator from its old to its possible new values, named after
the function, and functions the code calls inside the lock are composed the same
way. Code outside the lock is split: `rtw_surveydone_event_callback` clears the flag,
cancels the timer, joins and indicates in four steps, a join result is decided in
the tasklet (`OnAssocRsp`) and applied later (`ReportRx`).

- User: `UserScan` ... `ScanDone`, `UserConnect` ... `ConnectReturn`,
  `UserDisconnect`, `DisconnectClear` ... `DisconnectReturn`, `ScanAbort`.
- Command thread: `JoinHdl`, `JoinStart`, `DisconnectCmd`, `SurveyHdl`, `SurveyEvent`,
  `SurveyDoneClear/Cancel/Join/Indicate`, `StaDel`, `StaDelRoam`, `LinkExpires`.
- Radio: `BeaconScanned`, `OnBeacon`, `OnAuthClient`, `OnAssocRsp`, `OnDeAuth`, `ReportRx`.
- Timers: `LinkTimer`, `ReportLink`, `SurveyTimer`, `ScanTimeout`, `AssocTimer`, `JoinTimeout`.

One network is on the air; an entry of `scanned_queue` may age out, and what is posted to
the command queue may be lost for want of memory: the command of a join or of a scan
(which the code notices), a report of a join result or of a lost link, the next command
of a survey (`SurveyTimer`, `core/rtw_mlme_ext.c:11614-11621`) and its surveydone event
(`SurveyHdl`, lines 10533-10541). After the last two nothing drives the scan any more
unless another one is queued: the ghost `broken`. `rtw_scan_timeout_handler` then clears the flag and
completes the request, but does not go on with `to_join`, so that a connection waiting for
this scan is neither made nor reported gone until there is another scan: `Stranded`,
an exception in `ConnectionDriven` and `ConnectionSettles`. The ghost `orphaned` marks a scan whose
`scan_to_timer` was cancelled by the end of another (`core/rtw_mlme.c:1199`). Either alone
is survived; a scan that is both keeps `_FW_UNDER_SURVEY` set, the exception in `ScanEnds`.

`cfg80211_rtw_disconnect` writes 0 to `to_roam` without the lock (`ioctl_cfg80211.c:3120`).
Between `UserDisconnect` and `DisconnectClear` the write is pending (`zeroing`); each place
inside a locked section that reads `to_roam` again may find it done (`Zeroed`), and a
decrement may count the 0 down to 255, here `RoamSize - 1`, or overwrite it
(`rtw_dec_to_roam`, `TryRoaming`). The ghost `raced` is set while `to_roam` may have such a
value, and is the exception in `RoamBounded`.

What cfg80211 believes is `sme`; it is external and modelled from its calls. The ghost
`muted` records that `not_indic_disco` kept an indication from cfg80211. That flag is
meant for the time of one operation, but a connect with a group cipher the driver
refuses returns with it set (`ioctl_cfg80211.c:3070`), so the properties about
connections make an exception for muted ones. `timeout = "deadlock"` is the state in
which the join result waits in `del_timer_sync`, with the lock, for a handler that
waits for the lock; the properties that promise an end exclude it (`Free`), and the run
`join_timer` shows that it is reached. Station mode only: no ad hoc network, concurrent
interface, P2P or active roaming (`RTW_ROAM_ACTIVE` is off in this build). `fw_state` is
changed atomically.

### XmitPools

Frames are counted, not named. `frames` and `bufs` are the pools, `pending` and `staQueue`
the queues, `accnt` the counter flow control in `wifi_spec` mode looks at; a sum of queue
lengths is the number of places in the queues (`Total`). A sender per
transmit queue of the device runs `_rtw_xmit_entry`, `rtw_xmit`, `pre_xmitframe` and the direct path;
the tasklet runs `rtl8812au_xmitframe_complete` step by step, from the buffer it takes
first, over aggregation, to the release of the buffer when nothing is queued; URBs
complete in any order. Scans and joins hold frames back (`mode`) and end with
`rtw_os_xmit_schedule`, after the flag has been cleared, or by their timers, without it.
Every allocation, coalescing and submission can fail, and the device can go.

The transmit queue of a packet and the category of its frame are chosen separately:
`rtw_select_queue` (`os_dep/linux/os_intfs.c:707-713`) by `skb->priority`, set from the DSCP,
`update_attrib` (`core/rtw_xmit.c:1154-1167`) by the TOS, or best effort for a peer without
QoS. `Classes` gives the categories the packets of a queue may have, any set of them in the proofs;
`skbs` remembers the queue of every queued packet, which is the one `rtw_os_pkt_complete`
wakes. In `wifi_spec` mode it compares the `accnt` of the category with the same index, which may count
packets of other queues. The last packet of a stopped queue is then completed while others
keep the count at the threshold, and nobody wakes the queue: with `Unmixed` taken
out of `StoppedHasPacket` TLC finds this. The ghost `foreign` marks the categories where
it can happen, and `StoppedHasPacket` and `QueueWakes` make an exception for them. Without
`wifi_spec` free frames are counted and there is no exception.

Assumptions: one sender at a time per transmit queue; one fragment per frame; the completion's free of
the buffer and its schedule of the tasklet are one step, no other code looking at both
in between. Management frames have pools of their own, which are left out, as are
multicast conversion and the sleep queues (`ApSleepQueue`).

Nobody is told when `pre_xmitframe` queues a frame: the code relies on something under
way that will schedule the tasklet, and `PendingDriven` says that there is. The ghost
`unheralded` marks the two faults after which there is not: a scan or join ended by its
timer, and a direct frame whose URB is not submitted. The frames then wait for the next
completion, which takes a new packet. `NrXmitBuff` must be at least 2: with the single
buffer of `CONFIG_SINGLE_XMIT_BUF` (`Makefile:1143`, off in this build) TLC finds a frame
queued while the tasklet holds the only buffer and has already found the queues empty.

## 3. Runs

| Run | Configuration | Shows |
|---|---|---|
| `reorder` | `MCRxReorder.cfg` | `DeliverySpec` (refinement), `InOrder`, `QueueInWindow`, `PendingHasTimer`, `WindowAdvances`, `FrameLeaves`, `RxReturns`, `TypeOK` |
| `reorder_free` | `MCRxReorderFree.cfg` | `FreedIsQuiet` is violated |
| `cmd` | `MCCmdQueue.cfg` | `CommandSpec` (refinement), `StackSafe`, `DetachSafe`, `NoLostWakeup`, `StopQuiesces`, `CommandLeaves`, `StopReturns`, `TypeOK` |
| `sleep_safety` | `MCApSleepQueue.cfg` | `LineSpec` (refinement), `LenCounts`, `TimShown`, `NoneToDozing`, `DzMatches`, `TypeOK` |
| `sleep_liveness` | `MCApSleepQueueLive.cfg` | `FrameLeaves` |
| `sleep_trigger` | `MCApSleepQueueTrigger.cfg` | `ServicePeriodEnds` is violated |
| `sleep_group` | `MCApSleepQueueGroup.cfg` | `GroupFramesLeave` is violated |
| `tim_element` | `MCTimElement.cfg` | `RestKept`, `LowAidsShown`, `TypeOK` |
| `tim_high` | `MCTimElementHigh.cfg` | `BitsAreAids` is violated |
| `join` | `MCMlmeJoin.cfg` | `LinkingGuarded`, `ScanNotForgotten`, `RoamBounded`, `ConnectionDriven`, `ScanEnds`, `ConnectionSettles`, `TypeOK` |
| `join_timer` | `MCMlmeJoinTimer.cfg` | `NoDeadlock` is violated |
| `xmit` | `MCXmitPools.cfg` | `PoolsBalanced`, `StationListed`, `PendingDriven`, `StoppedHasPacket`, `QueueWakes`, `PendingDrains`, `TypeOK` |

Bounds, and why they are enough:

- `Half = 5, WSize = 3`: ten sequence numbers, frames 7 to 11, so that the numbers wrap
  in the middle of the run; the window can hold two frames behind a gap, with a gap
  between them, and is smaller than `Half` so that "beyond the window" and "before
  it" both occur. `MaxEvents = 2` allows an ADDBA followed by a DELBA, a join or a second
  ADDBA; stopping the driver and freeing the station are not bounded. `reorder_free`
  has six numbers and the frames 0 to 5. The proofs cover every size.
- Two commands, two incarnations and one fault (341,004 states): one command is waited
  for and needs the hardware, the other is forgotten and passes the filter always, so that
  they queue behind one another and the filter tells them apart. One fault is a refused
  mutex, an I/O error, a signal or an overlong exit, each against a busy thread, a timed-out
  caller and a restart. The proofs hold for any number of each.
- Power save (784,031 states; `sleep_liveness` 22,029): two stations, two frames, three events (association, dozing, and one more of
  association, dozing, alive check or free) and one lost beacon; `sleep_liveness` has
  one station and two events. `LenMod = 8` is above the number of frames, as 2^32 is, and lets a
  counter that goes below zero show.
- Aids 0, 1, 7, 8, 9, 15, 16 (`tim_high` also 2): both sides of both byte boundaries and one
  beyond 16 bits; all of their subsets are reached in every order, and any update may fail
  to copy (237,889 states). What lies behind the array has the value of the TIM element's id,
  the byte that could mislead `rtw_get_ie` most.
- `join`: a roaming budget of one in a counter of three values (so that a wrap is seen and
  is beyond the budget), one retry, one channel, three events (676,097 states). Three are a
  connect, a lost link and a disconnect, a lost post or a scan that overtakes the roaming.
  The invariants were also checked with a budget of two in a counter of four, and are
  proved for all sizes, 256 included.
- `xmit`: two stations, two categories, three frames, two buffers, three packets, one
  scan or join (331,492 states): the smallest pools in which frames queue behind one another
  and behind both buffers while one is aggregated. Packets of the voice queue may be of
  either category, those of the best effort queue of their own.

Deadlock is not checked where the system may stop: a freed station, a removed
device, or the end of the bounded events.

Which of the `ApSleepQueue` properties hold where: `TypeOK` holds on any number of
processors. `LenCounts`, `TimShown`, `LineSpec`, `OrderKept`, `NoneToDozing`, `DzMatches`
and `AwakeIsEmpty` hold on one; on several TLC finds, for example, a frame queued between
the unlock at `core/rtw_recv.c:1656` and the test of `sleepq_len` at line 1660, whose
count is then set to zero and whose TIM bit is cleared, or a station that is freed while
`rtw_xmit` has its frame in hand. `OrderKept`, the order alone, follows from `LineSpec`,
and it and `AwakeIsEmpty` are not listed in a run; they are proved on their own.

### Disagreements found

- `reorder_free`: the RX tasklet is past the station lookup when `rtw_free_stainfo`
  cancels the timer (`core/rtw_sta_mgt.c:548`); it then queues its frame and arms the
  timer of a station that is freed.
- `sleep_trigger`: PS-Poll of a delivery-enabled frame leaves `sleepq_ac_len` too
  high (`core/rtw_recv.c:1621`); a later trigger gets neither a frame nor the null
  frame with EOSP. No second processor is needed.
- `sleep_group`: `rtw_chk_hi_queue_hdl` tests the group queue without its lock
  (`core/rtw_cmd.c:3104`) and clears the bits the pending flush depends on.
- `join_timer`: `rtw_joinbss_event_prehandle` calls `_cancel_timer` for `assoc_timer` with
  `pmlmepriv->lock` held (`core/rtw_mlme.c:2000`), which waits for a running handler; the
  handler is waiting for the lock.
- `tim_high`: with only aids 8 to 15 in the bitmap, the upper byte is written as the
  first one (`core/rtw_ap.c:167`), so stations 8 lower are announced.

### Fairness

- `RxReorder`: weak fairness of the tasklet and of the timer (an armed timer fires,
  a started handler runs on). Strong fairness of taking the queue's lock (kernel
  spinlocks are queued), of `del_timer_sync` in the tasklet and in the free
  (it meets the handler idle between two expiries 50 ms apart). `FrameLeaves` has
  a premise: unlocked writers do not hit the handler's loop for ever.
- `CmdQueue`: callers, threads and the manager's continuations run on (weak); the
  mutex for completing a command is obtained (strong). Opening, suspending and
  removing are left to user space.
- `ApSleepQueue`: what runs runs on (weak); the command thread, the xmit tasklet and
  the freeing thread get the processor between tasklets (strong), and the station
  answers a beacon that names it again and again, by a trigger or by a PS-Poll, which is
  judged as best effort (strong; an assumption on the peer).

- `MlmeJoin`: what has begun runs on: the operation cfg80211 called, the command
  thread, a report that was decided; an armed timer fires (all weak). The radio owes
  nothing: no beacon, answer or lost link is ever assumed, and the user need not call.
- `XmitPools`: a sender that has a packet carries on, a scheduled tasklet runs, the USB
  core completes what it accepted, and a scan or join ends (weak; the last by `ScanEnds`
  and `ConnectionSettles` of `MlmeJoin`). No more packets are assumed.

## 4. Proofs

All theorems are checked by TLAPS for every value of the constants allowed by
the named assumptions: `SizeAssumption` (`RxReorder`), `CmdAssumption` (`CmdQueue`),
`ParamAssumption` (`ApSleepQueue`: the counters are wide enough for the frames there
are), one per bound in `MlmeJoin`, `AidAssumption` and `BodyAssumption` (`TimElement`), and in `XmitPools` `PoolAssumption` (at least two
buffers), `StaAssumption` (finitely many stations) and `InxAssumption` (a list of
distinct categories, and any choice of categories for the packets of a queue). The
theorems about the TIM element assume that user space gave a DS parameter set. Theorems about one processor assume `SMP = FALSE`; on several
their properties do not hold (section 3). Every invariant and every action property of
the passing runs is a theorem.

- **`RxReorderProofs`**: `TypeCorrect`, `DeliveryInOrder` (`InOrder`),
  `QueueStaysInWindow`, `TimerGuardsQueue` (`PendingHasTimer`), with only
  `Half >= 2` and `1 <= WSize <= Half` assumed. First the arithmetic: `SNLess` and
  `SNEqual` say that comparisons modulo `2 * Half` agree with the indices when these
  are less than `Half` apart, `ShiftedIsSN` that the moved window start is what it
  should be. `BaseInv` is the types, who holds the lock at which step, and that a
  waiting queue has its timer. `OrderInv` says that a clean session satisfies
  `SessionInv`: `indicate_seq` is the number of `win`, everything queued or in hand
  is sorted, above `last` and near enough to `win` for the comparisons to be right.
  `InOrder` alone is not inductive: it says nothing about what is still queued.
  `DeliveryImplemented` (`DeliverySpec`) is the refinement: under both invariants every
  step is an `Arrive`, a `Deliver`, a `Drop`, a `NewSession` or a stutter of `OrderedDelivery`;
  a delivery has to show that its frame is held and, in a session, above the last one.
  `WindowMovesForward` (`WindowAdvances`) is an action property: `OrderInv` says what
  `indicate_seq` means, so that a comparison modulo `2 * Half` that lets the window move
  is one between indices.
- **`CmdQueueProofs`**: `TypeCorrect`, `NeverSleptOn` (`NoLostWakeup`),
  `StackFramesSafe`, `DetachingSafe`. `NoLostWakeup` is inductive on top of types.
  `StackSafe` needs `SctxInv`: queued commands are distinct and `queued`, a command is
  in at most one hand (`HandInv`), and a waiting caller stays attached to its command
  until the command is completed, which detaches it before `sctx_mutex` is released
  (`AttachInv`), all of it until a lock of the mutex is refused. `HardwareOffQuietly` (`StopQuiesces`) rests on `QuietInv`: without faults
  only the latest incarnation can take a step, and for each stage of opening, suspending
  and removing which flags are set, whether the semaphore of the handshake carries a token
  and where that incarnation is. The property alone is not inductive, since it is silent
  until the stop has returned. `CommandsImplemented` (`CommandSpec`) is the refinement:
  under `SctxInv` every step is one of `CommandService` or a stutter. `FirstIsQueued` gives
  the head of the queue, `ThreadImplements` the steps of an incarnation: a completion
  finds its caller attached, hence waiting and without an answer, and a command is freed
  only when its caller is answered or gone, or the mutex was refused.
- **`ApSleepQueueProofs`**, for any number of stations on one processor:
  `AwakeHasNoBacklog` (`AwakeIsEmpty`): `AwakeInv` adds that the queue of a station that is
  leaving stays empty. `DozingIsKnown` (`DzMatches`): `DzInv` adds
  that a bitmap read and not yet written back is still current. Behind them the lemmas on
  lists of frames for the next module: what `OfACs`, which picks the frames of some
  categories, does to length, order and contents (it distributes over `\o`, and the
  frames picked and those left are all there were).
- **`ApSleepBacklogProofs`**: `TypesKept` (`TypeOK`, any number of processors), and on one
  processor `LengthIsExact` (`LenCounts`), `DozingIsNotSent` (`NoneToDozing`), `OrderIsKept`
  (`OrderKept`), `LinesImplemented` (`LineSpec`) and `HeldIsShown` (`TimShown`), for any number of stations, frames and events.
  `MoveStep` classifies a step by what it does to the queues of one receiver: ten moves,
  such as one frame buffered, a sleep queue drained, the frames of a service period
  released, pending frames put back in front by `stop_sta_xmit`. The invariants
  are shown against the moves. `LenCounts` needs two facts beside it: no receiver has
  more frames waiting than were ever handed over (`Bounded`; a counter cannot wrap), and
  what was seen outside the lock is still so when it is used (`LonerInv`; this is where
  one processor is needed). `Lined` strengthens `OrderKept` by the frame `rtw_xmit` has in
  hand. `LinesImplemented` is the refinement of `StationLine` under `LineInv`, which is
  `BacklogInv` and `Lined`. `BacklogSame` says that a step that neither takes a frame from
  `rtw_xmit` nor transmits one nor frees a station leaves the numbers in every line alone;
  it goes through the moves once more, and order (`Lined`) is what tells a move of the
  tasklet from a step that transmits nothing. The other steps are an `Accept`, a `Deliver`
  or a `Remove`; for the frame in hand `HandFresh` says that its station is still there and
  awake, so that it is not dropped and overtakes nothing. `TimShown` follows from `TimInv`: bitmaps read in order to be written back are
  current, the element shows every bit and is on the air or about to be, and behind
  a clear bit only frames are held that are not to be shown.
- **`XmitPoolsProofs`**: `PoolsStayBalanced` (`PoolsBalanced`), `ListsFollowQueues`
  (`StationListed`), `TypesKept` (`TypeOK`), `StoppedIsCarried` (`StoppedHasPacket`) and
  `QueuedIsDriven` (`PendingDriven`), for any number of stations, categories, frames and at
  least two buffers. `PoolInv` is inductive: neither the balance nor the lists are alone,
  since a frame is taken from a station because it is listed, and counted down
  because it was counted. `Total` is a cardinality, so a step's effect on a sum follows from
  the library's facts about finite sets. Nothing in the code tests that the counters stay
  within the pools: `TypeOK` follows from the balance. `PendingDriven` needs the balance of
  the buffers: a frame queued for want of a buffer is driven by whoever has
  the buffers, and with two of them that is not the tasklet alone (`BufferOut`).
  `StoppedHasPacket` needs that, in `wifi_spec` mode, a category without foreign packets
  counts only its own queue's (`OwnPackets`), so that a high count is itself a packet.
- **`TimElementProofs`**: `TypesKept` (`TypeOK`), `RestIsKept` (`RestKept`) and `LowAidsRead`
  (`LowAidsShown`), for every set of aids and all elements user space may give with a DS
  parameter set. `TimInv` says
  what the beacon is: the elements given, or the first three of them, the TIM element of
  `tim_bitmap`, and as many bytes as the rest has, which are the rest unless a copy failed. `rtw_get_ie` is a recursion that looks only ahead, so it has a
  solution by induction from the end of the buffer; bits are reasoned about by taking a
  number apart around one of them (`BitOf`). `BodyAssumption` is that bodies fit their
  length bytes and that user space leaves the TIM element to the driver.
- **`SeqInduction`**: the induction theorems of the library take an operator, which the
  provers here cannot instantiate. They are restated with sets: a subset of `Nat` (`NatAll`) or
  of `Seq(S)` (`SeqAll`) that has the first element and is closed under the successor is
  everything. `NatMin`, from which both follow, is an instance of `WFMin`.

- **`MlmeJoinProofs`**: `TypeCorrect`, `JoinIsGuarded` (`LinkingGuarded`), `ScanIsDriven`
  (`ScanNotForgotten`), `RoamStaysBounded` (`RoamBounded`) and `NotAbandoned`
  (`ConnectionDriven`), for any number of roaming attempts, retries, channels and events.
  Each locked section has a lemma that relates what it yields to what it was given: the
  survey flag comes with its command and its timer and `to_roam` does not leave its budget
  (`Follows`), commands are only added (`Grows`), a join and its timer are left alone
  (`Keeps`) or end with the timer armed or the flag clear (`Timed`), an attempt ends with a
  timer, a scan in order to join, or an indication (`Settles`). `JoinInv` adds to the
  properties that an armed survey timer has a channel left to count (without which the
  types are not inductive), that the callback of a lost station works on its own command,
  and that the write of `to_roam` is pending only inside the disconnect (`Writing`).
  `SettledInv` extends `ConnectionDriven` to the steps inside an operation at which
  cfg80211 already counts on the connection.

Only model-checked: all liveness. Fairness and `ENABLED` are out of the prover's reach, so
`FrameLeaves` of both modules, `RxReturns`, `CommandLeaves`, `StopReturns`, `ScanEnds`,
`ConnectionSettles`, `QueueWakes` and `PendingDrains` rest on TLC. The invariants proved are
what they rest on: a lost wake-up, an unarmed timer or an undriven queue would be a state
in which nothing is left to be fair to.

## 5. Plan

In order of importance:

1. `AckTx`: `dump_mgntframe_and_wait_ack` with its 500 ms timeout and late TX reports, on
   the management pools left out of `XmitPools`.
2. `StaMgt`: station table and aids, shared with the reorder buffer and power save.
3. `PwrCtrl`: IPS and LPS against commands, `ps_deny` and suspend.
4. `RxPool` and `RxDefrag`; the transmit side of block ack.
5. P2P and silent reset on top of `MlmeJoin` and `PwrCtrl`.

### Hazards without a property

`PROJECT.json` lists the hazards the properties are for. Known and not covered:

- Reordering: the bypass writes `indicate_seq` without the lock (`core/rtw_recv.c:3183`; such
  sessions are not `clean`); a DELBA leaves frames queued that later ones overtake
  (`core/rtw_mlme_ext.c:3073`); a stop in the middle of the loop leaks the frame in hand
  (`core/rtw_recv.c:3088`); fragments of different frames share a queue (`core/rtw_recv.c:2697`).
- Commands: one over `MAX_CMDSZ` is reported as queued and is not (`core/rtw_cmd.c:224`; no
  caller builds one); one enqueued after the drain stays (`core/rtw_cmd.c:702`).
- Power save: a beacon that fails skips the group frames (`core/rtw_mlme_ext.c:12833`), a
  freed station's TIM bit goes without a beacon (`core/rtw_sta_mgt.c:611`), U-APSD settings
  change under queued frames (`core/rtw_mlme_ext.c:2039`): all in the model, none against a
  property. Aids from 16 on have no bit (`include/sta_info.h:431`).
- Commands: the exemptions of `StackSafe` and `DetachSafe` after a refused `sctx_mutex`
  (`include/osdep_service_linux.h:254`).
- TIM element: no DS parameter set (`core/rtw_ap.c:126`), a copy that fails (line 139).
- Joining: the exemptions for a survey chain that lost a post
  (`core/rtw_mlme_ext.c:11614`, `10533`) and for `to_roam` written during a decrement
  (`os_dep/linux/ioctl_cfg80211.c:3120`). A refused cipher leaves `not_indic_disco` set (`os_dep/linux/ioctl_cfg80211.c:3070`), a
  scan refused with `-EBUSY` leaves its request behind (line 2209), a disconnect leaves the
  queued join and `assoc_timer` (line 3125): all in the model, none against a promise made
  in the repository.
- Transmission: under `wifi_spec` a transmit queue whose category holds packets of another
  is left stopped (`os_dep/linux/xmit_linux.c:209`); the tasklet's frame can be overtaken by a direct one
  (`hal/rtl8812a/usb/rtl8812au_xmit.c:856`), fragments share one URB (line 415), a converted
  multicast packet is not completed (`os_dep/linux/xmit_linux.c:430`).
- Elsewhere: `rtw_alloc_stainfo` unlocks twice with an empty pool (`core/rtw_sta_mgt.c:335`),
  suspend spins on an unlocked flag (`os_dep/linux/os_intfs.c:3467`).

### Not modelled

Ciphers, register I/O, bulk reads, PHY tables, firmware images, LED, EFUSE and the
parsing in the ioctls have no state worth exploring; most of the repository's lines are
of this kind (`hal/` alone, with its tables and images, is nearly half). BT
coexistence, TDLS and WAPI are disabled. P2P and silent reset, the AP's association
handling beyond power save, ad hoc mode and concurrent interfaces are left for later.
The reasons for each part are in `PROJECT.json`.
