------------------------------ MODULE CmdQueue ------------------------------
(***************************************************************************)
(* The command queue of the driver and its thread (core/rtw_cmd.c), with   *)
(* the synchronous callers of rtw_startbss_cmd and the life cycle of the   *)
(* thread (os_dep/linux/os_intfs.c).                                       *)
(*                                                                         *)
(* Three kinds of contexts:                                                *)
(*   callers   every command is posted by a context of its own (an ioctl,  *)
(*             a cfg80211 call, a timer); a synchronous one then waits on  *)
(*             a struct submit_ctx in its stack frame;                     *)
(*   threads   rtw_cmd_thread, one incarnation for every start;            *)
(*   manager   the context that opens, suspends, resumes and removes the   *)
(*             device.                                                     *)
(***************************************************************************)
EXTENDS Integers, Sequences

CONSTANTS Cmds,      \* bound: the commands ever posted
          NoCmd,     \* no command in hand
          Ways,      \* bound: how a command may be posted, <<waits, always>>
          MaxStarts, \* bound: how often the command thread is started
          MaxFaults  \* bound: I/O errors, signals and overlong exits

ASSUME CmdAssumption ==
    /\ NoCmd \notin Cmds
    /\ Ways \in [Cmds -> SUBSET (BOOLEAN \X BOOLEAN)]
    /\ MaxStarts \in Nat
    /\ MaxFaults \in Nat

VARIABLES
    queue,     \* cmd_queue
    qsema,     \* cmd_queue_sema
    tsema,     \* terminate_cmdthread_sema
    running,   \* cmdthd_running
    stop_req,  \* stop_req
    hw,        \* hw_init_completed
    stopped,   \* bDriverStopped or bSurpriseRemoved
    mutex,     \* sctx_mutex: held, and (ghost) whether it was ever refused
    obj,       \* what became of the cmd_obj
    sync,      \* the caller waits (RTW_CMDF_WAIT_ACK)
    always,    \* the filter lets the command pass without hardware
    sctx,      \* pcmd->sctx is not NULL
    status,    \* sctx.status of a synchronous caller
    caller,    \* where the caller of a command is
    thr,       \* where an incarnation of the thread is
    hand,      \* the command it has in hand
    starts,    \* the incarnations so far
    mgr,       \* where the manager is
    removing,  \* the manager removes the device for good
    faults     \* ghost: faults so far

flags == <<running, stop_req, hw, stopped>>
semas == <<qsema, tsema>>
cmddata == <<queue, obj, sync, always, sctx, status>>
cmdvars == <<queue, obj, sync, always, sctx, status, caller>>
mgrvars == <<starts, mgr, removing, faults>>
vars == <<flags, semas, mutex, cmdvars, thr, hand, mgrvars>>

Gens == 1..MaxStarts

Objs == {"none", "alloc", "queued", "held", "freed", "dropped"}
CallerLabels == {"idle", "enqueue", "raise", "wait", "detach", "forget",
                 "leave", "returned"}
Holding == {"filter", "run", "post", "complete", "clear", "free"}
Working == {"check", "next", "drain"} \cup Holding
ThreadLabels ==
    {"none", "starting", "wait", "bye", "gone", "dead", "oops"} \cup Working
MgrLabels == {"closed", "spawn", "start", "open", "unload", "poll", "deinit",
              "removed", "stop1", "raise1", "down1", "stop2", "raise2", "down2"}

TypeOK ==
    /\ queue \in Seq(Cmds)
    /\ qsema \in Nat
    /\ tsema \in Nat
    /\ running \in BOOLEAN
    /\ stop_req \in BOOLEAN
    /\ hw \in BOOLEAN
    /\ stopped \in BOOLEAN
    /\ mutex \in [held : BOOLEAN, refused : BOOLEAN]
    /\ obj \in [Cmds -> Objs]
    /\ sync \in [Cmds -> BOOLEAN]
    /\ always \in [Cmds -> BOOLEAN]
    /\ sctx \in [Cmds -> BOOLEAN]
    /\ status \in [Cmds -> {"submitted", "done"}]
    /\ caller \in [Cmds -> CallerLabels]
    /\ thr \in [Gens -> ThreadLabels]
    /\ hand \in [Gens -> Cmds \cup {NoCmd}]
    /\ \A t \in Gens : thr[t] \in Holding => hand[t] \in Cmds
    /\ starts \in 0..MaxStarts
    /\ mgr \in MgrLabels
    /\ removing \in BOOLEAN
    /\ faults \in 0..MaxFaults

Init ==
    /\ queue = <<>>
    /\ qsema = 0
    /\ tsema = 0
    /\ running = FALSE
    /\ stop_req = FALSE
    /\ hw = FALSE
    /\ stopped = FALSE
    /\ mutex = [held |-> FALSE, refused |-> FALSE]
    /\ obj = [c \in Cmds |-> "none"]
    /\ sync = [c \in Cmds |-> FALSE]
    /\ always = [c \in Cmds |-> FALSE]
    /\ sctx = [c \in Cmds |-> FALSE]
    /\ status = [c \in Cmds |-> "submitted"]
    /\ caller = [c \in Cmds |-> "idle"]
    /\ thr = [t \in Gens |-> "none"]
    /\ hand = [t \in Gens |-> NoCmd]
    /\ starts = 0
    /\ mgr = "closed"
    /\ removing = FALSE
    /\ faults = 0

CallerGoto(c, label) == caller' = [caller EXCEPT ![c] = label]
ThreadGoto(t, label) == thr' = [thr EXCEPT ![t] = label]
Fault == faults < MaxFaults /\ faults' = faults + 1

(* _enter_critical_mutex is mutex_lock_interruptible, and nobody looks at  *)
(* what it returns: with a signal pending it gives up a mutex that is held *)
(* by another.  A free one it takes without a look at signals.             *)
EnterMutex == ~mutex.held /\ mutex' = [mutex EXCEPT !.held = TRUE]

RefuseMutex == mutex.held /\ Fault /\ mutex' = [mutex EXCEPT !.refused = TRUE]

(* mutex_unlock frees the mutex whoever holds it.                          *)
ExitMutex == mutex' = [mutex EXCEPT !.held = FALSE]

-----------------------------------------------------------------------------
(* Callers.                                                                *)

(* rtw_cmd_filter.                                                         *)
Filter(allow) == (hw \/ allow) /\ running

(* rtw_startbss_cmd and the other rtw_xxx_cmd functions: a command object  *)
(* is made, with the address of a submit_ctx when the caller will wait.    *)
(* rtw_enqueue_cmd frees it at once when the filter says no.               *)
Submit(c, s, a) ==
    /\ caller[c] = "idle"
    /\ mgr # "removed"
    /\ <<s, a>> \in Ways[c]
    /\ Filter(a)
    /\ obj' = [obj EXCEPT ![c] = "alloc"]
    /\ sync' = [sync EXCEPT ![c] = s]
    /\ always' = [always EXCEPT ![c] = a]
    /\ sctx' = [sctx EXCEPT ![c] = s]
    /\ CallerGoto(c, "enqueue")
    /\ UNCHANGED <<flags, semas, mutex, queue, status, thr, hand, mgrvars>>

Reject(c, a) ==
    /\ caller[c] = "idle"
    /\ mgr # "removed"
    /\ ~Filter(a)
    /\ obj' = [obj EXCEPT ![c] = "freed"]
    /\ CallerGoto(c, "returned")
    /\ UNCHANGED <<flags, semas, mutex, queue, sync, always, sctx, status, thr,
                   hand, mgrvars>>

(* _rtw_enqueue_cmd, under the lock of the queue.                          *)
Enqueue(c) ==
    /\ caller[c] = "enqueue"
    /\ queue' = Append(queue, c)
    /\ obj' = [obj EXCEPT ![c] = "queued"]
    /\ CallerGoto(c, "raise")
    /\ UNCHANGED <<flags, semas, mutex, sync, always, sctx, status, thr, hand,
                   mgrvars>>

(* _rtw_up_sema(&pcmdpriv->cmd_queue_sema).                                *)
Raise(c) ==
    /\ caller[c] = "raise"
    /\ qsema' = qsema + 1
    /\ CallerGoto(c, IF sync[c] THEN "wait" ELSE "returned")
    /\ UNCHANGED <<flags, tsema, mutex, queue, obj, sync, always, sctx, status,
                   thr, hand, mgrvars>>

(* Mutant: a caller that times out leaves its submit_ctx with the command. *)
WaitEnds_NoDetach(c) ==
    /\ caller[c] = "wait"
    /\ CallerGoto(c, IF status[c] = "done" THEN "detach" ELSE "returned")
    /\ UNCHANGED <<flags, semas, mutex, queue, obj, sync, always, sctx, status,
                   thr, hand, mgrvars>>

(* rtw_sctx_wait comes back: completed, or after 2000 ms.                  *)
WaitEnds(c) ==
    /\ caller[c] = "wait"
    /\ CallerGoto(c, "detach")
    /\ UNCHANGED <<flags, semas, mutex, queue, obj, sync, always, sctx, status,
                   thr, hand, mgrvars>>

(* Under sctx_mutex the caller looks whether its command is done, and      *)
(* takes its submit_ctx back when not.                                     *)
Detach(c) ==
    /\ caller[c] = "detach"
    /\ EnterMutex
    /\ CallerGoto(c, IF status[c] = "submitted" THEN "forget" ELSE "leave")
    /\ UNCHANGED <<flags, semas, cmddata, thr, hand, mgrvars>>

(* A signal is pending while the thread has the mutex: the caller goes on  *)
(* as if it had it.                                                        *)
DetachRefused(c) ==
    /\ caller[c] = "detach"
    /\ RefuseMutex
    /\ CallerGoto(c, IF status[c] = "submitted" THEN "forget" ELSE "leave")
    /\ UNCHANGED <<flags, semas, cmddata, thr, hand, starts, mgr, removing>>

(* pcmd->sctx = NULL, the unlock, and the return: its stack frame is gone. *)
Leave(c) ==
    /\ caller[c] \in {"forget", "leave"}
    /\ sctx' = [sctx EXCEPT ![c] = @ /\ caller[c] = "leave"]
    /\ ExitMutex
    /\ CallerGoto(c, "returned")
    /\ UNCHANGED <<flags, semas, queue, obj, sync, always, status, thr, hand,
                   mgrvars>>

-----------------------------------------------------------------------------
(* rtw_cmd_thread.                                                         *)

ThreadStart(t) ==
    /\ thr[t] = "starting"
    /\ stop_req' = FALSE
    /\ running' = TRUE
    /\ tsema' = tsema + 1
    /\ ThreadGoto(t, "wait")
    /\ UNCHANGED <<hw, stopped, qsema, mutex, cmdvars, hand, mgrvars>>

(* Mutant: the thread does not sleep when the semaphore is down.           *)
ThreadDown_NoSleep(t) ==
    /\ thr[t] = "wait"
    /\ qsema' = qsema - 1
    /\ ThreadGoto(t, "check")
    /\ UNCHANGED <<flags, tsema, mutex, cmdvars, hand, mgrvars>>

(* _rtw_down_sema(&pcmdpriv->cmd_queue_sema).                              *)
ThreadDown(t) ==
    /\ thr[t] = "wait"
    /\ qsema > 0
    /\ qsema' = qsema - 1
    /\ ThreadGoto(t, "check")
    /\ UNCHANGED <<flags, tsema, mutex, cmdvars, hand, mgrvars>>

(* down_interruptible fails: thread_enter allows SIGTERM.                  *)
ThreadSignal(t) ==
    /\ Fault
    /\ thr[t] = "wait"
    /\ ThreadGoto(t, "drain")
    /\ UNCHANGED <<flags, semas, mutex, cmdvars, hand, starts, mgr, removing>>

ThreadCheck(t) ==
    /\ thr[t] = "check"
    /\ ThreadGoto(t, IF stopped \/ stop_req THEN "drain"
                     ELSE IF queue = <<>> THEN "wait" ELSE "next")
    /\ UNCHANGED <<flags, semas, mutex, cmdvars, hand, mgrvars>>

(* _next: without a look at stop_req, until the queue is empty.            *)
ThreadStopped(t) ==
    /\ thr[t] = "next"
    /\ stopped \/ queue = <<>>
    /\ ThreadGoto(t, IF stopped THEN "drain" ELSE "wait")
    /\ UNCHANGED <<flags, semas, mutex, cmdvars, hand, mgrvars>>

(* Mutant: the command stays in the queue until it is freed.               *)
ThreadDequeue_Peek(t) ==
    /\ thr[t] = "next"
    /\ ~stopped
    /\ queue # <<>>
    /\ hand' = [hand EXCEPT ![t] = Head(queue)]
    /\ obj' = [obj EXCEPT ![Head(queue)] = "held"]
    /\ ThreadGoto(t, "filter")
    /\ UNCHANGED <<flags, semas, mutex, queue, sync, always, sctx, status, caller,
                   mgrvars>>

ThreadDequeue(t) ==
    /\ thr[t] = "next"
    /\ ~stopped
    /\ queue # <<>>
    /\ queue' = Tail(queue)
    /\ hand' = [hand EXCEPT ![t] = Head(queue)]
    /\ obj' = [obj EXCEPT ![Head(queue)] = "held"]
    /\ ThreadGoto(t, "filter")
    /\ UNCHANGED <<flags, semas, mutex, sync, always, sctx, status, caller,
                   mgrvars>>

(* Mutant: a dropped command is freed without telling its caller.          *)
ThreadFilter_Forget(t) ==
    /\ thr[t] = "filter"
    /\ ThreadGoto(t, IF Filter(always[hand[t]]) THEN "run" ELSE "free")
    /\ UNCHANGED <<flags, semas, mutex, cmdvars, hand, mgrvars>>

(* The filter again: the hardware may be off by now (H2C_DROPPED).         *)
ThreadFilter(t) ==
    /\ thr[t] = "filter"
    /\ ThreadGoto(t, IF Filter(always[hand[t]]) THEN "run" ELSE "post")
    /\ UNCHANGED <<flags, semas, mutex, cmdvars, hand, mgrvars>>

(* The handler out of wlancmds returns, successful or not.                 *)
ThreadRun(t) ==
    /\ thr[t] = "run"
    /\ ThreadGoto(t, "post")
    /\ UNCHANGED <<flags, semas, mutex, cmdvars, hand, mgrvars>>

(* post_process: sctx_mutex is taken and pcmd->sctx tested; rtw_sctx_done  *)
(* or rtw_sctx_done_err set the status, complete it, and then clear        *)
(* pcmd->sctx.                                                             *)
ThreadPost(t) ==
    /\ thr[t] = "post"
    /\ EnterMutex
    /\ ThreadGoto(t, IF sctx[hand[t]] THEN "complete" ELSE "clear")
    /\ UNCHANGED <<flags, semas, cmdvars, hand, mgrvars>>

ThreadPostRefused(t) ==
    /\ thr[t] = "post"
    /\ RefuseMutex
    /\ ThreadGoto(t, IF sctx[hand[t]] THEN "complete" ELSE "clear")
    /\ UNCHANGED <<flags, semas, cmdvars, hand, starts, mgr, removing>>

ThreadComplete(t) ==
    /\ thr[t] = "complete"
    /\ status' = [status EXCEPT ![hand[t]] = "done"]
    /\ ThreadGoto(t, "clear")
    /\ UNCHANGED <<flags, semas, mutex, queue, obj, sync, always, sctx, caller,
                   hand, mgrvars>>

(* A pcmd->sctx that became NULL after the test is dereferenced (where the *)
(* compiler kept the pointer tested, ThreadComplete).                      *)
ThreadOops(t) ==
    /\ thr[t] = "complete"
    /\ ~sctx[hand[t]]
    /\ ThreadGoto(t, "oops")
    /\ UNCHANGED <<flags, semas, mutex, cmdvars, hand, mgrvars>>

ThreadClear(t) ==
    /\ thr[t] = "clear"
    /\ sctx' = [sctx EXCEPT ![hand[t]] = FALSE]
    /\ ExitMutex
    /\ ThreadGoto(t, "free")
    /\ UNCHANGED <<flags, semas, queue, obj, sync, always, status, caller, hand,
                   mgrvars>>

(* The callback, or rtw_free_cmd_obj where there is none.                  *)
ThreadFree(t) ==
    /\ thr[t] = "free"
    /\ obj' = [obj EXCEPT ![hand[t]] = "freed"]
    /\ hand' = [hand EXCEPT ![t] = NoCmd]
    /\ ThreadGoto(t, "next")
    /\ UNCHANGED <<flags, semas, mutex, queue, sync, always, sctx, status,
                   caller, mgrvars>>

(* Out of the loop: what is left is freed, and no caller is told.          *)
ThreadDrain(t) ==
    /\ thr[t] = "drain"
    /\ queue # <<>>
    /\ queue' = Tail(queue)
    /\ obj' = [obj EXCEPT ![Head(queue)] = "dropped"]
    /\ UNCHANGED <<flags, semas, mutex, sync, always, sctx, status, caller, thr,
                   hand, mgrvars>>

ThreadDrained(t) ==
    /\ thr[t] = "drain"
    /\ queue = <<>>
    /\ ThreadGoto(t, "bye")
    /\ UNCHANGED <<flags, semas, mutex, cmdvars, hand, mgrvars>>

ThreadBye(t) ==
    /\ thr[t] = "bye"
    /\ tsema' = tsema + 1
    /\ ThreadGoto(t, "gone")
    /\ UNCHANGED <<flags, qsema, mutex, cmdvars, hand, mgrvars>>

ThreadGone(t) ==
    /\ thr[t] = "gone"
    /\ running' = FALSE
    /\ ThreadGoto(t, "dead")
    /\ UNCHANGED <<stop_req, hw, stopped, semas, mutex, cmdvars, hand, mgrvars>>

-----------------------------------------------------------------------------
(* The manager.                                                            *)

(* _netdev_open, at ifup or out of the resume.                             *)
Open ==
    /\ mgr = "closed"
    /\ starts < MaxStarts
    /\ stopped' = FALSE
    /\ hw' = TRUE
    /\ mgr' = "spawn"
    /\ UNCHANGED <<running, stop_req, semas, mutex, cmdvars, thr, hand, starts,
                   removing, faults>>

(* Mutant: every start begins with a fresh cmd_queue_sema.                 *)
Spawn_FreshSema ==
    /\ mgr = "spawn"
    /\ starts' = starts + 1
    /\ ThreadGoto(starts + 1, "starting")
    /\ mgr' = "start"
    /\ qsema' = 0
    /\ UNCHANGED <<flags, tsema, mutex, cmdvars, hand, removing, faults>>

(* rtw_start_drv_threads: kthread_run, and wait for the thread to run.     *)
Spawn ==
    /\ mgr = "spawn"
    /\ starts' = starts + 1
    /\ ThreadGoto(starts + 1, "starting")
    /\ mgr' = "start"
    /\ UNCHANGED <<flags, semas, mutex, cmdvars, hand, removing, faults>>

Started ==
    /\ mgr = "start"
    /\ tsema > 0
    /\ tsema' = tsema - 1
    /\ mgr' = "open"
    /\ UNCHANGED <<flags, qsema, mutex, cmdvars, thr, hand, starts, removing,
                   faults>>

(* rtw_suspend_common gives up when the driver is already stopped.         *)
Suspend ==
    /\ mgr = "open"
    /\ ~stopped
    /\ mgr' = "stop1"
    /\ UNCHANGED <<flags, semas, mutex, cmdvars, thr, hand, starts, removing,
                   faults>>

(* rtw_usb_if1_deinit, when the device is unplugged or the driver leaves.  *)
Remove ==
    /\ mgr = "open"
    /\ removing' = TRUE
    /\ mgr' = "unload"
    /\ UNCHANGED <<flags, semas, mutex, cmdvars, thr, hand, starts, faults>>

(* rtw_stop_cmd_thread, called by the suspend (1) and the unload (2).      *)
StopLabel(call, one, two) == mgr = IF call = 1 THEN one ELSE two
AfterStop(call) == IF call = 1 THEN "unload" ELSE "poll"

StopSkips(call) ==
    /\ StopLabel(call, "stop1", "stop2")
    /\ ~running \/ stop_req
    /\ mgr' = AfterStop(call)
    /\ UNCHANGED <<flags, semas, mutex, cmdvars, thr, hand, starts, removing,
                   faults>>

StopRequest(call) ==
    /\ StopLabel(call, "stop1", "stop2")
    /\ running
    /\ ~stop_req
    /\ stop_req' = TRUE
    /\ mgr' = IF call = 1 THEN "raise1" ELSE "raise2"
    /\ UNCHANGED <<running, hw, stopped, semas, mutex, cmdvars, thr, hand,
                   starts, removing, faults>>

(* Mutant: the thread is told to stop and not woken up.                    *)
StopRaise_NoUp(call) ==
    /\ StopLabel(call, "raise1", "raise2")
    /\ mgr' = IF call = 1 THEN "down1" ELSE "down2"
    /\ UNCHANGED <<flags, semas, mutex, cmdvars, thr, hand, starts, removing,
                   faults>>

StopRaise(call) ==
    /\ StopLabel(call, "raise1", "raise2")
    /\ qsema' = qsema + 1
    /\ mgr' = IF call = 1 THEN "down1" ELSE "down2"
    /\ UNCHANGED <<flags, tsema, mutex, cmdvars, thr, hand, starts, removing,
                   faults>>

(* Mutant: the end of the thread is not waited for.                        *)
StopDown_NoWait(call) ==
    /\ StopLabel(call, "down1", "down2")
    /\ mgr' = AfterStop(call)
    /\ UNCHANGED <<flags, semas, mutex, cmdvars, thr, hand, starts, removing,
                   faults>>

StopDown(call) ==
    /\ StopLabel(call, "down1", "down2")
    /\ tsema > 0
    /\ tsema' = tsema - 1
    /\ mgr' = AfterStop(call)
    /\ UNCHANGED <<flags, qsema, mutex, cmdvars, thr, hand, starts, removing,
                   faults>>

(* rtw_dev_unload.                                                         *)
Unload ==
    /\ mgr = "unload"
    /\ stopped' = TRUE
    /\ mgr' = "stop2"
    /\ UNCHANGED <<running, stop_req, hw, semas, mutex, cmdvars, thr, hand,
                   starts, removing, faults>>

(* cmdthd_running is polled for at most 60 ms.                             *)
Poll ==
    /\ mgr = "poll"
    /\ IF running THEN Fault ELSE UNCHANGED faults
    /\ mgr' = "deinit"
    /\ UNCHANGED <<flags, semas, mutex, cmdvars, thr, hand, starts, removing>>

(* rtw_hal_deinit; bSurpriseRemoved is set.                                *)
Deinit ==
    /\ mgr = "deinit"
    /\ hw' = FALSE
    /\ stopped' = TRUE
    /\ mgr' = IF removing THEN "removed" ELSE "closed"
    /\ UNCHANGED <<running, stop_req, semas, mutex, cmdvars, thr, hand, starts,
                   removing, faults>>

(* IPS powers the hardware down while the interface is open, and up again: *)
(* ips_netdrv_open clears bDriverStopped and leaves bSurpriseRemoved.      *)
IpsDown ==
    /\ mgr = "open"
    /\ hw' = FALSE
    /\ UNCHANGED <<running, stop_req, stopped, semas, mutex, cmdvars, thr, hand,
                   mgrvars>>

IpsUp ==
    /\ mgr = "open"
    /\ ~hw
    /\ hw' = TRUE
    /\ stopped' \in {stopped, FALSE}
    /\ UNCHANGED <<running, stop_req, semas, mutex, cmdvars, thr, hand, mgrvars>>

(* A URB or a register access fails for good.                              *)
IoError ==
    /\ Fault
    /\ mgr \notin {"closed", "removed"}
    /\ ~stopped
    /\ stopped' = TRUE
    /\ UNCHANGED <<running, stop_req, hw, semas, mutex, cmdvars, thr, hand,
                   starts, mgr, removing>>

-----------------------------------------------------------------------------
CallerSteps(c) ==
    Enqueue(c) \/ Raise(c) \/ WaitEnds(c) \/ Detach(c) \/ Leave(c)

ThreadSteps(t) ==
    \/ ThreadStart(t) \/ ThreadDown(t) \/ ThreadCheck(t) \/ ThreadStopped(t)
    \/ ThreadDequeue(t) \/ ThreadFilter(t) \/ ThreadRun(t) \/ ThreadPost(t)
    \/ ThreadComplete(t) \/ ThreadOops(t) \/ ThreadClear(t) \/ ThreadFree(t)
    \/ ThreadDrain(t) \/ ThreadDrained(t) \/ ThreadBye(t) \/ ThreadGone(t)

StopSteps(call) ==
    StopSkips(call) \/ StopRequest(call) \/ StopRaise(call) \/ StopDown(call)

Next ==
    \/ \E c \in Cmds, s, a \in BOOLEAN : Submit(c, s, a)
    \/ \E c \in Cmds, a \in BOOLEAN : Reject(c, a)
    \/ \E c \in Cmds : CallerSteps(c) \/ DetachRefused(c)
    \/ \E t \in Gens : ThreadSteps(t) \/ ThreadSignal(t) \/ ThreadPostRefused(t)
    \/ Open \/ Spawn \/ Started \/ Suspend \/ Remove
    \/ \E call \in 1..2 : StopSteps(call)
    \/ Unload \/ Poll \/ Deinit \/ IpsDown \/ IpsUp \/ IoError

Spec == Init /\ [][Next]_vars

(* Threads that can run do run, handlers come back, and the device is      *)
(* opened, suspended or removed by others, at their will.                  *)
FairSpec ==
    /\ Spec
    /\ \A c \in Cmds : WF_vars(CallerSteps(c))
    /\ \A t \in Gens : WF_vars(ThreadSteps(t)) /\ SF_vars(ThreadPost(t))
    /\ WF_vars(Spawn \/ Started \/ Unload \/ Poll \/ Deinit)
    /\ WF_vars(\E call \in 1..2 : StopSteps(call))

-----------------------------------------------------------------------------
InFlight(c) == obj[c] \in {"alloc", "queued", "held"}

(* The properties about submit_ctx hold until a signal makes the lock of   *)
(* sctx_mutex fail, which nobody notices.                                  *)
Guarded == ~mutex.refused

(* The thread died in the middle of a completion.                          *)
Crashed == \E t \in Gens : thr[t] = "oops"

(* As long as sctx_mutex is obtained by those who lock it: a command that  *)
(* is alive and points at a submit_ctx, and a thread that has tested this  *)
(* pointer and is about to complete it, find the caller still there.       *)
(* Whatever the 2000 ms timeout of rtw_startbss_cmd races with, the thread *)
(* does not write to a stack frame that is gone.                           *)
StackSafe ==
    Guarded => \A c \in Cmds : caller[c] = "returned" =>
        /\ ~(sctx[c] /\ InFlight(c))
        /\ \A t \in Gens : ~(thr[t] = "complete" /\ hand[t] = c)

(* A caller that has found, or will find, its submit_ctx not completed     *)
(* writes to the command object: as long as sctx_mutex is obtained, the    *)
(* thread has not freed it in the course of its work, done or dropped by   *)
(* the filter.  (The loop that frees what is left when the thread ends is  *)
(* another matter: see the README.)                                        *)
DetachSafe ==
    Guarded => \A c \in Cmds :
        \/ caller[c] = "forget"
        \/ caller[c] = "detach" /\ status[c] = "submitted"
        => obj[c] # "freed"

(* A queued command is never slept on: if commands are waiting and the     *)
(* semaphore is down, somebody is about to raise it or a thread is up and  *)
(* will look at the queue, although one wake-up empties the whole queue    *)
(* and leaves tokens behind.                                               *)
NoLostWakeup ==
    queue # <<>> /\ qsema = 0 /\ ~Crashed =>
        \/ \E c \in Cmds : caller[c] = "raise"
        \/ \E t \in Gens : thr[t] \in Working

(* Without faults, the thread has done its last work on the hardware and   *)
(* the queue when rtw_stop_cmd_thread returns, also when it left by itself *)
(* because bDriverStopped was set first: the hardware is taken down with   *)
(* no command running.                                                     *)
StopQuiesces ==
    faults = 0 /\ mgr \in {"poll", "deinit", "closed", "removed"} =>
        \A t \in Gens : thr[t] \in {"none", "gone", "dead"}

Phase == [c \in Cmds |-> IF obj[c] \in {"freed", "dropped"} THEN "over" ELSE obj[c]]
Attending == {"enqueue", "raise", "wait", "detach", "forget", "leave"}
Waiting == {c \in Cmds : sync[c] /\ caller[c] \in Attending}
Answered == {c \in Cmds : status[c] = "done"}

Service == INSTANCE CommandService WITH
    line <- queue, phase <- Phase, waiting <- Waiting, answered <- Answered,
    unguarded <- mutex.refused

(* The command queue implements CommandService: with any interleaving of   *)
(* callers, timeouts, restarts and incarnations of rtw_cmd_thread that     *)
(* overlap, a command is worked on once and in order; and until a signal   *)
(* makes the lock of sctx_mutex fail, a submit_ctx is completed once and   *)
(* only while its caller is there, and the thread frees no command it took *)
(* out of the queue under a caller without an answer.                      *)
CommandSpec == Service!Spec

(* A command in the queue is dequeued, as long as a thread is there (and   *)
(* did not die of a completion without the mutex).                         *)
CommandLeaves ==
    \A c \in Cmds :
        obj[c] = "queued" ~> (obj[c] # "queued" \/ ~running \/ Crashed)

(* rtw_stop_cmd_thread always returns, whether the thread was asleep, busy *)
(* or on its way out (unless it died as above).                            *)
StopReturns ==
    (mgr \in {"down1", "down2"}) ~> (mgr \notin {"down1", "down2"} \/ Crashed)
=============================================================================
