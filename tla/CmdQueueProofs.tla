--------------------------- MODULE CmdQueueProofs ---------------------------
(***************************************************************************)
(* Proofs about the command queue, for every set of commands and every     *)
(* number of restarts and faults.                                          *)
(***************************************************************************)
EXTENDS CmdQueue, TLAPS

-----------------------------------------------------------------------------
(* Type correctness, in two parts: the Booleans and the rest.              *)

FlagType ==
    /\ running \in BOOLEAN
    /\ stop_req \in BOOLEAN
    /\ hw \in BOOLEAN
    /\ stopped \in BOOLEAN
    /\ removing \in BOOLEAN
    /\ mutex \in [held : BOOLEAN, refused : BOOLEAN]
    /\ sync \in [Cmds -> BOOLEAN]
    /\ always \in [Cmds -> BOOLEAN]
    /\ sctx \in [Cmds -> BOOLEAN]

DataType ==
    /\ queue \in Seq(Cmds)
    /\ qsema \in Nat
    /\ tsema \in Nat
    /\ obj \in [Cmds -> Objs]
    /\ status \in [Cmds -> {"submitted", "done"}]
    /\ caller \in [Cmds -> CallerLabels]
    /\ thr \in [Gens -> ThreadLabels]
    /\ hand \in [Gens -> Cmds \cup {NoCmd}]
    /\ \A t \in Gens : thr[t] \in Holding => hand[t] \in Cmds
    /\ starts \in 0..MaxStarts
    /\ mgr \in MgrLabels
    /\ faults \in 0..MaxFaults
    /\ mgr = "spawn" => starts < MaxStarts
    /\ \A t \in Gens : t > starts => thr[t] = "none"

(* What the operations on sctx_mutex do to it.                             *)
LEMMA MutexSteps ==
    ASSUME mutex \in [held : BOOLEAN, refused : BOOLEAN],
           EnterMutex \/ RefuseMutex \/ ExitMutex
    PROVE  /\ mutex' \in [held : BOOLEAN, refused : BOOLEAN]
           /\ EnterMutex => mutex'.held /\ mutex'.refused = mutex.refused
           /\ RefuseMutex => mutex'.refused
           /\ ExitMutex => mutex'.refused = mutex.refused
  BY DEF EnterMutex, RefuseMutex, ExitMutex

(* Every step keeps the types; the Booleans first.                         *)
LEMMA FlagStep ==
    ASSUME FlagType, [Next]_vars PROVE FlagType'
  <1>0. EnterMutex \/ RefuseMutex \/ ExitMutex =>
            mutex' \in [held : BOOLEAN, refused : BOOLEAN]
    BY MutexSteps DEF FlagType
  <1>1. ASSUME NEW c \in Cmds, NEW s \in BOOLEAN, NEW a \in BOOLEAN,
              Submit(c, s, a)
       PROVE  FlagType'
    BY <1>1, Zenon DEF FlagType, Submit, CallerGoto, Filter, flags, mgrvars
  <1>2. ASSUME NEW c \in Cmds, NEW a \in BOOLEAN, Reject(c, a) PROVE FlagType'
    BY <1>2, Zenon DEF FlagType, Reject, CallerGoto, Filter, flags, mgrvars
  <1>3. ASSUME NEW c \in Cmds, Enqueue(c) PROVE FlagType'
    BY <1>3, Zenon DEF FlagType, Enqueue, CallerGoto, flags, mgrvars
  <1>4. ASSUME NEW c \in Cmds, Raise(c) PROVE FlagType'
    BY <1>4, Zenon DEF FlagType, Raise, CallerGoto, flags, mgrvars
  <1>5. ASSUME NEW c \in Cmds, WaitEnds(c) PROVE FlagType'
    BY <1>5, Zenon DEF FlagType, WaitEnds, CallerGoto, flags, mgrvars
  <1>6. ASSUME NEW c \in Cmds, Detach(c) PROVE FlagType'
    BY <1>6, <1>0, Zenon DEF FlagType, Detach, CallerGoto, cmddata, flags, mgrvars
  <1>39. ASSUME NEW c \in Cmds, DetachRefused(c) PROVE FlagType'
    BY <1>39, <1>0, Zenon DEF FlagType, DetachRefused, CallerGoto, cmddata, flags
  <1>40. ASSUME NEW c \in Cmds, Leave(c) PROVE FlagType'
    BY <1>40, <1>0, Zenon DEF FlagType, Leave, CallerGoto, flags, mgrvars
  <1>7. ASSUME NEW t \in Gens, ThreadStart(t) PROVE FlagType'
    BY <1>7, Zenon DEF FlagType, ThreadStart, ThreadGoto, cmdvars, mgrvars
  <1>8. ASSUME NEW t \in Gens, ThreadDown(t) PROVE FlagType'
    BY <1>8, Zenon DEF FlagType, ThreadDown, ThreadGoto, flags, cmdvars,
       mgrvars
  <1>9. ASSUME NEW t \in Gens, ThreadCheck(t) PROVE FlagType'
    BY <1>9, Zenon DEF FlagType, ThreadCheck, ThreadGoto, flags, cmdvars,
       mgrvars
  <1>10. ASSUME NEW t \in Gens, ThreadStopped(t) PROVE FlagType'
    BY <1>10, Zenon DEF FlagType, ThreadStopped, ThreadGoto, flags, cmdvars,
       mgrvars
  <1>11. ASSUME NEW t \in Gens, ThreadDequeue(t) PROVE FlagType'
    BY <1>11, Zenon DEF FlagType, ThreadDequeue, ThreadGoto, flags, mgrvars
  <1>12. ASSUME NEW t \in Gens, ThreadFilter(t) PROVE FlagType'
    BY <1>12, Zenon DEF FlagType, ThreadFilter, ThreadGoto, Filter, flags,
       cmdvars, mgrvars
  <1>13. ASSUME NEW t \in Gens, ThreadRun(t) PROVE FlagType'
    BY <1>13, Zenon DEF FlagType, ThreadRun, ThreadGoto, flags, cmdvars,
       mgrvars
  <1>14. ASSUME NEW t \in Gens, ThreadPost(t) PROVE FlagType'
    BY <1>14, <1>0, Zenon DEF FlagType, ThreadPost, ThreadGoto, cmdvars, flags, mgrvars
  <1>41. ASSUME NEW t \in Gens, ThreadPostRefused(t) PROVE FlagType'
    BY <1>41, <1>0, Zenon DEF FlagType, ThreadPostRefused, ThreadGoto, cmdvars, flags
  <1>42. ASSUME NEW t \in Gens, ThreadComplete(t) PROVE FlagType'
    BY <1>42, Zenon DEF FlagType, ThreadComplete, ThreadGoto, flags, mgrvars
  <1>43. ASSUME NEW t \in Gens, ThreadOops(t) PROVE FlagType'
    BY <1>43, Zenon DEF FlagType, ThreadOops, ThreadGoto, cmdvars, flags, mgrvars
  <1>15. ASSUME NEW t \in Gens, ThreadClear(t) PROVE FlagType'
    BY <1>15, <1>0, Zenon DEF FlagType, ThreadClear, ThreadGoto, flags, mgrvars
  <1>16. ASSUME NEW t \in Gens, ThreadFree(t) PROVE FlagType'
    BY <1>16, Zenon DEF FlagType, ThreadFree, ThreadGoto, flags, mgrvars
  <1>17. ASSUME NEW t \in Gens, ThreadDrain(t) PROVE FlagType'
    BY <1>17, Zenon DEF FlagType, ThreadDrain, flags, mgrvars
  <1>18. ASSUME NEW t \in Gens, ThreadDrained(t) PROVE FlagType'
    BY <1>18, Zenon DEF FlagType, ThreadDrained, ThreadGoto, flags, cmdvars,
       mgrvars
  <1>19. ASSUME NEW t \in Gens, ThreadBye(t) PROVE FlagType'
    BY <1>19, Zenon DEF FlagType, ThreadBye, ThreadGoto, flags, cmdvars,
       mgrvars
  <1>20. ASSUME NEW t \in Gens, ThreadGone(t) PROVE FlagType'
    BY <1>20, Zenon DEF FlagType, ThreadGone, ThreadGoto, cmdvars, mgrvars
  <1>21. ASSUME NEW t \in Gens, ThreadSignal(t) PROVE FlagType'
    BY <1>21, Zenon DEF FlagType, ThreadSignal, ThreadGoto, Fault, flags,
       cmdvars
  <1>22. CASE Open
    BY <1>22, Zenon DEF FlagType, Open, cmdvars
  <1>23. CASE Spawn
    BY <1>23, Zenon DEF FlagType, Spawn, ThreadGoto, flags, cmdvars
  <1>24. CASE Started
    BY <1>24, Zenon DEF FlagType, Started, flags, cmdvars
  <1>25. CASE Suspend
    BY <1>25, Zenon DEF FlagType, Suspend, flags, cmdvars
  <1>26. CASE Remove
    BY <1>26, Zenon DEF FlagType, Remove, flags, cmdvars
  <1>27. ASSUME NEW call \in 1..2, StopSkips(call) PROVE FlagType'
    BY <1>27, Zenon DEF FlagType, StopSkips, StopLabel, AfterStop, flags,
       cmdvars
  <1>28. ASSUME NEW call \in 1..2, StopRequest(call) PROVE FlagType'
    BY <1>28, Zenon DEF FlagType, StopRequest, StopLabel, cmdvars
  <1>29. ASSUME NEW call \in 1..2, StopRaise(call) PROVE FlagType'
    BY <1>29, Zenon DEF FlagType, StopRaise, StopLabel, flags, cmdvars
  <1>30. ASSUME NEW call \in 1..2, StopDown(call) PROVE FlagType'
    BY <1>30, Zenon DEF FlagType, StopDown, StopLabel, AfterStop, flags,
       cmdvars
  <1>31. CASE Unload
    BY <1>31, Zenon DEF FlagType, Unload, cmdvars
  <1>32. CASE Poll
    BY <1>32, Zenon DEF FlagType, Poll, Fault, flags, cmdvars
  <1>33. CASE Deinit
    BY <1>33, Zenon DEF FlagType, Deinit, cmdvars
  <1>34. CASE IpsDown
    BY <1>34, Zenon DEF FlagType, IpsDown, cmdvars, mgrvars
  <1>35. CASE IpsUp
    BY <1>35, Zenon DEF FlagType, IpsUp, cmdvars, mgrvars
  <1>36. CASE IoError
    BY <1>36, Zenon DEF FlagType, IoError, Fault, cmdvars
  <1>37. CASE UNCHANGED vars
    BY <1>37, Zenon DEF FlagType, vars, flags, cmdvars, mgrvars
  <1>38. QED
    BY <1>1, <1>2, <1>3, <1>4, <1>5, <1>6, <1>7, <1>8, <1>9, <1>10, <1>11,
       <1>12, <1>13, <1>14, <1>15, <1>16, <1>17, <1>18, <1>19, <1>20,
       <1>21, <1>22, <1>23, <1>24, <1>25, <1>26, <1>27, <1>28, <1>29,
       <1>30, <1>31, <1>32, <1>33, <1>34, <1>35, <1>36, <1>37, <1>39, <1>40,
       <1>41, <1>42, <1>43
       DEF Next, CallerSteps, ThreadSteps, StopSteps

(* The rest of the types, with what is known of threads not yet started.  *)
LEMMA DataStep ==
    ASSUME DataType, [Next]_vars PROVE DataType'
  <1>1. ASSUME NEW c \in Cmds, NEW s \in BOOLEAN, NEW a \in BOOLEAN,
              Submit(c, s, a)
       PROVE  DataType'
    BY <1>1 DEF DataType, Submit, CallerGoto, Filter, semas, mgrvars, Objs,
       CallerLabels
  <1>2. ASSUME NEW c \in Cmds, NEW a \in BOOLEAN, Reject(c, a) PROVE DataType'
    BY <1>2 DEF DataType, Reject, CallerGoto, Filter, semas, mgrvars, Objs,
       CallerLabels
  <1>3. ASSUME NEW c \in Cmds, Enqueue(c) PROVE DataType'
    BY <1>3 DEF DataType, Enqueue, CallerGoto, semas, mgrvars, Objs,
       CallerLabels
  <1>4. ASSUME NEW c \in Cmds, Raise(c) PROVE DataType'
    BY <1>4 DEF DataType, Raise, CallerGoto, mgrvars, CallerLabels
  <1>5. ASSUME NEW c \in Cmds, WaitEnds(c) PROVE DataType'
    BY <1>5 DEF DataType, WaitEnds, CallerGoto, semas, mgrvars, CallerLabels
  <1>6. ASSUME NEW c \in Cmds, Detach(c) PROVE DataType'
    BY <1>6 DEF DataType, Detach, CallerGoto, cmddata, semas, mgrvars, CallerLabels
  <1>39. ASSUME NEW c \in Cmds, DetachRefused(c) PROVE DataType'
    BY <1>39, CmdAssumption DEF DataType, DetachRefused, RefuseMutex, Fault, CallerGoto,
       cmddata, semas, CallerLabels
  <1>40. ASSUME NEW c \in Cmds, Leave(c) PROVE DataType'
    BY <1>40 DEF DataType, Leave, CallerGoto, semas, mgrvars, CallerLabels
  <1>7. ASSUME NEW t \in Gens, ThreadStart(t) PROVE DataType'
    BY <1>7 DEF DataType, ThreadStart, ThreadGoto, cmdvars, mgrvars,
       ThreadLabels, Working, Holding
  <1>8. ASSUME NEW t \in Gens, ThreadDown(t) PROVE DataType'
    BY <1>8 DEF DataType, ThreadDown, ThreadGoto, cmdvars, mgrvars,
       ThreadLabels, Working, Holding
  <1>9. ASSUME NEW t \in Gens, ThreadCheck(t) PROVE DataType'
    BY <1>9 DEF DataType, ThreadCheck, ThreadGoto, semas, cmdvars, mgrvars,
       ThreadLabels, Working, Holding
  <1>10. ASSUME NEW t \in Gens, ThreadStopped(t) PROVE DataType'
    BY <1>10 DEF DataType, ThreadStopped, ThreadGoto, semas, cmdvars, mgrvars,
       ThreadLabels, Working, Holding
  <1>11. ASSUME NEW t \in Gens, ThreadDequeue(t) PROVE DataType'
    BY <1>11 DEF DataType, ThreadDequeue, ThreadGoto, semas, mgrvars, Objs,
       ThreadLabels, Working, Holding
  <1>12. ASSUME NEW t \in Gens, ThreadFilter(t) PROVE DataType'
    BY <1>12 DEF DataType, ThreadFilter, ThreadGoto, Filter, semas, cmdvars,
       mgrvars, ThreadLabels, Working, Holding
  <1>13. ASSUME NEW t \in Gens, ThreadRun(t) PROVE DataType'
    BY <1>13 DEF DataType, ThreadRun, ThreadGoto, semas, cmdvars, mgrvars,
       ThreadLabels, Working, Holding
  <1>14. ASSUME NEW t \in Gens, ThreadPost(t) PROVE DataType'
    BY <1>14 DEF DataType, ThreadPost, ThreadGoto, semas, cmdvars, mgrvars,
       ThreadLabels, Working, Holding
  <1>41. ASSUME NEW t \in Gens, ThreadPostRefused(t) PROVE DataType'
    BY <1>41, CmdAssumption DEF DataType, ThreadPostRefused, ThreadGoto, RefuseMutex,
       Fault, semas, cmdvars, ThreadLabels, Working, Holding
  <1>42. ASSUME NEW t \in Gens, ThreadComplete(t) PROVE DataType'
    BY <1>42 DEF DataType, ThreadComplete, ThreadGoto, semas, mgrvars,
       ThreadLabels, Working, Holding
  <1>43. ASSUME NEW t \in Gens, ThreadOops(t) PROVE DataType'
    BY <1>43 DEF DataType, ThreadOops, ThreadGoto, semas, cmdvars, mgrvars,
       ThreadLabels, Working, Holding
  <1>15. ASSUME NEW t \in Gens, ThreadClear(t) PROVE DataType'
    BY <1>15 DEF DataType, ThreadClear, ThreadGoto, semas, mgrvars,
       ThreadLabels, Working, Holding
  <1>16. ASSUME NEW t \in Gens, ThreadFree(t) PROVE DataType'
    BY <1>16 DEF DataType, ThreadFree, ThreadGoto, semas, mgrvars, Objs,
       ThreadLabels, Working, Holding
  <1>17. ASSUME NEW t \in Gens, ThreadDrain(t) PROVE DataType'
    BY <1>17 DEF DataType, ThreadDrain, semas, mgrvars, Objs
  <1>18. ASSUME NEW t \in Gens, ThreadDrained(t) PROVE DataType'
    BY <1>18 DEF DataType, ThreadDrained, ThreadGoto, semas, cmdvars, mgrvars,
       ThreadLabels, Working, Holding
  <1>19. ASSUME NEW t \in Gens, ThreadBye(t) PROVE DataType'
    BY <1>19 DEF DataType, ThreadBye, ThreadGoto, cmdvars, mgrvars,
       ThreadLabels, Working, Holding
  <1>20. ASSUME NEW t \in Gens, ThreadGone(t) PROVE DataType'
    BY <1>20 DEF DataType, ThreadGone, ThreadGoto, semas, cmdvars, mgrvars,
       ThreadLabels, Working, Holding
  <1>21. ASSUME NEW t \in Gens, ThreadSignal(t) PROVE DataType'
    BY <1>21, CmdAssumption DEF DataType, ThreadSignal, ThreadGoto, Fault,
       semas, cmdvars, ThreadLabels, Working, Holding
  <1>22. CASE Open
    BY <1>22 DEF DataType, Open, semas, cmdvars, MgrLabels
  <1>23. CASE Spawn
    BY <1>23, CmdAssumption DEF DataType, Spawn, ThreadGoto, semas, cmdvars,
       ThreadLabels, Working, Holding, MgrLabels, Gens
  <1>24. CASE Started
    BY <1>24 DEF DataType, Started, cmdvars, MgrLabels
  <1>25. CASE Suspend
    BY <1>25 DEF DataType, Suspend, semas, cmdvars, MgrLabels
  <1>26. CASE Remove
    BY <1>26 DEF DataType, Remove, semas, cmdvars, MgrLabels
  <1>27. ASSUME NEW call \in 1..2, StopSkips(call) PROVE DataType'
    BY <1>27 DEF DataType, StopSkips, StopLabel, AfterStop, semas, cmdvars,
       MgrLabels
  <1>28. ASSUME NEW call \in 1..2, StopRequest(call) PROVE DataType'
    BY <1>28 DEF DataType, StopRequest, StopLabel, semas, cmdvars, MgrLabels
  <1>29. ASSUME NEW call \in 1..2, StopRaise(call) PROVE DataType'
    BY <1>29 DEF DataType, StopRaise, StopLabel, cmdvars, MgrLabels
  <1>30. ASSUME NEW call \in 1..2, StopDown(call) PROVE DataType'
    BY <1>30 DEF DataType, StopDown, StopLabel, AfterStop, cmdvars, MgrLabels
  <1>31. CASE Unload
    BY <1>31 DEF DataType, Unload, semas, cmdvars, MgrLabels
  <1>32. CASE Poll
    BY <1>32, CmdAssumption DEF DataType, Poll, Fault, semas, cmdvars,
       MgrLabels
  <1>33. CASE Deinit
    BY <1>33 DEF DataType, Deinit, semas, cmdvars, MgrLabels
  <1>34. CASE IpsDown
    BY <1>34 DEF DataType, IpsDown, semas, cmdvars, mgrvars
  <1>35. CASE IpsUp
    BY <1>35 DEF DataType, IpsUp, semas, cmdvars, mgrvars
  <1>36. CASE IoError
    BY <1>36, CmdAssumption DEF DataType, IoError, Fault, semas, cmdvars
  <1>37. CASE UNCHANGED vars
    BY <1>37 DEF DataType, vars, semas, cmdvars, mgrvars
  <1>38. QED
    BY <1>1, <1>2, <1>3, <1>4, <1>5, <1>6, <1>7, <1>8, <1>9, <1>10, <1>11,
       <1>12, <1>13, <1>14, <1>15, <1>16, <1>17, <1>18, <1>19, <1>20,
       <1>21, <1>22, <1>23, <1>24, <1>25, <1>26, <1>27, <1>28, <1>29,
       <1>30, <1>31, <1>32, <1>33, <1>34, <1>35, <1>36, <1>37, <1>39, <1>40,
       <1>41, <1>42, <1>43
       DEF Next, CallerSteps, ThreadSteps, StopSteps

(* No step of Next leaves a queued command without a wake-up.              *)
LEMMA WakeupStep ==
    ASSUME DataType, NoLostWakeup, [Next]_vars PROVE NoLostWakeup'
  <1>1. ASSUME NEW c \in Cmds, NEW s \in BOOLEAN, NEW a \in BOOLEAN,
              Submit(c, s, a)
       PROVE  NoLostWakeup'
    BY <1>1 DEF NoLostWakeup, Crashed, DataType, Submit, CallerGoto, semas
  <1>2. ASSUME NEW c \in Cmds, NEW a \in BOOLEAN, Reject(c, a) PROVE NoLostWakeup'
    BY <1>2 DEF NoLostWakeup, Crashed, DataType, Reject, CallerGoto, semas
  <1>3. ASSUME NEW c \in Cmds, Enqueue(c) PROVE NoLostWakeup'
    BY <1>3 DEF NoLostWakeup, Crashed, DataType, Enqueue, CallerGoto, semas
  <1>4. ASSUME NEW c \in Cmds, Raise(c) PROVE NoLostWakeup'
    BY <1>4 DEF NoLostWakeup, Crashed, DataType, Raise, CallerGoto
  <1>5. ASSUME NEW c \in Cmds, WaitEnds(c) PROVE NoLostWakeup'
    BY <1>5 DEF NoLostWakeup, Crashed, DataType, WaitEnds, CallerGoto, semas
  <1>6. ASSUME NEW c \in Cmds, Detach(c) PROVE NoLostWakeup'
    BY <1>6 DEF NoLostWakeup, Crashed, DataType, Detach, CallerGoto, cmddata, semas
  <1>39. ASSUME NEW c \in Cmds, DetachRefused(c) PROVE NoLostWakeup'
    BY <1>39 DEF NoLostWakeup, Crashed, DataType, DetachRefused, CallerGoto, cmddata, semas
  <1>40. ASSUME NEW c \in Cmds, Leave(c) PROVE NoLostWakeup'
    BY <1>40 DEF NoLostWakeup, Crashed, DataType, Leave, CallerGoto, semas
  <1>7. ASSUME NEW t \in Gens, ThreadStart(t) PROVE NoLostWakeup'
    BY <1>7 DEF NoLostWakeup, Crashed, DataType, ThreadStart, ThreadGoto, cmdvars,
       Working, Holding
  <1>8. ASSUME NEW t \in Gens, ThreadDown(t) PROVE NoLostWakeup'
    BY <1>8 DEF NoLostWakeup, Crashed, DataType, ThreadDown, ThreadGoto, cmdvars,
       Working, Holding
  <1>9. ASSUME NEW t \in Gens, ThreadCheck(t) PROVE NoLostWakeup'
    BY <1>9 DEF NoLostWakeup, Crashed, DataType, ThreadCheck, ThreadGoto, semas,
       cmdvars, Working, Holding
  <1>10. ASSUME NEW t \in Gens, ThreadStopped(t) PROVE NoLostWakeup'
    BY <1>10 DEF NoLostWakeup, Crashed, DataType, ThreadStopped, ThreadGoto, semas,
       cmdvars, Working, Holding
  <1>11. ASSUME NEW t \in Gens, ThreadDequeue(t) PROVE NoLostWakeup'
    BY <1>11 DEF NoLostWakeup, Crashed, DataType, ThreadDequeue, ThreadGoto, semas,
       Working, Holding
  <1>12. ASSUME NEW t \in Gens, ThreadFilter(t) PROVE NoLostWakeup'
    BY <1>12 DEF NoLostWakeup, Crashed, DataType, ThreadFilter, ThreadGoto, semas,
       cmdvars, Working, Holding
  <1>13. ASSUME NEW t \in Gens, ThreadRun(t) PROVE NoLostWakeup'
    BY <1>13 DEF NoLostWakeup, Crashed, DataType, ThreadRun, ThreadGoto, semas,
       cmdvars, Working, Holding
  <1>14. ASSUME NEW t \in Gens, ThreadPost(t) PROVE NoLostWakeup'
    BY <1>14 DEF NoLostWakeup, Crashed, DataType, ThreadPost, ThreadGoto, semas,
       cmdvars, Working, Holding
  <1>41. ASSUME NEW t \in Gens, ThreadPostRefused(t) PROVE NoLostWakeup'
    BY <1>41 DEF NoLostWakeup, Crashed, DataType, ThreadPostRefused, ThreadGoto, semas,
       cmdvars, Working, Holding
  <1>42. ASSUME NEW t \in Gens, ThreadComplete(t) PROVE NoLostWakeup'
    BY <1>42 DEF NoLostWakeup, Crashed, DataType, ThreadComplete, ThreadGoto, semas,
       Working, Holding
  <1>43. ASSUME NEW t \in Gens, ThreadOops(t) PROVE NoLostWakeup'
    BY <1>43 DEF NoLostWakeup, Crashed, DataType, ThreadOops, ThreadGoto, semas,
       cmdvars
  <1>15. ASSUME NEW t \in Gens, ThreadClear(t) PROVE NoLostWakeup'
    BY <1>15 DEF NoLostWakeup, Crashed, DataType, ThreadClear, ThreadGoto, semas,
       Working, Holding
  <1>16. ASSUME NEW t \in Gens, ThreadFree(t) PROVE NoLostWakeup'
    BY <1>16 DEF NoLostWakeup, Crashed, DataType, ThreadFree, ThreadGoto, semas,
       Working, Holding
  <1>17. ASSUME NEW t \in Gens, ThreadDrain(t) PROVE NoLostWakeup'
    BY <1>17 DEF NoLostWakeup, Crashed, DataType, ThreadDrain, semas
  <1>18. ASSUME NEW t \in Gens, ThreadDrained(t) PROVE NoLostWakeup'
    BY <1>18 DEF NoLostWakeup, Crashed, DataType, ThreadDrained, ThreadGoto, semas,
       cmdvars, Working, Holding
  <1>19. ASSUME NEW t \in Gens, ThreadBye(t) PROVE NoLostWakeup'
    BY <1>19 DEF NoLostWakeup, Crashed, DataType, ThreadBye, ThreadGoto, cmdvars,
       Working, Holding
  <1>20. ASSUME NEW t \in Gens, ThreadGone(t) PROVE NoLostWakeup'
    BY <1>20 DEF NoLostWakeup, Crashed, DataType, ThreadGone, ThreadGoto, semas,
       cmdvars, Working, Holding
  <1>21. ASSUME NEW t \in Gens, ThreadSignal(t) PROVE NoLostWakeup'
    BY <1>21 DEF NoLostWakeup, Crashed, DataType, ThreadSignal, ThreadGoto, semas,
       cmdvars, Working, Holding
  <1>22. CASE Open
    BY <1>22 DEF NoLostWakeup, Crashed, DataType, Open, semas, cmdvars
  <1>23. CASE Spawn
    BY <1>23 DEF NoLostWakeup, Crashed, DataType, Spawn, ThreadGoto, semas, cmdvars,
       Working, Holding, Gens
  <1>24. CASE Started
    BY <1>24 DEF NoLostWakeup, Crashed, DataType, Started, cmdvars
  <1>25. CASE Suspend
    BY <1>25 DEF NoLostWakeup, Crashed, DataType, Suspend, semas, cmdvars
  <1>26. CASE Remove
    BY <1>26 DEF NoLostWakeup, Crashed, DataType, Remove, semas, cmdvars
  <1>27. ASSUME NEW call \in 1..2, StopSkips(call) PROVE NoLostWakeup'
    BY <1>27 DEF NoLostWakeup, Crashed, DataType, StopSkips, semas, cmdvars
  <1>28. ASSUME NEW call \in 1..2, StopRequest(call) PROVE NoLostWakeup'
    BY <1>28 DEF NoLostWakeup, Crashed, DataType, StopRequest, semas, cmdvars
  <1>29. ASSUME NEW call \in 1..2, StopRaise(call) PROVE NoLostWakeup'
    BY <1>29 DEF NoLostWakeup, Crashed, DataType, StopRaise, cmdvars
  <1>30. ASSUME NEW call \in 1..2, StopDown(call) PROVE NoLostWakeup'
    BY <1>30 DEF NoLostWakeup, Crashed, DataType, StopDown, cmdvars
  <1>31. CASE Unload
    BY <1>31 DEF NoLostWakeup, Crashed, DataType, Unload, semas, cmdvars
  <1>32. CASE Poll
    BY <1>32 DEF NoLostWakeup, Crashed, DataType, Poll, semas, cmdvars
  <1>33. CASE Deinit
    BY <1>33 DEF NoLostWakeup, Crashed, DataType, Deinit, semas, cmdvars
  <1>34. CASE IpsDown
    BY <1>34 DEF NoLostWakeup, Crashed, DataType, IpsDown, semas, cmdvars
  <1>35. CASE IpsUp
    BY <1>35 DEF NoLostWakeup, Crashed, DataType, IpsUp, semas, cmdvars
  <1>36. CASE IoError
    BY <1>36 DEF NoLostWakeup, Crashed, DataType, IoError, semas, cmdvars
  <1>37. CASE UNCHANGED vars
    BY <1>37 DEF NoLostWakeup, Crashed, vars, semas, cmdvars
  <1>38. QED
    BY <1>1, <1>2, <1>3, <1>4, <1>5, <1>6, <1>7, <1>8, <1>9, <1>10, <1>11,
       <1>12, <1>13, <1>14, <1>15, <1>16, <1>17, <1>18, <1>19, <1>20,
       <1>21, <1>22, <1>23, <1>24, <1>25, <1>26, <1>27, <1>28, <1>29,
       <1>30, <1>31, <1>32, <1>33, <1>34, <1>35, <1>36, <1>37, <1>39, <1>40,
       <1>41, <1>42, <1>43
       DEF Next, CallerSteps, ThreadSteps, StopSteps

-----------------------------------------------------------------------------
(* The inductive invariant of the synchronous commands.                    *)

(* A command is on the queue at most once, and only there while queued.    *)
QueueInv ==
    /\ \A i \in 1..Len(queue) : obj[queue[i]] = "queued"
    /\ \A i, j \in 1..Len(queue) : i # j => queue[i] # queue[j]
    /\ \A c \in Cmds : caller[c] = "idle" => obj[c] = "none"
    /\ \A c \in Cmds : caller[c] = "enqueue" => obj[c] = "alloc"

(* A thread has its command for itself.                                    *)
HandInv ==
    /\ \A t \in Gens : thr[t] \in Holding => obj[hand[t]] = "held"
    /\ \A t, u \in Gens :
          t # u /\ thr[t] \in Holding /\ thr[u] \in Holding => hand[t] # hand[u]

(* As long as sctx_mutex is obtained, one at a time is in its sections.    *)
Completing(t) == thr[t] = "complete" \/ thr[t] = "clear"
Detaching(c) == caller[c] = "forget" \/ caller[c] = "leave"

ExclInv ==
    Guarded =>
        /\ \A t \in Gens : Completing(t) => mutex.held
        /\ \A c \in Cmds : Detaching(c) => mutex.held
        /\ \A t, u \in Gens : Completing(t) /\ Completing(u) => t = u
        /\ \A c, d \in Cmds : Detaching(c) /\ Detaching(d) => c = d
        /\ \A t \in Gens, c \in Cmds : ~(Completing(t) /\ Detaching(c))

(* A waiting caller is attached to its command until the command is done,  *)
(* and a completed command is detached before sctx_mutex is released.      *)
AttachInv ==
    /\ \A c \in Cmds : sctx[c] => sync[c]
    /\ \A c \in Cmds : sctx[c] => obj[c] # "none" /\ obj[c] # "freed"
    /\ \A c \in Cmds : caller[c] = "idle" => status[c] = "submitted"
    /\ \A t \in Gens : thr[t] = "free" => ~sctx[hand[t]]
    /\ \A t \in Gens :
          thr[t] = "clear" /\ sctx[hand[t]] => status[hand[t]] = "done"
    /\ \A c \in Cmds : sctx[c] /\ status[c] = "done" =>
          \E t \in Gens : thr[t] = "clear" /\ hand[t] = c
    /\ \A c \in Cmds :
          sync[c] /\ caller[c] \in {"enqueue", "raise", "wait", "detach", "forget"} =>
              sctx[c] \/ status[c] = "done"
    /\ \A c \in Cmds :
          caller[c] \in {"wait", "detach", "forget", "leave"} => sync[c]
    /\ \A c \in Cmds : caller[c] = "leave" => status[c] = "done"

(* What was tested under sctx_mutex is still so.                           *)
TestedInv ==
    Guarded =>
        /\ \A t \in Gens : thr[t] = "complete" => sctx[hand[t]]
        /\ \A c \in Cmds : caller[c] = "forget" => status[c] = "submitted"

SctxInv == QueueInv /\ HandInv /\ ExclInv /\ AttachInv /\ TestedInv /\ StackSafe

(* Every step keeps callers and commands attached as they should be.       *)
LEMMA SctxStep ==
    ASSUME DataType, FlagType, SctxInv, [Next]_vars PROVE SctxInv'
  <1>1. ASSUME NEW c \in Cmds, NEW s \in BOOLEAN, NEW a \in BOOLEAN,
              Submit(c, s, a)
       PROVE  SctxInv'
    <2>1. QueueInv'
      BY <1>1 DEF SctxInv, QueueInv, HandInv, DataType, FlagType, Submit,
         CallerGoto
    <2>2. HandInv'
      BY <1>1 DEF SctxInv, QueueInv, HandInv, DataType, FlagType, Submit,
         CallerGoto
    <2>3. AttachInv'
      <3>1. sync'[c] = s /\ sctx'[c] = s /\ obj'[c] = "alloc"
        BY <1>1 DEF DataType, FlagType, Submit
      <3>2. caller'[c] = "enqueue" /\ status'[c] = "submitted"
        BY <1>1 DEF SctxInv, AttachInv, DataType, Submit, CallerGoto
      <3>3. \A t \in Gens : thr[t] \in Holding => hand[t] # c
        BY <1>1 DEF SctxInv, QueueInv, HandInv, DataType, Submit
      <3>4. /\ \A d \in Cmds : d # c =>
                  /\ sctx'[d] = sctx[d] /\ sync'[d] = sync[d]
                  /\ obj'[d] = obj[d] /\ caller'[d] = caller[d]
            /\ status' = status /\ thr' = thr /\ hand' = hand
        BY <1>1 DEF DataType, FlagType, Submit, CallerGoto
      <3>5. \A t \in Gens : thr[t] \in Holding => hand[t] \in Cmds
        BY DEF DataType
      <3> QED  BY <1>1, <3>1, <3>2, <3>3, <3>4, <3>5
               DEF SctxInv, AttachInv, Holding
    <2>4. StackSafe'
      BY <1>1 DEF SctxInv, StackSafe, InFlight, Guarded, AttachInv, QueueInv, HandInv,
         DataType, FlagType, Submit, CallerGoto
    <2>5. ExclInv'
      BY <1>1 DEF SctxInv, ExclInv, Guarded, Completing, Detaching, DataType, FlagType,
         Submit, CallerGoto
    <2>6. TestedInv'
      BY <1>1 DEF SctxInv, TestedInv, QueueInv, HandInv, AttachInv, Guarded, DataType, FlagType,
         Submit, CallerGoto
    <2> QED  BY <2>1, <2>2, <2>3, <2>4, <2>5, <2>6 DEF SctxInv
  <1>2. ASSUME NEW c \in Cmds, NEW a \in BOOLEAN, Reject(c, a) PROVE SctxInv'
    <2>1. QueueInv'
      BY <1>2 DEF SctxInv, QueueInv, HandInv, DataType, FlagType, Reject,
         CallerGoto
    <2>2. HandInv'
      BY <1>2 DEF SctxInv, QueueInv, HandInv, DataType, FlagType, Reject,
         CallerGoto
    <2>3. AttachInv'
      BY <1>2 DEF SctxInv, AttachInv, HandInv, QueueInv, DataType, FlagType,
         Reject, CallerGoto
    <2>4. StackSafe'
      <3>1. /\ \A d \in Cmds : d # c => obj'[d] = obj[d] /\ caller'[d] = caller[d]
            /\ obj[c] = "none" /\ obj'[c] = "freed"
            /\ UNCHANGED <<sctx, thr, hand, mutex>>
        BY <1>2 DEF SctxInv, QueueInv, DataType, Reject, CallerGoto
      <3>2. \A t \in Gens : ~(thr[t] = "complete" /\ hand[t] = c)
        BY <3>1 DEF SctxInv, HandInv, Holding
      <3> QED  BY <3>1, <3>2 DEF SctxInv, StackSafe, InFlight, Guarded
    <2>5. ExclInv'
      BY <1>2 DEF SctxInv, ExclInv, Guarded, Completing, Detaching, DataType, FlagType,
         Reject, CallerGoto
    <2>6. TestedInv'
      BY <1>2 DEF SctxInv, TestedInv, QueueInv, HandInv, AttachInv, Guarded, DataType, FlagType,
         Reject, CallerGoto
    <2> QED  BY <2>1, <2>2, <2>3, <2>4, <2>5, <2>6 DEF SctxInv
  <1>3. ASSUME NEW c \in Cmds, Enqueue(c) PROVE SctxInv'
    <2>1. QueueInv'
      BY <1>3 DEF SctxInv, QueueInv, HandInv, DataType, FlagType, Enqueue,
         CallerGoto
    <2>2. HandInv'
      BY <1>3 DEF SctxInv, QueueInv, HandInv, DataType, FlagType, Enqueue,
         CallerGoto
    <2>3. AttachInv'
      BY <1>3 DEF SctxInv, AttachInv, HandInv, QueueInv, DataType, FlagType,
         Enqueue, CallerGoto
    <2>4. StackSafe'
      BY <1>3 DEF SctxInv, StackSafe, InFlight, Guarded, AttachInv, QueueInv, HandInv,
         DataType, FlagType, Enqueue, CallerGoto
    <2>5. ExclInv'
      BY <1>3 DEF SctxInv, ExclInv, Guarded, Completing, Detaching, DataType, FlagType,
         Enqueue, CallerGoto
    <2>6. TestedInv'
      BY <1>3 DEF SctxInv, TestedInv, QueueInv, HandInv, AttachInv, Guarded, DataType, FlagType,
         Enqueue, CallerGoto
    <2> QED  BY <2>1, <2>2, <2>3, <2>4, <2>5, <2>6 DEF SctxInv
  <1>4. ASSUME NEW c \in Cmds, Raise(c) PROVE SctxInv'
    <2>1. QueueInv'
      BY <1>4 DEF SctxInv, QueueInv, HandInv, DataType, FlagType, Raise,
         CallerGoto
    <2>2. HandInv'
      BY <1>4 DEF SctxInv, QueueInv, HandInv, DataType, FlagType, Raise,
         CallerGoto
    <2>3. AttachInv'
      BY <1>4 DEF SctxInv, AttachInv, HandInv, QueueInv, DataType, FlagType,
         Raise, CallerGoto
    <2>4. StackSafe'
      <3>1. /\ \A d \in Cmds : d # c => caller'[d] = caller[d]
            /\ caller'[c] = "returned" => ~sync[c]
            /\ UNCHANGED <<obj, sctx, thr, hand, mutex>>
        BY <1>4 DEF DataType, FlagType, Raise, CallerGoto
      <3>2. ~sync[c] => ~sctx[c]
        BY DEF SctxInv, AttachInv
      <3>3. Guarded => \A t \in Gens : thr[t] = "complete" => sctx[hand[t]]
        BY DEF SctxInv, TestedInv
      <3> QED  BY <3>1, <3>2, <3>3 DEF SctxInv, StackSafe, InFlight, Guarded
    <2>5. ExclInv'
      BY <1>4 DEF SctxInv, ExclInv, Guarded, Completing, Detaching, DataType, FlagType,
         Raise, CallerGoto
    <2>6. TestedInv'
      BY <1>4 DEF SctxInv, TestedInv, QueueInv, HandInv, AttachInv, Guarded, DataType, FlagType,
         Raise, CallerGoto
    <2> QED  BY <2>1, <2>2, <2>3, <2>4, <2>5, <2>6 DEF SctxInv
  <1>5. ASSUME NEW c \in Cmds, WaitEnds(c) PROVE SctxInv'
    <2>1. QueueInv'
      BY <1>5 DEF SctxInv, QueueInv, HandInv, DataType, FlagType, WaitEnds,
         CallerGoto
    <2>2. HandInv'
      BY <1>5 DEF SctxInv, QueueInv, HandInv, DataType, FlagType, WaitEnds,
         CallerGoto
    <2>3. AttachInv'
      BY <1>5 DEF SctxInv, AttachInv, HandInv, QueueInv, DataType, FlagType,
         WaitEnds, CallerGoto
    <2>4. StackSafe'
      BY <1>5 DEF SctxInv, StackSafe, InFlight, Guarded, AttachInv, QueueInv, HandInv,
         DataType, FlagType, WaitEnds, CallerGoto
    <2>5. ExclInv'
      BY <1>5 DEF SctxInv, ExclInv, Guarded, Completing, Detaching, DataType, FlagType,
         WaitEnds, CallerGoto
    <2>6. TestedInv'
      BY <1>5 DEF SctxInv, TestedInv, QueueInv, HandInv, AttachInv, Guarded, DataType, FlagType,
         WaitEnds, CallerGoto
    <2> QED  BY <2>1, <2>2, <2>3, <2>4, <2>5, <2>6 DEF SctxInv
  <1>6. ASSUME NEW c \in Cmds, Detach(c) PROVE SctxInv'
    <2>0. ~mutex.held /\ mutex'.held /\ mutex'.refused = mutex.refused
      BY <1>6, MutexSteps DEF Detach, EnterMutex, FlagType
    <2>1. QueueInv'
      BY <1>6, <2>0 DEF SctxInv, QueueInv, HandInv, DataType, FlagType,
         Detach, CallerGoto, cmddata
    <2>2. HandInv'
      BY <1>6, <2>0 DEF SctxInv, QueueInv, HandInv, DataType, FlagType,
         Detach, CallerGoto, cmddata
    <2>3. AttachInv'
      BY <1>6, <2>0 DEF SctxInv, AttachInv, QueueInv, HandInv, DataType, FlagType,
         Detach, CallerGoto, cmddata
    <2>4. StackSafe'
      BY <1>6, <2>0 DEF SctxInv, StackSafe, InFlight, Guarded, TestedInv, ExclInv, Completing, Detaching, AttachInv, QueueInv, HandInv, DataType, FlagType,
         Detach, CallerGoto, cmddata
    <2>5. ExclInv'
      BY <1>6, <2>0 DEF SctxInv, ExclInv, Guarded, Completing, Detaching, DataType, FlagType,
         Detach, CallerGoto, cmddata
    <2>6. TestedInv'
      BY <1>6, <2>0 DEF SctxInv, TestedInv, ExclInv, Completing, Detaching, AttachInv, QueueInv, HandInv, Guarded, DataType, FlagType,
         Detach, CallerGoto, cmddata
    <2> QED  BY <2>1, <2>2, <2>3, <2>4, <2>5, <2>6 DEF SctxInv
  <1>39. ASSUME NEW c \in Cmds, DetachRefused(c) PROVE SctxInv'
    <2>0. mutex'.refused
      BY <1>39, MutexSteps DEF DetachRefused, FlagType
    <2>1. QueueInv'
      BY <1>39, <2>0 DEF SctxInv, QueueInv, HandInv, DataType, FlagType,
         DetachRefused, CallerGoto, cmddata
    <2>2. HandInv'
      BY <1>39, <2>0 DEF SctxInv, QueueInv, HandInv, DataType, FlagType,
         DetachRefused, CallerGoto, cmddata
    <2>3. AttachInv'
      BY <1>39, <2>0 DEF SctxInv, AttachInv, QueueInv, HandInv, DataType, FlagType,
         DetachRefused, CallerGoto, cmddata
    <2>4. StackSafe'
      BY <1>39, <2>0 DEF SctxInv, StackSafe, InFlight, Guarded, TestedInv, ExclInv, Completing, Detaching, AttachInv, QueueInv, HandInv, DataType, FlagType,
         DetachRefused, CallerGoto, cmddata
    <2>5. ExclInv'
      BY <1>39, <2>0 DEF SctxInv, ExclInv, Guarded, Completing, Detaching, DataType, FlagType,
         DetachRefused, CallerGoto, cmddata
    <2>6. TestedInv'
      BY <1>39, <2>0 DEF SctxInv, TestedInv, ExclInv, Completing, Detaching, AttachInv, QueueInv, HandInv, Guarded, DataType, FlagType,
         DetachRefused, CallerGoto, cmddata
    <2> QED  BY <2>1, <2>2, <2>3, <2>4, <2>5, <2>6 DEF SctxInv
  <1>40. ASSUME NEW c \in Cmds, Leave(c) PROVE SctxInv'
    <2>0. mutex'.refused = mutex.refused
      BY <1>40, MutexSteps DEF Leave, FlagType
    <2>1. QueueInv'
      BY <1>40, <2>0 DEF SctxInv, QueueInv, HandInv, DataType, FlagType,
         Leave, CallerGoto
    <2>2. HandInv'
      BY <1>40, <2>0 DEF SctxInv, QueueInv, HandInv, DataType, FlagType,
         Leave, CallerGoto
    <2>3. AttachInv'
      BY <1>40, <2>0 DEF SctxInv, AttachInv, QueueInv, HandInv, DataType, FlagType,
         Leave, CallerGoto
    <2>4. StackSafe'
      BY <1>40, <2>0 DEF SctxInv, StackSafe, InFlight, Guarded, TestedInv, ExclInv, Completing, Detaching, AttachInv, QueueInv, HandInv, DataType, FlagType,
         Leave, CallerGoto
    <2>5. ExclInv'
      BY <1>40, <2>0 DEF SctxInv, ExclInv, Guarded, Completing, Detaching, DataType, FlagType,
         Leave, CallerGoto
    <2>6. TestedInv'
      BY <1>40, <2>0 DEF SctxInv, TestedInv, ExclInv, Completing, Detaching, AttachInv, QueueInv, HandInv, Guarded, DataType, FlagType,
         Leave, CallerGoto
    <2> QED  BY <2>1, <2>2, <2>3, <2>4, <2>5, <2>6 DEF SctxInv
  <1>7. ASSUME NEW t \in Gens, ThreadStart(t) PROVE SctxInv'
    <2>1. QueueInv'
      BY <1>7 DEF SctxInv, QueueInv, HandInv, DataType, FlagType, ThreadStart,
         ThreadGoto, cmdvars, Holding
    <2>2. HandInv'
      BY <1>7 DEF SctxInv, QueueInv, HandInv, DataType, FlagType, ThreadStart,
         ThreadGoto, cmdvars, Holding
    <2>3. AttachInv'
      BY <1>7 DEF SctxInv, AttachInv, HandInv, QueueInv, DataType, FlagType,
         ThreadStart, ThreadGoto, cmdvars, Holding
    <2>4. StackSafe'
      BY <1>7 DEF SctxInv, StackSafe, InFlight, Guarded, AttachInv, QueueInv, HandInv,
         DataType, FlagType, ThreadStart, ThreadGoto, cmdvars,
         Holding
    <2>5. ExclInv'
      BY <1>7 DEF SctxInv, ExclInv, Guarded, Completing, Detaching, DataType, FlagType,
         ThreadStart, ThreadGoto, cmdvars, Holding
    <2>6. TestedInv'
      BY <1>7 DEF SctxInv, TestedInv, QueueInv, HandInv, AttachInv, Guarded, DataType, FlagType,
         ThreadStart, ThreadGoto, cmdvars, Holding
    <2> QED  BY <2>1, <2>2, <2>3, <2>4, <2>5, <2>6 DEF SctxInv
  <1>8. ASSUME NEW t \in Gens, ThreadDown(t) PROVE SctxInv'
    <2>1. QueueInv'
      BY <1>8 DEF SctxInv, QueueInv, HandInv, DataType, FlagType, ThreadDown,
         ThreadGoto, cmdvars, Holding
    <2>2. HandInv'
      BY <1>8 DEF SctxInv, QueueInv, HandInv, DataType, FlagType, ThreadDown,
         ThreadGoto, cmdvars, Holding
    <2>3. AttachInv'
      BY <1>8 DEF SctxInv, AttachInv, HandInv, QueueInv, DataType, FlagType,
         ThreadDown, ThreadGoto, cmdvars, Holding
    <2>4. StackSafe'
      BY <1>8 DEF SctxInv, StackSafe, InFlight, Guarded, AttachInv, QueueInv, HandInv,
         DataType, FlagType, ThreadDown, ThreadGoto, cmdvars, Holding
    <2>5. ExclInv'
      BY <1>8 DEF SctxInv, ExclInv, Guarded, Completing, Detaching, DataType, FlagType,
         ThreadDown, ThreadGoto, cmdvars, Holding
    <2>6. TestedInv'
      BY <1>8 DEF SctxInv, TestedInv, QueueInv, HandInv, AttachInv, Guarded, DataType, FlagType,
         ThreadDown, ThreadGoto, cmdvars, Holding
    <2> QED  BY <2>1, <2>2, <2>3, <2>4, <2>5, <2>6 DEF SctxInv
  <1>9. ASSUME NEW t \in Gens, ThreadCheck(t) PROVE SctxInv'
    <2>1. QueueInv'
      BY <1>9 DEF SctxInv, QueueInv, HandInv, DataType, FlagType, ThreadCheck,
         ThreadGoto, cmdvars, Holding
    <2>2. HandInv'
      BY <1>9 DEF SctxInv, QueueInv, HandInv, DataType, FlagType, ThreadCheck,
         ThreadGoto, cmdvars, Holding
    <2>3. AttachInv'
      BY <1>9 DEF SctxInv, AttachInv, HandInv, QueueInv, DataType, FlagType,
         ThreadCheck, ThreadGoto, cmdvars, Holding
    <2>4. StackSafe'
      BY <1>9 DEF SctxInv, StackSafe, InFlight, Guarded, AttachInv, QueueInv, HandInv,
         DataType, FlagType, ThreadCheck, ThreadGoto, cmdvars,
         Holding
    <2>5. ExclInv'
      BY <1>9 DEF SctxInv, ExclInv, Guarded, Completing, Detaching, DataType, FlagType,
         ThreadCheck, ThreadGoto, cmdvars, Holding
    <2>6. TestedInv'
      BY <1>9 DEF SctxInv, TestedInv, QueueInv, HandInv, AttachInv, Guarded, DataType, FlagType,
         ThreadCheck, ThreadGoto, cmdvars, Holding
    <2> QED  BY <2>1, <2>2, <2>3, <2>4, <2>5, <2>6 DEF SctxInv
  <1>10. ASSUME NEW t \in Gens, ThreadStopped(t) PROVE SctxInv'
    <2>1. QueueInv'
      BY <1>10 DEF SctxInv, QueueInv, HandInv, DataType, FlagType,
         ThreadStopped, ThreadGoto, cmdvars, Holding
    <2>2. HandInv'
      BY <1>10 DEF SctxInv, QueueInv, HandInv, DataType, FlagType,
         ThreadStopped, ThreadGoto, cmdvars, Holding
    <2>3. AttachInv'
      BY <1>10 DEF SctxInv, AttachInv, HandInv, QueueInv, DataType, FlagType,
         ThreadStopped, ThreadGoto, cmdvars, Holding
    <2>4. StackSafe'
      BY <1>10 DEF SctxInv, StackSafe, InFlight, Guarded, AttachInv, QueueInv, HandInv,
         DataType, FlagType, ThreadStopped, ThreadGoto, cmdvars,
         Holding
    <2>5. ExclInv'
      BY <1>10 DEF SctxInv, ExclInv, Guarded, Completing, Detaching, DataType, FlagType,
         ThreadStopped, ThreadGoto, cmdvars, Holding
    <2>6. TestedInv'
      BY <1>10 DEF SctxInv, TestedInv, QueueInv, HandInv, AttachInv, Guarded, DataType, FlagType,
         ThreadStopped, ThreadGoto, cmdvars, Holding
    <2> QED  BY <2>1, <2>2, <2>3, <2>4, <2>5, <2>6 DEF SctxInv
  <1>11. ASSUME NEW t \in Gens, ThreadDequeue(t) PROVE SctxInv'
    <2>1. QueueInv'
      BY <1>11 DEF SctxInv, QueueInv, HandInv, DataType, FlagType,
         ThreadDequeue, ThreadGoto, Holding
    <2>2. HandInv'
      BY <1>11 DEF SctxInv, QueueInv, HandInv, DataType, FlagType,
         ThreadDequeue, ThreadGoto, Holding
    <2>3. AttachInv'
      BY <1>11 DEF SctxInv, AttachInv, HandInv, QueueInv, DataType, FlagType,
         ThreadDequeue, ThreadGoto, Holding
    <2>4. StackSafe'
      BY <1>11 DEF SctxInv, StackSafe, InFlight, Guarded, AttachInv, QueueInv, HandInv,
         DataType, FlagType, ThreadDequeue, ThreadGoto, Holding
    <2>5. ExclInv'
      BY <1>11 DEF SctxInv, ExclInv, Guarded, Completing, Detaching, DataType, FlagType,
         ThreadDequeue, ThreadGoto, Holding
    <2>6. TestedInv'
      BY <1>11 DEF SctxInv, TestedInv, QueueInv, HandInv, AttachInv, Guarded, DataType, FlagType,
         ThreadDequeue, ThreadGoto, Holding
    <2> QED  BY <2>1, <2>2, <2>3, <2>4, <2>5, <2>6 DEF SctxInv
  <1>12. ASSUME NEW t \in Gens, ThreadFilter(t) PROVE SctxInv'
    <2>1. QueueInv'
      BY <1>12 DEF SctxInv, QueueInv, HandInv, DataType, FlagType,
         ThreadFilter, ThreadGoto, cmdvars, Holding
    <2>2. HandInv'
      BY <1>12 DEF SctxInv, QueueInv, HandInv, DataType, FlagType,
         ThreadFilter, ThreadGoto, cmdvars, Holding
    <2>3. AttachInv'
      BY <1>12 DEF SctxInv, AttachInv, HandInv, QueueInv, DataType, FlagType,
         ThreadFilter, ThreadGoto, cmdvars, Holding
    <2>4. StackSafe'
      BY <1>12 DEF SctxInv, StackSafe, InFlight, Guarded, AttachInv, QueueInv, HandInv,
         DataType, FlagType, ThreadFilter, ThreadGoto, cmdvars,
         Holding
    <2>5. ExclInv'
      BY <1>12 DEF SctxInv, ExclInv, Guarded, Completing, Detaching, DataType, FlagType,
         ThreadFilter, ThreadGoto, cmdvars, Holding
    <2>6. TestedInv'
      BY <1>12 DEF SctxInv, TestedInv, QueueInv, HandInv, AttachInv, Guarded, DataType, FlagType,
         ThreadFilter, ThreadGoto, cmdvars, Holding
    <2> QED  BY <2>1, <2>2, <2>3, <2>4, <2>5, <2>6 DEF SctxInv
  <1>13. ASSUME NEW t \in Gens, ThreadRun(t) PROVE SctxInv'
    <2>1. QueueInv'
      BY <1>13 DEF SctxInv, QueueInv, HandInv, DataType, FlagType, ThreadRun,
         ThreadGoto, cmdvars, Holding
    <2>2. HandInv'
      BY <1>13 DEF SctxInv, QueueInv, HandInv, DataType, FlagType, ThreadRun,
         ThreadGoto, cmdvars, Holding
    <2>3. AttachInv'
      BY <1>13 DEF SctxInv, AttachInv, HandInv, QueueInv, DataType, FlagType,
         ThreadRun, ThreadGoto, cmdvars, Holding
    <2>4. StackSafe'
      BY <1>13 DEF SctxInv, StackSafe, InFlight, Guarded, AttachInv, QueueInv, HandInv,
         DataType, FlagType, ThreadRun, ThreadGoto, cmdvars, Holding
    <2>5. ExclInv'
      BY <1>13 DEF SctxInv, ExclInv, Guarded, Completing, Detaching, DataType, FlagType,
         ThreadRun, ThreadGoto, cmdvars, Holding
    <2>6. TestedInv'
      BY <1>13 DEF SctxInv, TestedInv, QueueInv, HandInv, AttachInv, Guarded, DataType, FlagType,
         ThreadRun, ThreadGoto, cmdvars, Holding
    <2> QED  BY <2>1, <2>2, <2>3, <2>4, <2>5, <2>6 DEF SctxInv
  <1>14. ASSUME NEW t \in Gens, ThreadPost(t) PROVE SctxInv'
    <2>0. ~mutex.held /\ mutex'.held /\ mutex'.refused = mutex.refused
      BY <1>14, MutexSteps DEF ThreadPost, EnterMutex, FlagType
    <2>1. QueueInv'
      BY <1>14, <2>0 DEF SctxInv, QueueInv, HandInv, DataType, FlagType,
         ThreadPost, ThreadGoto, cmdvars, Holding
    <2>2. HandInv'
      BY <1>14, <2>0 DEF SctxInv, QueueInv, HandInv, DataType, FlagType,
         ThreadPost, ThreadGoto, cmdvars, Holding
    <2>3. AttachInv'
      BY <1>14, <2>0 DEF SctxInv, AttachInv, QueueInv, HandInv, DataType, FlagType,
         ThreadPost, ThreadGoto, cmdvars, Holding
    <2>4. StackSafe'
      BY <1>14, <2>0 DEF SctxInv, StackSafe, InFlight, Guarded, TestedInv, ExclInv, Completing, Detaching, AttachInv, QueueInv, HandInv, DataType, FlagType,
         ThreadPost, ThreadGoto, cmdvars, Holding
    <2>5. ExclInv'
      BY <1>14, <2>0 DEF SctxInv, ExclInv, Guarded, Completing, Detaching, DataType, FlagType,
         ThreadPost, ThreadGoto, cmdvars, Holding
    <2>6. TestedInv'
      BY <1>14, <2>0 DEF SctxInv, TestedInv, ExclInv, Completing, Detaching, AttachInv, QueueInv, HandInv, Guarded, DataType, FlagType,
         ThreadPost, ThreadGoto, cmdvars, Holding
    <2> QED  BY <2>1, <2>2, <2>3, <2>4, <2>5, <2>6 DEF SctxInv
  <1>41. ASSUME NEW t \in Gens, ThreadPostRefused(t) PROVE SctxInv'
    <2>0. mutex'.refused
      BY <1>41, MutexSteps DEF ThreadPostRefused, FlagType
    <2>1. QueueInv'
      BY <1>41, <2>0 DEF SctxInv, QueueInv, HandInv, DataType, FlagType,
         ThreadPostRefused, ThreadGoto, cmdvars, Holding
    <2>2. HandInv'
      BY <1>41, <2>0 DEF SctxInv, QueueInv, HandInv, DataType, FlagType,
         ThreadPostRefused, ThreadGoto, cmdvars, Holding
    <2>3. AttachInv'
      BY <1>41, <2>0 DEF SctxInv, AttachInv, QueueInv, HandInv, DataType, FlagType,
         ThreadPostRefused, ThreadGoto, cmdvars, Holding
    <2>4. StackSafe'
      BY <1>41, <2>0 DEF SctxInv, StackSafe, InFlight, Guarded, TestedInv, ExclInv, Completing, Detaching, AttachInv, QueueInv, HandInv, DataType, FlagType,
         ThreadPostRefused, ThreadGoto, cmdvars, Holding
    <2>5. ExclInv'
      BY <1>41, <2>0 DEF SctxInv, ExclInv, Guarded, Completing, Detaching, DataType, FlagType,
         ThreadPostRefused, ThreadGoto, cmdvars, Holding
    <2>6. TestedInv'
      BY <1>41, <2>0 DEF SctxInv, TestedInv, ExclInv, Completing, Detaching, AttachInv, QueueInv, HandInv, Guarded, DataType, FlagType,
         ThreadPostRefused, ThreadGoto, cmdvars, Holding
    <2> QED  BY <2>1, <2>2, <2>3, <2>4, <2>5, <2>6 DEF SctxInv
  <1>42. ASSUME NEW t \in Gens, ThreadComplete(t) PROVE SctxInv'
    <2>0. mutex' = mutex
      BY <1>42 DEF ThreadComplete
    <2>1. QueueInv'
      BY <1>42, <2>0 DEF SctxInv, QueueInv, HandInv, DataType, FlagType,
         ThreadComplete, ThreadGoto, Holding
    <2>2. HandInv'
      BY <1>42, <2>0 DEF SctxInv, QueueInv, HandInv, DataType, FlagType,
         ThreadComplete, ThreadGoto, Holding
    <2>3. AttachInv'
      BY <1>42, <2>0 DEF SctxInv, AttachInv, QueueInv, HandInv, DataType, FlagType,
         ThreadComplete, ThreadGoto, Holding
    <2>4. StackSafe'
      BY <1>42, <2>0 DEF SctxInv, StackSafe, InFlight, Guarded, TestedInv, ExclInv, Completing, Detaching, AttachInv, QueueInv, HandInv, DataType, FlagType,
         ThreadComplete, ThreadGoto, Holding
    <2>5. ExclInv'
      BY <1>42, <2>0 DEF SctxInv, ExclInv, Guarded, Completing, Detaching, DataType, FlagType,
         ThreadComplete, ThreadGoto, Holding
    <2>6. TestedInv'
      BY <1>42, <2>0 DEF SctxInv, TestedInv, ExclInv, Completing, Detaching, AttachInv, QueueInv, HandInv, Guarded, DataType, FlagType,
         ThreadComplete, ThreadGoto, Holding
    <2> QED  BY <2>1, <2>2, <2>3, <2>4, <2>5, <2>6 DEF SctxInv
  <1>43. ASSUME NEW t \in Gens, ThreadOops(t) PROVE SctxInv'
    <2>0. mutex' = mutex
      BY <1>43 DEF ThreadOops
    <2>1. QueueInv'
      BY <1>43, <2>0 DEF SctxInv, QueueInv, HandInv, DataType, FlagType,
         ThreadOops, ThreadGoto, cmdvars, Holding
    <2>2. HandInv'
      BY <1>43, <2>0 DEF SctxInv, QueueInv, HandInv, DataType, FlagType,
         ThreadOops, ThreadGoto, cmdvars, Holding
    <2>3. AttachInv'
      BY <1>43, <2>0 DEF SctxInv, AttachInv, QueueInv, HandInv, DataType, FlagType,
         ThreadOops, ThreadGoto, cmdvars, Holding
    <2>4. StackSafe'
      BY <1>43, <2>0 DEF SctxInv, StackSafe, InFlight, Guarded, TestedInv, ExclInv, Completing, Detaching, AttachInv, QueueInv, HandInv, DataType, FlagType,
         ThreadOops, ThreadGoto, cmdvars, Holding
    <2>5. ExclInv'
      BY <1>43, <2>0 DEF SctxInv, ExclInv, Guarded, Completing, Detaching, DataType, FlagType,
         ThreadOops, ThreadGoto, cmdvars, Holding
    <2>6. TestedInv'
      BY <1>43, <2>0 DEF SctxInv, TestedInv, ExclInv, Completing, Detaching, AttachInv, QueueInv, HandInv, Guarded, DataType, FlagType,
         ThreadOops, ThreadGoto, cmdvars, Holding
    <2> QED  BY <2>1, <2>2, <2>3, <2>4, <2>5, <2>6 DEF SctxInv
  <1>15. ASSUME NEW t \in Gens, ThreadClear(t) PROVE SctxInv'
    <2>0. mutex'.refused = mutex.refused
      BY <1>15, MutexSteps DEF ThreadClear, FlagType
    <2>1. QueueInv'
      BY <1>15, <2>0 DEF SctxInv, QueueInv, HandInv, DataType, FlagType,
         ThreadClear, ThreadGoto, Holding
    <2>2. HandInv'
      BY <1>15, <2>0 DEF SctxInv, QueueInv, HandInv, DataType, FlagType,
         ThreadClear, ThreadGoto, Holding
    <2>3. AttachInv'
      BY <1>15, <2>0 DEF SctxInv, AttachInv, QueueInv, HandInv, DataType, FlagType,
         ThreadClear, ThreadGoto, Holding
    <2>4. StackSafe'
      BY <1>15, <2>0 DEF SctxInv, StackSafe, InFlight, Guarded, TestedInv, ExclInv, Completing, Detaching, AttachInv, QueueInv, HandInv, DataType, FlagType,
         ThreadClear, ThreadGoto, Holding
    <2>5. ExclInv'
      BY <1>15, <2>0 DEF SctxInv, ExclInv, Guarded, Completing, Detaching, DataType, FlagType,
         ThreadClear, ThreadGoto, Holding
    <2>6. TestedInv'
      BY <1>15, <2>0 DEF SctxInv, TestedInv, ExclInv, Completing, Detaching, AttachInv, QueueInv, HandInv, Guarded, DataType, FlagType,
         ThreadClear, ThreadGoto, Holding
    <2> QED  BY <2>1, <2>2, <2>3, <2>4, <2>5, <2>6 DEF SctxInv
  <1>16. ASSUME NEW t \in Gens, ThreadFree(t) PROVE SctxInv'
    <2>1. QueueInv'
      BY <1>16 DEF SctxInv, QueueInv, HandInv, DataType, FlagType, ThreadFree,
         ThreadGoto, Holding
    <2>2. HandInv'
      BY <1>16 DEF SctxInv, QueueInv, HandInv, DataType, FlagType, ThreadFree,
         ThreadGoto, Holding
    <2>3. AttachInv'
      BY <1>16 DEF SctxInv, AttachInv, HandInv, QueueInv, DataType, FlagType,
         ThreadFree, ThreadGoto, Holding
    <2>4. StackSafe'
      BY <1>16 DEF SctxInv, StackSafe, InFlight, Guarded, AttachInv, QueueInv, HandInv,
         DataType, FlagType, ThreadFree, ThreadGoto, Holding
    <2>5. ExclInv'
      BY <1>16 DEF SctxInv, ExclInv, Guarded, Completing, Detaching, DataType, FlagType,
         ThreadFree, ThreadGoto, Holding
    <2>6. TestedInv'
      BY <1>16 DEF SctxInv, TestedInv, QueueInv, HandInv, AttachInv, Guarded, DataType, FlagType,
         ThreadFree, ThreadGoto, Holding
    <2> QED  BY <2>1, <2>2, <2>3, <2>4, <2>5, <2>6 DEF SctxInv
  <1>17. ASSUME NEW t \in Gens, ThreadDrain(t) PROVE SctxInv'
    <2>1. QueueInv'
      BY <1>17 DEF SctxInv, QueueInv, HandInv, DataType, FlagType, ThreadDrain
    <2>2. HandInv'
      BY <1>17 DEF SctxInv, QueueInv, HandInv, DataType, FlagType, ThreadDrain
    <2>3. AttachInv'
      BY <1>17 DEF SctxInv, AttachInv, HandInv, QueueInv, DataType, FlagType,
         ThreadDrain
    <2>4. StackSafe'
      BY <1>17 DEF SctxInv, StackSafe, InFlight, Guarded, AttachInv, QueueInv, HandInv,
         DataType, FlagType, ThreadDrain
    <2>5. ExclInv'
      BY <1>17 DEF SctxInv, ExclInv, Guarded, Completing, Detaching, DataType, FlagType,
         ThreadDrain
    <2>6. TestedInv'
      BY <1>17 DEF SctxInv, TestedInv, QueueInv, HandInv, AttachInv, Guarded, DataType, FlagType,
         ThreadDrain
    <2> QED  BY <2>1, <2>2, <2>3, <2>4, <2>5, <2>6 DEF SctxInv
  <1>18. ASSUME NEW t \in Gens, ThreadDrained(t) PROVE SctxInv'
    <2>1. QueueInv'
      BY <1>18 DEF SctxInv, QueueInv, HandInv, DataType, FlagType,
         ThreadDrained, ThreadGoto, cmdvars, Holding
    <2>2. HandInv'
      BY <1>18 DEF SctxInv, QueueInv, HandInv, DataType, FlagType,
         ThreadDrained, ThreadGoto, cmdvars, Holding
    <2>3. AttachInv'
      BY <1>18 DEF SctxInv, AttachInv, HandInv, QueueInv, DataType, FlagType,
         ThreadDrained, ThreadGoto, cmdvars, Holding
    <2>4. StackSafe'
      BY <1>18 DEF SctxInv, StackSafe, InFlight, Guarded, AttachInv, QueueInv, HandInv,
         DataType, FlagType, ThreadDrained, ThreadGoto, cmdvars,
         Holding
    <2>5. ExclInv'
      BY <1>18 DEF SctxInv, ExclInv, Guarded, Completing, Detaching, DataType, FlagType,
         ThreadDrained, ThreadGoto, cmdvars, Holding
    <2>6. TestedInv'
      BY <1>18 DEF SctxInv, TestedInv, QueueInv, HandInv, AttachInv, Guarded, DataType, FlagType,
         ThreadDrained, ThreadGoto, cmdvars, Holding
    <2> QED  BY <2>1, <2>2, <2>3, <2>4, <2>5, <2>6 DEF SctxInv
  <1>19. ASSUME NEW t \in Gens, ThreadBye(t) PROVE SctxInv'
    <2>1. QueueInv'
      BY <1>19 DEF SctxInv, QueueInv, HandInv, DataType, FlagType, ThreadBye,
         ThreadGoto, cmdvars, Holding
    <2>2. HandInv'
      BY <1>19 DEF SctxInv, QueueInv, HandInv, DataType, FlagType, ThreadBye,
         ThreadGoto, cmdvars, Holding
    <2>3. AttachInv'
      BY <1>19 DEF SctxInv, AttachInv, HandInv, QueueInv, DataType, FlagType,
         ThreadBye, ThreadGoto, cmdvars, Holding
    <2>4. StackSafe'
      BY <1>19 DEF SctxInv, StackSafe, InFlight, Guarded, AttachInv, QueueInv, HandInv,
         DataType, FlagType, ThreadBye, ThreadGoto, cmdvars, Holding
    <2>5. ExclInv'
      BY <1>19 DEF SctxInv, ExclInv, Guarded, Completing, Detaching, DataType, FlagType,
         ThreadBye, ThreadGoto, cmdvars, Holding
    <2>6. TestedInv'
      BY <1>19 DEF SctxInv, TestedInv, QueueInv, HandInv, AttachInv, Guarded, DataType, FlagType,
         ThreadBye, ThreadGoto, cmdvars, Holding
    <2> QED  BY <2>1, <2>2, <2>3, <2>4, <2>5, <2>6 DEF SctxInv
  <1>20. ASSUME NEW t \in Gens, ThreadGone(t) PROVE SctxInv'
    <2>1. QueueInv'
      BY <1>20 DEF SctxInv, QueueInv, HandInv, DataType, FlagType, ThreadGone,
         ThreadGoto, cmdvars, Holding
    <2>2. HandInv'
      BY <1>20 DEF SctxInv, QueueInv, HandInv, DataType, FlagType, ThreadGone,
         ThreadGoto, cmdvars, Holding
    <2>3. AttachInv'
      BY <1>20 DEF SctxInv, AttachInv, HandInv, QueueInv, DataType, FlagType,
         ThreadGone, ThreadGoto, cmdvars, Holding
    <2>4. StackSafe'
      BY <1>20 DEF SctxInv, StackSafe, InFlight, Guarded, AttachInv, QueueInv, HandInv,
         DataType, FlagType, ThreadGone, ThreadGoto, cmdvars, Holding
    <2>5. ExclInv'
      BY <1>20 DEF SctxInv, ExclInv, Guarded, Completing, Detaching, DataType, FlagType,
         ThreadGone, ThreadGoto, cmdvars, Holding
    <2>6. TestedInv'
      BY <1>20 DEF SctxInv, TestedInv, QueueInv, HandInv, AttachInv, Guarded, DataType, FlagType,
         ThreadGone, ThreadGoto, cmdvars, Holding
    <2> QED  BY <2>1, <2>2, <2>3, <2>4, <2>5, <2>6 DEF SctxInv
  <1>21. ASSUME NEW t \in Gens, ThreadSignal(t) PROVE SctxInv'
    <2>1. QueueInv'
      BY <1>21 DEF SctxInv, QueueInv, HandInv, DataType, FlagType,
         ThreadSignal, ThreadGoto, cmdvars, Holding
    <2>2. HandInv'
      BY <1>21 DEF SctxInv, QueueInv, HandInv, DataType, FlagType,
         ThreadSignal, ThreadGoto, cmdvars, Holding
    <2>3. AttachInv'
      BY <1>21 DEF SctxInv, AttachInv, HandInv, QueueInv, DataType, FlagType,
         ThreadSignal, ThreadGoto, cmdvars, Holding
    <2>4. StackSafe'
      BY <1>21 DEF SctxInv, StackSafe, InFlight, Guarded, AttachInv, QueueInv, HandInv,
         DataType, FlagType, ThreadSignal, ThreadGoto, cmdvars,
         Holding
    <2>5. ExclInv'
      BY <1>21 DEF SctxInv, ExclInv, Guarded, Completing, Detaching, DataType, FlagType,
         ThreadSignal, ThreadGoto, cmdvars, Holding
    <2>6. TestedInv'
      BY <1>21 DEF SctxInv, TestedInv, QueueInv, HandInv, AttachInv, Guarded, DataType, FlagType,
         ThreadSignal, ThreadGoto, cmdvars, Holding
    <2> QED  BY <2>1, <2>2, <2>3, <2>4, <2>5, <2>6 DEF SctxInv
  <1>22. CASE Open
    BY <1>22 DEF SctxInv, QueueInv, HandInv, ExclInv, AttachInv, TestedInv, StackSafe,
       InFlight, Guarded, Completing, Detaching,
       cmdvars, Open
  <1>23. CASE Spawn
    <2>1. QueueInv'
      BY <1>23 DEF SctxInv, QueueInv, HandInv, DataType, FlagType, Spawn,
         ThreadGoto, cmdvars, Holding, Gens
    <2>2. HandInv'
      BY <1>23 DEF SctxInv, QueueInv, HandInv, DataType, FlagType, Spawn,
         ThreadGoto, cmdvars, Holding, Gens
    <2>3. AttachInv'
      BY <1>23 DEF SctxInv, AttachInv, HandInv, QueueInv, DataType, FlagType,
         Spawn, ThreadGoto, cmdvars, Holding, Gens
    <2>4. StackSafe'
      BY <1>23 DEF SctxInv, StackSafe, InFlight, Guarded, AttachInv, QueueInv, HandInv,
         DataType, FlagType, Spawn, ThreadGoto, cmdvars, Holding,
         Gens
    <2>5. ExclInv'
      BY <1>23 DEF SctxInv, ExclInv, Guarded, Completing, Detaching, DataType, FlagType,
         Spawn, ThreadGoto, cmdvars, Holding, Gens
    <2>6. TestedInv'
      BY <1>23 DEF SctxInv, TestedInv, QueueInv, HandInv, AttachInv, Guarded, DataType, FlagType,
         Spawn, ThreadGoto, cmdvars, Holding, Gens
    <2> QED  BY <2>1, <2>2, <2>3, <2>4, <2>5, <2>6 DEF SctxInv
  <1>24. CASE Started
    BY <1>24 DEF SctxInv, QueueInv, HandInv, ExclInv, AttachInv, TestedInv, StackSafe,
       InFlight, Guarded, Completing, Detaching,
       cmdvars, Started
  <1>25. CASE Suspend
    BY <1>25 DEF SctxInv, QueueInv, HandInv, ExclInv, AttachInv, TestedInv, StackSafe,
       InFlight, Guarded, Completing, Detaching,
       cmdvars, Suspend
  <1>26. CASE Remove
    BY <1>26 DEF SctxInv, QueueInv, HandInv, ExclInv, AttachInv, TestedInv, StackSafe,
       InFlight, Guarded, Completing, Detaching,
       cmdvars, Remove
  <1>27. ASSUME NEW call \in 1..2, StopSkips(call) PROVE SctxInv'
    BY <1>27 DEF SctxInv, QueueInv, HandInv, ExclInv, AttachInv, TestedInv, StackSafe,
       InFlight, Guarded, Completing, Detaching,
       cmdvars, StopSkips
  <1>28. ASSUME NEW call \in 1..2, StopRequest(call) PROVE SctxInv'
    BY <1>28 DEF SctxInv, QueueInv, HandInv, ExclInv, AttachInv, TestedInv, StackSafe,
       InFlight, Guarded, Completing, Detaching,
       cmdvars, StopRequest
  <1>29. ASSUME NEW call \in 1..2, StopRaise(call) PROVE SctxInv'
    BY <1>29 DEF SctxInv, QueueInv, HandInv, ExclInv, AttachInv, TestedInv, StackSafe,
       InFlight, Guarded, Completing, Detaching,
       cmdvars, StopRaise
  <1>30. ASSUME NEW call \in 1..2, StopDown(call) PROVE SctxInv'
    BY <1>30 DEF SctxInv, QueueInv, HandInv, ExclInv, AttachInv, TestedInv, StackSafe,
       InFlight, Guarded, Completing, Detaching,
       cmdvars, StopDown
  <1>31. CASE Unload
    BY <1>31 DEF SctxInv, QueueInv, HandInv, ExclInv, AttachInv, TestedInv, StackSafe,
       InFlight, Guarded, Completing, Detaching,
       cmdvars, Unload
  <1>32. CASE Poll
    BY <1>32 DEF SctxInv, QueueInv, HandInv, ExclInv, AttachInv, TestedInv, StackSafe,
       InFlight, Guarded, Completing, Detaching,
       cmdvars, Poll
  <1>33. CASE Deinit
    BY <1>33 DEF SctxInv, QueueInv, HandInv, ExclInv, AttachInv, TestedInv, StackSafe,
       InFlight, Guarded, Completing, Detaching,
       cmdvars, Deinit
  <1>34. CASE IpsDown
    BY <1>34 DEF SctxInv, QueueInv, HandInv, ExclInv, AttachInv, TestedInv, StackSafe,
       InFlight, Guarded, Completing, Detaching,
       cmdvars, IpsDown
  <1>35. CASE IpsUp
    BY <1>35 DEF SctxInv, QueueInv, HandInv, ExclInv, AttachInv, TestedInv, StackSafe,
       InFlight, Guarded, Completing, Detaching,
       cmdvars, IpsUp
  <1>36. CASE IoError
    BY <1>36 DEF SctxInv, QueueInv, HandInv, ExclInv, AttachInv, TestedInv, StackSafe,
       InFlight, Guarded, Completing, Detaching,
       cmdvars, IoError
  <1>37. CASE UNCHANGED vars
    BY <1>37 DEF SctxInv, QueueInv, HandInv, ExclInv, AttachInv, TestedInv, StackSafe,
       InFlight, Guarded, Completing, Detaching, vars, cmdvars
  <1>38. QED
    BY <1>1, <1>2, <1>3, <1>4, <1>5, <1>6, <1>7, <1>8, <1>9, <1>10, <1>11,
       <1>12, <1>13, <1>14, <1>15, <1>16, <1>17, <1>18, <1>19, <1>20,
       <1>21, <1>22, <1>23, <1>24, <1>25, <1>26, <1>27, <1>28, <1>29,
       <1>30, <1>31, <1>32, <1>33, <1>34, <1>35, <1>36, <1>37, <1>39, <1>40,
       <1>41, <1>42, <1>43
       DEF Next, CallerSteps, ThreadSteps, StopSteps

-----------------------------------------------------------------------------
(* Stopping the thread.  Without faults only the latest incarnation is     *)
(* alive, and where the manager is tells what it may still do: the count   *)
(* of terminate_cmdthread_sema says whether its farewell was heard.        *)

Alive == {"wait", "check", "next"} \cup Holding
Latest == thr[starts]

(* The thread is on its way out, and nobody has taken its farewell.        *)
Leaving ==
    \/ Latest \in Alive \cup {"drain", "bye"} /\ tsema = 0 /\ running
    \/ Latest = "gone" /\ tsema = 1 /\ running
    \/ Latest = "dead" /\ tsema = 1 /\ ~running

(* The thread has said farewell.                                           *)
Left ==
    \/ Latest = "gone" /\ running
    \/ Latest = "dead" /\ ~running

DeadInv == \A t \in Gens : t < starts => thr[t] = "dead"

RestInv ==
    mgr \in {"closed", "spawn"} =>
        /\ ~running /\ ~removing /\ tsema = 0
        /\ \A t \in Gens : thr[t] = IF t <= starts THEN "dead" ELSE "none"
        /\ mgr = "spawn" => ~stopped

StartInv ==
    mgr = "start" =>
        /\ starts \in Gens /\ ~removing /\ ~stopped
        /\ \/ Latest = "starting" /\ tsema = 0 /\ ~running
           \/ Latest \in Alive /\ tsema = 1 /\ running /\ ~stop_req

OpenInv ==
    mgr \in {"open", "stop1"} =>
        /\ starts \in Gens /\ ~removing /\ ~stopped /\ ~stop_req
        /\ Latest \in Alive /\ tsema = 0 /\ running

SuspendInv ==
    mgr \in {"raise1", "down1"} =>
        starts \in Gens /\ ~removing /\ stop_req /\ Leaving

(* A suspend has stopped the thread before the unload; a removal has not.  *)
UnloadInv ==
    mgr \in {"unload", "stop2", "raise2", "down2"} =>
        /\ starts \in Gens
        /\ mgr \in {"raise2", "down2"} => removing
        /\ removing => Leaving
        /\ removing /\ mgr \in {"unload", "stop2"} => ~stop_req
        /\ ~removing => Left /\ tsema = 0 /\ stop_req

PollInv ==
    mgr \in {"poll", "deinit", "removed"} =>
        /\ starts \in Gens
        /\ Left
        /\ mgr # "poll" => Latest = "dead"
        /\ ~removing => tsema = 0

Quiet ==
    DeadInv /\ RestInv /\ StartInv /\ OpenInv /\ SuspendInv /\ UnloadInv /\ PollInv

QuietInv == faults = 0 => Quiet /\ ~mutex.refused

(* A thread that can take a step is the latest one.                        *)
LEMMA OnlyLatest ==
    ASSUME DataType, Quiet, NEW t \in Gens, thr[t] \notin {"none", "dead"}
    PROVE  /\ t = starts /\ Latest = thr[t] /\ starts \in Gens
           /\ mgr \notin {"closed", "spawn", "deinit", "removed"}
  <1>1. starts \in Nat /\ t \in Nat
    BY CmdAssumption DEF DataType, Gens
  <1>2. t = starts
    BY <1>1 DEF DataType, Quiet, DeadInv
  <1>3. mgr \notin {"closed", "spawn"}
    BY DEF Quiet, RestInv
  <1>4. mgr \notin {"deinit", "removed"}
    BY <1>2 DEF Quiet, PollInv, Latest
  <1> QED
    BY <1>2, <1>3, <1>4 DEF Latest

(* Steps that only concern commands.                                       *)
LEMMA QuietElsewhere ==
    ASSUME Quiet, UNCHANGED <<flags, tsema, thr, starts, mgr, removing>>
    PROVE  Quiet'
  BY DEF Quiet, DeadInv, RestInv, StartInv, OpenInv, SuspendInv, UnloadInv, PollInv,
     Leaving, Left, Latest, flags

(* The thread goes on with its work.                                       *)
LEMMA QuietWork ==
    ASSUME DataType, Quiet, NEW t \in Gens, NEW l \in Alive,
           thr[t] \in Alive, thr' = [thr EXCEPT ![t] = l],
           UNCHANGED <<flags, tsema, starts, mgr, removing>>
    PROVE  Quiet'
  <1>1. /\ t = starts /\ starts \in Gens /\ Latest \in Alive
        /\ mgr \notin {"closed", "spawn", "deinit", "removed", "poll"}
        /\ mgr \in {"unload", "stop2", "raise2", "down2"} => removing
    <2>1. thr[t] \notin {"none", "dead", "gone"}
      BY DEF Alive, Holding
    <2>2. /\ t = starts /\ Latest = thr[t] /\ starts \in Gens
          /\ mgr \notin {"closed", "spawn", "deinit", "removed"}
      BY <2>1, OnlyLatest
    <2> QED
      BY <2>1, <2>2 DEF Quiet, PollInv, UnloadInv, Left
  <1>2. Latest' = l /\ l \in Alive /\ thr \in [Gens -> ThreadLabels]
    BY <1>1 DEF Latest, DataType
  <1>3. l \notin {"none", "dead", "gone", "starting", "drain", "bye"}
    BY DEF Alive, Holding
  <1>4. DeadInv' /\ RestInv' /\ PollInv'
    BY <1>1, <1>2 DEF Quiet, DeadInv, RestInv, PollInv, DataType, Gens
  <1>5. Leaving => Leaving'
    BY <1>1, <1>2, <1>3 DEF Leaving, flags, Alive, Holding
  <1>6. StartInv' /\ OpenInv' /\ SuspendInv' /\ UnloadInv'
    BY <1>1, <1>2, <1>3, <1>5 DEF Quiet, StartInv, OpenInv, SuspendInv, UnloadInv, flags, Alive, Holding
  <1> QED
    BY <1>4, <1>6 DEF Quiet

(* The thread leaves its loop, only when it was told to.                   *)
LEMMA QuietLeave ==
    ASSUME DataType, Quiet, NEW t \in Gens, thr[t] \in Alive, stopped \/ stop_req,
           thr' = [thr EXCEPT ![t] = "drain"],
           UNCHANGED <<flags, tsema, starts, mgr, removing>>
    PROVE  Quiet'
  <1>1. thr[t] \notin {"none", "dead", "gone", "starting"}
    BY DEF Alive, Holding
  <1>2. /\ t = starts /\ Latest = thr[t] /\ starts \in Gens
        /\ mgr \notin {"closed", "spawn", "deinit", "removed"}
    BY <1>1, OnlyLatest
  <1>3. /\ mgr \notin {"start", "open", "stop1", "poll"}
        /\ mgr \in {"unload", "stop2", "raise2", "down2"} => removing
    BY <1>1, <1>2 DEF Quiet, StartInv, OpenInv, UnloadInv, PollInv, Left
  <1>4. Latest' = "drain" /\ thr \in [Gens -> ThreadLabels]
    BY <1>2 DEF Latest, DataType
  <1>5. Leaving => Leaving'
    BY <1>1, <1>2, <1>4 DEF Leaving, flags
  <1>6. DeadInv' /\ RestInv' /\ PollInv' /\ StartInv' /\ OpenInv'
    BY <1>2, <1>3 DEF Quiet, DeadInv, RestInv, PollInv, StartInv, OpenInv, DataType, Gens
  <1>7. SuspendInv' /\ UnloadInv'
    BY <1>2, <1>3, <1>5 DEF Quiet, SuspendInv, UnloadInv, flags
  <1> QED
    BY <1>6, <1>7 DEF Quiet

(* The thread outside of its loop: started, drained, gone.                 *)
LEMMA QuietStart ==
    ASSUME DataType, Quiet, NEW t \in Gens, ThreadStart(t)
    PROVE  Quiet'
  <1>1. /\ t = starts /\ Latest = "starting" /\ starts \in Gens
        /\ mgr \notin {"closed", "spawn", "deinit", "removed"}
    BY OnlyLatest DEF ThreadStart
  <1>2. mgr = "start" /\ tsema = 0 /\ ~removing /\ ~stopped
    BY <1>1 DEF Quiet, StartInv, OpenInv, SuspendInv, UnloadInv, PollInv, Leaving, Left,
       DataType, MgrLabels, Alive, Holding
  <1>3. /\ Latest' = "wait" /\ thr \in [Gens -> ThreadLabels]
        /\ UNCHANGED <<starts, mgr, removing, stopped>>
        /\ tsema' = 1 /\ running' /\ ~stop_req'
    BY <1>1, <1>2 DEF Latest, DataType, ThreadStart, ThreadGoto, mgrvars
  <1>4. DeadInv'
    BY <1>1, <1>3 DEF Quiet, DeadInv, ThreadStart, ThreadGoto, DataType, Gens
  <1> QED
    BY <1>1, <1>2, <1>3, <1>4 DEF Quiet, RestInv, StartInv, OpenInv, SuspendInv, UnloadInv,
       PollInv, Alive

LEMMA QuietBye ==
    ASSUME DataType, Quiet, NEW t \in Gens,
           ThreadDrained(t) \/ ThreadBye(t) \/ ThreadGone(t)
    PROVE  Quiet'
  <1>1. /\ t = starts /\ Latest = thr[t] /\ starts \in Gens
        /\ mgr \notin {"closed", "spawn", "deinit", "removed"}
        /\ thr[t] \in {"drain", "bye", "gone"}
    BY OnlyLatest DEF ThreadDrained, ThreadBye, ThreadGone
  <1>2. /\ mgr \notin {"start", "open", "stop1"}
        /\ thr[t] # "gone" => mgr # "poll" /\ ~Left
        /\ mgr \in {"unload", "stop2", "raise2", "down2"} => removing \/ thr[t] = "gone"
    BY <1>1 DEF Quiet, StartInv, OpenInv, UnloadInv, PollInv, Left, Alive, Holding
  <1>3. /\ thr' = [thr EXCEPT ![t] = Latest'] /\ thr \in [Gens -> ThreadLabels]
        /\ UNCHANGED <<starts, mgr, removing, stop_req>>
        /\ Latest' \in {"bye", "gone", "dead"}
    BY <1>1 DEF Latest, DataType, ThreadDrained, ThreadBye, ThreadGone, ThreadGoto, flags, mgrvars
  <1>4. Leaving => Leaving'
    <2>1. CASE ThreadDrained(t)
      BY <1>1, <1>3, <2>1 DEF Leaving, ThreadDrained, ThreadGoto, Latest, flags, semas, DataType
    <2>2. CASE ThreadBye(t)
      BY <1>1, <1>3, <2>2 DEF Leaving, ThreadBye, ThreadGoto, Latest, flags, DataType
    <2>3. CASE ThreadGone(t)
      BY <1>1, <1>3, <2>3 DEF Leaving, ThreadGone, ThreadGoto, Latest, semas, DataType, Alive, Holding
    <2> QED
      BY <2>1, <2>2, <2>3
  <1>5. Left => Left' /\ tsema' = tsema
    <2>1. CASE ThreadGone(t)
      BY <1>1, <1>3, <2>1 DEF Left, ThreadGone, ThreadGoto, Latest, semas, DataType
    <2>2. CASE ~ThreadGone(t)
      BY <1>1, <1>2, <2>2 DEF Left, ThreadDrained, ThreadBye
    <2> QED
      BY <2>1, <2>2
  <1>6. DeadInv' /\ RestInv' /\ StartInv' /\ OpenInv'
    BY <1>1, <1>2, <1>3 DEF Quiet, DeadInv, RestInv, StartInv, OpenInv, DataType, Gens
  <1>7. SuspendInv' /\ UnloadInv' /\ PollInv'
    BY <1>1, <1>2, <1>3, <1>4, <1>5 DEF Quiet, SuspendInv, UnloadInv, PollInv
  <1> QED
    BY <1>6, <1>7 DEF Quiet

(* The steps of the manager.                                               *)
LEMMA QuietSpawn ==
    ASSUME DataType, Quiet, Spawn
    PROVE  Quiet'
  <1>1. /\ mgr = "spawn" /\ mgr' = "start" /\ starts' = starts + 1 /\ starts' \in Gens
        /\ tsema = 0 /\ tsema' = 0 /\ ~running /\ ~running' /\ ~removing' /\ ~stopped'
        /\ starts \in Nat
    BY CmdAssumption DEF DataType, Quiet, RestInv, Spawn, flags, semas, Gens
  <1>2. Latest' = "starting"
    BY <1>1 DEF Latest, Spawn, ThreadGoto, DataType
  <1>3. DeadInv'
    BY <1>1 DEF Quiet, RestInv, DeadInv, Spawn, ThreadGoto, DataType, Gens
  <1> QED
    BY <1>1, <1>2, <1>3 DEF Quiet, RestInv, StartInv, OpenInv, SuspendInv, UnloadInv, PollInv

LEMMA QuietManager ==
    ASSUME FlagType, DataType, Quiet, faults' = 0,
           \/ Open \/ Started \/ Suspend \/ Remove
           \/ \E call \in 1..2 : StopSteps(call)
           \/ Unload \/ Poll \/ Deinit \/ IpsDown \/ IpsUp
    PROVE  Quiet'
  <1>1. CASE Open
    BY <1>1 DEF Quiet, DeadInv, RestInv, StartInv, OpenInv, SuspendInv,
       UnloadInv, PollInv, Leaving, Left, Latest, Open, semas
  <1>2. CASE Started
    BY <1>2 DEF Quiet, DeadInv, RestInv, StartInv, OpenInv, SuspendInv,
       UnloadInv, PollInv, Leaving, Left, Latest, Started, flags, DataType
  <1>3. CASE Suspend
    BY <1>3 DEF Quiet, DeadInv, RestInv, StartInv, OpenInv, SuspendInv,
       UnloadInv, PollInv, Leaving, Left, Latest, Suspend, flags, semas
  <1>4. CASE Remove
    BY <1>4 DEF Quiet, DeadInv, RestInv, StartInv, OpenInv, SuspendInv,
       UnloadInv, PollInv, Leaving, Left, Latest, Remove, flags, semas
  <1>5. CASE Unload
    BY <1>5 DEF Quiet, DeadInv, RestInv, StartInv, OpenInv, SuspendInv,
       UnloadInv, PollInv, Leaving, Left, Latest, Unload, semas
  <1>6. CASE Poll
    <2>1. ~running
      BY <1>6, CmdAssumption DEF Poll, Fault, DataType
    <2> QED
      BY <1>6, <2>1 DEF Quiet, DeadInv, RestInv, StartInv, OpenInv, SuspendInv,
         UnloadInv, PollInv, Leaving, Left, Latest, Poll, flags, semas
  <1>7. CASE Deinit
    BY <1>7 DEF Quiet, DeadInv, RestInv, StartInv, OpenInv, SuspendInv,
       UnloadInv, PollInv, Leaving, Left, Latest, Deinit, semas, Gens, DataType
  <1>8. CASE IpsDown
    BY <1>8 DEF Quiet, DeadInv, RestInv, StartInv, OpenInv, SuspendInv,
       UnloadInv, PollInv, Leaving, Left, Latest, IpsDown, semas, mgrvars
  <1>9. CASE IpsUp
    <2>1. ~stopped /\ mgr = "open"
      BY <1>9 DEF Quiet, OpenInv, IpsUp
    <2>2. ~stopped'
      BY <1>9, <2>1 DEF IpsUp
    <2> QED
      BY <1>9, <2>1, <2>2 DEF Quiet, DeadInv, RestInv, StartInv, OpenInv, SuspendInv,
         UnloadInv, PollInv, Leaving, Left, Latest, IpsUp, semas, mgrvars
  <1>10. ASSUME NEW call \in 1..2, StopSkips(call) PROVE Quiet'
    <2>1. CASE call = 1
      BY <1>10, <2>1 DEF Quiet, DeadInv, RestInv, StartInv, OpenInv, SuspendInv,
         UnloadInv, PollInv, Leaving, Left, Latest, StopSkips, StopLabel, AfterStop, flags, semas
    <2>2. CASE call = 2
      BY <1>10, <2>2 DEF Quiet, DeadInv, RestInv, StartInv, OpenInv, SuspendInv,
         UnloadInv, PollInv, Leaving, Left, Latest, StopSkips, StopLabel, AfterStop, flags, semas
    <2> QED
      BY <2>1, <2>2
  <1>11. ASSUME NEW call \in 1..2, StopRequest(call) PROVE Quiet'
    <2>1. CASE call = 1
      BY <1>11, <2>1 DEF Quiet, DeadInv, RestInv, StartInv, OpenInv, SuspendInv,
         UnloadInv, PollInv, Leaving, Left, Latest, StopRequest, StopLabel, semas
    <2>2. CASE call = 2
      BY <1>11, <2>2 DEF Quiet, DeadInv, RestInv, StartInv, OpenInv, SuspendInv,
         UnloadInv, PollInv, Leaving, Left, Latest, StopRequest, StopLabel, semas
    <2> QED
      BY <2>1, <2>2
  <1>12. ASSUME NEW call \in 1..2, StopRaise(call) PROVE Quiet'
    <2>1. CASE call = 1
      BY <1>12, <2>1 DEF Quiet, DeadInv, RestInv, StartInv, OpenInv, SuspendInv,
         UnloadInv, PollInv, Leaving, Left, Latest, StopRaise, StopLabel, flags
    <2>2. CASE call = 2
      BY <1>12, <2>2 DEF Quiet, DeadInv, RestInv, StartInv, OpenInv, SuspendInv,
         UnloadInv, PollInv, Leaving, Left, Latest, StopRaise, StopLabel, flags
    <2> QED
      BY <2>1, <2>2
  <1>13. ASSUME NEW call \in 1..2, StopDown(call) PROVE Quiet'
    <2>1. CASE call = 1
      BY <1>13, <2>1 DEF Quiet, DeadInv, RestInv, StartInv, OpenInv, SuspendInv,
         UnloadInv, PollInv, Leaving, Left, Latest, StopDown, StopLabel, AfterStop, flags, DataType
    <2>2. CASE call = 2
      BY <1>13, <2>2 DEF Quiet, DeadInv, RestInv, StartInv, OpenInv, SuspendInv,
         UnloadInv, PollInv, Leaving, Left, Latest, StopDown, StopLabel, AfterStop, flags, DataType
    <2> QED
      BY <2>1, <2>2
  <1> QED
    BY <1>1, <1>2, <1>3, <1>4, <1>5, <1>6, <1>7, <1>8, <1>9, <1>10, <1>11, <1>12, <1>13 DEF StopSteps

LEMMA QuietStep ==
    ASSUME FlagType, DataType, SctxInv, QuietInv, [Next]_vars PROVE QuietInv'
  <1> SUFFICES ASSUME faults' = 0 PROVE Quiet' /\ ~mutex'.refused
    BY DEF QuietInv
  <1>1. faults = 0
    <2>1. faults \in Nat /\ faults' \in {faults, faults + 1}
      <3>1. faults \in Nat
        BY CmdAssumption DEF DataType
      <3>2. faults' \in {faults, faults + 1}
        BY DEF Next, Submit, Reject, CallerSteps, Enqueue, Raise, WaitEnds, Detach,
           DetachRefused, Leave, ThreadPostRefused, ThreadComplete, ThreadOops, RefuseMutex, ThreadSteps,
           ThreadStart, ThreadDown, ThreadCheck, ThreadStopped, ThreadDequeue, ThreadFilter,
           ThreadRun, ThreadPost, ThreadClear, ThreadFree, ThreadDrain, ThreadDrained, ThreadBye,
           ThreadGone, ThreadSignal, Open, Spawn, Started, Suspend, Remove, StopSteps, StopSkips,
           StopRequest, StopRaise, StopDown, Unload, Poll, Deinit, IpsDown, IpsUp, IoError,
           Fault, mgrvars, vars
      <3> QED
        BY <3>1, <3>2
    <2> QED
      BY <2>1
  <1>2. Quiet /\ ~mutex.refused
    BY <1>1 DEF QuietInv
  <1>3. ASSUME \/ \E c \in Cmds, s, a \in BOOLEAN : Submit(c, s, a)
               \/ \E c \in Cmds, a \in BOOLEAN : Reject(c, a)
               \/ \E c \in Cmds : CallerSteps(c)
               \/ \E t \in Gens : ThreadDrain(t)
               \/ UNCHANGED vars
        PROVE  Quiet'
    <2>1. UNCHANGED <<flags, tsema, thr, starts, mgr, removing>>
      BY <1>3 DEF Submit, Reject, CallerSteps, Enqueue, Raise, WaitEnds, Detach, Leave, ThreadDrain,
         semas, mgrvars, vars
    <2> QED
      BY <1>2, <2>1, QuietElsewhere
  <1>4. ASSUME NEW t \in Gens,
               \/ ThreadDown(t) \/ ThreadDequeue(t) \/ ThreadFilter(t) \/ ThreadRun(t)
               \/ ThreadPost(t) \/ ThreadComplete(t) \/ ThreadClear(t) \/ ThreadFree(t)
        PROVE  Quiet'
    <2>1. \E l \in Alive : thr' = [thr EXCEPT ![t] = l]
      BY <1>4 DEF ThreadDown, ThreadDequeue, ThreadFilter, ThreadRun, ThreadPost, ThreadComplete,
         ThreadClear, ThreadFree, ThreadGoto, Alive, Holding
    <2>2. thr[t] \in Alive /\ UNCHANGED <<flags, tsema, starts, mgr, removing>>
      BY <1>4 DEF ThreadDown, ThreadDequeue, ThreadFilter, ThreadRun, ThreadPost, ThreadComplete,
         ThreadClear, ThreadFree, Alive, Holding, semas, mgrvars
    <2> QED
      BY <1>2, <2>1, <2>2, QuietWork
  <1>5. ASSUME NEW t \in Gens, ThreadCheck(t) \/ ThreadStopped(t) PROVE Quiet'
    <2>1. thr[t] \in Alive /\ UNCHANGED <<flags, tsema, starts, mgr, removing>>
      BY <1>5 DEF ThreadCheck, ThreadStopped, Alive, semas, mgrvars
    <2>2. \/ (stopped \/ stop_req) /\ thr' = [thr EXCEPT ![t] = "drain"]
          \/ \E l \in Alive : thr' = [thr EXCEPT ![t] = l]
      BY <1>5 DEF ThreadCheck, ThreadStopped, ThreadGoto, Alive
    <2> QED
      BY <1>2, <2>1, <2>2, QuietWork, QuietLeave
  <1>6. ASSUME NEW t \in Gens, ThreadStart(t) PROVE Quiet'
    BY <1>2, <1>6, QuietStart
  <1>7. ASSUME NEW t \in Gens, ThreadDrained(t) \/ ThreadBye(t) \/ ThreadGone(t) PROVE Quiet'
    BY <1>2, <1>7, QuietBye
  <1>8. ASSUME \/ \E t \in Gens : ThreadSignal(t) \/ ThreadPostRefused(t)
               \/ \E c \in Cmds : DetachRefused(c)
               \/ IoError
        PROVE  FALSE
    BY <1>1, <1>8 DEF ThreadSignal, ThreadPostRefused, DetachRefused, RefuseMutex, IoError, Fault
  <1>11. ASSUME NEW t \in Gens, ThreadOops(t) PROVE FALSE
    BY <1>2, <1>11 DEF ThreadOops, SctxInv, TestedInv, Guarded
  <1>12. mutex' = mutex \/ EnterMutex \/ ExitMutex
    <2>1. ASSUME NEW c \in Cmds, CallerSteps(c) PROVE mutex' = mutex \/ EnterMutex \/ ExitMutex
      BY <2>1, Zenon DEF CallerSteps, Enqueue, Raise, WaitEnds, Detach, Leave
    <2>2. ASSUME NEW t \in Gens, ThreadSteps(t) PROVE mutex' = mutex \/ EnterMutex \/ ExitMutex
      BY <2>2, Zenon DEF ThreadSteps, ThreadStart, ThreadDown, ThreadCheck, ThreadStopped,
         ThreadDequeue, ThreadFilter, ThreadRun, ThreadPost, ThreadComplete, ThreadOops,
         ThreadClear, ThreadFree, ThreadDrain, ThreadDrained, ThreadBye, ThreadGone
    <2>3. ASSUME NEW call \in 1..2, StopSteps(call) PROVE mutex' = mutex
      BY <2>3, Zenon DEF StopSteps, StopSkips, StopRequest, StopRaise, StopDown
    <2>4. ASSUME \/ \E c \in Cmds, s, a \in BOOLEAN : Submit(c, s, a)
                 \/ \E c \in Cmds, a \in BOOLEAN : Reject(c, a)
                 \/ Open \/ Spawn \/ Started \/ Suspend \/ Remove
                 \/ Unload \/ Poll \/ Deinit \/ IpsDown \/ IpsUp
                 \/ UNCHANGED vars
          PROVE  mutex' = mutex
      BY <2>4, Zenon DEF Submit, Reject, Open, Spawn, Started, Suspend, Remove, Unload, Poll,
         Deinit, IpsDown, IpsUp, vars
    <2> QED
      BY <1>8, <2>1, <2>2, <2>3, <2>4, Zenon DEF Next
  <1>13. ~mutex'.refused
    BY <1>2, <1>12, MutexSteps DEF FlagType
  <1>9. ASSUME Spawn PROVE Quiet'
    BY <1>2, <1>9, QuietSpawn
  <1>10. ASSUME \/ Open \/ Started \/ Suspend \/ Remove
                \/ \E call \in 1..2 : StopSteps(call)
                \/ Unload \/ Poll \/ Deinit \/ IpsDown \/ IpsUp
         PROVE  Quiet'
    BY <1>2, <1>10, QuietManager
  <1> QED
    BY <1>3, <1>4, <1>5, <1>6, <1>7, <1>8, <1>9, <1>10, <1>11, <1>13 DEF Next, ThreadSteps

-----------------------------------------------------------------------------
(* The invariants hold initially.                                          *)
LEMMA InitHolds ==
    ASSUME Init PROVE FlagType /\ DataType /\ NoLostWakeup /\ SctxInv /\ QuietInv
  <1>1. FlagType
    BY Zenon DEF Init, FlagType
  <1>2. DataType
    BY CmdAssumption DEF Init, DataType, Objs, CallerLabels, ThreadLabels,
       Holding, MgrLabels, Gens
  <1>3. NoLostWakeup
    BY DEF Init, NoLostWakeup
  <1>4. SctxInv
    <2>1. /\ \A c \in Cmds : ~sctx[c] /\ ~sync[c] /\ caller[c] = "idle"
          /\ \A c \in Cmds : obj[c] = "none" /\ status[c] = "submitted"
          /\ \A t \in Gens : thr[t] = "none"
          /\ queue = <<>>
      BY Zenon DEF Init
    <2> QED
      BY <2>1 DEF SctxInv, QueueInv, HandInv, ExclInv, AttachInv, TestedInv, StackSafe,
         InFlight, Completing, Detaching, Holding
  <1>5. QuietInv
    BY CmdAssumption DEF Init, QuietInv, Quiet, DeadInv, RestInv, StartInv, OpenInv, SuspendInv,
       UnloadInv, PollInv, Gens
  <1> QED  BY <1>1, <1>2, <1>3, <1>4, <1>5

(* Every reachable state of the command queue satisfies its type           *)
(* invariant: no semaphore goes below zero, and a thread that works on a   *)
(* command has one in hand.                                                *)
THEOREM TypeCorrect == Spec => []TypeOK
  <1>1. Init => FlagType /\ DataType
    BY InitHolds
  <1>2. FlagType /\ DataType /\ [Next]_vars => FlagType' /\ DataType'
    BY FlagStep, DataStep
  <1>3. FlagType /\ DataType => TypeOK
    BY Zenon DEF FlagType, DataType, TypeOK
  <1> QED  BY <1>1, <1>2, <1>3, PTL DEF Spec

(* rtw_enqueue_cmd and rtw_cmd_thread never sleep on a queued command,     *)
(* whatever the number of commands, incarnations and faults, unless a      *)
(* thread died of a completion it made without sctx_mutex.                 *)
THEOREM NeverSleptOn == Spec => []NoLostWakeup
  <1>1. Init => DataType /\ NoLostWakeup
    BY InitHolds
  <1>2. DataType /\ NoLostWakeup /\ [Next]_vars => DataType' /\ NoLostWakeup'
    BY DataStep, WakeupStep
  <1> QED  BY <1>1, <1>2, PTL DEF Spec

(* The inductive invariant of the synchronous commands always holds.       *)
LEMMA AlwaysAttached == Spec => [](DataType /\ SctxInv)
  <1>1. Init => FlagType /\ DataType /\ SctxInv
    BY InitHolds
  <1>2. FlagType /\ DataType /\ SctxInv /\ [Next]_vars =>
            FlagType' /\ DataType' /\ SctxInv'
    BY FlagStep, DataStep, SctxStep
  <1> QED  BY <1>1, <1>2, PTL DEF Spec

(* As long as nobody is refused sctx_mutex, no command that is alive       *)
(* points into the stack frame of a caller that rtw_startbss_cmd has       *)
(* returned from, and no thread is about to complete into it.              *)
THEOREM StackFramesSafe == Spec => []StackSafe
  <1>1. SctxInv => StackSafe
    BY DEF SctxInv
  <1> QED  BY AlwaysAttached, <1>1, PTL

(* As long as nobody is refused sctx_mutex, a caller that detaches its     *)
(* submit_ctx from a command that is not done never writes to an object    *)
(* that post_process has freed.                                            *)
THEOREM DetachingSafe == Spec => []DetachSafe
  <1>1. DataType /\ SctxInv => DetachSafe
    BY DEF DataType, SctxInv, AttachInv, TestedInv, DetachSafe
  <1> QED  BY AlwaysAttached, <1>1, PTL

(* Without faults, the thread has made its last access to the hardware and *)
(* the queue when rtw_stop_cmd_thread and rtw_dev_unload take the hardware *)
(* down, for any number of suspends and resumes before a removal: the one  *)
(* semaphore that says hello and farewell is never mistaken for the other. *)
THEOREM HardwareOffQuietly == Spec => []StopQuiesces
  <1>1. Init => FlagType /\ DataType /\ SctxInv /\ QuietInv
    BY InitHolds
  <1>2. FlagType /\ DataType /\ SctxInv /\ QuietInv /\ [Next]_vars =>
            FlagType' /\ DataType' /\ SctxInv' /\ QuietInv'
    BY FlagStep, DataStep, SctxStep, QuietStep
  <1>3. DataType /\ QuietInv => StopQuiesces
    <2> SUFFICES ASSUME DataType, QuietInv, faults = 0,
                        mgr \in {"poll", "deinit", "closed", "removed"},
                        NEW t \in Gens
                 PROVE  thr[t] \in {"none", "gone", "dead"}
      BY DEF StopQuiesces
    <2>1. Quiet
      BY DEF QuietInv
    <2>2. CASE thr[t] \in {"none", "dead"}
      BY <2>2
    <2>3. CASE thr[t] \notin {"none", "dead"}
      BY <2>1, <2>3, OnlyLatest DEF Quiet, PollInv, Left
    <2> QED
      BY <2>2, <2>3
  <1> QED  BY <1>1, <1>2, <1>3, PTL DEF Spec

-----------------------------------------------------------------------------
(* The command queue implements CommandService.                            *)

(* What an abstract step cannot see.                                       *)
LEMMA Unseen ==
    ASSUME UNCHANGED <<queue, obj, sync, caller, status>>, mutex'.refused = mutex.refused
    PROVE  UNCHANGED Service!vars
  <1>1. Phase' = Phase
    BY Zenon DEF Phase
  <1>2. Waiting' = Waiting
    BY Zenon DEF Waiting
  <1>3. Answered' = Answered
    BY Zenon DEF Answered
  <1> QED  BY <1>1, <1>2, <1>3 DEF Service!vars

(* One command changes its phase.                                          *)
LEMMA PhaseMoves ==
    ASSUME DataType, NEW c \in Cmds, NEW o \in Objs, obj' = [obj EXCEPT ![c] = o]
    PROVE  /\ Phase[c] = IF obj[c] \in {"freed", "dropped"} THEN "over" ELSE obj[c]
           /\ Service!Move(c, IF o \in {"freed", "dropped"} THEN "over" ELSE o)
  BY DEF DataType, Phase, Service!Move

(* The steps of the callers.                                               *)
LEMMA CallerImplements ==
    ASSUME DataType, FlagType, SctxInv, NEW c \in Cmds,
           \/ \E s, a \in BOOLEAN : Submit(c, s, a)
           \/ \E a \in BOOLEAN : Reject(c, a)
           \/ CallerSteps(c) \/ DetachRefused(c)
    PROVE  Service!Next \/ UNCHANGED Service!vars
  <1> DEFINE Busy == {"enqueue", "raise", "wait", "detach", "forget", "leave"}
  <1>0. /\ c \in Waiting <=> sync[c] /\ caller[c] \in Busy
        /\ \A d \in Cmds : (d \in Waiting)' <=> (sync'[d] /\ caller'[d] \in Busy)
        /\ \A d \in Cmds : (d \in Waiting) <=> (sync[d] /\ caller[d] \in Busy)
        /\ Waiting \subseteq Cmds /\ Waiting' \subseteq Cmds
    BY DEF Waiting, Attending
  <1>1. ASSUME NEW s \in BOOLEAN, NEW a \in BOOLEAN, Submit(c, s, a)
        PROVE  Service!Ask(c)
    <2>1. obj[c] = "none" /\ obj' = [obj EXCEPT ![c] = "alloc"]
      BY <1>1 DEF Submit, SctxInv, QueueInv
    <2>2. Phase[c] = "none" /\ Service!Move(c, "alloc")
      BY <2>1, PhaseMoves DEF Objs
    <2>3. /\ c \notin Waiting
          /\ \A d \in Cmds : d # c => sync'[d] = sync[d] /\ caller'[d] = caller[d]
      BY <1>0, <1>1 DEF Submit, CallerGoto, DataType, FlagType
    <2>4. Waiting' \in {Waiting, Waiting \cup {c}}
      BY <1>0, <2>3
    <2>5. Answered' = Answered
      BY <1>1 DEF Submit, Answered
    <2> QED  BY <1>1, <2>2, <2>4, <2>5 DEF Service!Ask, Submit
  <1>2. ASSUME NEW a \in BOOLEAN, Reject(c, a) PROVE Service!Refuse(c)
    <2>1. obj[c] = "none" /\ obj' = [obj EXCEPT ![c] = "freed"]
      BY <1>2 DEF Reject, SctxInv, QueueInv
    <2>2. Phase[c] = "none" /\ Service!Move(c, "over")
      BY <2>1, PhaseMoves DEF Objs
    <2>3. /\ c \notin Waiting /\ caller'[c] = "returned"
          /\ \A d \in Cmds : sync'[d] = sync[d] /\ (d # c => caller'[d] = caller[d])
      BY <1>0, <1>2 DEF Reject, CallerGoto, DataType, FlagType
    <2>4. Waiting' = Waiting
      BY <1>0, <2>3
    <2>5. Answered' = Answered
      BY <1>2 DEF Reject, Answered
    <2> QED  BY <1>2, <2>2, <2>4, <2>5 DEF Service!Refuse, Reject
  <1>3. ASSUME Enqueue(c) PROVE Service!Post(c)
    <2>1. obj[c] = "alloc" /\ obj' = [obj EXCEPT ![c] = "queued"]
      BY <1>3 DEF Enqueue, SctxInv, QueueInv
    <2>2. Phase[c] = "alloc" /\ Service!Move(c, "queued")
      BY <2>1, PhaseMoves DEF Objs
    <2>3. \A d \in Cmds : /\ sync'[d] = sync[d]
                          /\ IF d = c THEN caller[d] = "enqueue" /\ caller'[d] = "raise"
                                      ELSE caller'[d] = caller[d]
      BY <1>3 DEF Enqueue, CallerGoto, DataType, FlagType
    <2>4. Waiting' = Waiting
      BY <1>0, <2>3
    <2>5. Answered' = Answered
      BY <1>3 DEF Enqueue, Answered
    <2> QED  BY <1>3, <2>2, <2>4, <2>5 DEF Service!Post, Enqueue
  <1>4. ASSUME Raise(c) PROVE UNCHANGED Service!vars
    <2>1. \A d \in Cmds : /\ sync'[d] = sync[d]
                          /\ IF d = c
                             THEN /\ caller[d] = "raise"
                                  /\ caller'[d] = IF sync[d] THEN "wait" ELSE "returned"
                             ELSE caller'[d] = caller[d]
      BY <1>4 DEF Raise, CallerGoto, DataType, FlagType
    <2>2. Waiting' = Waiting
      BY <1>0, <2>1
    <2>3. Answered' = Answered /\ Phase' = Phase /\ queue' = queue /\ mutex' = mutex
      BY <1>4 DEF Raise, Answered, Phase
    <2> QED  BY <2>2, <2>3 DEF Service!vars
  <1>5. ASSUME WaitEnds(c) PROVE UNCHANGED Service!vars
    <2>1. \A d \in Cmds : /\ sync'[d] = sync[d]
                          /\ IF d = c THEN caller[d] = "wait" /\ caller'[d] = "detach"
                                      ELSE caller'[d] = caller[d]
      BY <1>5 DEF WaitEnds, CallerGoto, DataType, FlagType
    <2>2. Waiting' = Waiting
      BY <1>0, <2>1
    <2>3. Answered' = Answered /\ Phase' = Phase /\ queue' = queue /\ mutex' = mutex
      BY <1>5 DEF WaitEnds, Answered, Phase
    <2> QED  BY <2>2, <2>3 DEF Service!vars
  <1>6. ASSUME Detach(c) \/ DetachRefused(c) PROVE Service!Unguard \/ UNCHANGED Service!vars
    <2>1. \A d \in Cmds : /\ sync'[d] = sync[d]
                          /\ IF d = c THEN caller[d] = "detach" /\ caller'[d] \in {"forget", "leave"}
                                      ELSE caller'[d] = caller[d]
      BY <1>6 DEF Detach, DetachRefused, CallerGoto, DataType, FlagType, cmddata
    <2>2. Waiting' = Waiting
      BY <1>0, <2>1
    <2>3. Answered' = Answered /\ Phase' = Phase /\ queue' = queue
      BY <1>6 DEF Detach, DetachRefused, Answered, Phase, cmddata
    <2>4. CASE Detach(c)
      <3>1. mutex'.refused = mutex.refused
        BY <2>4, MutexSteps DEF Detach, FlagType
      <3> QED  BY <2>2, <2>3, <3>1 DEF Service!vars
    <2>5. CASE DetachRefused(c)
      <3>1. mutex'.refused = TRUE
        BY <2>5, MutexSteps DEF DetachRefused, FlagType
      <3> QED  BY <2>2, <2>3, <3>1 DEF Service!Unguard
    <2> QED  BY <1>6, <2>4, <2>5
  <1>7. ASSUME Leave(c) PROVE Service!Leave(c)
    <2>1. \A d \in Cmds : /\ sync'[d] = sync[d]
                          /\ IF d = c THEN caller[d] \in {"forget", "leave"} /\ caller'[d] = "returned"
                                      ELSE caller'[d] = caller[d]
      BY <1>7 DEF Leave, CallerGoto, DataType, FlagType
    <2>2. c \in Waiting
      BY <1>0, <2>1 DEF SctxInv, AttachInv
    <2>3. Waiting' = Waiting \ {c}
      BY <1>0, <2>1
    <2>4. Answered' = Answered /\ Phase' = Phase /\ queue' = queue
      BY <1>7 DEF Leave, Answered, Phase
    <2>5. mutex'.refused = mutex.refused
      BY <1>7, MutexSteps DEF Leave, FlagType
    <2> QED  BY <2>2, <2>3, <2>4, <2>5 DEF Service!Leave
  <1> QED
    BY <1>1, <1>2, <1>3, <1>4, <1>5, <1>6, <1>7 DEF CallerSteps, Service!Next

(* The first in the queue is queued.                                       *)
LEMMA FirstIsQueued ==
    ASSUME DataType, SctxInv, queue # <<>>
    PROVE  Head(queue) \in Cmds /\ obj[Head(queue)] = "queued"
  <1>1. queue \in Seq(Cmds)
    BY DEF DataType
  <1>2. Len(queue) \in Nat /\ 1 \in 1..Len(queue) /\ Head(queue) = queue[1]
    BY <1>1
  <1> QED  BY <1>1, <1>2 DEF SctxInv, QueueInv

(* The steps of an incarnation of the thread that others can see.          *)
LEMMA ThreadImplements ==
    ASSUME DataType, FlagType, SctxInv, NEW t \in Gens,
           ThreadDequeue(t) \/ ThreadDrain(t) \/ ThreadComplete(t) \/ ThreadFree(t)
    PROVE  Service!Next \/ UNCHANGED Service!vars
  <1> DEFINE c == hand[t]
  <1>1. ASSUME ThreadDequeue(t) PROVE Service!TakeFirst("held")
    <2>1. Head(queue) \in Cmds /\ obj[Head(queue)] = "queued"
      BY <1>1, FirstIsQueued DEF ThreadDequeue
    <2>2. Phase[Head(queue)] = "queued" /\ Service!Move(Head(queue), "held")
      BY <1>1, <2>1, PhaseMoves DEF ThreadDequeue, Objs
    <2>3. Waiting' = Waiting /\ Answered' = Answered
      BY <1>1 DEF ThreadDequeue, Waiting, Answered
    <2> QED  BY <1>1, <2>2, <2>3 DEF Service!TakeFirst, ThreadDequeue
  <1>2. ASSUME ThreadDrain(t) PROVE Service!TakeFirst("over")
    <2>1. Head(queue) \in Cmds /\ obj[Head(queue)] = "queued"
      BY <1>2, FirstIsQueued DEF ThreadDrain
    <2>2. Phase[Head(queue)] = "queued" /\ Service!Move(Head(queue), "over")
      BY <1>2, <2>1, PhaseMoves DEF ThreadDrain, Objs
    <2>3. Waiting' = Waiting /\ Answered' = Answered
      BY <1>2 DEF ThreadDrain, Waiting, Answered
    <2> QED  BY <1>2, <2>2, <2>3 DEF Service!TakeFirst, ThreadDrain
  <1>3. ASSUME ThreadComplete(t) PROVE c \in Cmds /\ Service!Answer(c)
    <2>1. c \in Cmds /\ obj[c] = "held" /\ thr[t] = "complete"
      BY <1>3 DEF ThreadComplete, DataType, SctxInv, HandInv, Holding
    <2>2. Phase[c] = "held"
      BY <2>1 DEF Phase
    <2>3. UNCHANGED <<queue, obj, sync, caller, mutex>>
      BY <1>3 DEF ThreadComplete
    <2>4. Waiting' = Waiting /\ Phase' = Phase /\ queue' = queue
      BY <2>3 DEF Waiting, Phase
    <2>5. ASSUME Guarded PROVE c \in Waiting \ Answered
      <3>0. sctx[c]
        BY <2>1, <2>5 DEF SctxInv, TestedInv
      <3>1. c \in Waiting
        <4>1. sync[c] /\ caller[c] # "returned" /\ caller[c] # "idle"
          BY <2>1, <2>5, <3>0 DEF SctxInv, AttachInv, StackSafe, QueueInv
        <4>2. caller[c] \in CallerLabels
          BY <2>1 DEF DataType
        <4> QED  BY <2>1, <4>1, <4>2 DEF Waiting, Attending, CallerLabels
      <3>2. status[c] # "done"
        <4> SUFFICES ASSUME status[c] = "done" PROVE FALSE
          OBVIOUS
        <4>1. PICK u \in Gens : thr[u] = "clear" /\ hand[u] = c
          BY <2>1, <3>0 DEF SctxInv, AttachInv
        <4>2. u # t /\ thr[u] \in Holding /\ thr[t] \in Holding
          BY <2>1, <4>1 DEF Holding
        <4> QED  BY <4>1, <4>2 DEF SctxInv, HandInv
      <3> QED  BY <3>1, <3>2 DEF Answered
    <2>6. \A d \in Cmds : status'[d] = IF d = c THEN "done" ELSE status[d]
      BY <1>3, <2>1 DEF ThreadComplete, DataType
    <2>7. Answered' = Answered \cup {c}
      BY <2>1, <2>6 DEF Answered
    <2>8. c \in Waiting \ Answered \/ mutex.refused
      BY <2>5 DEF Guarded
    <2> QED  BY <2>1, <2>2, <2>3, <2>4, <2>7, <2>8 DEF Service!Answer
  <1>4. ASSUME ThreadFree(t) PROVE c \in Cmds /\ Service!Finish(c)
    <2>1. c \in Cmds /\ obj[c] = "held" /\ thr[t] = "free" /\ ~sctx[c]
      BY <1>4 DEF ThreadFree, DataType, SctxInv, HandInv, AttachInv, Holding
    <2>2. Phase[c] = "held" /\ Service!Move(c, "over")
      BY <1>4, <2>1, PhaseMoves DEF ThreadFree, Objs
    <2>3. Waiting' = Waiting /\ Answered' = Answered
      BY <1>4 DEF ThreadFree, Waiting, Answered
    <2>4. c \notin Waiting \ Answered
      BY <2>1 DEF Waiting, Attending, Answered, SctxInv, AttachInv
    <2>5. queue' = queue /\ mutex' = mutex
      BY <1>4 DEF ThreadFree
    <2> QED  BY <2>1, <2>2, <2>3, <2>4, <2>5 DEF Service!Finish
  <1> QED
    BY <1>1, <1>2, <1>3, <1>4 DEF Service!Next

(* Every step of the driver is one of CommandService, or none.             *)
LEMMA StepImplements ==
    ASSUME DataType, FlagType, SctxInv, [Next]_vars
    PROVE  Service!Next \/ UNCHANGED Service!vars
  <1>1. ASSUME NEW c \in Cmds, NEW s \in BOOLEAN, NEW a \in BOOLEAN, Submit(c, s, a)
        PROVE  Service!Next \/ UNCHANGED Service!vars
    BY <1>1, CallerImplements
  <1>2. ASSUME NEW c \in Cmds, NEW a \in BOOLEAN, Reject(c, a)
        PROVE  Service!Next \/ UNCHANGED Service!vars
    BY <1>2, CallerImplements
  <1>3. ASSUME NEW c \in Cmds, CallerSteps(c) \/ DetachRefused(c)
        PROVE  Service!Next \/ UNCHANGED Service!vars
    BY <1>3, CallerImplements
  <1>4. ASSUME NEW t \in Gens,
               ThreadDequeue(t) \/ ThreadDrain(t) \/ ThreadComplete(t) \/ ThreadFree(t)
        PROVE  Service!Next \/ UNCHANGED Service!vars
    BY <1>4, ThreadImplements
  <1>5. ASSUME NEW t \in Gens,
               \/ ThreadStart(t) \/ ThreadDown(t) \/ ThreadCheck(t) \/ ThreadStopped(t)
               \/ ThreadFilter(t) \/ ThreadRun(t) \/ ThreadOops(t) \/ ThreadDrained(t)
               \/ ThreadBye(t) \/ ThreadGone(t) \/ ThreadSignal(t)
        PROVE  UNCHANGED <<queue, obj, sync, caller, status, mutex>>
    BY <1>5, Zenon DEF ThreadStart, ThreadDown, ThreadCheck, ThreadStopped, ThreadFilter, ThreadRun,
       ThreadOops, ThreadDrained, ThreadBye, ThreadGone, ThreadSignal, cmdvars
  <1>10. ASSUME NEW t \in Gens, ThreadPost(t) \/ ThreadClear(t) PROVE UNCHANGED Service!vars
    <2>1. UNCHANGED <<queue, obj, sync, caller, status>>
      BY <1>10, Zenon DEF ThreadPost, ThreadClear, cmdvars
    <2>2. mutex'.refused = mutex.refused
      BY <1>10, MutexSteps DEF ThreadPost, ThreadClear, FlagType
    <2> QED  BY <2>1, <2>2, Unseen
  <1>11. ASSUME NEW t \in Gens, ThreadPostRefused(t) PROVE Service!Unguard
    <2>1. UNCHANGED <<queue, obj, sync, caller, status>>
      BY <1>11, Zenon DEF ThreadPostRefused, cmdvars
    <2>2. mutex'.refused = TRUE
      BY <1>11, MutexSteps DEF ThreadPostRefused, FlagType
    <2>3. Waiting' = Waiting /\ Phase' = Phase /\ Answered' = Answered
      BY <2>1 DEF Waiting, Phase, Answered
    <2> QED  BY <2>1, <2>2, <2>3 DEF Service!Unguard
  <1>6. ASSUME NEW call \in 1..2, StopSteps(call)
        PROVE  UNCHANGED <<queue, obj, sync, caller, status, mutex>>
    BY <1>6, Zenon DEF StopSteps, StopSkips, StopRequest, StopRaise, StopDown, cmdvars
  <1>7. CASE Open \/ Spawn \/ Started \/ Suspend \/ Remove
    <2>1. UNCHANGED <<queue, obj, sync, caller, status, mutex>>
      BY <1>7, Zenon DEF Open, Spawn, Started, Suspend, Remove, cmdvars
    <2> QED  BY <2>1, Unseen
  <1>8. CASE Unload \/ Poll \/ Deinit \/ IpsDown \/ IpsUp \/ IoError
    <2>1. UNCHANGED <<queue, obj, sync, caller, status, mutex>>
      BY <1>8, Zenon DEF Unload, Poll, Deinit, IpsDown, IpsUp, IoError, cmdvars
    <2> QED  BY <2>1, Unseen
  <1>9. CASE UNCHANGED vars
    <2>1. UNCHANGED <<queue, obj, sync, caller, status, mutex>>
      BY <1>9, Zenon DEF vars, cmdvars
    <2> QED  BY <2>1, Unseen
  <1> QED
    BY <1>1, <1>2, <1>3, <1>4, <1>5, <1>6, <1>7, <1>8, <1>9, <1>10, <1>11, Unseen
       DEF Next, ThreadSteps, Service!Next

(* The command queue implements CommandService: for every set of commands, *)
(* any number of restarts and any fault, what callers see of it is a       *)
(* service that takes commands up once and in order; until sctx_mutex is   *)
(* refused to somebody it answers only callers that are still there and    *)
(* never finishes under one it has not answered.                           *)
THEOREM CommandsImplemented == Spec => CommandSpec
  <1>1. Init => Service!Init
    <2>1. Init => mutex.refused = FALSE
      BY DEF Init
    <2>2. Init => /\ queue = <<>> /\ Waiting = {} /\ Answered = {}
                  /\ Phase = [c \in Cmds |-> "none"]
      BY Zenon DEF Init, Phase, Waiting, Answered
    <2> QED  BY <2>1, <2>2 DEF Service!Init
  <1>2. DataType /\ FlagType /\ SctxInv /\ [Next]_vars => [Service!Next]_(Service!vars)
    BY StepImplements
  <1>3. Init => FlagType /\ DataType /\ SctxInv
    BY InitHolds
  <1>4. FlagType /\ DataType /\ SctxInv /\ [Next]_vars =>
            FlagType' /\ DataType' /\ SctxInv'
    BY FlagStep, DataStep, SctxStep
  <1> QED  BY <1>1, <1>2, <1>3, <1>4, PTL DEF Spec, CommandSpec, Service!Spec
=============================================================================
