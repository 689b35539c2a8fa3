--------------------------- MODULE RxReorderProofs ---------------------------
(***************************************************************************)
(* Proofs about the receive reorder buffer, for every window size up to    *)
(* half of the sequence number space and every bound.                      *)
(***************************************************************************)
EXTENDS RxReorder, TLAPS

-----------------------------------------------------------------------------
(* The inductive invariant.                                                *)

Working == {"loop", "bump", "indicate"}

(* Who holds the lock, and which frames are in whose hands.                *)
LockInv ==
    /\ lock = "rx" <=> pc["rx"] \in Working \cup {"enqueue"}
    /\ lock = "timer" <=> pc["timer"] \in Working
    /\ frame # None <=> pc["rx"] \in {"bypass", "bypassed", "reorder", "enqueue"}
    /\ cur # None <=> \E t \in Threads : pc[t] \in {"bump", "indicate"}

(* Waiting frames have a timer, or somebody who is about to set it.        *)
TimerInv ==
    /\ pc["rx"] = "cancel" => pending = <<>>
    /\ pending # <<>> /\ ~stopped /\ sta \in {"live", "unhashed"} =>
          armed \/ pc["timer"] # "idle" \/ pc["rx"] \in Working

(* An undisturbed session before its first frame.                          *)
FreshInv ==
    indicate_seq = Invalid =>
        /\ pending = <<>>
        /\ lock = "none"
        /\ last = None
        /\ pc["rx"] = "reorder" => hi = frame
        /\ pc["rx"] # "reorder" => hi = None

(* Once WinStart is set it is the number of frame win, above all indicated *)
(* frames; the highest frame heard is in the window, but for the one that  *)
(* the RX tasklet has in hand.                                             *)
WinInv ==
    indicate_seq # Invalid =>
        /\ indicate_seq = SN(win)
        /\ last < win
        /\ hi # None
        /\ win <= hi + 1
        /\ pc["rx"] # "reorder" => hi <= win + WSize - 1
        /\ pc["rx"] = "reorder" =>
              /\ frame = hi \/ hi <= win + WSize - 1
              /\ frame \in (hi + 1 - Half)..hi
              /\ frame <= win + Half - 1

Sorted == \A i, j \in 1..Len(pending) : i < j => pending[i] < pending[j]

(* Where the waiting frames are, relative to the window.                   *)
PendingInv ==
    \A i \in 1..Len(pending) :
        /\ last < pending[i]
        /\ pending[i] <= hi
        /\ pending[i] \in (win - Half + 1)..(win + WSize - 1)
        /\ lock = "none" => win < pending[i]
        /\ pc["rx"] = "enqueue" => pending[i] - frame \in (-Half)..(Half - 1)

(* The frame about to be queued.                                           *)
EnqueueInv ==
    pc["rx"] = "enqueue" =>
        /\ last < frame
        /\ frame <= hi
        /\ frame \in (win - 1)..(win + WSize - 1)
        /\ \/ \A i \in 1..Len(pending) : pending[i] # frame
           \/ \A i \in 1..Len(pending) : win < pending[i]

(* The frame just taken off the queue.                                     *)
CurInv ==
    \A t \in Threads :
        /\ pc[t] \in {"bump", "indicate"} =>
              /\ last < cur
              /\ cur <= hi
              /\ cur <= win
              /\ win - cur < Half
              /\ \A i \in 1..Len(pending) : cur < pending[i]
        /\ pc[t] = "indicate" =>
              IF nextseq = Invalid THEN cur < win
                                   ELSE cur = win /\ nextseq = SN(win + 1)

SessionInv ==
    /\ enable
    /\ pc["rx"] \notin {"bypass", "bypassed"}
    /\ FreshInv
    /\ WinInv
    /\ Sorted
    /\ PendingInv
    /\ EnqueueInv
    /\ CurInv

OrderInv == (clean => SessionInv) /\ ordered

-----------------------------------------------------------------------------
(* Sequence number arithmetic.                                             *)

(* A product of a positive factor grows by at least that factor.           *)
LEMMA MulMonotone ==
    ASSUME NEW M \in Nat \ {0}, NEW q \in Int, NEW p \in Int, q < p
    PROVE  (M * q) + M <= M * p
  <1>1. PICK d \in Int : p = q + d /\ d >= 1
    BY SMT
  <1>2. M * p = (M * q) + (M * d)
    BY <1>1, SMT
  <1>3. M * d >= M
    BY <1>1, SMT
  <1> QED
    BY <1>2, <1>3, SMT

(* What % and \div compute.                                                *)
LEMMA DivMod ==
    ASSUME NEW M \in Nat \ {0}, NEW a \in Int
    PROVE  /\ a % M \in 0..(M - 1)
           /\ a \div M \in Int
           /\ a = (M * (a \div M)) + (a % M)
  OBVIOUS

(* A remainder is determined by its range.                                 *)
LEMMA RemainderUnique ==
    ASSUME NEW M \in Nat \ {0}, NEW q \in Int, NEW r \in 0..(M - 1)
    PROVE  ((M * q) + r) % M = r
  <1>1. PICK x \in Int : x = (M * q) + r
    BY SMT
  <1>2. PICK k \in Int : x = (M * k) + (x % M) /\ x % M \in 0..(M - 1)
    BY <1>1, DivMod
  <1>3. ASSUME k < q PROVE FALSE
    <2>1. (M * k) + M <= M * q
      BY <1>3, MulMonotone
    <2> QED
      BY <2>1, <1>1, <1>2, SMT
  <1>4. ASSUME q < k PROVE FALSE
    <2>1. (M * q) + M <= M * k
      BY <1>4, MulMonotone
    <2> QED
      BY <2>1, <1>1, <1>2, SMT
  <1>5. k = q
    BY <1>3, <1>4
  <1> QED
    BY <1>1, <1>2, <1>5

LEMMA SNModType == SNMod \in Nat \ {0} /\ SNMod = 2 * Half
  BY SizeAssumption DEF SNMod

LEMMA SNType == ASSUME NEW a \in Int PROVE SN(a) \in SeqNums
  BY SNModType, DivMod DEF SN, SeqNums

(* Adding to a sequence number modulo the number space is adding to the    *)
(* frame index.                                                            *)
LEMMA SNAdd ==
    ASSUME NEW a \in Int, NEW k \in Int
    PROVE  (SN(a) + k) % SNMod = SN(a + k)
  <1> DEFINE M == SNMod
  <1>0. M \in Nat \ {0}
    BY SNModType
  <1> HIDE DEF M
  <1>1. PICK q \in Int : a = (M * q) + (a % M) /\ a % M \in 0..(M - 1)
    BY <1>0, DivMod
  <1>2. PICK c \in Int : c = (a % M) + k
    BY <1>1, SMT
  <1>3. PICK p \in Int : c = (M * p) + (c % M) /\ c % M \in 0..(M - 1)
    BY <1>0, <1>2, DivMod
  <1>4. a + k = (M * (q + p)) + (c % M)
    <2>1. M * (q + p) = (M * q) + (M * p)
      BY <1>0, SMT
    <2> QED
      BY <2>1, <1>0, <1>1, <1>2, <1>3, SMT
  <1>5. q + p \in Int
    BY SMT
  <1>6. (a + k) % M = c % M
    BY <1>0, <1>3, <1>4, <1>5, RemainderUnique
  <1> QED
    BY <1>2, <1>6 DEF SN, M

(* SN_LESS of two sequence numbers is < of the frame indices, as long as   *)
(* they are at most half of the number space apart.                        *)
LEMMA SNLess ==
    ASSUME NEW a \in Int, NEW b \in Int, a - b \in (-Half)..(Half - 1)
    PROVE  SN_LESS(SN(a), SN(b)) <=> a < b
  <1> DEFINE M == SNMod
  <1>0. M \in Nat \ {0} /\ M = 2 * Half /\ Half \in Nat
    BY SNModType, SizeAssumption
  <1> HIDE DEF M
  <1>1. PICK qa \in Int : a = (M * qa) + (a % M) /\ a % M \in 0..(M - 1)
    BY <1>0, DivMod
  <1>2. PICK qb \in Int : b = (M * qb) + (b % M) /\ b % M \in 0..(M - 1)
    BY <1>0, DivMod
  <1>3. PICK d \in Int : d = (a % M) - (b % M)
    BY <1>1, <1>2, SMT
  <1>4. d = (M * (qb - qa)) + (a - b)
    <2>1. M * (qb - qa) = (M * qb) - (M * qa)
      BY <1>0, SMT
    <2> QED
      BY <2>1, <1>0, <1>1, <1>2, <1>3, SMT
  <1>5. CASE a >= b
    <2>1. a - b \in 0..(M - 1)
      BY <1>0, <1>5, SMT
    <2>2. qb - qa \in Int
      BY SMT
    <2>3. d % M = a - b
      BY <1>0, <1>4, <2>1, <2>2, RemainderUnique
    <2> QED
      BY <1>0, <1>3, <1>5, <2>3, SMT DEF SN_LESS, SN, M
  <1>6. CASE a < b
    <2>1. (a - b) + M \in 0..(M - 1) /\ (a - b) + M >= Half
      BY <1>0, <1>6, SMT
    <2>2. (qb - qa) - 1 \in Int
      BY SMT
    <2>3. d = (M * ((qb - qa) - 1)) + ((a - b) + M)
      <3>1. M * ((qb - qa) - 1) = (M * (qb - qa)) - M
        BY <1>0, SMT
      <3> QED
        BY <3>1, <1>0, <1>4, SMT
    <2>4. d % M = (a - b) + M
      BY <1>0, <2>1, <2>2, <2>3, RemainderUnique
    <2> QED
      BY <1>0, <1>3, <1>6, <2>1, <2>4, SMT DEF SN_LESS, SN, M
  <1> QED
    BY <1>5, <1>6

(* Distinct frames less than the number space apart have distinct numbers. *)
LEMMA SNEqual ==
    ASSUME NEW a \in Int, NEW b \in Int, a - b \in (1 - SNMod)..(SNMod - 1)
    PROVE  SN(a) = SN(b) <=> a = b
  <1> DEFINE M == SNMod
  <1>0. M \in Nat \ {0}
    BY SNModType
  <1> HIDE DEF M
  <1>1. PICK qa \in Int : a = (M * qa) + (a % M) /\ a % M \in 0..(M - 1)
    BY <1>0, DivMod
  <1>2. PICK qb \in Int : b = (M * qb) + (b % M) /\ b % M \in 0..(M - 1)
    BY <1>0, DivMod
  <1>3. ASSUME a % M = b % M PROVE a = b
    <2>1. ASSUME qa < qb PROVE FALSE
      <3>1. (M * qa) + M <= M * qb
        BY <1>0, <2>1, MulMonotone
      <3> QED
        BY <3>1, <1>0, <1>1, <1>2, <1>3, SMT DEF M
    <2>2. ASSUME qb < qa PROVE FALSE
      <3>1. (M * qb) + M <= M * qa
        BY <1>0, <2>2, MulMonotone
      <3> QED
        BY <3>1, <1>0, <1>1, <1>2, <1>3, SMT DEF M
    <2>3. qa = qb
      BY <2>1, <2>2
    <2> QED
      BY <2>3, <1>1, <1>2, <1>3
  <1> QED
    BY <1>3 DEF SN, M

(* The two branches of the window shift of check_indicate_seq compute one  *)
(* thing: the number of the frame WSize - 1 before the one received.       *)
LEMMA ShiftedIsSN ==
    ASSUME NEW n \in Int
    PROVE  Shifted(SN(n)) = SN(n + 1 - WSize)
  <1>1. SN(n) \in 0..(SNMod - 1)
    BY SNType DEF SeqNums
  <1>2. WSize \in 1..Half /\ Half \in Nat /\ SNMod = 2 * Half /\ SNMod \in Nat \ {0}
    BY SizeAssumption, SNModType
  <1>3. (SN(n) + (1 - WSize)) % SNMod = SN(n + (1 - WSize))
    BY <1>2, SNAdd
  <1>4. n + (1 - WSize) = n + 1 - WSize
    BY <1>2
  <1>5. PICK x \in Int : x = SN(n) + (1 - WSize)
    BY <1>1, <1>2
  <1>6. CASE SN(n) >= WSize - 1
    <2>1. x = (SNMod * 0) + x /\ x \in 0..(SNMod - 1)
      BY <1>1, <1>2, <1>5, <1>6
    <2>2. x % SNMod = x
      BY <2>1, <1>2, RemainderUnique
    <2>3. Shifted(SN(n)) = x
      BY <1>1, <1>2, <1>5, <1>6 DEF Shifted
    <2> QED
      BY <2>2, <2>3, <1>3, <1>4, <1>5
  <1>7. CASE ~(SN(n) >= WSize - 1)
    <2>1. x = (SNMod * (-1)) + (x + SNMod) /\ x + SNMod \in 0..(SNMod - 1)
      BY <1>1, <1>2, <1>5, <1>7
    <2>2. x % SNMod = x + SNMod
      BY <2>1, <1>2, RemainderUnique
    <2>3. Shifted(SN(n)) = x + SNMod
      BY <1>1, <1>2, <1>5, <1>7 DEF Shifted
    <2> QED
      BY <2>2, <2>3, <1>3, <1>4, <1>5
  <1> QED
    BY <1>6, <1>7

-----------------------------------------------------------------------------
(* Types, the lock and the timer.                                          *)

(* TypeOK in two parts: the Boolean variables, and all others.             *)
TypeFlags ==
    /\ enable \in BOOLEAN
    /\ armed \in BOOLEAN
    /\ stopped \in BOOLEAN
    /\ clean \in BOOLEAN
    /\ ordered \in BOOLEAN

TypeData ==
    /\ indicate_seq \in SeqNums \cup {Invalid}
    /\ pending \in Seq(Frames)
    /\ lock \in Threads \cup {"none"}
    /\ pc \in [Threads -> Labels]
    /\ pc["timer"] \in {"idle", "start", "loop", "bump", "indicate"}
    /\ pc["rx"] # "start"
    /\ frame \in Frames \cup {None}
    /\ cur \in Frames \cup {None}
    /\ nextseq \in SeqNums \cup {Invalid}
    /\ sta \in {"live", "unhashed", "cancelled", "freed"}
    /\ events \in 0..MaxEvents
    /\ win \in Int
    /\ hi \in Frames \cup {None}
    /\ last \in Frames \cup {None}

BaseInv == TypeFlags /\ TypeData /\ LockInv /\ TimerInv

LEMMA TypeSplit == TypeOK <=> TypeFlags /\ TypeData
  BY Zenon DEF TypeOK, TypeFlags, TypeData

LEMMA InsertedType ==
    ASSUME TypeData, frame \in Frames, NEW k \in 1..(Len(pending) + 1)
    PROVE  /\ Inserted(k) \in Seq(Frames)
           /\ Len(Inserted(k)) = Len(pending) + 1
  BY DEF TypeData, Inserted

LEMMA CheckType ==
    ASSUME TypeData, NEW n \in Int
    PROVE  CheckIndicateSeq(SN(n)) \in SeqNums \cup {Invalid}
  <1>1. SN(n) \in 0..(SNMod - 1) /\ SNMod \in Nat \ {0} /\ SNMod = 2 * Half
    BY SNType, SNModType DEF SeqNums
  <1>2. Shifted(SN(n)) \in SeqNums
    BY ShiftedIsSN, SNType, SizeAssumption
  <1>3. WinStart(SN(n)) \in Int /\ WinStart(SN(n)) \in SeqNums \cup {Invalid}
    BY <1>1 DEF WinStart, TypeData, SeqNums, Invalid
  <1>4. (WinStart(SN(n)) + 1) % SNMod \in SeqNums
    BY <1>1, <1>3, DivMod DEF SeqNums
  <1> QED
    BY <1>2, <1>3, <1>4 DEF CheckIndicateSeq

LEMMA BaseInit == Init => BaseInv
  <1> SUFFICES ASSUME Init PROVE BaseInv
    OBVIOUS
  <1>1. TypeFlags
    BY Zenon DEF Init, TypeFlags
  <1>4. TypeData
    BY SizeAssumption, SNModType DEF Init, TypeData, Threads, Labels, SeqNums, None, Frames
  <1>2. LockInv
    BY DEF Init, LockInv, Threads, Working
  <1>3. TimerInv
    BY DEF Init, TimerInv, Threads
  <1> QED
    BY <1>1, <1>2, <1>3, <1>4 DEF BaseInv

LEMMA BaseStep == BaseInv /\ [Next]_vars => BaseInv'
  <1> SUFFICES ASSUME BaseInv, [Next]_vars PROVE BaseInv'
    OBVIOUS
  <1>0. TypeFlags /\ TypeData /\ LockInv /\ TimerInv
    BY DEF BaseInv
  <1>1. ASSUME NEW n \in Frames, Receive(n) PROVE BaseInv'
    <2>1. TypeFlags'
      BY Zenon, <1>0, <1>1 DEF Receive, TypeFlags, ctrl, session, EndSession, Indicated
    <2>4. TypeData'
      BY <1>0, <1>1, SizeAssumption, SNModType DEF Receive, TypeData, LockInv, Goto,
         Threads, Labels, Working, None, Frames, SeqNums, ctrl, session, CountEvent,
         EndSession, Indicated
    <2>2. LockInv'
      BY SizeAssumption, <1>0, <1>1 DEF Receive, TypeData, LockInv, Goto, Threads, Labels, Working, ctrl, None, Frames
    <2>3. TimerInv'
      BY <1>0, <1>1 DEF Receive, TypeData, LockInv, TimerInv, Goto, Threads, Labels, Working, ctrl, None, Frames
    <2> QED
      BY <2>1, <2>2, <2>3, <2>4 DEF BaseInv
  <1>2. ASSUME Bypass PROVE BaseInv'
    <2>1. TypeFlags'
      <3>1. (frame > last) \in BOOLEAN
        OBVIOUS
      <3> QED
        BY Zenon, <3>1, <1>0, <1>2 DEF Bypass, TypeFlags, Indicated
    <2>4. TypeData'
      <3>1. SN(frame) \in SeqNums /\ frame \in Frames
        BY <1>0, <1>2, SNType DEF Bypass, TypeData, LockInv, Frames, None
      <3> QED
        BY <3>1, <1>0, <1>2 DEF Bypass, TypeData, Goto, Threads, Labels, Indicated
    <2>2. LockInv'
      BY <1>0, <1>2 DEF Bypass, TypeData, LockInv, Goto, Threads, Labels, Working, ctrl, None, Frames
    <2>3. TimerInv'
      BY <1>0, <1>2 DEF Bypass, TypeData, LockInv, TimerInv, Goto, Threads, Labels, Working, ctrl, None, Frames
    <2> QED
      BY <2>1, <2>2, <2>3, <2>4 DEF BaseInv
  <1>3. ASSUME Bypassed PROVE BaseInv'
    <2>1. TypeFlags'
      BY Zenon, <1>0, <1>3 DEF Bypassed, TypeFlags, ctrl, session, EndSession, Indicated
    <2>4. TypeData'
      BY <1>0, <1>3, SizeAssumption, SNModType DEF Bypassed, TypeData, LockInv, Goto,
         Threads, Labels, Working, None, Frames, SeqNums, ctrl, session, CountEvent,
         EndSession, Indicated
    <2>2. LockInv'
      BY <1>0, <1>3 DEF Bypassed, TypeData, LockInv, Goto, Threads, Labels, Working, ctrl, None, Frames
    <2>3. TimerInv'
      BY <1>0, <1>3 DEF Bypassed, TypeData, LockInv, TimerInv, Goto, Threads, Labels, Working, ctrl, None, Frames
    <2> QED
      BY <2>1, <2>2, <2>3, <2>4 DEF BaseInv
  <1>4. ASSUME CheckDrop PROVE BaseInv'
    <2>1. TypeFlags'
      BY Zenon, <1>0, <1>4 DEF CheckDrop, TypeFlags, ctrl, session, EndSession, Indicated
    <2>4. TypeData'
      BY <1>0, <1>4, SizeAssumption, SNModType DEF CheckDrop, TypeData, LockInv, Goto,
         Threads, Labels, Working, None, Frames, SeqNums, ctrl, session, CountEvent,
         EndSession, Indicated
    <2>2. LockInv'
      BY <1>0, <1>4 DEF CheckDrop, TypeData, LockInv, Goto, Threads, Labels, Working, ctrl, None, Frames
    <2>3. TimerInv'
      BY <1>0, <1>4 DEF CheckDrop, TypeData, LockInv, TimerInv, Goto, Threads, Labels, Working, ctrl, None, Frames
    <2> QED
      BY <2>1, <2>2, <2>3, <2>4 DEF BaseInv
  <1>5. ASSUME CheckAccept PROVE BaseInv'
    <2>1. TypeFlags'
      BY Zenon, <1>0, <1>5 DEF CheckAccept, TypeFlags, ctrl, session, EndSession, Indicated
    <2>4. TypeData'
      <3>1. frame \in Int /\ WSize \in Int
        BY <1>0, SizeAssumption DEF TypeData, Frames, None
      <3>2. CheckIndicateSeq(SN(frame)) \in SeqNums \cup {Invalid}
        BY <1>0, <3>1, CheckType
      <3>3. CheckWin(frame) \in Int
        BY <1>0, <3>1 DEF CheckWin, TypeData
      <3> QED
        BY <3>2, <3>3, <1>0, <1>5 DEF CheckAccept, TypeData, Goto, Threads, Labels
    <2>2. LockInv'
      BY <1>0, <1>5 DEF CheckAccept, TypeData, LockInv, Goto, Threads, Labels, Working, ctrl, None, Frames
    <2>3. TimerInv'
      BY <1>0, <1>5 DEF CheckAccept, TypeData, LockInv, TimerInv, Goto, Threads, Labels, Working, ctrl, None, Frames
    <2> QED
      BY <2>1, <2>2, <2>3, <2>4 DEF BaseInv
  <1>6. ASSUME NEW k \in 1..(Len(pending) + 1), EnqueueDrop(k) PROVE BaseInv'
    <2>1. TypeFlags'
      BY Zenon, <1>0, <1>6 DEF EnqueueDrop, TypeFlags, ctrl, session, EndSession, Indicated
    <2>4. TypeData'
      BY <1>0, <1>6, SizeAssumption, SNModType DEF EnqueueDrop, TypeData, LockInv, Goto,
         Threads, Labels, Working, None, Frames, SeqNums, ctrl, session, CountEvent,
         EndSession, Indicated
    <2>2. LockInv'
      BY <1>0, <1>6 DEF EnqueueDrop, TypeData, LockInv, Goto, Threads, Labels, Working, ctrl, None, Frames
    <2>3. TimerInv'
      BY <1>0, <1>6 DEF EnqueueDrop, TypeData, LockInv, TimerInv, Goto, Threads, Labels, Working, ctrl, None, Frames
    <2> QED
      BY <2>1, <2>2, <2>3, <2>4 DEF BaseInv
  <1>7. ASSUME NEW k \in 1..(Len(pending) + 1), Enqueue(k) PROVE BaseInv'
    <2>1. TypeFlags'
      BY Zenon, <1>0, <1>7 DEF Enqueue, TypeFlags, ctrl, session, EndSession, Indicated
    <2>4. TypeData'
      <3>1. frame \in Frames
        BY <1>0, <1>7 DEF Enqueue, TypeData, LockInv
      <3>2. Inserted(k) \in Seq(Frames)
        BY <1>0, <1>7, <3>1, InsertedType
      <3> QED
        BY <3>2, <1>0, <1>7 DEF Enqueue, TypeData, Goto, Threads, Labels, session
    <2>2. LockInv'
      BY <1>0, <1>7 DEF Enqueue, TypeData, LockInv, Goto, Threads, Labels, Working, ctrl, None, Frames
    <2>3. TimerInv'
      BY <1>0, <1>7 DEF Enqueue, TypeData, LockInv, TimerInv, Goto, Threads, Labels, Working, ctrl, None, Frames
    <2> QED
      BY <2>1, <2>2, <2>3, <2>4 DEF BaseInv
  <1>8. ASSUME NEW t \in Threads, LoopTake(t) PROVE BaseInv'
    <2>1. TypeFlags'
      BY Zenon, <1>0, <1>8 DEF LoopTake, TypeFlags, ctrl, session, EndSession, Indicated
    <2>4. TypeData'
      BY <1>0, <1>8, SizeAssumption, SNModType DEF LoopTake, TypeData, LockInv, Goto,
         Threads, Labels, Working, None, Frames, SeqNums, ctrl, session, CountEvent,
         EndSession, Indicated
    <2>2. LockInv'
      <3>1. Head(pending) \in Frames
        BY <1>0, <1>8 DEF LoopTake, TypeData
      <3> QED
        BY SizeAssumption, <3>1, <1>0, <1>8 DEF LoopTake, TypeData, LockInv, Goto, Threads, Labels,
           Working, None, Frames
    <2>3. TimerInv'
      BY <1>0, <1>8 DEF LoopTake, TypeData, LockInv, TimerInv, Goto, Threads, Labels, Working, ctrl, None, Frames
    <2> QED
      BY <2>1, <2>2, <2>3, <2>4 DEF BaseInv
  <1>9. ASSUME NEW t \in Threads, LoopBump(t) PROVE BaseInv'
    <2>1. TypeFlags'
      BY Zenon, <1>0, <1>9 DEF LoopBump, TypeFlags, ctrl, session, EndSession, Indicated
    <2>4. TypeData'
      BY <1>0, <1>9, SizeAssumption, SNModType DEF LoopBump, TypeData, LockInv, Goto,
         Threads, Labels, Working, None, Frames, SeqNums, ctrl, session, CountEvent,
         EndSession, Indicated
    <2>2. LockInv'
      BY <1>0, <1>9 DEF LoopBump, TypeData, LockInv, Goto, Threads, Labels, Working, ctrl, None, Frames
    <2>3. TimerInv'
      BY <1>0, <1>9 DEF LoopBump, TypeData, LockInv, TimerInv, Goto, Threads, Labels, Working, ctrl, None, Frames
    <2> QED
      BY <2>1, <2>2, <2>3, <2>4 DEF BaseInv
  <1>10. ASSUME NEW t \in Threads, LoopIndicate(t) PROVE BaseInv'
    <2>1. TypeFlags'
      <3>1. (cur > last) \in BOOLEAN
        OBVIOUS
      <3> QED
        BY Zenon, <3>1, <1>0, <1>10 DEF LoopIndicate, TypeFlags, Indicated
    <2>4. TypeData'
      BY <1>0, <1>10, SizeAssumption, SNModType DEF LoopIndicate, TypeData, LockInv, Goto,
         Threads, Labels, Working, None, Frames, SeqNums, ctrl, session, CountEvent,
         EndSession, Indicated
    <2>2. LockInv'
      BY <1>0, <1>10 DEF LoopIndicate, TypeData, LockInv, Goto, Threads, Labels, Working, ctrl, None, Frames
    <2>3. TimerInv'
      BY <1>0, <1>10 DEF LoopIndicate, TypeData, LockInv, TimerInv, Goto, Threads, Labels, Working, ctrl, None, Frames
    <2> QED
      BY <2>1, <2>2, <2>3, <2>4 DEF BaseInv
  <1>11. ASSUME RxLoopEnd PROVE BaseInv'
    <2>1. TypeFlags'
      BY Zenon, <1>0, <1>11 DEF RxLoopEnd, TypeFlags, ctrl, session, EndSession, Indicated
    <2>4. TypeData'
      BY <1>0, <1>11, SizeAssumption, SNModType DEF RxLoopEnd, TypeData, LockInv, Goto,
         Threads, Labels, Working, None, Frames, SeqNums, ctrl, session, CountEvent,
         EndSession, Indicated
    <2>2. LockInv'
      <3>1. pc' = [pc EXCEPT !["rx"] = "idle"] \/ pc' = [pc EXCEPT !["rx"] = "cancel"]
        BY <1>11 DEF RxLoopEnd, Goto
      <3>2. pc["rx"] = "loop" /\ lock' = "none" /\ cur' = cur /\ frame' = frame
        BY <1>11 DEF RxLoopEnd, LoopEnds
      <3> QED
        BY <3>1, <3>2, <1>0 DEF TypeData, LockInv, Threads, Labels, Working
    <2>3. TimerInv'
      BY <1>0, <1>11 DEF RxLoopEnd, TypeData, LockInv, TimerInv, Goto, Threads, Labels, Working, ctrl, None, Frames
    <2> QED
      BY <2>1, <2>2, <2>3, <2>4 DEF BaseInv
  <1>12. ASSUME RxCancel PROVE BaseInv'
    <2>1. TypeFlags'
      BY Zenon, <1>0, <1>12 DEF RxCancel, TypeFlags, ctrl, session, EndSession, Indicated
    <2>4. TypeData'
      BY <1>0, <1>12, SizeAssumption, SNModType DEF RxCancel, TypeData, LockInv, Goto,
         Threads, Labels, Working, None, Frames, SeqNums, ctrl, session, CountEvent,
         EndSession, Indicated
    <2>2. LockInv'
      BY <1>0, <1>12 DEF RxCancel, TypeData, LockInv, Goto, Threads, Labels, Working, ctrl, None, Frames
    <2>3. TimerInv'
      BY <1>0, <1>12 DEF RxCancel, TypeData, LockInv, TimerInv, Goto, Threads, Labels, Working, ctrl, None, Frames
    <2> QED
      BY <2>1, <2>2, <2>3, <2>4 DEF BaseInv
  <1>13. ASSUME TimerLoopEnd PROVE BaseInv'
    <2>1. TypeFlags'
      BY Zenon, <1>0, <1>13 DEF TimerLoopEnd, TypeFlags, ctrl, session, EndSession, Indicated
    <2>4. TypeData'
      BY <1>0, <1>13, SizeAssumption, SNModType DEF TimerLoopEnd, TypeData, LockInv, Goto,
         Threads, Labels, Working, None, Frames, SeqNums, ctrl, session, CountEvent,
         EndSession, Indicated
    <2>2. LockInv'
      <3>1. pc' = [pc EXCEPT !["timer"] = "idle"] \/ pc' = [pc EXCEPT !["timer"] = "cancel"]
        BY <1>13 DEF TimerLoopEnd, Goto
      <3>2. pc["timer"] = "loop" /\ lock' = "none" /\ cur' = cur /\ frame' = frame
        BY <1>13 DEF TimerLoopEnd, LoopEnds
      <3> QED
        BY <3>1, <3>2, <1>0 DEF TypeData, LockInv, Threads, Labels, Working
    <2>3. TimerInv'
      BY <1>0, <1>13 DEF TimerLoopEnd, TypeData, LockInv, TimerInv, Goto, Threads, Labels, Working, ctrl, None, Frames
    <2> QED
      BY <2>1, <2>2, <2>3, <2>4 DEF BaseInv
  <1>14. ASSUME TimerFire PROVE BaseInv'
    <2>1. TypeFlags'
      BY Zenon, <1>0, <1>14 DEF TimerFire, TypeFlags, ctrl, session, EndSession, Indicated
    <2>4. TypeData'
      BY <1>0, <1>14, SizeAssumption, SNModType DEF TimerFire, TypeData, LockInv, Goto,
         Threads, Labels, Working, None, Frames, SeqNums, ctrl, session, CountEvent,
         EndSession, Indicated
    <2>2. LockInv'
      BY <1>0, <1>14 DEF TimerFire, TypeData, LockInv, Goto, Threads, Labels, Working, ctrl, None, Frames
    <2>3. TimerInv'
      BY <1>0, <1>14 DEF TimerFire, TypeData, LockInv, TimerInv, Goto, Threads, Labels, Working, ctrl, None, Frames
    <2> QED
      BY <2>1, <2>2, <2>3, <2>4 DEF BaseInv
  <1>15. ASSUME TimerEmpty PROVE BaseInv'
    <2>1. TypeFlags'
      BY Zenon, <1>0, <1>15 DEF TimerEmpty, TypeFlags, ctrl, session, EndSession, Indicated
    <2>4. TypeData'
      BY <1>0, <1>15, SizeAssumption, SNModType DEF TimerEmpty, TypeData, LockInv, Goto,
         Threads, Labels, Working, None, Frames, SeqNums, ctrl, session, CountEvent,
         EndSession, Indicated
    <2>2. LockInv'
      BY <1>0, <1>15 DEF TimerEmpty, TypeData, LockInv, Goto, Threads, Labels, Working, ctrl, None, Frames
    <2>3. TimerInv'
      BY <1>0, <1>15 DEF TimerEmpty, TypeData, LockInv, TimerInv, Goto, Threads, Labels, Working, ctrl, None, Frames
    <2> QED
      BY <2>1, <2>2, <2>3, <2>4 DEF BaseInv
  <1>16. ASSUME TimerForce PROVE BaseInv'
    <2>1. TypeFlags'
      BY Zenon, <1>0, <1>16 DEF TimerForce, TypeFlags, ctrl, session, EndSession, Indicated
    <2>4. TypeData'
      <3>1. Head(pending) \in Frames
        BY <1>0, <1>16 DEF TimerForce, TypeData
      <3>3. Head(pending) \in Int
        BY <3>1 DEF Frames
      <3>2. SN(Head(pending)) \in SeqNums
        BY <3>3, SNType
      <3> QED
        BY <3>1, <3>2, <3>3, <1>0, <1>16 DEF TimerForce, TypeData, Goto, Threads, Labels
    <2>2. LockInv'
      BY <1>0, <1>16 DEF TimerForce, TypeData, LockInv, Goto, Threads, Labels, Working, ctrl, None, Frames
    <2>3. TimerInv'
      BY <1>0, <1>16 DEF TimerForce, TypeData, LockInv, TimerInv, Goto, Threads, Labels, Working, ctrl, None, Frames
    <2> QED
      BY <2>1, <2>2, <2>3, <2>4 DEF BaseInv
  <1>17. ASSUME NEW accept \in BOOLEAN, AddbaReq(accept) PROVE BaseInv'
    <2>1. TypeFlags'
      BY Zenon, <1>0, <1>17 DEF AddbaReq, TypeFlags, ctrl, session, EndSession, Indicated
    <2>4. TypeData'
      BY <1>0, <1>17, SizeAssumption, SNModType DEF AddbaReq, TypeData, LockInv, Goto,
         Threads, Labels, Working, None, Frames, SeqNums, ctrl, session, CountEvent,
         EndSession, Indicated
    <2>2. LockInv'
      BY <1>0, <1>17 DEF AddbaReq, TypeData, LockInv, Goto, Threads, Labels, Working, ctrl, None, Frames
    <2>3. TimerInv'
      BY <1>0, <1>17 DEF AddbaReq, TypeData, LockInv, TimerInv, Goto, Threads, Labels, Working, ctrl, None, Frames
    <2> QED
      BY <2>1, <2>2, <2>3, <2>4 DEF BaseInv
  <1>18. ASSUME Delba PROVE BaseInv'
    <2>1. TypeFlags'
      BY Zenon, <1>0, <1>18 DEF Delba, TypeFlags, ctrl, session, EndSession, Indicated
    <2>4. TypeData'
      BY <1>0, <1>18, SizeAssumption, SNModType DEF Delba, TypeData, LockInv, Goto,
         Threads, Labels, Working, None, Frames, SeqNums, ctrl, session, CountEvent,
         EndSession, Indicated
    <2>2. LockInv'
      BY <1>0, <1>18 DEF Delba, TypeData, LockInv, Goto, Threads, Labels, Working, ctrl, None, Frames
    <2>3. TimerInv'
      BY <1>0, <1>18 DEF Delba, TypeData, LockInv, TimerInv, Goto, Threads, Labels, Working, ctrl, None, Frames
    <2> QED
      BY <2>1, <2>2, <2>3, <2>4 DEF BaseInv
  <1>19. ASSUME JoinReset PROVE BaseInv'
    <2>1. TypeFlags'
      BY Zenon, <1>0, <1>19 DEF JoinReset, TypeFlags, ctrl, session, EndSession, Indicated
    <2>4. TypeData'
      BY <1>0, <1>19, SizeAssumption, SNModType DEF JoinReset, TypeData, LockInv, Goto,
         Threads, Labels, Working, None, Frames, SeqNums, ctrl, session, CountEvent,
         EndSession, Indicated
    <2>2. LockInv'
      BY <1>0, <1>19 DEF JoinReset, TypeData, LockInv, Goto, Threads, Labels, Working, ctrl, None, Frames
    <2>3. TimerInv'
      BY <1>0, <1>19 DEF JoinReset, TypeData, LockInv, TimerInv, Goto, Threads, Labels, Working, ctrl, None, Frames
    <2> QED
      BY <2>1, <2>2, <2>3, <2>4 DEF BaseInv
  <1>20. ASSUME DriverStop PROVE BaseInv'
    <2>1. TypeFlags'
      BY Zenon, <1>0, <1>20 DEF DriverStop, TypeFlags, ctrl, session, EndSession, Indicated
    <2>4. TypeData'
      BY <1>0, <1>20, SizeAssumption, SNModType DEF DriverStop, TypeData, LockInv, Goto,
         Threads, Labels, Working, None, Frames, SeqNums, ctrl, session, CountEvent,
         EndSession, Indicated
    <2>2. LockInv'
      BY <1>0, <1>20 DEF DriverStop, TypeData, LockInv, Goto, Threads, Labels, Working, ctrl, None, Frames
    <2>3. TimerInv'
      BY <1>0, <1>20 DEF DriverStop, TypeData, LockInv, TimerInv, Goto, Threads, Labels, Working, ctrl, None, Frames
    <2> QED
      BY <2>1, <2>2, <2>3, <2>4 DEF BaseInv
  <1>21. ASSUME FreeUnhash PROVE BaseInv'
    <2>1. TypeFlags'
      BY Zenon, <1>0, <1>21 DEF FreeUnhash, TypeFlags, ctrl, session, EndSession, Indicated
    <2>4. TypeData'
      BY <1>0, <1>21, SizeAssumption, SNModType DEF FreeUnhash, TypeData, LockInv, Goto,
         Threads, Labels, Working, None, Frames, SeqNums, ctrl, session, CountEvent,
         EndSession, Indicated
    <2>2. LockInv'
      BY <1>0, <1>21 DEF FreeUnhash, TypeData, LockInv, Goto, Threads, Labels, Working, ctrl, None, Frames
    <2>3. TimerInv'
      BY <1>0, <1>21 DEF FreeUnhash, TypeData, LockInv, TimerInv, Goto, Threads, Labels, Working, ctrl, None, Frames
    <2> QED
      BY <2>1, <2>2, <2>3, <2>4 DEF BaseInv
  <1>22. ASSUME FreeCancel PROVE BaseInv'
    <2>1. TypeFlags'
      BY Zenon, <1>0, <1>22 DEF FreeCancel, TypeFlags, ctrl, session, EndSession, Indicated
    <2>4. TypeData'
      BY <1>0, <1>22, SizeAssumption, SNModType DEF FreeCancel, TypeData, LockInv, Goto,
         Threads, Labels, Working, None, Frames, SeqNums, ctrl, session, CountEvent,
         EndSession, Indicated
    <2>2. LockInv'
      BY <1>0, <1>22 DEF FreeCancel, TypeData, LockInv, Goto, Threads, Labels, Working, ctrl, None, Frames
    <2>3. TimerInv'
      BY <1>0, <1>22 DEF FreeCancel, TypeData, LockInv, TimerInv, Goto, Threads, Labels, Working, ctrl, None, Frames
    <2> QED
      BY <2>1, <2>2, <2>3, <2>4 DEF BaseInv
  <1>23. ASSUME FreeDrain PROVE BaseInv'
    <2>1. TypeFlags'
      BY Zenon, <1>0, <1>23 DEF FreeDrain, TypeFlags, ctrl, session, EndSession, Indicated
    <2>4. TypeData'
      BY <1>0, <1>23, SizeAssumption, SNModType DEF FreeDrain, TypeData, LockInv, Goto,
         Threads, Labels, Working, None, Frames, SeqNums, ctrl, session, CountEvent,
         EndSession, Indicated
    <2>2. LockInv'
      BY <1>0, <1>23 DEF FreeDrain, TypeData, LockInv, Goto, Threads, Labels, Working, ctrl, None, Frames
    <2>3. TimerInv'
      BY <1>0, <1>23 DEF FreeDrain, TypeData, LockInv, TimerInv, Goto, Threads, Labels, Working, ctrl, None, Frames
    <2> QED
      BY <2>1, <2>2, <2>3, <2>4 DEF BaseInv
  <1>24. ASSUME UNCHANGED vars PROVE BaseInv'
    <2>1. TypeFlags'
      BY Zenon, <1>0, <1>24 DEF TypeFlags, vars, ctrl, session
    <2>2. TypeData' /\ LockInv' /\ TimerInv'
      BY <1>0, <1>24 DEF TypeData, LockInv, TimerInv, vars, ctrl, session
    <2> QED
      BY <2>1, <2>2 DEF BaseInv
  <1> QED
    BY <1>1, <1>2, <1>3, <1>4, <1>5, <1>6, <1>7, <1>8, <1>9, <1>10, <1>11, <1>12, <1>13, <1>14, <1>15, <1>16, <1>17, <1>18, <1>19, <1>20, <1>21, <1>22, <1>23, <1>24 DEF Next, RxSteps, TimerSteps, FreeSteps, Threads

-----------------------------------------------------------------------------
(* The window and the order of frames.                                     *)

LEMMA Sizes ==
    /\ Half \in Int /\ Half >= 2
    /\ WSize \in Int /\ 1 <= WSize /\ WSize <= Half
    /\ SNMod = 2 * Half
  BY SizeAssumption, SNModType

(* A bound relative to the window start survives an advance of it.         *)
LEMMA Advance ==
    ASSUME NEW v \in Int, NEW w \in Int, NEW x \in Int, NEW c \in Int, v <= w, x <= v + c - 1
    PROVE  x <= w + c - 1
  OBVIOUS

LEMMA SNValid == ASSUME NEW a \in Int PROVE SN(a) # Invalid
  BY SNType, Sizes DEF SeqNums, Invalid

(* What check_indicate_seq does to a frame at or after WinStart, in terms  *)
(* of frame indices.                                                       *)
LEMMA CheckAbsolute ==
    ASSUME NEW n \in Int, win \in Int, indicate_seq = SN(win), n - win \in 0..(Half - 1)
    PROVE  /\ CheckIndicateSeq(SN(n)) = SN(CheckWin(n))
           /\ CheckWin(n) = IF n = win THEN n + 1
                            ELSE IF n > win + WSize - 1 THEN n + 1 - WSize
                            ELSE win
  <1>1. WinStart(SN(n)) = SN(win)
    BY SNValid DEF WinStart
  <1>2. SN(n) = SN(win) <=> n = win
    <2>1. n - win \in (1 - SNMod)..(SNMod - 1)
      BY Sizes
    <2> QED
      BY <2>1, SNEqual
  <1>3. BeyondWindow(SN(n)) <=> n > win + WSize - 1
    <2>1. (SN(win) + (WSize - 1)) % SNMod = SN(win + (WSize - 1))
      BY Sizes, SNAdd
    <2>2. SN(win) \in Int
      BY SNType, Sizes DEF SeqNums
    <2>3. SN(win) + WSize - 1 = SN(win) + (WSize - 1)
      BY <2>2, Sizes
    <2>4. (win + (WSize - 1)) - n \in (-Half)..(Half - 1) /\ win + (WSize - 1) \in Int
      BY Sizes
    <2>5. SN_LESS(SN(win + (WSize - 1)), SN(n)) <=> win + (WSize - 1) < n
      BY <2>4, SNLess
    <2> QED
      BY <2>1, <2>3, <2>5, Sizes DEF BeyondWindow
  <1>4. (SN(win) + 1) % SNMod = SN(win + 1)
    BY SNAdd
  <1>5. Shifted(SN(n)) = SN(n + 1 - WSize)
    BY ShiftedIsSN
  <1> QED
    BY <1>1, <1>2, <1>3, <1>4, <1>5, Sizes DEF CheckIndicateSeq, CheckWin, SN_EQUAL

(* Integer-valued state.                                                   *)
LEMMA DataInts ==
    ASSUME TypeData
    PROVE  /\ win \in Int /\ hi \in Int /\ last \in Int /\ frame \in Int /\ cur \in Int
           /\ frame # None => frame >= 0
           /\ Len(pending) \in Nat
           /\ \A i \in 1..Len(pending) : pending[i] \in Int
  <1>1. \A i \in 1..Len(pending) : pending[i] \in Frames
    BY DEF TypeData
  <1>2. \A i \in 1..Len(pending) : pending[i] \in Int
    BY <1>1 DEF Frames
  <1>3. Len(pending) \in Nat
    BY DEF TypeData
  <1> QED
    BY SizeAssumption, <1>2, <1>3 DEF TypeData, Frames, None

(* Each step of an undisturbed session, one lemma per action.  T stands    *)
(* for the facts about types and the lock.                                 *)
T == TypeData /\ LockInv

LEMMA SessionReceive ==
    ASSUME T, SessionInv, clean, NEW n \in Frames, Receive(n)
    PROVE  SessionInv'
  <1>0. TypeData /\ n \in Int /\ n >= 0
    BY SizeAssumption DEF T, Frames
  <1>1. pc' = [pc EXCEPT !["rx"] = "reorder"] /\ pc["rx"] = "idle" /\ pc \in [Threads -> Labels]
    BY <1>0 DEF Receive, Goto, SessionInv, TypeData
  <1>2. frame' = n /\ hi' = (IF n > hi THEN n ELSE hi)
    BY DEF Receive
  <1>3. UNCHANGED <<enable, indicate_seq, pending, lock, win, last, cur, nextseq>>
    BY DEF Receive, ctrl
  <1>4. FreshInv'
    BY <1>0, <1>1, <1>2, <1>3, DataInts DEF SessionInv, FreshInv, None, Threads
  <1>5. WinInv'
    <2>1. indicate_seq # Invalid => n \in (hi + 1 - Half)..(hi + Half - WSize)
      BY DEF Receive, PeerSends, SessionInv, WinInv
    <2>2. SUFFICES ASSUME indicate_seq # Invalid PROVE WinInv'
      BY <1>3 DEF WinInv
    <2>3. /\ indicate_seq = SN(win) /\ last < win /\ hi # None
          /\ win <= hi + 1 /\ hi <= win + WSize - 1
      BY <1>1, <2>2 DEF SessionInv, WinInv
    <2>4. /\ hi' \in Int /\ hi' # None /\ win <= hi' + 1
          /\ n = hi' \/ hi' <= win + WSize - 1
          /\ n \in (hi' + 1 - Half)..hi' /\ n <= win + Half - 1
      <3>1. hi \in Int /\ win \in Int
        BY <1>0, DataInts
      <3>2. n \in (hi + 1 - Half)..(hi + Half - WSize)
        BY <2>1, <2>2
      <3>3. CASE n > hi
        BY <1>0, <1>2, <2>3, <3>1, <3>2, <3>3, Sizes DEF None
      <3>4. CASE ~(n > hi)
        BY <1>0, <1>2, <2>3, <3>1, <3>2, <3>4, Sizes DEF None
      <3> QED
        BY <3>3, <3>4
    <2> QED
      BY <1>1, <1>2, <1>3, <2>3, <2>4 DEF WinInv, Threads
  <1>6. PendingInv'
    BY <1>0, <1>1, <1>2, <1>3, DataInts DEF SessionInv, PendingInv, Threads
  <1>7. EnqueueInv' /\ Sorted'
    BY <1>1, <1>3 DEF SessionInv, EnqueueInv, Sorted, Threads
  <1>8. CurInv'
    BY <1>0, <1>1, <1>2, <1>3, DataInts DEF SessionInv, CurInv, Threads
  <1> QED
    BY <1>1, <1>3, <1>4, <1>5, <1>6, <1>7, <1>8 DEF SessionInv, Threads

(* The frame in hand is close enough to WinStart to be compared with it.   *)
LEMMA InHand ==
    ASSUME T, SessionInv, pc["rx"] = "reorder", indicate_seq # Invalid
    PROVE  /\ indicate_seq = SN(win)
           /\ frame - win \in (-Half)..(Half - 1)
           /\ SN_LESS(SN(frame), WinStart(SN(frame))) <=> frame < win
  <1>1. TypeData
    BY DEF T
  <1>2. indicate_seq = SN(win) /\ frame - win \in (-Half)..(Half - 1)
    BY <1>1, DataInts, Sizes DEF SessionInv, WinInv
  <1>3. WinStart(SN(frame)) = SN(win)
    BY <1>2 DEF WinStart
  <1> QED
    BY <1>1, <1>2, <1>3, DataInts, SNLess

LEMMA SessionCheckDrop ==
    ASSUME T, SessionInv, CheckDrop
    PROVE  SessionInv'
  <1>0. TypeData /\ pc["rx"] = "reorder"
    BY DEF T, CheckDrop
  <1>1. pc' = [pc EXCEPT !["rx"] = "idle"] /\ pc \in [Threads -> Labels]
    BY <1>0 DEF CheckDrop, Goto, TypeData
  <1>2. UNCHANGED <<enable, indicate_seq, pending, lock, win, hi, last, cur, nextseq>>
    BY DEF CheckDrop, ctrl, session
  <1>3. indicate_seq # Invalid
    <2>1. SUFFICES ASSUME indicate_seq = Invalid PROVE FALSE
      OBVIOUS
    <2>2. SN_LESS(SN(frame), SN(frame))
      BY <2>1 DEF CheckDrop, WinStart
    <2>3. frame - frame \in (-Half)..(Half - 1)
      BY <1>0, DataInts, Sizes
    <2> QED
      BY <2>2, <2>3, <1>0, DataInts, SNLess
  <1>4. frame < win
    BY <1>0, <1>3, InHand DEF CheckDrop
  <1>5. FreshInv'
    BY <1>2, <1>3 DEF FreshInv
  <1>6. WinInv'
    BY <1>0, <1>1, <1>2, <1>4, DataInts, Sizes DEF SessionInv, WinInv, Threads
  <1>7. PendingInv' /\ EnqueueInv' /\ Sorted' /\ CurInv'
    BY <1>1, <1>2 DEF SessionInv, PendingInv, EnqueueInv, Sorted, CurInv, Threads
  <1> QED
    BY <1>1, <1>2, <1>5, <1>6, <1>7 DEF SessionInv, Threads

LEMMA SessionCheckAccept ==
    ASSUME T, SessionInv, clean, CheckAccept
    PROVE  SessionInv'
  <1>0. /\ TypeData
        /\ pc["rx"] = "reorder"
        /\ lock = "none"
        /\ frame >= 0
        /\ pc["timer"] \notin Working
    BY DataInts DEF T, CheckAccept, LockInv, TypeData
  <1>1. pc' = [pc EXCEPT !["rx"] = "enqueue"] /\ pc \in [Threads -> Labels]
    BY <1>0 DEF CheckAccept, Goto, TypeData
  <1>2. UNCHANGED <<enable, pending, frame, hi, last, cur, nextseq>> /\ lock' = "rx"
    BY DEF CheckAccept
  <1>3. indicate_seq' = CheckIndicateSeq(SN(frame)) /\ win' = CheckWin(frame)
    BY DEF CheckAccept
  <1>4. CASE indicate_seq = Invalid
    <2>1. WinStart(SN(frame)) = SN(frame)
      BY <1>4 DEF WinStart
    <2>2. (SN(frame) + 1) % SNMod = SN(frame + 1)
      BY <1>0, DataInts, SNAdd
    <2>3. win' = frame + 1 /\ indicate_seq' = SN(win') /\ win' \in Int
      BY <1>0, <1>3, <2>1, <2>2, DataInts DEF CheckIndicateSeq, CheckWin, SN_EQUAL
    <2>4. pending = <<>> /\ hi = frame /\ last = None
      BY <1>0, <1>4 DEF SessionInv, FreshInv
    <2>5. indicate_seq' # Invalid
      BY <2>3, SNValid
    <2>6. WinInv' /\ FreshInv'
      BY <1>0, <1>1, <1>2, <2>3, <2>4, <2>5, DataInts, Sizes
         DEF WinInv, FreshInv, None, Threads
    <2>7. PendingInv' /\ Sorted'
      BY <1>2, <2>4 DEF PendingInv, Sorted
    <2>8. EnqueueInv'
      BY <1>0, <1>1, <1>2, <2>3, <2>4, DataInts, Sizes DEF EnqueueInv, None
    <2>9. CurInv'
      BY <1>0, <1>1 DEF CurInv, Threads, Working
    <2> QED
      BY <1>1, <1>2, <2>6, <2>7, <2>8, <2>9 DEF SessionInv, Threads
  <1>5. CASE indicate_seq # Invalid
    <2>1. indicate_seq = SN(win) /\ frame - win \in 0..(Half - 1)
      BY <1>0, <1>5, InHand, DataInts, Sizes DEF CheckAccept
    <2>2. /\ indicate_seq' = SN(win')
          /\ win' = IF frame = win THEN frame + 1
                    ELSE IF frame > win + WSize - 1 THEN frame + 1 - WSize
                    ELSE win
      BY <1>0, <1>3, <2>1, CheckAbsolute, DataInts
    <2>3. win' \in Int /\ win <= win' /\ win' <= frame + 1 /\ frame <= win' + WSize - 1
      <3>1. win \in Int /\ frame \in Int
        BY <1>0, DataInts
      <3>2. CASE frame = win
        BY <2>2, <3>1, <3>2, Sizes
      <3>3. CASE frame # win /\ frame > win + WSize - 1
        BY <2>2, <3>1, <3>3, Sizes
      <3>4. CASE frame # win /\ ~(frame > win + WSize - 1)
        BY <2>1, <2>2, <3>1, <3>4, Sizes
      <3> QED
        BY <3>2, <3>3, <3>4
    <2>4. indicate_seq' # Invalid
      BY <2>2, <2>3, SNValid
    <2>5. FreshInv'
      BY <2>4 DEF FreshInv
    <2>6. WinInv'
      <3>1. /\ last < win /\ hi # None /\ win <= hi + 1
            /\ frame = hi \/ hi <= win + WSize - 1
            /\ frame <= hi
        BY <1>0, <1>5 DEF SessionInv, WinInv
      <3>2. hi \in Int /\ win \in Int /\ last \in Int /\ frame \in Int
        BY <1>0, DataInts
      <3>3. last < win' /\ win' <= hi + 1 /\ hi <= win' + WSize - 1
        <4>2. last < win' /\ win' <= hi + 1
          BY <2>3, <3>1, <3>2
        <4>3. CASE frame = hi
          BY <2>3, <4>2, <4>3
        <4>4. CASE hi <= win + WSize - 1
          BY <2>3, <3>2, <4>2, <4>4, Sizes, Advance
        <4> QED
          BY <3>1, <4>3, <4>4
      <3> QED
        BY <1>1, <1>2, <2>2, <3>1, <3>3 DEF WinInv, Threads
    <2>7. Sorted'
      BY <1>2 DEF SessionInv, Sorted
    <2>8. PendingInv'
      <3> SUFFICES ASSUME NEW i \in 1..Len(pending)
                   PROVE  /\ last < pending[i] /\ pending[i] <= hi
                          /\ pending[i] \in (win' - Half + 1)..(win' + WSize - 1)
                          /\ pending[i] - frame \in (-Half)..(Half - 1)
        BY <1>2 DEF PendingInv
      <3>1. /\ pending[i] \in Int /\ last < pending[i] /\ pending[i] <= hi
            /\ win < pending[i] /\ pending[i] <= win + WSize - 1
        BY <1>0, DataInts, Sizes DEF SessionInv, PendingInv
      <3>2. win \in Int /\ frame \in Int
        BY <1>0, DataInts
      <3>3. CASE frame = win
        BY <2>2, <3>1, <3>2, <3>3, Sizes
      <3>4. CASE frame # win /\ frame > win + WSize - 1
        BY <2>1, <2>2, <3>1, <3>2, <3>4, Sizes
      <3>5. CASE frame # win /\ ~(frame > win + WSize - 1)
        BY <2>1, <2>2, <3>1, <3>2, <3>5, Sizes
      <3> QED
        BY <3>3, <3>4, <3>5
    <2>9. EnqueueInv'
      <3>1. last < frame /\ frame <= hi
        BY <1>0, <1>5, <2>1, DataInts, Sizes DEF SessionInv, WinInv
      <3>2. \A i \in 1..Len(pending) : win < pending[i] /\ pending[i] <= win + WSize - 1
        BY <1>0, DataInts, Sizes DEF SessionInv, PendingInv
      <3>3. \/ \A i \in 1..Len(pending) : pending[i] # frame
            \/ \A i \in 1..Len(pending) : win' < pending[i]
        <4>1. win \in Int /\ frame \in Int /\ \A i \in 1..Len(pending) : pending[i] \in Int
          BY <1>0, DataInts
        <4>2. CASE frame = win
          BY <3>2, <4>1, <4>2
        <4>3. CASE frame > win + WSize - 1
          BY <3>2, <4>1, <4>3, Sizes
        <4>4. CASE frame # win /\ ~(frame > win + WSize - 1)
          BY <2>2, <3>2, <4>4
        <4> QED
          BY <4>2, <4>3, <4>4
      <3> QED
        BY <1>0, <1>2, <2>3, <3>1, <3>3, DataInts, Sizes DEF EnqueueInv
    <2>10. CurInv'
      BY <1>0, <1>1 DEF CurInv, Threads, Working
    <2> QED
      BY <1>1, <1>2, <2>5, <2>6, <2>7, <2>8, <2>9, <2>10 DEF SessionInv, Threads
  <1> QED
    BY <1>4, <1>5

(* The comparisons of the queue scan agree with the frame indices.         *)
LEMMA ScanAbsolute ==
    ASSUME T, SessionInv, pc["rx"] = "enqueue", NEW i \in 1..Len(pending)
    PROVE  /\ SN_LESS(SN(pending[i]), SN(frame)) <=> pending[i] < frame
           /\ SN(pending[i]) = SN(frame) <=> pending[i] = frame
  <1>1. pending[i] \in Int /\ frame \in Int
    BY DataInts DEF T
  <1>2. pending[i] - frame \in (-Half)..(Half - 1)
    BY DEF SessionInv, PendingInv
  <1>3. pending[i] - frame \in (1 - SNMod)..(SNMod - 1)
    BY <1>1, <1>2, Sizes
  <1> QED
    BY <1>1, <1>2, <1>3, SNLess, SNEqual

LEMMA SessionEnqueueDrop ==
    ASSUME T, SessionInv, NEW k \in 1..(Len(pending) + 1), EnqueueDrop(k)
    PROVE  SessionInv'
  <1>0. TypeData /\ pc["rx"] = "enqueue" /\ lock = "rx"
    BY DEF T, EnqueueDrop, LockInv
  <1>1. pc' = [pc EXCEPT !["rx"] = "idle"] /\ pc \in [Threads -> Labels]
    BY <1>0 DEF EnqueueDrop, Goto, TypeData
  <1>2. UNCHANGED <<enable, indicate_seq, pending, win, hi, last, cur, nextseq>>
    BY DEF EnqueueDrop, session
  <1>3. k \in 1..Len(pending) /\ SN(pending[k]) = SN(frame)
    BY <1>0, DataInts DEF EnqueueDrop, Duplicate, SN_EQUAL
  <1>4. \A i \in 1..Len(pending) : win < pending[i]
    BY <1>0, <1>3, ScanAbsolute DEF SessionInv, EnqueueInv
  <1>5. FreshInv'
    BY <1>0, <1>2 DEF SessionInv, FreshInv
  <1>6. WinInv'
    BY <1>0, <1>1, <1>2 DEF SessionInv, WinInv, Threads
  <1>7. PendingInv' /\ EnqueueInv' /\ Sorted'
    BY <1>1, <1>2, <1>4 DEF SessionInv, PendingInv, EnqueueInv, Sorted, Threads
  <1>8. CurInv'
    BY <1>1, <1>2 DEF SessionInv, CurInv, Threads
  <1> QED
    BY <1>1, <1>2, <1>5, <1>6, <1>7, <1>8 DEF SessionInv, Threads

LEMMA SessionEnqueue ==
    ASSUME T, SessionInv, NEW k \in 1..(Len(pending) + 1), Enqueue(k)
    PROVE  SessionInv'
  <1>0. /\ TypeData
        /\ pc["rx"] = "enqueue"
        /\ lock = "rx"
        /\ frame \in Frames
        /\ pc["timer"] \notin Working
    BY DEF T, TypeData, Enqueue, LockInv
  <1>1. pc' = [pc EXCEPT !["rx"] = "loop"] /\ pc \in [Threads -> Labels]
    BY <1>0 DEF Enqueue, Goto, TypeData
  <1>2. UNCHANGED <<enable, indicate_seq, lock, win, hi, last, cur, nextseq>>
    BY DEF Enqueue, session
  <1>3. Len(pending) \in Nat /\ pending' = Inserted(k) /\ Len(pending') = Len(pending) + 1
    BY <1>0, DataInts, InsertedType DEF Enqueue
  <1>4. \A i \in 1..(k - 1) : pending[i] < frame
    BY <1>0, <1>3, ScanAbsolute DEF Enqueue, ScanStops
  <1>5. k <= Len(pending) => frame < pending[k]
    <2>1. SUFFICES ASSUME k <= Len(pending) PROVE frame < pending[k]
      OBVIOUS
    <2>2. k \in 1..Len(pending) /\ pending[k] \in Int /\ frame \in Int
      BY <1>0, <2>1, DataInts
    <2>3. ~(pending[k] < frame) /\ pending[k] # frame
      BY <1>0, <2>1, <2>2, ScanAbsolute DEF Enqueue, ScanStops, Duplicate, SN_EQUAL
    <2> QED
      BY <2>2, <2>3
  <1>6. \A i \in k..Len(pending) : frame < pending[i]
    BY <1>0, <1>3, <1>5, DataInts DEF SessionInv, Sorted
  <1>7. \A i \in 1..Len(pending') :
            pending'[i] = IF i < k THEN pending[i]
                          ELSE IF i = k THEN frame ELSE pending[i - 1]
    BY <1>3 DEF Inserted
  <1>8. Sorted'
    <2> SUFFICES ASSUME NEW i \in 1..Len(pending'), NEW j \in 1..Len(pending'), i < j
                 PROVE  pending'[i] < pending'[j]
      BY DEF Sorted
    <2>1. Sorted /\ i \in Nat /\ j \in Nat /\ k \in Nat
      BY <1>3 DEF SessionInv
    <2>2. CASE j < k
      BY <1>3, <1>7, <2>1, <2>2 DEF Sorted
    <2>3. CASE j = k
      BY <1>3, <1>4, <1>7, <2>1, <2>3
    <2>4. CASE j > k /\ i < k
      BY <1>3, <1>7, <2>1, <2>4 DEF Sorted
    <2>5. CASE j > k /\ i = k
      BY <1>3, <1>6, <1>7, <2>1, <2>5
    <2>6. CASE j > k /\ i > k
      <3>1. /\ i - 1 \in 1..Len(pending) /\ j - 1 \in 1..Len(pending) /\ i - 1 < j - 1
            /\ pending'[i] = pending[i - 1] /\ pending'[j] = pending[j - 1]
        BY <1>3, <1>7, <2>1, <2>6
      <3> QED
        BY <2>1, <3>1 DEF Sorted
    <2> QED
      BY <2>1, <2>2, <2>3, <2>4, <2>5, <2>6
  <1>9. indicate_seq # Invalid
    BY <1>0 DEF SessionInv, FreshInv
  <1>10. FreshInv' /\ EnqueueInv'
    BY <1>1, <1>2, <1>9 DEF FreshInv, EnqueueInv, Threads
  <1>11. WinInv'
    BY <1>0, <1>1, <1>2 DEF SessionInv, WinInv, Threads
  <1>12. PendingInv'
    <2> SUFFICES ASSUME NEW i \in 1..Len(pending')
                 PROVE  /\ last < pending'[i] /\ pending'[i] <= hi
                        /\ pending'[i] \in (win - Half + 1)..(win + WSize - 1)
      BY <1>0, <1>1, <1>2 DEF PendingInv, Threads
    <2>1. CASE i = k
      <3>1. /\ last < frame /\ frame <= hi
            /\ frame \in (win - 1)..(win + WSize - 1) /\ frame \in Int /\ win \in Int
        BY <1>0, DataInts DEF SessionInv, EnqueueInv
      <3> QED
        BY <2>1, <1>7, <3>1, Sizes
    <2>2. CASE i # k
      <3>1. PICK j \in 1..Len(pending) : pending'[i] = pending[j]
        <4>1. CASE i < k
          BY <4>1, <1>3, <1>7
        <4>2. CASE i > k
          BY <4>2, <1>3, <1>7
        <4> QED
          BY <2>2, <4>1, <4>2, <1>3
      <3> QED
        BY <3>1 DEF SessionInv, PendingInv
    <2> QED
      BY <2>1, <2>2
  <1>13. CurInv'
    BY <1>0, <1>1 DEF CurInv, Threads, Working
  <1> QED
    BY <1>1, <1>2, <1>8, <1>10, <1>11, <1>12, <1>13 DEF SessionInv, Threads

(* The loop's test agrees with the frame indices.                          *)
LEMMA HeadAbsolute ==
    ASSUME T, SessionInv, pending # <<>>, indicate_seq # Invalid
    PROVE  /\ SN_LESS(indicate_seq, SN(Head(pending))) <=> win < Head(pending)
           /\ Head(pending) = pending[1] /\ 1 \in 1..Len(pending)
           /\ pending[1] \in Int
  <1>1. Len(pending) \in Nat /\ 1 \in 1..Len(pending) /\ Head(pending) = pending[1]
    BY DEF T, TypeData
  <1>2. pending[1] \in Int /\ win \in Int
    BY <1>1, DataInts DEF T
  <1>3. win - pending[1] \in (-Half)..(Half - 1)
    BY <1>1, <1>2, Sizes DEF SessionInv, PendingInv
  <1>4. indicate_seq = SN(win)
    BY DEF SessionInv, WinInv
  <1> QED
    BY <1>1, <1>2, <1>3, <1>4, SNLess

LEMMA SessionLoopTake ==
    ASSUME T, SessionInv, NEW t \in Threads, LoopTake(t)
    PROVE  SessionInv'
  <1>0. TypeData /\ pc[t] = "loop" /\ lock # "none" /\ pending # <<>> /\ indicate_seq # Invalid
    BY DEF T, LoopTake, LockInv, Threads, Working, SessionInv, FreshInv
  <1>1. pc' = [pc EXCEPT ![t] = "bump"] /\ pc \in [Threads -> Labels]
    BY <1>0 DEF LoopTake, Goto, TypeData
  <1>2. UNCHANGED <<enable, indicate_seq, lock, win, hi, last, frame, nextseq>>
    BY DEF LoopTake, session
  <1>3. cur' = pending[1] /\ pending[1] <= win /\ win \in Int /\ pending[1] \in Int
    BY <1>0, HeadAbsolute, DataInts DEF LoopTake
  <1>4. /\ Len(pending) \in Nat /\ 1 \in 1..Len(pending)
        /\ Len(pending') = Len(pending) - 1
        /\ \A i \in 1..Len(pending') : i + 1 \in 1..Len(pending) /\ pending'[i] = pending[i + 1]
    BY <1>0 DEF LoopTake, TypeData
  <1>5. pc["rx"] # "enqueue" /\ pc'["rx"] # "enqueue" /\ (pc'["rx"] = "reorder" <=> pc["rx"] = "reorder")
    BY <1>0, <1>1 DEF T, LockInv, Threads, Working
  <1>6. FreshInv' /\ EnqueueInv'
    BY <1>0, <1>2, <1>5 DEF FreshInv, EnqueueInv
  <1>7. WinInv'
    BY <1>2, <1>5 DEF SessionInv, WinInv
  <1>8. Sorted'
    BY <1>4 DEF SessionInv, Sorted
  <1>9. PendingInv'
    BY <1>0, <1>2, <1>4, <1>5 DEF SessionInv, PendingInv
  <1>10. CurInv'
    <2>1. \A u \in Threads : pc'[u] # "indicate"
      BY <1>0, <1>1 DEF T, LockInv, Threads, Working
    <2>2. last < pending[1] /\ pending[1] <= hi /\ win - pending[1] < Half
      BY <1>3, <1>4, Sizes DEF SessionInv, PendingInv
    <2>3. \A i \in 1..Len(pending') : pending[1] < pending'[i]
      BY <1>4 DEF SessionInv, Sorted
    <2> QED
      BY <1>2, <1>3, <2>1, <2>2, <2>3 DEF CurInv
  <1> QED
    BY <1>1, <1>2, <1>6, <1>7, <1>8, <1>9, <1>10 DEF SessionInv, Threads

LEMMA SessionLoopBump ==
    ASSUME T, SessionInv, NEW t \in Threads, LoopBump(t)
    PROVE  SessionInv'
  <1>0. TypeData /\ pc[t] = "bump" /\ lock # "none" /\ indicate_seq # Invalid
    BY DEF T, LoopBump, LockInv, Threads, Working, SessionInv, FreshInv
  <1>1. pc' = [pc EXCEPT ![t] = "indicate"] /\ pc \in [Threads -> Labels]
    BY <1>0 DEF LoopBump, Goto, TypeData
  <1>2. UNCHANGED <<enable, indicate_seq, pending, lock, win, hi, last, frame, cur>>
    BY DEF LoopBump, session, ctrl
  <1>3. pc["rx"] # "enqueue" /\ pc'["rx"] # "enqueue" /\ (pc'["rx"] = "reorder" <=> pc["rx"] = "reorder")
    BY <1>0, <1>1 DEF T, LockInv, Threads, Working
  <1>4. FreshInv' /\ EnqueueInv'
    BY <1>0, <1>2, <1>3 DEF FreshInv, EnqueueInv
  <1>5. WinInv' /\ Sorted' /\ PendingInv'
    BY <1>2, <1>3 DEF SessionInv, WinInv, Sorted, PendingInv
  <1>6. CurInv'
    <2>1. /\ last < cur /\ cur <= hi /\ cur <= win /\ win - cur < Half
          /\ \A i \in 1..Len(pending) : cur < pending[i]
      BY <1>0 DEF SessionInv, CurInv
    <2>2. indicate_seq = SN(win) /\ win \in Int /\ cur \in Int
      BY <1>0, DataInts DEF SessionInv, WinInv
    <2>3. SN(win) = SN(cur) <=> win = cur
      <3>1. win - cur \in (1 - SNMod)..(SNMod - 1)
        BY <2>1, <2>2, Sizes
      <3> QED
        BY <2>2, <3>1, SNEqual
    <2>4. (SN(win) + 1) % SNMod = SN(win + 1) /\ SN(win + 1) # Invalid
      <3>1. (SN(win) + 1) % SNMod = SN(win + 1)
        BY <2>2, SNAdd
      <3>2. win + 1 \in Int
        BY <2>2
      <3>3. SN(win + 1) # Invalid
        BY <3>2, SNValid
      <3> QED
        BY <3>1, <3>3
    <2>5. IF nextseq' = Invalid THEN cur < win ELSE cur = win /\ nextseq' = SN(win + 1)
      BY <2>1, <2>2, <2>3, <2>4 DEF LoopBump, SN_EQUAL
    <2> QED
      BY <1>2, <2>1, <2>5 DEF CurInv
  <1> QED
    BY <1>1, <1>2, <1>4, <1>5, <1>6 DEF SessionInv, Threads

LEMMA SessionLoopIndicate ==
    ASSUME T, SessionInv, clean, NEW t \in Threads, LoopIndicate(t)
    PROVE  SessionInv' /\ cur > last
  <1>0. TypeData /\ pc[t] = "indicate" /\ lock # "none" /\ indicate_seq # Invalid
    BY DEF T, LoopIndicate, LockInv, Threads, Working, SessionInv, FreshInv
  <1>1. pc' = [pc EXCEPT ![t] = "loop"] /\ pc \in [Threads -> Labels]
    BY <1>0 DEF LoopIndicate, Goto, TypeData
  <1>2. UNCHANGED <<enable, pending, lock, hi, frame>>
    BY DEF LoopIndicate
  <1>3. pc["rx"] # "enqueue" /\ pc'["rx"] # "enqueue" /\ (pc'["rx"] = "reorder" <=> pc["rx"] = "reorder")
    BY <1>0, <1>1 DEF T, LockInv, Threads, Working
  <1>4. /\ last < cur /\ cur <= hi /\ cur <= win /\ win - cur < Half
        /\ \A i \in 1..Len(pending) : cur < pending[i]
        /\ IF nextseq = Invalid THEN cur < win ELSE cur = win /\ nextseq = SN(win + 1)
    BY <1>0 DEF SessionInv, CurInv
  <1>5. win \in Int /\ cur \in Int /\ hi \in Int /\ last \in Int
    BY <1>0, DataInts
  <1>6. last' = cur \/ last' = last
    BY DEF LoopIndicate, Indicated
  <1>7. /\ indicate_seq' = SN(win')
        /\ win' \in Int
        /\ win' = win \/ (win' = cur + 1 /\ cur = win)
        /\ cur < win'
    BY <1>0, <1>4, <1>5 DEF LoopIndicate, SessionInv, WinInv
  <1>8. last' < win' /\ \A i \in 1..Len(pending) : last' < pending[i]
    BY <1>4, <1>5, <1>6, <1>7, <1>0, DataInts
  <1>9. FreshInv' /\ EnqueueInv'
    BY <1>3, <1>7, SNValid DEF FreshInv, EnqueueInv
  <1>10. WinInv'
    <2>1. WinInv /\ hi # None
      BY <1>0 DEF SessionInv, WinInv
    <2>2. win <= win' /\ win' <= hi + 1 /\ frame \in Int
      BY <1>0, <1>4, <1>5, <1>7, <2>1, DataInts DEF WinInv
    <2>5. win' \in Int
      BY <1>7
    <2>3. pc["rx"] # "reorder" => hi <= win' + WSize - 1
      <3>1. pc["rx"] # "reorder" => hi <= win + WSize - 1
        BY <1>0, <2>1 DEF WinInv
      <3> QED
        BY <3>1, <1>5, <2>2, <2>5, Sizes, Advance
    <2>4. pc["rx"] = "reorder" =>
              /\ frame = hi \/ hi <= win' + WSize - 1
              /\ frame \in (hi + 1 - Half)..hi
              /\ frame <= win' + Half - 1
      <3>1. SUFFICES ASSUME pc["rx"] = "reorder"
                     PROVE  /\ frame = hi \/ hi <= win' + WSize - 1
                            /\ frame \in (hi + 1 - Half)..hi
                            /\ frame <= win' + Half - 1
        OBVIOUS
      <3>2. /\ frame = hi \/ hi <= win + WSize - 1
            /\ frame \in (hi + 1 - Half)..hi
            /\ frame <= win + Half - 1
        BY <1>0, <2>1, <3>1 DEF WinInv
      <3> QED
        BY <1>5, <2>2, <2>5, <3>2, Sizes, Advance
    <2> QED
      BY <1>2, <1>3, <1>7, <1>8, <2>1, <2>2, <2>3, <2>4 DEF WinInv
  <1>11. Sorted'
    BY <1>2 DEF SessionInv, Sorted
  <1>12. PendingInv'
    <2> SUFFICES ASSUME NEW i \in 1..Len(pending)
                 PROVE  /\ last' < pending[i] /\ pending[i] <= hi
                        /\ pending[i] \in (win' - Half + 1)..(win' + WSize - 1)
      BY <1>0, <1>2, <1>3 DEF PendingInv
    <2>1. /\ pending[i] \in Int /\ pending[i] <= hi
          /\ pending[i] \in (win - Half + 1)..(win + WSize - 1) /\ cur < pending[i]
      BY <1>0, <1>4, DataInts DEF SessionInv, PendingInv
    <2> QED
      BY <1>5, <1>7, <1>8, <2>1, Sizes
  <1>13. CurInv'
    BY <1>0, <1>1 DEF T, LockInv, CurInv, Threads, Working
  <1> QED
    BY <1>1, <1>2, <1>4, <1>5, <1>9, <1>10, <1>11, <1>12, <1>13 DEF SessionInv, Threads

(* The loop ends with all waiting frames above WinStart.                   *)
LEMMA LoopEndsAbove ==
    ASSUME T, SessionInv, NEW t \in Threads, LoopEnds(t)
    PROVE  \A i \in 1..Len(pending) : win < pending[i]
  <1>1. indicate_seq # Invalid
    BY DEF T, LoopEnds, LockInv, Threads, Working, SessionInv, FreshInv
  <1>2. CASE pending = <<>>
    BY <1>2
  <1>3. CASE pending # <<>>
    <2>1. win < pending[1] /\ 1 \in 1..Len(pending)
      BY <1>1, <1>3, HeadAbsolute DEF LoopEnds
    <2>2. win \in Int /\ Len(pending) \in Nat /\ \A i \in 1..Len(pending) : pending[i] \in Int
      BY DataInts DEF T
    <2>3. \A i \in 1..Len(pending) : i = 1 \/ pending[1] < pending[i]
      BY <2>1, <2>2 DEF SessionInv, Sorted
    <2> QED
      BY <2>1, <2>2, <2>3
  <1> QED
    BY <1>2, <1>3

LEMMA SessionLoopEnd ==
    ASSUME T, SessionInv, RxLoopEnd \/ TimerLoopEnd
    PROVE  SessionInv'
  <1>0. PICK t \in Threads : LoopEnds(t) /\ pc' \in {[pc EXCEPT ![t] = "idle"], [pc EXCEPT ![t] = "cancel"]}
    BY DEF RxLoopEnd, TimerLoopEnd, Goto, Threads
  <1>1. /\ UNCHANGED <<enable, indicate_seq, pending, win, hi, last, frame, cur, nextseq>>
        /\ lock' = "none" /\ pc[t] = "loop" /\ pc \in [Threads -> Labels]
    BY <1>0 DEF RxLoopEnd, TimerLoopEnd, LoopEnds, session, T, TypeData
  <1>2. \A i \in 1..Len(pending) : win < pending[i]
    BY <1>0, LoopEndsAbove
  <1>3. pc["rx"] # "enqueue" /\ pc'["rx"] # "enqueue" /\ (pc'["rx"] = "reorder" <=> pc["rx"] = "reorder")
    BY <1>0, <1>1 DEF T, LockInv, Threads, Working
  <1>4. indicate_seq # Invalid
    BY <1>1 DEF T, LockInv, Threads, Working, SessionInv, FreshInv
  <1>5. FreshInv' /\ EnqueueInv'
    BY <1>1, <1>3, <1>4 DEF FreshInv, EnqueueInv
  <1>6. WinInv' /\ Sorted' /\ PendingInv'
    BY <1>1, <1>2, <1>3 DEF SessionInv, WinInv, Sorted, PendingInv
  <1>7. CurInv'
    BY <1>0, <1>1 DEF T, LockInv, CurInv, Threads, Working
  <1>8. pc'["rx"] \notin {"bypass", "bypassed"}
    BY <1>0, <1>1 DEF SessionInv, Threads
  <1> QED
    BY <1>1, <1>5, <1>6, <1>7, <1>8 DEF SessionInv

LEMMA SessionTimerForce ==
    ASSUME T, SessionInv, clean, TimerForce
    PROVE  SessionInv'
  <1>0. TypeData /\ lock = "none" /\ pending # <<>> /\ indicate_seq # Invalid
    BY DEF T, TimerForce, SessionInv, FreshInv
  <1>1. pc' = [pc EXCEPT !["timer"] = "loop"] /\ pc \in [Threads -> Labels] /\ pc["timer"] = "start"
    BY <1>0 DEF TimerForce, Goto, TypeData
  <1>2. UNCHANGED <<enable, pending, hi, last, frame, cur, nextseq>> /\ lock' = "timer"
    BY DEF TimerForce
  <1>3. Head(pending) = pending[1] /\ 1 \in 1..Len(pending) /\ pending[1] \in Int
    BY <1>0, HeadAbsolute
  <1>4. win' = pending[1] /\ indicate_seq' = SN(win')
    BY <1>3 DEF TimerForce
  <1>5. /\ win \in Int /\ hi \in Int /\ last \in Int /\ frame \in Int /\ Len(pending) \in Nat
        /\ \A i \in 1..Len(pending) : pending[i] \in Int
    BY <1>0, DataInts
  <1>6. /\ win < pending[1] /\ pending[1] <= hi
        /\ \A i \in 1..Len(pending) : pending[1] <= pending[i]
    <2>1. win < pending[1] /\ pending[1] <= hi
      BY <1>0, <1>3 DEF SessionInv, PendingInv
    <2>2. \A i \in 1..Len(pending) : i = 1 \/ pending[1] < pending[i]
      BY <1>3, <1>5 DEF SessionInv, Sorted
    <2> QED
      BY <1>3, <1>5, <2>1, <2>2
  <1>7. FreshInv' /\ EnqueueInv'
    <2>1. pc["rx"] # "enqueue"
      BY <1>0 DEF T, LockInv
    <2> QED
      BY <1>1, <1>3, <1>4, <2>1, SNValid DEF FreshInv, EnqueueInv, Threads
  <1>8. WinInv'
    <2>1. WinInv /\ pc'["rx"] = pc["rx"]
      BY <1>1 DEF SessionInv, Threads
    <2> QED
      BY <1>0, <1>2, <1>4, <1>5, <1>6, <2>1, Sizes DEF WinInv
  <1>9. Sorted'
    BY <1>2 DEF SessionInv, Sorted
  <1>10. PendingInv'
    <2>1. pc'["rx"] # "enqueue"
      BY <1>0, <1>1 DEF T, LockInv, Threads
    <2> SUFFICES ASSUME NEW i \in 1..Len(pending)
                 PROVE  /\ last < pending[i] /\ pending[i] <= hi
                        /\ pending[i] \in (win' - Half + 1)..(win' + WSize - 1)
      BY <1>2, <2>1 DEF PendingInv
    <2>2. last < pending[i] /\ pending[i] <= hi /\ pending[i] <= win + WSize - 1
      BY <1>5, Sizes DEF SessionInv, PendingInv
    <2> QED
      BY <1>4, <1>5, <1>6, <2>2, Sizes
  <1>11. CurInv'
    BY <1>0, <1>1 DEF T, LockInv, CurInv, Threads, Working
  <1> QED
    BY <1>1, <1>2, <1>7, <1>8, <1>9, <1>10, <1>11 DEF SessionInv, Threads

(* Steps that touch neither the queue nor the window.                      *)
LEMMA SessionElsewhere ==
    ASSUME T, SessionInv,
           RxCancel \/ TimerFire \/ TimerEmpty \/ DriverStop \/ FreeUnhash \/ FreeCancel
    PROVE  SessionInv'
  <1>1. /\ UNCHANGED <<enable, indicate_seq, pending, lock, win, hi, last, frame, cur, nextseq>>
        /\ pc \in [Threads -> Labels]
        /\ pc'["rx"] = pc["rx"] \/ (pc["rx"] = "cancel" /\ pc'["rx"] = "idle")
        /\ pc'["timer"] = pc["timer"] \/ pc'["timer"] \in {"idle", "start"}
    BY DEF T, TypeData, RxCancel, TimerFire, TimerEmpty, DriverStop, FreeUnhash, FreeCancel,
       Goto, Threads, ctrl, session
  <1>2. FreshInv' /\ WinInv' /\ Sorted' /\ PendingInv' /\ EnqueueInv'
    BY <1>1 DEF SessionInv, FreshInv, WinInv, Sorted, PendingInv, EnqueueInv
  <1>3. CurInv'
    BY <1>1 DEF SessionInv, CurInv, Threads
  <1> QED
    BY <1>1, <1>2, <1>3 DEF SessionInv

LEMMA SessionFreeDrain ==
    ASSUME T, SessionInv, FreeDrain
    PROVE  SessionInv'
  <1>1. /\ UNCHANGED <<enable, indicate_seq, lock, win, hi, last, frame, cur, nextseq, pc>>
        /\ pending' = <<>>
    BY DEF FreeDrain, session
  <1>2. FreshInv' /\ WinInv' /\ Sorted' /\ PendingInv' /\ EnqueueInv' /\ CurInv'
    BY <1>1 DEF SessionInv, FreshInv, WinInv, Sorted, PendingInv, EnqueueInv, CurInv
  <1> QED
    BY <1>1, <1>2 DEF SessionInv

LEMMA SessionAddba ==
    ASSUME T, NEW accept \in BOOLEAN, AddbaReq(accept), clean'
    PROVE  SessionInv'
  <1>1. /\ enable' /\ indicate_seq' = Invalid /\ pending' = <<>> /\ lock = "none" /\ lock' = "none"
        /\ last' = None /\ hi' = None /\ pc' = pc /\ pc["rx"] = "idle"
    BY DEF AddbaReq
  <1>2. FreshInv' /\ WinInv' /\ Sorted' /\ PendingInv' /\ EnqueueInv'
    BY <1>1 DEF FreshInv, WinInv, Sorted, PendingInv, EnqueueInv
  <1>3. CurInv'
    BY <1>1 DEF T, LockInv, CurInv, Threads, Working
  <1> QED
    BY <1>1, <1>2, <1>3 DEF SessionInv

LEMMA OrderInit == Init => OrderInv
  BY DEF Init, OrderInv

LEMMA OrderStep == BaseInv /\ OrderInv /\ [Next]_vars => OrderInv'
  <1> SUFFICES ASSUME BaseInv, OrderInv, [Next]_vars PROVE OrderInv'
    OBVIOUS
  <1>0. T /\ ordered /\ (clean => SessionInv)
    BY DEF BaseInv, T, OrderInv
  <1>1. ASSUME NEW n \in Frames, Receive(n) PROVE OrderInv'
    BY <1>0, <1>1, SessionReceive DEF Receive, OrderInv
  <1>2. ASSUME Bypass PROVE OrderInv'
    <2>1. ~clean
      BY <1>0, <1>2 DEF Bypass, SessionInv
    <2> QED
      BY <1>0, <1>2, <2>1 DEF Bypass, Indicated, OrderInv
  <1>3. ASSUME Bypassed PROVE OrderInv'
    <2>1. ~clean
      BY <1>0, <1>3 DEF Bypassed, SessionInv
    <2> QED
      BY <1>0, <1>3, <2>1 DEF Bypassed, session, OrderInv
  <1>4. ASSUME CheckDrop PROVE OrderInv'
    BY <1>0, <1>4, SessionCheckDrop DEF CheckDrop, session, OrderInv
  <1>5. ASSUME CheckAccept PROVE OrderInv'
    BY <1>0, <1>5, SessionCheckAccept DEF CheckAccept, OrderInv
  <1>6. ASSUME NEW k \in 1..(Len(pending) + 1), EnqueueDrop(k) PROVE OrderInv'
    BY <1>0, <1>6, SessionEnqueueDrop DEF EnqueueDrop, session, OrderInv
  <1>7. ASSUME NEW k \in 1..(Len(pending) + 1), Enqueue(k) PROVE OrderInv'
    BY <1>0, <1>7, SessionEnqueue DEF Enqueue, session, OrderInv
  <1>8. ASSUME NEW t \in Threads, LoopTake(t) PROVE OrderInv'
    BY <1>0, <1>8, SessionLoopTake DEF LoopTake, session, OrderInv
  <1>9. ASSUME NEW t \in Threads, LoopBump(t) PROVE OrderInv'
    BY <1>0, <1>9, SessionLoopBump DEF LoopBump, session, OrderInv
  <1>10. ASSUME NEW t \in Threads, LoopIndicate(t) PROVE OrderInv'
    <2>1. clean => SessionInv' /\ cur > last
      BY <1>0, <1>10, SessionLoopIndicate
    <2>2. clean' = clean
      BY <1>10 DEF LoopIndicate
    <2>3. ordered'
      BY <1>0, <1>10, <2>1 DEF LoopIndicate, Indicated
    <2> QED
      BY <2>1, <2>2, <2>3 DEF OrderInv
  <1>11. ASSUME RxLoopEnd \/ TimerLoopEnd PROVE OrderInv'
    <2>1. clean => SessionInv'
      BY <1>0, <1>11, SessionLoopEnd
    <2>2. clean' = clean /\ ordered' = ordered
      BY <1>11 DEF RxLoopEnd, TimerLoopEnd, session
    <2> QED
      BY <1>0, <2>1, <2>2 DEF OrderInv
  <1>12. ASSUME RxCancel \/ TimerFire \/ TimerEmpty \/ DriverStop \/ FreeUnhash \/ FreeCancel
         PROVE  OrderInv'
    <2>1. clean => SessionInv'
      BY <1>0, <1>12, SessionElsewhere
    <2>2. clean' = clean /\ ordered' = ordered
      BY <1>12 DEF RxCancel, TimerFire, TimerEmpty, DriverStop, FreeUnhash, FreeCancel, session
    <2> QED
      BY <1>0, <2>1, <2>2 DEF OrderInv
  <1>13. ASSUME TimerForce PROVE OrderInv'
    BY <1>0, <1>13, SessionTimerForce DEF TimerForce, OrderInv
  <1>14. ASSUME NEW accept \in BOOLEAN, AddbaReq(accept) PROVE OrderInv'
    BY <1>0, <1>14, SessionAddba DEF AddbaReq, OrderInv
  <1>15. ASSUME Delba \/ JoinReset PROVE OrderInv'
    BY <1>15 DEF Delba, JoinReset, EndSession, OrderInv
  <1>16. ASSUME FreeDrain PROVE OrderInv'
    BY <1>0, <1>16, SessionFreeDrain DEF FreeDrain, session, OrderInv
  <1>17. ASSUME UNCHANGED vars PROVE OrderInv'
    BY <1>0, <1>17 DEF vars, ctrl, session, OrderInv, SessionInv, FreshInv, WinInv, Sorted,
       PendingInv, EnqueueInv, CurInv
  <1> QED
    BY <1>1, <1>2, <1>3, <1>4, <1>5, <1>6, <1>7, <1>8, <1>9, <1>10, <1>11, <1>12, <1>13,
       <1>14, <1>15, <1>16, <1>17 DEF Next, RxSteps, TimerSteps, FreeSteps, Threads

-----------------------------------------------------------------------------
(* The invariants of the specification.                                    *)

LEMMA Invariant == Spec => [](BaseInv /\ OrderInv)
  <1>1. Init => BaseInv /\ OrderInv
    BY BaseInit, OrderInit
  <1>2. BaseInv /\ OrderInv /\ [Next]_vars => (BaseInv /\ OrderInv)'
    BY BaseStep, OrderStep
  <1> QED
    BY <1>1, <1>2, PTL DEF Spec

(* Every variable keeps its type: sequence numbers stay within 12 bits or  *)
(* are 0xFFFF, and the queue only holds frames of the peer.                *)
THEOREM TypeCorrect == Spec => []TypeOK
  <1>1. BaseInv => TypeOK
    BY TypeSplit DEF BaseInv
  <1> QED
    BY <1>1, Invariant, PTL

(* Frames of an undisturbed session are indicated in strictly increasing   *)
(* order by recv_indicatepkts_in_order, whoever runs it.                   *)
THEOREM DeliveryInOrder == Spec => []InOrder
  <1>1. OrderInv => InOrder
    BY DEF OrderInv, InOrder
  <1> QED
    BY <1>1, Invariant, PTL

(* The reorder queue is sorted, free of duplicates and inside the window   *)
(* whenever the lock is free.                                              *)
THEOREM QueueStaysInWindow == Spec => []QueueInWindow
  <1>1. BaseInv /\ OrderInv => QueueInWindow
    <2> SUFFICES ASSUME BaseInv, OrderInv, clean, lock = "none" PROVE
                   /\ \A i, j \in 1..Len(pending) : i < j => pending[i] < pending[j]
                   /\ \A i \in 1..Len(pending) : pending[i] \in (win + 1)..(win + WSize - 1)
      BY DEF QueueInWindow
    <2>1. SessionInv /\ TypeData
      BY DEF OrderInv, BaseInv
    <2>2. Sorted
      BY <2>1 DEF SessionInv
    <2>3. \A i \in 1..Len(pending) : pending[i] \in (win + 1)..(win + WSize - 1)
      BY <2>1, DataInts, Sizes DEF SessionInv, PendingInv
    <2> QED
      BY <2>2, <2>3 DEF Sorted
  <1> QED
    BY <1>1, Invariant, PTL

(* No buffered frame is left without a reorder timer.                      *)
THEOREM TimerGuardsQueue == Spec => []PendingHasTimer
  <1>1. BaseInv => PendingHasTimer
    BY DEF BaseInv, TypeData, LockInv, TimerInv, PendingHasTimer, Working, Threads
  <1> QED
    BY <1>1, Invariant, PTL

-----------------------------------------------------------------------------
(* The window only moves forward.                                          *)

LEMMA WindowCheckAccept ==
    ASSUME T, SessionInv, clean, CheckAccept, indicate_seq # Invalid
    PROVE  win' >= win
  <1>0. TypeData /\ pc["rx"] = "reorder"
    BY DEF T, CheckAccept
  <1>1. indicate_seq = SN(win) /\ frame - win \in 0..(Half - 1)
    BY <1>0, InHand, DataInts, Sizes DEF CheckAccept
  <1>2. win' = IF frame = win THEN frame + 1
               ELSE IF frame > win + WSize - 1 THEN frame + 1 - WSize
               ELSE win
    BY <1>0, <1>1, CheckAbsolute, DataInts DEF CheckAccept
  <1> QED
    BY <1>0, <1>2, DataInts, Sizes

LEMMA WindowLoopIndicate ==
    ASSUME T, SessionInv, NEW t \in Threads, LoopIndicate(t)
    PROVE  win' >= win
  <1>1. win \in Int
    BY DataInts DEF T
  <1>2. nextseq # Invalid => cur = win
    BY DEF SessionInv, CurInv, LoopIndicate
  <1> QED
    BY <1>1, <1>2 DEF LoopIndicate

LEMMA WindowTimerForce ==
    ASSUME T, SessionInv, TimerForce
    PROVE  win' >= win
  <1>1. TypeData /\ pending # <<>> /\ lock = "none"
    BY DEF T, TimerForce
  <1>2. Len(pending) >= 1 /\ Head(pending) = pending[1] /\ 1 \in 1..Len(pending)
    BY <1>1 DEF TypeData
  <1>3. win < Head(pending)
    BY <1>1, <1>2 DEF SessionInv, PendingInv
  <1> QED
    BY <1>1, <1>2, <1>3, DataInts DEF TimerForce

LEMMA WindowStep ==
    ASSUME BaseInv, OrderInv, [Next]_vars
    PROVE  clean /\ indicate_seq # Invalid /\ clean' /\ indicate_seq' # Invalid => win' >= win
  <1> SUFFICES ASSUME clean, indicate_seq # Invalid, clean', indicate_seq' # Invalid
               PROVE  win' >= win
    OBVIOUS
  <1>0. T /\ SessionInv /\ win \in Int
    BY DataInts DEF BaseInv, T, OrderInv
  <1>1. ASSUME CheckAccept PROVE win' >= win
    BY <1>0, <1>1, WindowCheckAccept
  <1>2. ASSUME NEW t \in Threads, LoopIndicate(t) PROVE win' >= win
    BY <1>0, <1>2, WindowLoopIndicate
  <1>3. ASSUME TimerForce PROVE win' >= win
    BY <1>0, <1>3, WindowTimerForce
  <1>4. ASSUME NEW accept \in BOOLEAN, AddbaReq(accept) PROVE FALSE
    BY <1>4 DEF AddbaReq
  <1>5. ASSUME Delba \/ JoinReset PROVE FALSE
    BY <1>5 DEF Delba, JoinReset, EndSession
  <1>6. ASSUME \/ \E n \in Frames : Receive(n)
               \/ Bypass \/ Bypassed \/ CheckDrop
               \/ \E k \in 1..(Len(pending) + 1) : EnqueueDrop(k) \/ Enqueue(k)
               \/ \E t \in Threads : LoopTake(t) \/ LoopBump(t)
               \/ RxLoopEnd \/ RxCancel
               \/ TimerFire \/ TimerEmpty \/ TimerLoopEnd
               \/ DriverStop \/ FreeUnhash \/ FreeSteps \/ UNCHANGED vars
        PROVE  win' = win
    BY <1>6 DEF Receive, Bypass, Bypassed, CheckDrop, EnqueueDrop, Enqueue, LoopTake, LoopBump,
       RxLoopEnd, RxCancel, TimerFire, TimerEmpty, TimerLoopEnd, DriverStop, FreeUnhash,
       FreeSteps, FreeCancel, FreeDrain, vars, session
  <1> QED
    BY <1>0, <1>1, <1>2, <1>3, <1>4, <1>5, <1>6 DEF Next, RxSteps, TimerSteps, Threads

(* WinStart never moves back while it is set in an undisturbed session:    *)
(* neither check_indicate_seq, the loop of recv_indicatepkts_in_order nor  *)
(* the forced move of the timeout handler undoes what another one did.     *)
THEOREM WindowMovesForward == Spec => WindowAdvances
  <1>1. BaseInv /\ OrderInv /\ [Next]_vars =>
           [clean /\ indicate_seq # Invalid /\ clean' /\ indicate_seq' # Invalid
              => win' >= win]_vars
    BY WindowStep
  <1> QED
    BY <1>1, Invariant, PTL DEF Spec, WindowAdvances

-----------------------------------------------------------------------------
(* The reorder buffer implements OrderedDelivery.                          *)

Queued == {pending[i] : i \in 1..Len(pending)}

LEMMA DeliveryInit == Init => Delivery!Init
  BY DEF Init, Delivery!Init, HeldFrames, None, Delivery!None

(* A step that gives frames up, or only passes them on, drops them.        *)
LEMMA Passes ==
    ASSUME HeldFrames' \subseteq HeldFrames, UNCHANGED <<clean, last>>
    PROVE  Delivery!Next
  BY DEF Delivery!Next, Delivery!Drop

LEMMA DeliverReceive ==
    ASSUME T, NEW n \in Frames, Receive(n)
    PROVE  Delivery!Next
  <1>1. frame = None /\ n # None
    BY SizeAssumption DEF T, LockInv, Receive, Frames, None
  <1>2. HeldFrames' = HeldFrames \cup {n}
    BY <1>1 DEF Receive, ctrl, HeldFrames
  <1> QED
    BY <1>2 DEF Receive, Delivery!Next, Delivery!Arrive, Frames

LEMMA DeliverBypass ==
    ASSUME T, ~clean, Bypass
    PROVE  Delivery!Next
  <1>1. frame \in Frames /\ frame # None
    BY DEF T, LockInv, Bypass, TypeData
  <1>2. frame \in HeldFrames /\ HeldFrames' = HeldFrames
    BY <1>1 DEF HeldFrames, Bypass
  <1>3. UNCHANGED <<clean, last>>
    BY DEF Bypass, Indicated
  <1> QED
    BY <1>2, <1>3, Passes

LEMMA DeliverEnqueue ==
    ASSUME T, NEW k \in 1..(Len(pending) + 1), Enqueue(k)
    PROVE  Delivery!Next
  <1>1. frame \in Frames /\ frame # None /\ TypeData
    BY DEF T, LockInv, Enqueue, TypeData
  <1>2. pending' = Inserted(k) /\ frame' = None /\ UNCHANGED <<cur, clean, last>>
    BY DEF Enqueue, session
  <1>3. Len(pending') = Len(pending) + 1 /\ Len(pending) \in Nat
    BY <1>1, <1>2, InsertedType DEF TypeData
  <1>4. ASSUME NEW i \in 1..Len(pending') PROVE pending'[i] \in Queued \cup {frame}
    BY <1>2, <1>3, <1>4 DEF Inserted, Queued
  <1>5. HeldFrames' \subseteq HeldFrames
    BY <1>1, <1>2, <1>4 DEF HeldFrames, Queued
  <1> QED
    BY <1>2, <1>5, Passes

LEMMA DeliverLoopTake ==
    ASSUME T, NEW t \in Threads, LoopTake(t)
    PROVE  Delivery!Next
  <1>1. pending \in Seq(Frames) /\ pending # <<>>
    BY DEF T, TypeData, LoopTake
  <1>2. cur' = Head(pending) /\ pending' = Tail(pending) /\ UNCHANGED <<frame, clean, last>>
    BY DEF LoopTake, session
  <1>3. cur' \in Queued
    BY <1>1, <1>2 DEF Queued
  <1>4. ASSUME NEW i \in 1..Len(pending') PROVE pending'[i] \in Queued
    <2>1. i + 1 \in 1..Len(pending) /\ pending'[i] = pending[i + 1]
      BY <1>1, <1>2, <1>4
    <2> QED
      BY <2>1 DEF Queued
  <1>5. HeldFrames' \subseteq HeldFrames
    BY <1>2, <1>3, <1>4 DEF HeldFrames, Queued
  <1> QED
    BY <1>2, <1>5, Passes

(* The one step that indicates a frame of a session.                       *)
LEMMA DeliverLoopIndicate ==
    ASSUME T, clean \in BOOLEAN, clean => SessionInv, NEW t \in Threads, LoopIndicate(t)
    PROVE  Delivery!Next
  <1>1. cur \in Frames /\ cur # None /\ cur' = None /\ UNCHANGED <<pending, frame, clean>>
    BY DEF T, LockInv, TypeData, LoopIndicate
  <1>2. cur \in HeldFrames /\ HeldFrames' \in {HeldFrames, HeldFrames \ {cur}}
    BY <1>1 DEF HeldFrames
  <1>3. CASE stopped
    <2>1. UNCHANGED last
      BY <1>3 DEF LoopIndicate
    <2>2. HeldFrames' \subseteq HeldFrames
      BY <1>2
    <2> QED
      BY <1>1, <2>1, <2>2, Passes
  <1>4. CASE ~stopped
    <2>1. last' = IF clean THEN cur ELSE last
      BY <1>4 DEF LoopIndicate, Indicated
    <2>2. clean => cur > last
      BY SessionLoopIndicate
    <2>3. Delivery!Deliver(cur)
      BY <1>1, <1>2, <2>1, <2>2 DEF Delivery!Deliver
    <2> QED
      BY <1>1, <2>3 DEF Delivery!Next, Frames
  <1> QED
    BY <1>3, <1>4

LEMMA DeliveryStep ==
    BaseInv /\ OrderInv /\ [Next]_vars => [Delivery!Next]_<<clean, HeldFrames, last>>
  <1> SUFFICES ASSUME BaseInv, OrderInv, [Next]_vars
               PROVE  Delivery!Next \/ UNCHANGED <<clean, HeldFrames, last>>
    OBVIOUS
  <1>0. T /\ clean \in BOOLEAN /\ (clean => SessionInv)
    BY DEF BaseInv, T, OrderInv, TypeFlags
  <1>1. ASSUME NEW n \in Frames, Receive(n) PROVE Delivery!Next
    BY <1>0, <1>1, DeliverReceive
  <1>2. ASSUME Bypass PROVE Delivery!Next
    <2>1. ~clean
      BY <1>0, <1>2 DEF Bypass, SessionInv
    <2> QED
      BY <1>0, <1>2, <2>1, DeliverBypass
  <1>3. ASSUME UNCHANGED <<pending, cur, clean, last>>, frame' \in {frame, None}
        PROVE  Delivery!Next
    <2>1. HeldFrames' \subseteq HeldFrames
      BY <1>3 DEF HeldFrames
    <2> QED
      BY <1>3, <2>1, Passes
  <1>4. ASSUME \/ Bypassed \/ CheckDrop \/ CheckAccept
               \/ \E k \in 1..(Len(pending) + 1) : EnqueueDrop(k)
        PROVE  Delivery!Next
    <2>1. UNCHANGED <<pending, cur, clean, last>> /\ frame' \in {frame, None}
      BY <1>4 DEF Bypassed, CheckDrop, CheckAccept, EnqueueDrop, ctrl, session
    <2> QED
      BY <1>3, <2>1
  <1>5. ASSUME NEW k \in 1..(Len(pending) + 1), Enqueue(k) PROVE Delivery!Next
    BY <1>0, <1>5, DeliverEnqueue
  <1>6. ASSUME NEW t \in Threads, LoopTake(t) PROVE Delivery!Next
    BY <1>0, <1>6, DeliverLoopTake
  <1>7. ASSUME NEW t \in Threads, LoopBump(t) PROVE Delivery!Next
    <2>1. UNCHANGED <<pending, cur, clean, last, frame>>
      BY <1>7 DEF LoopBump, ctrl, session
    <2> QED
      BY <1>3, <2>1
  <1>8. ASSUME NEW t \in Threads, LoopIndicate(t) PROVE Delivery!Next
    BY <1>0, <1>8, DeliverLoopIndicate
  <1>9. ASSUME \/ RxLoopEnd \/ RxCancel \/ TimerFire \/ TimerEmpty \/ TimerForce \/ TimerLoopEnd
               \/ DriverStop \/ FreeUnhash \/ FreeCancel
        PROVE  Delivery!Next
    <2>1. UNCHANGED <<pending, cur, clean, last, frame>>
      BY <1>9 DEF RxLoopEnd, RxCancel, TimerFire, TimerEmpty, TimerForce, TimerLoopEnd,
         DriverStop, FreeUnhash, FreeCancel, ctrl, session
    <2> QED
      BY <1>3, <2>1
  <1>10. ASSUME (\E accept \in BOOLEAN : AddbaReq(accept)) \/ Delba \/ JoinReset
         PROVE  Delivery!Next
    <2>1. clean' \in BOOLEAN /\ last' = None /\ UNCHANGED <<pending, frame, cur>>
      BY <1>10 DEF AddbaReq, Delba, JoinReset, EndSession
    <2>2. HeldFrames' = HeldFrames
      BY <2>1 DEF HeldFrames
    <2> QED
      BY <2>1, <2>2 DEF Delivery!Next, Delivery!NewSession, None, Delivery!None
  <1>11. ASSUME FreeDrain PROVE Delivery!Next
    <2>1. pending' = <<>> /\ UNCHANGED <<cur, clean, last, frame>>
      BY <1>11 DEF FreeDrain, session
    <2>2. HeldFrames' \subseteq HeldFrames
      BY <2>1 DEF HeldFrames
    <2> QED
      BY <2>1, <2>2, Passes
  <1>12. ASSUME UNCHANGED vars PROVE UNCHANGED <<clean, HeldFrames, last>>
    BY <1>12 DEF vars, ctrl, session, HeldFrames
  <1> QED
    BY <1>1, <1>2, <1>4, <1>5, <1>6, <1>7, <1>8, <1>9, <1>10, <1>11, <1>12
       DEF Next, RxSteps, TimerSteps, FreeSteps, Threads

(* What RxReorder promises the stack, for every window, sequence space and *)
(* bound: each behaviour of the tasklet, the timer and the session changes *)
(* is, seen from above, one of OrderedDelivery.                            *)
THEOREM DeliveryImplemented == Spec => DeliverySpec
  <1>1. Init => Delivery!Init
    BY DeliveryInit
  <1>2. BaseInv /\ OrderInv /\ [Next]_vars => [Delivery!Next]_<<clean, HeldFrames, last>>
    BY DeliveryStep
  <1> QED
    BY <1>1, <1>2, Invariant, PTL DEF Spec, DeliverySpec, Delivery!Spec
=============================================================================
