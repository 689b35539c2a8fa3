--------------------------- MODULE XmitPoolsProofs ---------------------------
(***************************************************************************)
(* The invariants of the transmit path, for every set of stations, every   *)
(* list of access categories and every size of the pools.                  *)
(*                                                                         *)
(* PoolInv is inductive.  The number of queued frames is the number of     *)
(* places in the queues (Total), so that what a step does to a sum is a    *)
(* fact about cardinalities: TotalSum and TotalGrows.  QueueInv ties the   *)
(* structures of the queues together: accnt is the total of a category,    *)
(* qcnt the number of packets in a queue, and the list of a category       *)
(* names, once each, the stations with frames in it.  Neither part is inductive without the other, since  *)
(* rtw_dequeue_xframe takes a frame from a station because it is listed    *)
(* and accnt may be counted down because the frame was counted.            *)
(* FramesBalanced and BufsBalanced add what the senders, the tasklet and   *)
(* the USB core hold; SenderKeeps and TaskletKeeps reduce each step to two *)
(* equations between numbers.                                              *)
(*                                                                         *)
(* TypesKept follows from PoolInv: no test in the code keeps the counters  *)
(* within the pools, the balance does.  PendingDriven is inductive on top  *)
(* of PoolInv, StoppedHasPacket together with OwnPackets: a category that  *)
(* has never held another queue's packets holds none, so that a count that *)
(* keeps a queue stopped is a packet of it.  PendingDriven needs the       *)
(* balance of                                                              *)
(* the buffers: a frame that is queued because there is no buffer is       *)
(* driven by whoever has the buffers, and that is not the tasklet alone    *)
(* (BufferOut), which is where two buffers are needed.                     *)
(***************************************************************************)
EXTENDS XmitPools, SeqInduction, FunctionTheorems, FiniteSetTheorems

-----------------------------------------------------------------------------
(* The lists of stations.                                                  *)

(* What RemoveAt returns, index by index.                                  *)
LEMMA RemovedAt ==
    ASSUME NEW S, NEW l \in Seq(S), NEW i \in 1 .. Len(l)
    PROVE  /\ RemoveAt(l, i) \in Seq(S)
           /\ Len(RemoveAt(l, i)) = Len(l) - 1
           /\ \A j \in 1 .. (Len(l) - 1) :
                RemoveAt(l, i)[j] = IF j < i THEN l[j] ELSE l[j + 1]
  <1> DEFINE a == SubSeq(l, 1, i - 1)
             b == SubSeq(l, i + 1, Len(l))
  <1>1. a \in Seq(S) /\ b \in Seq(S)
    OBVIOUS
  <1>2. /\ Len(a) = i - 1
        /\ \A j \in 1 .. (i - 1) : a[j] = l[j]
    OBVIOUS
  <1>3. /\ Len(b) = Len(l) - i
        /\ \A j \in 1 .. (Len(l) - i) : b[j] = l[i + j]
    <2>1. i + 1 \in 1 .. (Len(l) + 1) /\ Len(l) \in i .. Len(l)
      OBVIOUS
    <2>2. /\ Len(b) = Len(l) - (i + 1) + 1
          /\ \A j \in 1 .. Len(b) : b[j] = l[(i + 1) + j - 1]
      <3>1. CASE i = Len(l)
        <4>1. b = <<>>
          BY <3>1
        <4> QED
          BY <3>1, <4>1
      <3>2. CASE i < Len(l)
        BY <3>2
      <3> QED
        BY <3>1, <3>2
    <2>3. \A j \in 1 .. (Len(l) - i) : (i + 1) + j - 1 = i + j
      OBVIOUS
    <2> QED
      BY <2>2, <2>3
  <1>4. RemoveAt(l, i) = a \o b
    BY DEF RemoveAt
  <1> HIDE DEF a, b
  <1>5. a \o b \in Seq(S) /\ Len(a \o b) = Len(l) - 1
    <2>1. Len(l) \in Nat /\ i \in Nat
      OBVIOUS
    <2>2. a \o b \in Seq(S) /\ Len(a \o b) = Len(a) + Len(b)
      BY <1>1, ConcatProperties
    <2>3. (i - 1) + (Len(l) - i) = Len(l) - 1
      BY <2>1
    <2> QED
      BY <1>2, <1>3, <2>2, <2>3
  <1>6. ASSUME NEW j \in 1 .. (Len(l) - 1)
        PROVE  (a \o b)[j] = IF j < i THEN l[j] ELSE l[j + 1]
    <2>1. CASE j < i
      BY <1>1, <1>2, <1>3, <2>1
    <2>2. CASE j >= i
      <3>1. j - (i - 1) \in 1 .. (Len(l) - i) /\ i + (j - (i - 1)) = j + 1
        BY <2>2
      <3>2. (a \o b)[j] = b[j - (i - 1)]
        BY <1>1, <1>2, <1>3, <2>2
      <3> QED
        BY <1>3, <2>2, <3>1, <3>2
    <2>3. j \in Int /\ i \in Int
      OBVIOUS
    <2>4. j < i \/ j >= i
      BY <2>3
    <2> QED
      BY <2>1, <2>2, <2>4
  <1> QED
    BY <1>4, <1>5, <1>6

(* rtw_list_delete takes the station off a list without repetitions, and   *)
(* nobody else.                                                            *)
LEMMA Delisted ==
    ASSUME NEW S, NEW l \in Seq(S), IsInjective(l), NEW s
    PROVE  /\ rtw_list_delete(l, s) \in Seq(S)
           /\ Range(rtw_list_delete(l, s)) = Range(l) \ {s}
           /\ IsInjective(rtw_list_delete(l, s))
  <1>1. CASE s \notin Range(l)
    BY <1>1 DEF rtw_list_delete
  <1>2. CASE s \in Range(l)
    <2> DEFINE i == CHOOSE k \in DOMAIN l : l[k] = s
               d == RemoveAt(l, i)
    <2>1. i \in 1 .. Len(l) /\ l[i] = s
      BY <1>2 DEF Range
    <2>2. rtw_list_delete(l, s) = d
      BY <1>2 DEF rtw_list_delete
    <2> HIDE DEF i, d
    <2>3. /\ d \in Seq(S)
          /\ Len(d) = Len(l) - 1
          /\ \A j \in 1 .. (Len(l) - 1) : d[j] = IF j < i THEN l[j] ELSE l[j + 1]
      BY <2>1, RemovedAt DEF d
    <2>4. \A a, b \in 1 .. Len(l) : l[a] = l[b] => a = b
      BY DEF IsInjective
    <2>5. DOMAIN d = 1 .. (Len(l) - 1) /\ DOMAIN l = 1 .. Len(l)
      BY <2>3
    <2>6. IsInjective(d)
      <3> SUFFICES ASSUME NEW a \in 1 .. (Len(l) - 1), NEW b \in 1 .. (Len(l) - 1),
                          d[a] = d[b]
                   PROVE  a = b
        BY <2>5 DEF IsInjective
      <3> DEFINE up(j) == IF j < i THEN j ELSE j + 1
      <3>1. up(a) \in 1 .. Len(l) /\ up(b) \in 1 .. Len(l)
        BY <2>1
      <3>2. d[a] = l[up(a)] /\ d[b] = l[up(b)]
        BY <2>3
      <3>3. up(a) = up(b)
        BY <2>4, <3>1, <3>2
      <3> QED
        BY <2>1, <3>3
    <2>7. ASSUME NEW x \in Range(d) PROVE x \in Range(l) \ {s}
      <3>1. PICK j \in 1 .. (Len(l) - 1) : x = d[j]
        BY <2>5, <2>7 DEF Range
      <3> DEFINE u == IF j < i THEN j ELSE j + 1
      <3>2. u \in 1 .. Len(l) /\ u # i
        BY <2>1
      <3>3. x = l[u]
        BY <2>3, <3>1
      <3>4. x # s
        BY <2>1, <2>4, <3>2, <3>3
      <3> QED
        BY <2>5, <3>2, <3>3, <3>4 DEF Range
    <2>8. ASSUME NEW x \in Range(l), x # s PROVE x \in Range(d)
      <3>1. PICK u \in 1 .. Len(l) : x = l[u]
        BY <2>5, <2>8 DEF Range
      <3>2. u # i
        BY <2>1, <2>8, <3>1
      <3>3. CASE u < i
        <4>1. u \in 1 .. (Len(l) - 1) /\ d[u] = x
          BY <2>1, <2>3, <3>1, <3>3
        <4> QED
          BY <2>5, <4>1 DEF Range
      <3>4. CASE u > i
        <4>1. u - 1 \in 1 .. (Len(l) - 1) /\ ~ (u - 1 < i) /\ (u - 1) + 1 = u
          BY <2>1, <3>4
        <4>2. d[u - 1] = x
          BY <2>3, <3>1, <4>1
        <4> QED
          BY <2>5, <4>1, <4>2 DEF Range
      <3> QED
        BY <2>1, <3>2, <3>3, <3>4
    <2>9. Range(d) = Range(l) \ {s}
      BY <2>7, <2>8
    <2> QED
      BY <2>2, <2>3, <2>6, <2>9
  <1> QED
    BY <1>1, <1>2

(* A station is put at the end of a list it is not on.                     *)
LEMMA Enlisted ==
    ASSUME NEW S, NEW l \in Seq(S), IsInjective(l), NEW s \in S, s \notin Range(l)
    PROVE  /\ Append(l, s) \in Seq(S)
           /\ Range(Append(l, s)) = Range(l) \cup {s}
           /\ IsInjective(Append(l, s))
  <1> DEFINE d == Append(l, s)
  <1>1. /\ d \in Seq(S) /\ DOMAIN d = 1 .. (Len(l) + 1) /\ DOMAIN l = 1 .. Len(l)
        /\ \A j \in 1 .. Len(l) : d[j] = l[j]
        /\ d[Len(l) + 1] = s
    OBVIOUS
  <1>2. \A j \in 1 .. Len(l) : l[j] # s
    BY <1>1 DEF Range
  <1> HIDE DEF d
  <1>3. IsInjective(d)
    BY <1>1, <1>2 DEF IsInjective
  <1>4. Range(d) = Range(l) \cup {s}
    <2>1. ASSUME NEW x \in Range(d) PROVE x \in Range(l) \cup {s}
      BY <1>1, <2>1 DEF Range
    <2>2. ASSUME NEW x \in Range(l) PROVE x \in Range(d)
      <3>1. PICK j \in 1 .. Len(l) : x = l[j]
        BY <1>1, <2>2 DEF Range
      <3> QED
        BY <1>1, <3>1 DEF Range
    <2>3. s \in Range(d)
      <3>1. Len(l) + 1 \in 1 .. (Len(l) + 1)
        OBVIOUS
      <3> QED
        BY <1>1, <3>1 DEF Range
    <2> QED
      BY <2>1, <2>2, <2>3
  <1> QED
    BY <1>1, <1>3, <1>4 DEF d

-----------------------------------------------------------------------------
(* Sums.                                                                   *)

(* What a place is.                                                        *)
LEMMA PlaceOf ==
    ASSUME NEW S, NEW f \in [S -> Nat]
    PROVE  \A p : p \in Places(f) <=> \E x \in S : \E i \in 1 .. f[x] : p = <<x, i>>
  BY DEF Places

(* Finitely many queues have finitely many places.                         *)
LEMMA PlacesFinite ==
    ASSUME NEW S, IsFiniteSet(S), NEW f \in [S -> Nat]
    PROVE  IsFiniteSet(Places(f)) /\ Total(f) \in Nat
  <1> DEFINE Q == {{x} \X (1 .. f[x]) : x \in S}
             col == [x \in S |-> {x} \X (1 .. f[x])]
  <1>1. IsFiniteSet(Q)
    <2>1. col \in Surjection(S, Q)
      BY Fun_IsSurj
    <2> HIDE DEF col, Q
    <2> QED
      BY <2>1, FS_Surjection
  <1>2. ASSUME NEW x \in S PROVE IsFiniteSet({x} \X (1 .. f[x]))
    <2>1. f[x] \in Nat /\ 1 \in Int
      OBVIOUS
    <2>2. IsFiniteSet(1 .. f[x])
      BY <2>1, FS_Interval
    <2> QED
      BY <2>2, FS_Singleton, FS_Product
  <1>3. \A T \in Q : IsFiniteSet(T)
    BY <1>2
  <1>4. Places(f) = UNION Q
    BY DEF Places
  <1> HIDE DEF Q
  <1>5. IsFiniteSet(UNION Q)
    BY <1>1, <1>3, FS_UNION
  <1> QED
    BY <1>4, <1>5, FS_CardinalityType DEF Total

(* Queues that are all empty.                                              *)
LEMMA TotalNone ==
    ASSUME NEW S, NEW f \in [S -> Nat], \A x \in S : f[x] = 0
    PROVE  Total(f) = 0
  <1>1. Places(f) = {}
    BY PlaceOf
  <1> QED
    BY <1>1, FS_EmptySet DEF Total

(* Only the lengths count.                                                 *)
LEMMA TotalSame ==
    ASSUME NEW S, NEW f \in [S -> Nat], NEW g \in [S -> Nat],
           \A x \in S : f[x] = g[x]
    PROVE  Total(f) = Total(g)
  <1>1. f = g
    OBVIOUS
  <1> QED
    BY <1>1

(* The sum of two lengths is the sum of the totals.                        *)
LEMMA TotalSum ==
    ASSUME NEW S, IsFiniteSet(S),
           NEW f \in [S -> Nat], NEW g \in [S -> Nat], NEW h \in [S -> Nat],
           \A x \in S : h[x] = f[x] + g[x]
    PROVE  Total(h) = Total(f) + Total(g)
  <1> DEFINE P == Places(f)
             Q == Places(g)
             R == Places(h)
             shift == [p \in Q |-> <<p[1], f[p[1]] + p[2]>>]
  <1>1. IsFiniteSet(P) /\ IsFiniteSet(Q) /\ IsFiniteSet(R)
    BY PlacesFinite
  <1>2. \A p : p \in P <=> \E x \in S : \E i \in 1 .. f[x] : p = <<x, i>>
    BY PlaceOf
  <1>3. \A p : p \in Q <=> \E x \in S : \E i \in 1 .. g[x] : p = <<x, i>>
    BY PlaceOf
  <1>4. \A p : p \in R <=> \E x \in S : \E i \in 1 .. h[x] : p = <<x, i>>
    BY PlaceOf
  <1> HIDE DEF P, Q, R
  <1>5. P \subseteq R
    <2> SUFFICES ASSUME NEW p \in P PROVE p \in R
      OBVIOUS
    <2>1. PICK x \in S : \E i \in 1 .. f[x] : p = <<x, i>>
      BY <1>2
    <2>2. PICK i \in 1 .. f[x] : p = <<x, i>>
      BY <2>1
    <2>3. f[x] \in Nat /\ g[x] \in Nat /\ h[x] = f[x] + g[x]
      OBVIOUS
    <2>4. i \in 1 .. h[x]
      BY <2>3
    <2> QED
      BY <1>4, <2>2, <2>4
  <1>6. ASSUME NEW q \in Q
        PROVE  shift[q] \in R \ P /\ \E x \in S : \E i \in 1 .. g[x] :
                 q = <<x, i>> /\ shift[q] = <<x, f[x] + i>>
    <2>1. PICK x \in S : \E i \in 1 .. g[x] : q = <<x, i>>
      BY <1>3
    <2>2. PICK i \in 1 .. g[x] : q = <<x, i>>
      BY <2>1
    <2>3. shift[q] = <<x, f[x] + i>>
      BY <2>2
    <2>4. f[x] \in Nat /\ g[x] \in Nat /\ h[x] = f[x] + g[x]
      OBVIOUS
    <2>5. f[x] + i \in 1 .. h[x] /\ f[x] + i \notin 1 .. f[x]
      BY <2>4
    <2>6. shift[q] \in R
      BY <1>4, <2>3, <2>5
    <2>7. shift[q] \notin P
      BY <1>2, <2>3, <2>5
    <2> QED
      BY <2>2, <2>3, <2>6, <2>7
  <1>7. shift \in Bijection(Q, R \ P)
    <2>1. shift \in [Q -> R \ P]
      BY <1>6
    <2>2. ASSUME NEW a \in Q, NEW b \in Q, shift[a] = shift[b] PROVE a = b
      <3>1. PICK x \in S : \E i \in 1 .. g[x] : a = <<x, i>> /\ shift[a] = <<x, f[x] + i>>
        BY <1>6
      <3>2. PICK i \in 1 .. g[x] : a = <<x, i>> /\ shift[a] = <<x, f[x] + i>>
        BY <3>1
      <3>3. PICK y \in S : \E j \in 1 .. g[y] : b = <<y, j>> /\ shift[b] = <<y, f[y] + j>>
        BY <1>6
      <3>4. PICK j \in 1 .. g[y] : b = <<y, j>> /\ shift[b] = <<y, f[y] + j>>
        BY <3>3
      <3>5. x = y /\ f[x] + i = f[y] + j
        BY <2>2, <3>2, <3>4
      <3>6. f[x] \in Nat /\ i \in Int /\ j \in Int
        OBVIOUS
      <3>7. i = j
        BY <3>5, <3>6
      <3> QED
        BY <3>2, <3>4, <3>5, <3>7
    <2>3. ASSUME NEW r \in R \ P PROVE \E q \in Q : shift[q] = r
      <3>1. PICK x \in S : \E k \in 1 .. h[x] : r = <<x, k>>
        BY <1>4
      <3>2. PICK k \in 1 .. h[x] : r = <<x, k>>
        BY <3>1
      <3>3. f[x] \in Nat /\ g[x] \in Nat /\ h[x] = f[x] + g[x]
        OBVIOUS
      <3>4. k \notin 1 .. f[x]
        BY <1>2, <3>2
      <3>5. k - f[x] \in 1 .. g[x] /\ f[x] + (k - f[x]) = k
        BY <3>3, <3>4
      <3>6. <<x, k - f[x]>> \in Q
        BY <1>3, <3>5
      <3>7. shift[<<x, k - f[x]>>] = <<x, f[x] + (k - f[x])>>
        BY <3>6
      <3> QED
        BY <3>2, <3>5, <3>6, <3>7
    <2> HIDE DEF shift
    <2> QED
      BY <2>1, <2>2, <2>3, Fun_IsBij
  <1>8. ExistsBijection(Q, R \ P)
    BY <1>7 DEF ExistsBijection
  <1>9. Cardinality(R \ P) = Cardinality(Q)
    BY <1>1, <1>8, FS_Bijection
  <1>10. Cardinality(R \ P) = Cardinality(R) - Cardinality(R \cap P)
    BY <1>1, FS_Difference
  <1>11. R \cap P = P
    BY <1>5
  <1>12. Cardinality(R \ P) = Cardinality(R) - Cardinality(P)
    BY <1>10, <1>11, Zenon
  <1>13. Cardinality(P) \in Nat /\ Cardinality(Q) \in Nat /\ Cardinality(R) \in Nat
    BY <1>1, FS_CardinalityType
  <1>14. Cardinality(R) = Cardinality(P) + Cardinality(Q)
    BY <1>9, <1>12, <1>13
  <1> QED
    BY <1>14 DEF Total, P, Q, R

(* Frames in one queue only.                                               *)
LEMMA TotalOne ==
    ASSUME NEW S, NEW y \in S, NEW k \in Nat, NEW f \in [S -> Nat],
           \A x \in S : f[x] = IF x = y THEN k ELSE 0
    PROVE  Total(f) = k
  <1> DEFINE at == [i \in 1 .. k |-> <<y, i>>]
  <1>1. \A p : p \in Places(f) <=> \E i \in 1 .. k : p = <<y, i>>
    <2> SUFFICES ASSUME NEW p
                 PROVE  p \in Places(f) <=> \E i \in 1 .. k : p = <<y, i>>
      OBVIOUS
    <2>1. p \in Places(f) <=> \E x \in S : \E i \in 1 .. f[x] : p = <<x, i>>
      BY PlaceOf
    <2>2. \A x \in S : x # y => 1 .. f[x] = {}
      OBVIOUS
    <2>3. 1 .. f[y] = 1 .. k
      OBVIOUS
    <2> QED
      BY <2>1, <2>2, <2>3
  <1>2. at \in Bijection(1 .. k, Places(f))
    <2>1. at \in [1 .. k -> Places(f)]
      BY <1>1
    <2>2. \A a, b \in 1 .. k : at[a] = at[b] => a = b
      OBVIOUS
    <2>3. \A p \in Places(f) : \E i \in 1 .. k : at[i] = p
      BY <1>1
    <2> HIDE DEF at
    <2> QED
      BY <2>1, <2>2, <2>3, Fun_IsBij
  <1>3. ExistsBijection(1 .. k, Places(f))
    BY <1>2 DEF ExistsBijection
  <1> QED
    BY <1>3, FS_CountingElements DEF Total

(* One queue grows by k frames.                                            *)
LEMMA TotalGrows ==
    ASSUME NEW S, IsFiniteSet(S), NEW y \in S, NEW k \in Nat,
           NEW f \in [S -> Nat], NEW h \in [S -> Nat],
           \A x \in S : h[x] = IF x = y THEN f[x] + k ELSE f[x]
    PROVE  Total(h) = Total(f) + k
  <1> DEFINE g == [x \in S |-> IF x = y THEN k ELSE 0]
  <1>1. g \in [S -> Nat]
    OBVIOUS
  <1>2. \A x \in S : g[x] = IF x = y THEN k ELSE 0
    OBVIOUS
  <1>3. \A x \in S : h[x] = f[x] + g[x]
    OBVIOUS
  <1> HIDE DEF g
  <1>4. Total(g) = k
    BY <1>1, <1>2, TotalOne
  <1>5. Total(h) = Total(f) + Total(g)
    BY <1>1, <1>3, TotalSum
  <1> QED
    BY <1>4, <1>5

(* A queue is no longer than all of them.                                  *)
LEMMA TotalBounds ==
    ASSUME NEW S, IsFiniteSet(S), NEW f \in [S -> Nat], NEW y \in S
    PROVE  f[y] <= Total(f)
  <1> DEFINE g == [x \in S |-> IF x = y THEN 0 ELSE f[x]]
  <1>1. g \in [S -> Nat] /\ f[y] \in Nat
    OBVIOUS
  <1>2. \A x \in S : f[x] = IF x = y THEN g[x] + f[y] ELSE g[x]
    OBVIOUS
  <1> HIDE DEF g
  <1>3. Total(f) = Total(g) + f[y]
    BY <1>1, <1>2, TotalGrows
  <1>4. Total(g) \in Nat
    BY <1>1, PlacesFinite
  <1> QED
    BY <1>1, <1>3, <1>4

-----------------------------------------------------------------------------
(* The queues: pending, staQueue and accnt agree.                          *)

LEMMA ACFinite == IsFiniteSet(AC) /\ Inx[1] \in AC
  <1>1. /\ Inx \in Seq(AC) /\ Len(Inx) \in Nat /\ DOMAIN Inx = 1 .. Len(Inx)
        /\ Len(Inx) # 0
    BY InxAssumption DEF AC
  <1>2. Inx \in Surjection(1 .. Len(Inx), AC)
    <2>1. Inx \in [1 .. Len(Inx) -> AC]
      BY <1>1
    <2>2. \A a \in AC : \E i \in 1 .. Len(Inx) : Inx[i] = a
      BY <1>1 DEF AC, Range
    <2> QED
      BY <2>1, <2>2, Fun_IsSurj
  <1>3. IsFiniteSet(1 .. Len(Inx))
    <2>1. 1 \in Int /\ Len(Inx) \in Int
      BY <1>1
    <2> QED
      BY <2>1, FS_Interval
  <1>4. 1 \in DOMAIN Inx
    BY <1>1
  <1> QED
    BY <1>2, <1>3, <1>4, FS_Surjection DEF AC, Range

(* The queues of category q, station by station.                           *)
Column(q) == [s \in Sta |-> pending[s][q]]

QueueTypes == /\ pending \in [Sta -> [AC -> Nat]]
              /\ staQueue \in [AC -> Seq(Sta)]
              /\ accnt \in [AC -> Nat]

(* accnt counts the queued frames of all stations.                         *)
Counted == \A q \in AC : accnt[q] = Total(Column(q))

(* qcnt counts the packets of a queue.                                     *)
Held == /\ skbs \in [Sta -> [AC -> Seq(AC)]]
        /\ \A s \in Sta, q \in AC : pending[s][q] = Len(skbs[s][q])

QueueInv == QueueTypes /\ Counted /\ StationListed /\ Held

LEMMA ColumnType ==
    ASSUME QueueTypes, NEW q \in AC
    PROVE  Column(q) \in [Sta -> Nat] /\ \A s \in Sta : Column(q)[s] = pending[s][q]
  BY DEF QueueTypes, Column

LEMMA QueueBounds ==
    ASSUME QueueInv, NEW q \in AC, NEW s \in Sta
    PROVE  /\ pending[s][q] \in Nat
           /\ accnt[q] \in Nat
           /\ pending[s][q] <= accnt[q]
           /\ accnt[q] <= Total(accnt)
           /\ Total(accnt) \in Nat
  <1>1. QueueTypes /\ accnt[q] = Total(Column(q))
    BY DEF QueueInv, Counted
  <1>2. Column(q) \in [Sta -> Nat] /\ Column(q)[s] = pending[s][q]
    BY <1>1, ColumnType
  <1>3. Column(q)[s] <= Total(Column(q))
    BY <1>2, StaAssumption, TotalBounds
  <1>4. accnt \in [AC -> Nat] /\ IsFiniteSet(AC)
    BY <1>1, ACFinite DEF QueueTypes
  <1>5. accnt[q] <= Total(accnt) /\ Total(accnt) \in Nat
    BY <1>4, TotalBounds, PlacesFinite
  <1>6. pending[s][q] \in Nat /\ accnt[q] \in Nat
    BY <1>1 DEF QueueTypes
  <1> QED
    BY <1>1, <1>2, <1>3, <1>5, <1>6

(* k frames of s leave the queue of q.                                     *)
LEMMA TakeKeeps ==
    ASSUME QueueInv, NEW q \in AC, NEW s \in Sta, NEW k \in 0 .. pending[s][q],
           Take(q, s, k)
    PROVE  /\ QueueInv'
           /\ Total(accnt) = Total(accnt') + k
           /\ k <= accnt[q]
  <1>1. QueueTypes /\ Counted /\ StationListed
    BY DEF QueueInv
  <1>2. /\ pending[s][q] \in Nat /\ accnt[q] \in Nat /\ pending[s][q] <= accnt[q]
        /\ k \in Nat /\ k <= accnt[q]
    BY QueueBounds
  <1>3. /\ accnt' = [accnt EXCEPT ![q] = accnt[q] - k]
        /\ pending' = [pending EXCEPT ![s] = [pending[s] EXCEPT ![q] = pending[s][q] - k]]
        /\ staQueue' = [staQueue EXCEPT ![q] = IF pending[s][q] = k
                                                THEN rtw_list_delete(staQueue[q], s)
                                                ELSE staQueue[q]]
    BY <1>1 DEF Take, QueueTypes
  <1>4. /\ accnt' \in [AC -> Nat]
        /\ \A p \in AC : accnt[p] = IF p = q THEN accnt'[p] + k ELSE accnt'[p]
    BY <1>1, <1>2, <1>3 DEF QueueTypes
  <1>5. /\ pending' \in [Sta -> [AC -> Nat]]
        /\ \A t \in Sta, p \in AC :
             pending[t][p] = IF t = s /\ p = q THEN pending'[t][p] + k ELSE pending'[t][p]
    BY <1>1, <1>2, <1>3 DEF QueueTypes
  <1>6. /\ staQueue[q] \in Seq(Sta) /\ IsInjective(staQueue[q])
        /\ Range(staQueue[q]) = {t \in Sta : pending[t][q] > 0}
    BY <1>1 DEF StationListed, QueueTypes
  <1>7. /\ staQueue'[q] \in Seq(Sta) /\ IsInjective(staQueue'[q])
        /\ Range(staQueue'[q]) = {t \in Sta : pending'[t][q] > 0}
    <2>a. pending'[s][q] = pending[s][q] - k /\ pending'[s][q] \in Nat
      BY <1>1, <1>2, <1>3 DEF QueueTypes
    <2>b. \A t \in Sta : t # s => pending'[t][q] = pending[t][q]
      BY <1>5
    <2>1. CASE pending[s][q] = k
      <3>1. staQueue'[q] = rtw_list_delete(staQueue[q], s)
        BY <1>1, <1>3, <2>1 DEF QueueTypes
      <3>2. /\ staQueue'[q] \in Seq(Sta) /\ IsInjective(staQueue'[q])
            /\ Range(staQueue'[q]) = Range(staQueue[q]) \ {s}
        BY <1>6, <3>1, Delisted
      <3>3. ~ (pending'[s][q] > 0)
        BY <1>2, <2>a, <2>1
      <3>4. {t \in Sta : pending'[t][q] > 0} = {t \in Sta : pending[t][q] > 0} \ {s}
        BY <2>b, <3>3
      <3> QED
        BY <1>6, <3>2, <3>4
    <2>2. CASE pending[s][q] # k
      <3>1. staQueue'[q] = staQueue[q]
        BY <1>1, <1>3, <2>2 DEF QueueTypes
      <3>2. pending'[s][q] > 0 /\ pending[s][q] > 0
        BY <1>2, <2>a, <2>2
      <3>3. {t \in Sta : pending'[t][q] > 0} = {t \in Sta : pending[t][q] > 0}
        BY <2>b, <3>2
      <3> QED
        BY <1>6, <3>1, <3>3
    <2> QED
      BY <2>1, <2>2
  <1>8. ASSUME NEW p \in AC, p # q
        PROVE  /\ staQueue'[p] \in Seq(Sta) /\ IsInjective(staQueue'[p])
               /\ Range(staQueue'[p]) = {t \in Sta : pending'[t][p] > 0}
    <2>1. staQueue'[p] = staQueue[p]
      BY <1>1, <1>3, <1>8 DEF QueueTypes
    <2>2. \A t \in Sta : pending'[t][p] = pending[t][p]
      BY <1>5, <1>8
    <2>3. /\ staQueue[p] \in Seq(Sta) /\ IsInjective(staQueue[p])
          /\ Range(staQueue[p]) = {t \in Sta : pending[t][p] > 0}
      BY <1>1 DEF StationListed, QueueTypes
    <2> QED
      BY <2>1, <2>2, <2>3
  <1>9. StationListed'
    <2>1. \A p \in AC : /\ Range(staQueue'[p]) = {t \in Sta : pending'[t][p] > 0}
                        /\ IsInjective(staQueue'[p])
      BY <1>7, <1>8
    <2> QED
      BY <2>1 DEF StationListed
  <1>10. QueueTypes'
    <2>1. DOMAIN staQueue' = AC /\ staQueue' = [p \in AC |-> staQueue'[p]]
      BY <1>1, <1>3 DEF QueueTypes
    <2>2. \A p \in AC : staQueue'[p] \in Seq(Sta)
      BY <1>7, <1>8
    <2>3. staQueue' \in [AC -> Seq(Sta)]
      BY <2>1, <2>2
    <2> QED
      BY <1>4, <1>5, <2>3 DEF QueueTypes
  <1>11. ASSUME NEW p \in AC PROVE accnt'[p] = Total(Column(p)')
    <2> DEFINE f == Column(p)
               h == Column(p)'
    <2>1. f \in [Sta -> Nat] /\ \A t \in Sta : f[t] = pending[t][p]
      BY <1>1, ColumnType
    <2>2. h \in [Sta -> Nat] /\ \A t \in Sta : h[t] = pending'[t][p]
      BY <1>5 DEF Column
    <2>3. accnt[p] = Total(f)
      BY <1>1 DEF Counted
    <2> HIDE DEF f, h
    <2>4. CASE p = q
      <3>1. \A t \in Sta : f[t] = IF t = s THEN h[t] + k ELSE h[t]
        BY <1>5, <2>1, <2>2, <2>4
      <3>2. Total(f) = Total(h) + k
        <4>1. f \in [Sta -> Nat] /\ h \in [Sta -> Nat] /\ s \in Sta /\ k \in Nat
          BY <1>2, <2>1, <2>2
        <4> QED
          BY <3>1, <4>1, StaAssumption, TotalGrows
      <3>3. Total(h) \in Nat
        BY <2>2, StaAssumption, PlacesFinite
      <3>4. accnt[p] = accnt'[p] + k /\ accnt'[p] \in Nat
        BY <1>4, <2>4
      <3>5. accnt'[p] = Total(h)
        BY <1>2, <2>3, <3>2, <3>3, <3>4
      <3> QED
        BY <3>5 DEF h
    <2>5. CASE p # q
      <3>1. \A t \in Sta : f[t] = h[t]
        BY <1>5, <2>1, <2>2, <2>5
      <3>2. Total(f) = Total(h)
        BY <2>1, <2>2, <3>1, TotalSame
      <3>3. accnt[p] = accnt'[p]
        BY <1>4, <2>5
      <3> QED
        BY <2>3, <3>2, <3>3 DEF h
    <2> QED
      BY <2>4, <2>5
  <1>12. Counted'
    BY <1>11 DEF Counted
  <1>13. Total(accnt) = Total(accnt') + k
    <2>1. accnt \in [AC -> Nat]
      BY <1>1 DEF QueueTypes
    <2> QED
      BY <1>2, <1>4, <2>1, ACFinite, TotalGrows
  <1>14. Held'
    <2>1. /\ skbs \in [Sta -> [AC -> Seq(AC)]] /\ skbs[s][q] \in Seq(AC)
          /\ \A t \in Sta, p \in AC : pending[t][p] = Len(skbs[t][p])
      BY DEF QueueInv, Held
    <2>2. PICK u : u = SubSeq(skbs[s][q], k + 1, Len(skbs[s][q]))
      OBVIOUS
    <2>3. skbs' = [skbs EXCEPT ![s] = [skbs[s] EXCEPT ![q] = u]]
      BY <2>1, <2>2 DEF Take
    <2>4. u \in Seq(AC) /\ Len(u) = Len(skbs[s][q]) - k
      BY <1>2, <2>1, <2>2
    <2>5. skbs' \in [Sta -> [AC -> Seq(AC)]]
      BY <2>1, <2>3, <2>4
    <2>6. ASSUME NEW t \in Sta, NEW p \in AC PROVE pending'[t][p] = Len(skbs'[t][p])
      <3>1. CASE t = s /\ p = q
        <4>1. skbs'[t][p] = u
          BY <2>1, <2>3, <3>1
        <4>2. pending'[t][p] = pending[s][q] - k
          BY <1>1, <1>3, <3>1 DEF QueueTypes
        <4> QED
          BY <2>1, <2>4, <4>1, <4>2
      <3>2. CASE ~ (t = s /\ p = q)
        <4>1. skbs'[t][p] = skbs[t][p]
          BY <2>1, <2>3, <3>2
        <4>2. pending'[t][p] = pending[t][p]
          BY <1>5, <3>2
        <4> QED
          BY <2>1, <4>1, <4>2
      <3> QED
        BY <3>1, <3>2
    <2> QED
      BY <2>5, <2>6 DEF Held
  <1> QED
    BY <1>2, <1>9, <1>10, <1>12, <1>13, <1>14 DEF QueueInv

(* rtw_xmit_classifier queues a frame of s.                                *)
LEMMA ClassifierKeeps ==
    ASSUME QueueInv, NEW q \in AC, NEW s \in Sta, NEW i \in AC,
           rtw_xmit_classifier(q, s, i)
    PROVE  QueueInv' /\ Total(accnt') = Total(accnt) + 1
  <1>1. QueueTypes /\ Counted /\ StationListed /\ 1 \in Nat
    BY DEF QueueInv
  <1>2. pending[s][q] \in Nat /\ accnt[q] \in Nat
    BY QueueBounds
  <1>3. /\ accnt' = [accnt EXCEPT ![q] = accnt[q] + 1]
        /\ pending' = [pending EXCEPT ![s] = [pending[s] EXCEPT ![q] = pending[s][q] + 1]]
        /\ staQueue' = [staQueue EXCEPT ![q] = IF pending[s][q] = 0
                                                THEN Append(staQueue[q], s)
                                                ELSE staQueue[q]]
    BY <1>1 DEF rtw_xmit_classifier, QueueTypes
  <1>4. /\ accnt' \in [AC -> Nat]
        /\ \A p \in AC : accnt'[p] = IF p = q THEN accnt[p] + 1 ELSE accnt[p]
    BY <1>1, <1>2, <1>3 DEF QueueTypes
  <1>5. /\ pending' \in [Sta -> [AC -> Nat]]
        /\ \A t \in Sta, p \in AC :
             pending'[t][p] = IF t = s /\ p = q THEN pending[t][p] + 1 ELSE pending[t][p]
    BY <1>1, <1>2, <1>3 DEF QueueTypes
  <1>6. /\ staQueue[q] \in Seq(Sta) /\ IsInjective(staQueue[q])
        /\ Range(staQueue[q]) = {t \in Sta : pending[t][q] > 0}
    BY <1>1 DEF StationListed, QueueTypes
  <1>7. /\ staQueue'[q] \in Seq(Sta) /\ IsInjective(staQueue'[q])
        /\ Range(staQueue'[q]) = {t \in Sta : pending'[t][q] > 0}
    <2>1. pending'[s][q] = pending[s][q] + 1 /\ pending'[s][q] > 0
      BY <1>1, <1>2, <1>3 DEF QueueTypes
    <2>2. \A t \in Sta : t # s => pending'[t][q] = pending[t][q]
      BY <1>5
    <2>3. {t \in Sta : pending'[t][q] > 0} = {t \in Sta : pending[t][q] > 0} \cup {s}
      BY <2>1, <2>2
    <2>4. CASE pending[s][q] = 0
      <3>1. staQueue'[q] = Append(staQueue[q], s)
        BY <1>1, <1>3, <2>4 DEF QueueTypes
      <3>2. s \notin Range(staQueue[q])
        BY <1>6, <2>4
      <3>3. /\ staQueue'[q] \in Seq(Sta) /\ IsInjective(staQueue'[q])
            /\ Range(staQueue'[q]) = Range(staQueue[q]) \cup {s}
        BY <1>6, <3>1, <3>2, Enlisted
      <3> QED
        BY <1>6, <2>3, <3>3
    <2>5. CASE pending[s][q] # 0
      <3>1. staQueue'[q] = staQueue[q]
        BY <1>1, <1>3, <2>5 DEF QueueTypes
      <3>2. s \in {t \in Sta : pending[t][q] > 0}
        BY <1>2, <2>5
      <3> QED
        BY <1>6, <2>3, <3>1, <3>2
    <2> QED
      BY <2>4, <2>5
  <1>8. ASSUME NEW p \in AC, p # q
        PROVE  /\ staQueue'[p] \in Seq(Sta) /\ IsInjective(staQueue'[p])
               /\ Range(staQueue'[p]) = {t \in Sta : pending'[t][p] > 0}
    <2>1. staQueue'[p] = staQueue[p]
      BY <1>1, <1>3, <1>8 DEF QueueTypes
    <2>2. \A t \in Sta : pending'[t][p] = pending[t][p]
      BY <1>5, <1>8
    <2>3. /\ staQueue[p] \in Seq(Sta) /\ IsInjective(staQueue[p])
          /\ Range(staQueue[p]) = {t \in Sta : pending[t][p] > 0}
      BY <1>1 DEF StationListed, QueueTypes
    <2> QED
      BY <2>1, <2>2, <2>3
  <1>9. StationListed'
    <2>1. \A p \in AC : /\ Range(staQueue'[p]) = {t \in Sta : pending'[t][p] > 0}
                        /\ IsInjective(staQueue'[p])
      BY <1>7, <1>8
    <2> QED
      BY <2>1 DEF StationListed
  <1>10. QueueTypes'
    <2>1. DOMAIN staQueue' = AC /\ staQueue' = [p \in AC |-> staQueue'[p]]
      BY <1>1, <1>3 DEF QueueTypes
    <2>2. \A p \in AC : staQueue'[p] \in Seq(Sta)
      BY <1>7, <1>8
    <2>3. staQueue' \in [AC -> Seq(Sta)]
      BY <2>1, <2>2
    <2> QED
      BY <1>4, <1>5, <2>3 DEF QueueTypes
  <1>11. ASSUME NEW p \in AC PROVE accnt'[p] = Total(Column(p)')
    <2> DEFINE f == Column(p)
               h == Column(p)'
    <2>1. f \in [Sta -> Nat] /\ \A t \in Sta : f[t] = pending[t][p]
      BY <1>1, ColumnType
    <2>2. h \in [Sta -> Nat] /\ \A t \in Sta : h[t] = pending'[t][p]
      BY <1>5 DEF Column
    <2>3. accnt[p] = Total(f)
      BY <1>1 DEF Counted
    <2> HIDE DEF f, h
    <2>4. CASE p = q
      <3>1. \A t \in Sta : h[t] = IF t = s THEN f[t] + 1 ELSE f[t]
        BY <1>5, <2>1, <2>2, <2>4
      <3>2. Total(h) = Total(f) + 1
        <4>1. f \in [Sta -> Nat] /\ h \in [Sta -> Nat] /\ s \in Sta /\ 1 \in Nat
          BY <1>1, <2>1, <2>2
        <4> QED
          BY <3>1, <4>1, StaAssumption, TotalGrows
      <3>3. accnt'[p] = accnt[p] + 1
        BY <1>4, <2>4
      <3> QED
        BY <2>3, <3>2, <3>3 DEF h
    <2>5. CASE p # q
      <3>1. \A t \in Sta : f[t] = h[t]
        BY <1>5, <2>1, <2>2, <2>5
      <3>2. Total(f) = Total(h)
        BY <2>1, <2>2, <3>1, TotalSame
      <3>3. accnt[p] = accnt'[p]
        BY <1>4, <2>5
      <3> QED
        BY <2>3, <3>2, <3>3 DEF h
    <2> QED
      BY <2>4, <2>5
  <1>12. Counted'
    BY <1>11 DEF Counted
  <1>13. Total(accnt') = Total(accnt) + 1
    <2>1. accnt \in [AC -> Nat]
      BY <1>1 DEF QueueTypes
    <2> QED
      BY <1>1, <1>4, <2>1, ACFinite, TotalGrows
  <1>14. Held'
    <2>1. /\ skbs \in [Sta -> [AC -> Seq(AC)]] /\ skbs[s][q] \in Seq(AC)
          /\ \A t \in Sta, p \in AC : pending[t][p] = Len(skbs[t][p])
      BY DEF QueueInv, Held
    <2>2. PICK u : u = Append(skbs[s][q], i)
      OBVIOUS
    <2>3. skbs' = [skbs EXCEPT ![s] = [skbs[s] EXCEPT ![q] = u]]
      BY <2>1, <2>2 DEF rtw_xmit_classifier
    <2>4. u \in Seq(AC) /\ Len(u) = Len(skbs[s][q]) + 1
      BY <2>1, <2>2
    <2>5. skbs' \in [Sta -> [AC -> Seq(AC)]]
      BY <2>1, <2>3, <2>4
    <2>6. ASSUME NEW t \in Sta, NEW p \in AC PROVE pending'[t][p] = Len(skbs'[t][p])
      <3>1. CASE t = s /\ p = q
        <4>1. skbs'[t][p] = u
          BY <2>1, <2>3, <3>1
        <4>2. pending'[t][p] = pending[s][q] + 1
          BY <1>5, <3>1
        <4> QED
          BY <2>1, <2>4, <4>1, <4>2
      <3>2. CASE ~ (t = s /\ p = q)
        <4>1. skbs'[t][p] = skbs[t][p]
          BY <2>1, <2>3, <3>2
        <4>2. pending'[t][p] = pending[t][p]
          BY <1>5, <3>2
        <4> QED
          BY <2>1, <4>1, <4>2
      <3> QED
        BY <3>1, <3>2
    <2> QED
      BY <2>5, <2>6 DEF Held
  <1> QED
    BY <1>9, <1>10, <1>12, <1>13, <1>14 DEF QueueInv

(* The queues of a station that leaves are emptied.                        *)
LEMMA FreeStaKeeps ==
    ASSUME QueueInv, NEW s \in Sta, rtw_free_stainfo(s)
    PROVE  /\ QueueInv'
           /\ Total(accnt) = Total(accnt') + Total(pending[s])
           /\ Total(pending[s]) \in Nat
  <1>1. QueueTypes /\ Counted /\ StationListed
    BY DEF QueueInv
  <1>2. \A p \in AC : /\ pending[s][p] \in Nat /\ accnt[p] \in Nat
                      /\ pending[s][p] <= accnt[p]
    BY QueueBounds
  <1>3. /\ accnt' = [p \in AC |-> accnt[p] - pending[s][p]]
        /\ pending' = [pending EXCEPT ![s] = [p \in AC |-> 0]]
        /\ staQueue' = [p \in AC |-> rtw_list_delete(staQueue[p], s)]
    BY DEF rtw_free_stainfo
  <1>4. /\ accnt' \in [AC -> Nat]
        /\ \A p \in AC : accnt[p] = accnt'[p] + pending[s][p]
    BY <1>2, <1>3
  <1>5. /\ pending' \in [Sta -> [AC -> Nat]]
        /\ \A t \in Sta, p \in AC : pending'[t][p] = IF t = s THEN 0 ELSE pending[t][p]
    BY <1>1, <1>3 DEF QueueTypes
  <1>6. ASSUME NEW p \in AC
        PROVE  /\ staQueue'[p] \in Seq(Sta) /\ IsInjective(staQueue'[p])
               /\ Range(staQueue'[p]) = {t \in Sta : pending'[t][p] > 0}
    <2>1. /\ staQueue[p] \in Seq(Sta) /\ IsInjective(staQueue[p])
          /\ Range(staQueue[p]) = {t \in Sta : pending[t][p] > 0}
      BY <1>1 DEF StationListed, QueueTypes
    <2>2. staQueue'[p] = rtw_list_delete(staQueue[p], s)
      BY <1>3
    <2>3. /\ staQueue'[p] \in Seq(Sta) /\ IsInjective(staQueue'[p])
          /\ Range(staQueue'[p]) = Range(staQueue[p]) \ {s}
      BY <2>1, <2>2, Delisted
    <2>4. {t \in Sta : pending'[t][p] > 0} = {t \in Sta : pending[t][p] > 0} \ {s}
      BY <1>5
    <2> QED
      BY <2>1, <2>3, <2>4
  <1>7. StationListed'
    <2>1. \A p \in AC : /\ Range(staQueue'[p]) = {t \in Sta : pending'[t][p] > 0}
                        /\ IsInjective(staQueue'[p])
      BY <1>6
    <2> QED
      BY <2>1 DEF StationListed
  <1>8. QueueTypes'
    <2>1. staQueue' = [p \in AC |-> staQueue'[p]]
      BY <1>3
    <2>2. staQueue' \in [AC -> Seq(Sta)]
      BY <1>6, <2>1
    <2> QED
      BY <1>4, <1>5, <2>2 DEF QueueTypes
  <1>9. ASSUME NEW p \in AC PROVE accnt'[p] = Total(Column(p)')
    <2> DEFINE f == Column(p)
               h == Column(p)'
    <2>1. f \in [Sta -> Nat] /\ \A t \in Sta : f[t] = pending[t][p]
      BY <1>1, ColumnType
    <2>2. h \in [Sta -> Nat] /\ \A t \in Sta : h[t] = pending'[t][p]
      BY <1>5 DEF Column
    <2>3. accnt[p] = Total(f)
      BY <1>1, <1>2 DEF Counted
    <2>0. PICK k \in Nat : k = pending[s][p]
      BY <1>2
    <2>4. \A t \in Sta : f[t] = IF t = s THEN h[t] + k ELSE h[t]
      BY <1>5, <2>0, <2>1, <2>2
    <2>5. accnt[p] = accnt'[p] + k /\ accnt'[p] \in Nat
      BY <1>4, <2>0
    <2> HIDE DEF f, h
    <2>6. Total(f) = Total(h) + k
      <3>1. f \in [Sta -> Nat] /\ h \in [Sta -> Nat]
        BY <2>1, <2>2
      <3> QED
        BY <2>4, <3>1, StaAssumption, TotalGrows
    <2>7. Total(h) \in Nat
      BY <2>2, StaAssumption, PlacesFinite
    <2>8. accnt'[p] = Total(h)
      <3>1. Total(h) + k = accnt'[p] + k
        BY <2>3, <2>5, <2>6, Zenon
      <3>2. Total(h) \in Int /\ accnt'[p] \in Int /\ k \in Int
        BY <2>5, <2>7
      <3>3. \A a, b, c \in Int : a + c = b + c => a = b
        OBVIOUS
      <3> QED
        BY <3>1, <3>2, <3>3, Zenon
    <2> QED
      BY <2>8 DEF h
  <1>10. Counted'
    BY <1>9 DEF Counted
  <1>11. accnt \in [AC -> Nat] /\ pending[s] \in [AC -> Nat]
    BY <1>1 DEF QueueTypes
  <1>12. Total(accnt) = Total(accnt') + Total(pending[s])
    BY <1>4, <1>11, ACFinite, TotalSum
  <1>13. Total(pending[s]) \in Nat
    BY <1>11, ACFinite, PlacesFinite
  <1>14. Held'
    <2>1. /\ skbs \in [Sta -> [AC -> Seq(AC)]]
          /\ \A t \in Sta, p \in AC : pending[t][p] = Len(skbs[t][p])
      BY DEF QueueInv, Held
    <2>2. skbs' = [skbs EXCEPT ![s] = [p \in AC |-> <<>>]]
      BY DEF rtw_free_stainfo
    <2>3. <<>> \in Seq(AC) /\ Len(<<>>) = 0
      OBVIOUS
    <2>4. skbs' \in [Sta -> [AC -> Seq(AC)]]
      BY <2>1, <2>2, <2>3
    <2>5. \A t \in Sta, p \in AC : skbs'[t][p] = IF t = s THEN <<>> ELSE skbs[t][p]
      BY <2>1, <2>2
    <2>6. \A t \in Sta, p \in AC : pending'[t][p] = Len(skbs'[t][p])
      BY <1>5, <2>1, <2>3, <2>5
    <2> QED
      BY <2>4, <2>6 DEF Held
  <1> QED
    BY <1>7, <1>8, <1>10, <1>12, <1>13, <1>14 DEF QueueInv

(* A step that leaves the queues alone.                                    *)
LEMMA QueuesSame ==
    ASSUME QueueInv, UNCHANGED queues
    PROVE  QueueInv' /\ Total(accnt') = Total(accnt)
  <1>1. pending' = pending /\ staQueue' = staQueue /\ accnt' = accnt /\ skbs' = skbs
    BY DEF queues
  <1>2. \A q \in AC : Column(q)' = Column(q)
    BY <1>1 DEF Column
  <1>3. QueueTypes'
    BY <1>1 DEF QueueInv, QueueTypes
  <1>4. Counted'
    BY <1>1, <1>2 DEF QueueInv, Counted
  <1>5. StationListed'
    BY <1>1 DEF QueueInv, StationListed
  <1>6. Held'
    BY <1>1 DEF QueueInv, Held
  <1> QED
    BY <1>1, <1>3, <1>4, <1>5, <1>6 DEF QueueInv

-----------------------------------------------------------------------------
(* The pools.                                                              *)

SenderState == [pc : SenderSteps, sta : Sta \cup {NoSta}, ac : AC]
TaskletState == [sched : BOOLEAN, pc : TaskletSteps, ac : AC, sta : Sta \cup {NoSta},
                 skb : AC \cup {NoSta}]

(* What the proofs about the pools need of the types.                      *)
PoolTypes == /\ frames \in Nat
             /\ bufs \in Nat
             /\ inflight \in Nat
             /\ sender \in [AC -> SenderState]
             /\ tasklet \in TaskletState

(* A sender and the tasklet know the station of the frame they hold.       *)
StationKnown == /\ \A q \in AC : sender[q].pc # "idle" => sender[q].sta \in Sta
                /\ tasklet.pc \in FrameSteps => tasklet.sta \in Sta

FramesBalanced == NrXmitFrame = frames + Total(accnt)
                                + Senders(HoldsFrame) + Holds(FrameSteps)

BufsBalanced == NrXmitBuff = bufs + inflight + Senders({"direct"}) + Holds(BufSteps)

PoolInv == /\ QueueInv /\ PoolTypes /\ StationKnown
           /\ FramesBalanced /\ BufsBalanced

(* One if a step is among those counted.                                   *)
In(pc, pcs) == IF pc \in pcs THEN 1 ELSE 0

LEMMA InType == \A pc, pcs : In(pc, pcs) \in Nat
  BY DEF In

LEMMA SendersType == ASSUME NEW pcs PROVE Senders(pcs) \in Nat
  <1>1. IsFiniteSet({q \in AC : sender[q].pc \in pcs})
    BY ACFinite, FS_Subset
  <1> QED
    BY <1>1, FS_CardinalityType DEF Senders

(* A sender goes from one step to another.                                 *)
LEMMA SenderMoves ==
    ASSUME PoolTypes, NEW q \in AC, NEW r \in SenderState,
           sender' = [sender EXCEPT ![q] = r], NEW pcs
    PROVE  /\ Senders(pcs)' + In(sender[q].pc, pcs) = Senders(pcs) + In(r.pc, pcs)
           /\ Senders(pcs)' \in Nat
  <1> DEFINE A == {p \in AC : sender[p].pc \in pcs}
             B == {p \in AC : sender'[p].pc \in pcs}
             C == A \ {q}
  <1>1. sender \in [AC -> SenderState]
    BY DEF PoolTypes
  <1>2. sender'[q] = r /\ \A p \in AC : p # q => sender'[p] = sender[p]
    BY <1>1
  <1>3. IsFiniteSet(A) /\ IsFiniteSet(B)
    BY ACFinite, FS_Subset
  <1>4. C = B \ {q} /\ q \notin C
    BY <1>2
  <1>5. A = IF sender[q].pc \in pcs THEN C \cup {q} ELSE C
    OBVIOUS
  <1>6. B = IF r.pc \in pcs THEN C \cup {q} ELSE C
    BY <1>2
  <1> HIDE DEF A, B, C
  <1>7. IsFiniteSet(C)
    <2>1. IsFiniteSet(A \ {q})
      BY <1>3, FS_RemoveElement
    <2> QED
      BY <2>1 DEF C
  <1>8. Cardinality(C \cup {q}) = Cardinality(C) + 1 /\ Cardinality(C) \in Nat
    BY <1>4, <1>7, FS_AddElement, FS_CardinalityType
  <1>9. Cardinality(A) = Cardinality(C) + In(sender[q].pc, pcs)
    BY <1>5, <1>8 DEF In
  <1>10. Cardinality(B) = Cardinality(C) + In(r.pc, pcs)
    BY <1>6, <1>8 DEF In
  <1>11. Senders(pcs) = Cardinality(A) /\ Senders(pcs)' = Cardinality(B)
    BY DEF Senders, A, B
  <1>12. In(sender[q].pc, pcs) \in Nat /\ In(r.pc, pcs) \in Nat
    BY InType
  <1>13. Cardinality(B) \in Nat
    BY <1>3, FS_CardinalityType
  <1> QED
    BY <1>8, <1>9, <1>10, <1>11, <1>12, <1>13

(* A step that leaves the senders alone.                                   *)
LEMMA SendersSame ==
    ASSUME UNCHANGED sender, NEW pcs
    PROVE  Senders(pcs)' = Senders(pcs) /\ Senders(pcs) \in Nat
  BY SendersType DEF Senders

LEMMA HoldsType ==
    ASSUME NEW pcs
    PROVE  Holds(pcs) \in 0 .. 1 /\ Holds(pcs)' \in 0 .. 1
  BY DEF Holds

(* The accounts of a step of the sender of q.                              *)
LEMMA SenderKeeps ==
    ASSUME PoolInv, NEW q \in AC, NEW r \in SenderState,
           sender' = [sender EXCEPT ![q] = r], r.pc # "idle" => r.sta \in Sta,
           UNCHANGED tasklet, QueueInv',
           frames' \in Nat, bufs' \in Nat, inflight' \in Nat,
           frames' + Total(accnt') + In(r.pc, HoldsFrame)
             = frames + Total(accnt) + In(sender[q].pc, HoldsFrame),
           bufs' + inflight' + In(r.pc, {"direct"})
             = bufs + inflight + In(sender[q].pc, {"direct"})
    PROVE  PoolInv'
  <1>1. QueueInv /\ PoolTypes /\ StationKnown /\ FramesBalanced /\ BufsBalanced
    BY DEF PoolInv
  <1>2. PoolTypes'
    BY <1>1 DEF PoolTypes
  <1>3. StationKnown'
    <2>1. \A p \in AC : sender'[p].pc # "idle" => sender'[p].sta \in Sta
      BY <1>1 DEF PoolTypes, StationKnown
    <2> QED
      BY <1>1, <2>1 DEF StationKnown
  <1>4. Holds(FrameSteps)' = Holds(FrameSteps) /\ Holds(BufSteps)' = Holds(BufSteps)
    BY DEF Holds
  <1>5. Holds(FrameSteps) \in Int /\ Holds(BufSteps) \in Int
    BY HoldsType
  <1>6. Total(accnt) \in Int /\ Total(accnt') \in Int
    <2>1. accnt \in [AC -> Nat] /\ accnt' \in [AC -> Nat]
      BY <1>1 DEF QueueInv, QueueTypes
    <2>2. Total(accnt) \in Nat
      BY <2>1, ACFinite, PlacesFinite
    <2>3. Total(accnt') \in Nat
      BY <2>1, ACFinite, PlacesFinite
    <2> QED
      BY <2>2, <2>3
  <1>7. FramesBalanced'
    <2>1. /\ Senders(HoldsFrame)' + In(sender[q].pc, HoldsFrame)
               = Senders(HoldsFrame) + In(r.pc, HoldsFrame)
          /\ Senders(HoldsFrame)' \in Nat
      BY <1>1, SenderMoves, Zenon
    <2>2. /\ Senders(HoldsFrame) \in Int
          /\ In(sender[q].pc, HoldsFrame) \in Int /\ In(r.pc, HoldsFrame) \in Int
      BY SendersType, InType
    <2>3. frames \in Int /\ frames' \in Int
      BY <1>1 DEF PoolTypes
    <2>4. NrXmitFrame = frames + Total(accnt) + Senders(HoldsFrame) + Holds(FrameSteps)
      BY <1>1 DEF FramesBalanced
    <2>5. NrXmitFrame = frames' + Total(accnt') + Senders(HoldsFrame)' + Holds(FrameSteps)
      BY <1>5, <1>6, <2>1, <2>2, <2>3, <2>4
    <2> QED
      BY <1>4, <2>5 DEF FramesBalanced
  <1>8. BufsBalanced'
    <2> DEFINE D == {"direct"}
    <2>1. /\ Senders(D)' + In(sender[q].pc, D) = Senders(D) + In(r.pc, D)
          /\ Senders(D)' \in Nat
      BY <1>1, SenderMoves, Zenon
    <2>2. /\ Senders(D) \in Int
          /\ In(sender[q].pc, D) \in Int /\ In(r.pc, D) \in Int
      BY SendersType, InType
    <2>3. bufs \in Int /\ bufs' \in Int /\ inflight \in Int /\ inflight' \in Int
      BY <1>1 DEF PoolTypes
    <2>4. NrXmitBuff = bufs + inflight + Senders(D) + Holds(BufSteps)
      BY <1>1 DEF BufsBalanced
    <2>5. bufs' + inflight' + In(r.pc, D) = bufs + inflight + In(sender[q].pc, D)
      OBVIOUS
    <2>6. BufsBalanced' <=> NrXmitBuff = bufs' + inflight' + Senders(D)' + Holds(BufSteps)'
      BY DEF BufsBalanced
    <2> HIDE DEF D
    <2>7. NrXmitBuff = bufs' + inflight' + Senders(D)' + Holds(BufSteps)
      BY <1>5, <2>1, <2>2, <2>3, <2>4, <2>5
    <2> QED
      BY <1>4, <2>6, <2>7
  <1> QED
    BY <1>2, <1>3, <1>7, <1>8 DEF PoolInv

(* The accounts of every other step.                                       *)
LEMMA TaskletKeeps ==
    ASSUME PoolInv, UNCHANGED sender,
           tasklet' \in TaskletState, tasklet'.pc \in FrameSteps => tasklet'.sta \in Sta,
           QueueInv', frames' \in Nat, bufs' \in Nat, inflight' \in Nat,
           frames' + Total(accnt') + In(tasklet'.pc, FrameSteps)
             = frames + Total(accnt) + In(tasklet.pc, FrameSteps),
           bufs' + inflight' + In(tasklet'.pc, BufSteps)
             = bufs + inflight + In(tasklet.pc, BufSteps)
    PROVE  PoolInv'
  <1>1. QueueInv /\ PoolTypes /\ StationKnown /\ FramesBalanced /\ BufsBalanced
    BY DEF PoolInv
  <1>2. PoolTypes'
    BY <1>1 DEF PoolTypes
  <1>3. StationKnown'
    BY <1>1 DEF StationKnown
  <1>4. /\ Holds(FrameSteps) = In(tasklet.pc, FrameSteps)
        /\ Holds(FrameSteps)' = In(tasklet'.pc, FrameSteps)
        /\ Holds(BufSteps) = In(tasklet.pc, BufSteps)
        /\ Holds(BufSteps)' = In(tasklet'.pc, BufSteps)
    BY DEF Holds, In
  <1>5. /\ Holds(FrameSteps) \in Int /\ Holds(FrameSteps)' \in Int
        /\ Holds(BufSteps) \in Int /\ Holds(BufSteps)' \in Int
    BY HoldsType
  <1>6. Total(accnt) \in Int /\ Total(accnt') \in Int
    <2>1. accnt \in [AC -> Nat] /\ accnt' \in [AC -> Nat]
      BY <1>1 DEF QueueInv, QueueTypes
    <2>2. Total(accnt) \in Nat
      BY <2>1, ACFinite, PlacesFinite
    <2>3. Total(accnt') \in Nat
      BY <2>1, ACFinite, PlacesFinite
    <2> QED
      BY <2>2, <2>3
  <1>7. FramesBalanced'
    <2>1. Senders(HoldsFrame)' = Senders(HoldsFrame) /\ Senders(HoldsFrame) \in Int
      BY SendersSame
    <2>2. frames \in Int /\ frames' \in Int
      BY <1>1 DEF PoolTypes
    <2>3. NrXmitFrame = frames + Total(accnt) + Senders(HoldsFrame) + Holds(FrameSteps)
      BY <1>1 DEF FramesBalanced
    <2>4. frames' + Total(accnt') + Holds(FrameSteps)'
            = frames + Total(accnt) + Holds(FrameSteps)
      BY <1>4
    <2>5. NrXmitFrame = frames' + Total(accnt') + Senders(HoldsFrame) + Holds(FrameSteps)'
      <3> DEFINE T == Total(accnt)
                 U == Total(accnt')
                 G == Senders(HoldsFrame)
                 H == Holds(FrameSteps)
                 J == Holds(FrameSteps)'
      <3>1. T \in Int /\ U \in Int /\ G \in Int /\ H \in Int /\ J \in Int
        BY <1>5, <1>6, <2>1
      <3>2. NrXmitFrame = frames + T + G + H /\ frames' + U + J = frames + T + H
        BY <2>3, <2>4
      <3> HIDE DEF T, U, G, H, J
      <3>3. NrXmitFrame = frames' + U + G + J
        BY <2>2, <3>1, <3>2
      <3> QED
        BY <3>3 DEF U, G, J
    <2> QED
      BY <2>1, <2>5 DEF FramesBalanced
  <1>8. BufsBalanced'
    <2> DEFINE D == {"direct"}
    <2>1. Senders(D)' = Senders(D) /\ Senders(D) \in Int
      BY SendersSame
    <2>2. bufs \in Int /\ bufs' \in Int /\ inflight \in Int /\ inflight' \in Int
      BY <1>1 DEF PoolTypes
    <2>3. NrXmitBuff = bufs + inflight + Senders(D) + Holds(BufSteps)
      BY <1>1 DEF BufsBalanced
    <2>4. bufs' + inflight' + Holds(BufSteps)' = bufs + inflight + Holds(BufSteps)
      BY <1>4
    <2>5. BufsBalanced' <=> NrXmitBuff = bufs' + inflight' + Senders(D)' + Holds(BufSteps)'
      BY DEF BufsBalanced
    <2> HIDE DEF D
    <2>6. NrXmitBuff = bufs' + inflight' + Senders(D) + Holds(BufSteps)'
      BY <1>5, <2>1, <2>2, <2>3, <2>4
    <2> QED
      BY <2>1, <2>5, <2>6
  <1> QED
    BY <1>2, <1>3, <1>7, <1>8 DEF PoolInv

-----------------------------------------------------------------------------
(* The sender keeps the pools.                                             *)

(* Goto and Return as assignments of a whole sender.                       *)
LEMMA GotoSets ==
    ASSUME PoolTypes, StationKnown, NEW q \in AC, NEW pc \in SenderSteps, NEW a \in AC,
           Goto(q, pc) \/ sender' = [sender EXCEPT ![q].pc = pc, ![q].ac = a],
           sender[q].pc # "idle"
    PROVE  \E r \in SenderState : /\ sender' = [sender EXCEPT ![q] = r]
                                  /\ r.pc = pc /\ r.sta \in Sta
  <1>1. sender \in [AC -> SenderState] /\ sender[q] \in SenderState
    BY DEF PoolTypes
  <1>2. CASE Goto(q, pc)
    <2> DEFINE r == [pc |-> pc, sta |-> sender[q].sta, ac |-> sender[q].ac]
    <2>1. r \in SenderState /\ r.sta \in Sta
      BY <1>1 DEF SenderState, StationKnown
    <2>2. [sender[q] EXCEPT !.pc = pc] = r
      BY <1>1 DEF SenderState
    <2>3. sender' = [sender EXCEPT ![q] = r]
      BY <1>1, <1>2, <2>2 DEF Goto
    <2> QED
      BY <2>1, <2>3
  <1>3. CASE sender' = [sender EXCEPT ![q].pc = pc, ![q].ac = a]
    <2> DEFINE r == [pc |-> pc, sta |-> sender[q].sta, ac |-> a]
    <2>1. r \in SenderState /\ r.sta \in Sta
      BY <1>1 DEF SenderState, StationKnown
    <2>2. [[sender[q] EXCEPT !.pc = pc] EXCEPT !.ac = a] = r
      <3>1. PICK o : o = [pc |-> pc, sta |-> sender[q].sta, ac |-> sender[q].ac]
        OBVIOUS
      <3>2. [sender[q] EXCEPT !.pc = pc] = o
        BY <1>1, <3>1 DEF SenderState
      <3>3. [o EXCEPT !.ac = a] = r
        BY <3>1
      <3> QED
        BY <3>2, <3>3
    <2>3. sender' = [sender EXCEPT ![q] = r]
      BY <1>1, <1>3, <2>2
    <2> QED
      BY <2>1, <2>3
  <1> QED
    BY <1>2, <1>3

LEMMA ReturnSets ==
    ASSUME NEW q \in AC, Return(q)
    PROVE  \E r \in SenderState : sender' = [sender EXCEPT ![q] = r] /\ r.pc = "idle"
  <1>1. [pc |-> "idle", sta |-> NoSta, ac |-> q] \in SenderState
    BY DEF SenderState, SenderSteps
  <1> QED
    BY <1>1 DEF Return

(* The steps that hold a frame or a buffer.                                *)
LEMMA SenderHoldings ==
    /\ In("idle", HoldsFrame) = 0 /\ In("alloc", HoldsFrame) = 0
    /\ In("pre", HoldsFrame) = 1 /\ In("direct", HoldsFrame) = 1
    /\ In("free", HoldsFrame) = 1
    /\ In("idle", {"direct"}) = 0 /\ In("alloc", {"direct"}) = 0
    /\ In("pre", {"direct"}) = 0 /\ In("direct", {"direct"}) = 1
    /\ In("free", {"direct"}) = 0
  BY DEF In, HoldsFrame

LEMMA EntryKeeps ==
    ASSUME PoolInv, NEW q \in AC, NEW s \in Sta, _rtw_xmit_entry(q, s)
    PROVE  PoolInv'
  <1>1. /\ QueueInv /\ PoolTypes /\ sender[q].pc = "idle"
        /\ UNCHANGED <<frames, bufs, inflight, tasklet>> /\ UNCHANGED queues
    BY DEF PoolInv, _rtw_xmit_entry, pools, NoSchedule
  <1>2. QueueInv' /\ Total(accnt') = Total(accnt)
    BY <1>1, QueuesSame
  <1>3. \E r \in SenderState : /\ sender' = [sender EXCEPT ![q] = r]
                               /\ r.pc \in {"idle", "alloc"}
                               /\ r.pc # "idle" => r.sta \in Sta
    <2>1. CASE cannotTx
      <3>1. sender' = sender /\ sender \in [AC -> SenderState]
        BY <1>1, <2>1 DEF _rtw_xmit_entry, PoolTypes
      <3>2. sender' = [sender EXCEPT ![q] = sender[q]] /\ sender[q] \in SenderState
        BY <3>1
      <3> QED
        BY <1>1, <3>2
    <2>2. CASE ~cannotTx
      <3>1. sender' = [sender EXCEPT ![q] = [pc |-> "alloc", sta |-> s, ac |-> q]]
        BY <2>2 DEF _rtw_xmit_entry
      <3>2. [pc |-> "alloc", sta |-> s, ac |-> q] \in SenderState
        BY DEF SenderState, SenderSteps
      <3> QED
        BY <3>1, <3>2
    <2> QED
      BY <2>1, <2>2
  <1>4. PICK r \in SenderState : /\ sender' = [sender EXCEPT ![q] = r]
                                 /\ r.pc \in {"idle", "alloc"}
                                 /\ r.pc # "idle" => r.sta \in Sta
    BY <1>3
  <1>5. In(r.pc, HoldsFrame) = 0 /\ In(r.pc, {"direct"}) = 0
    BY <1>4, SenderHoldings
  <1>6. In(sender[q].pc, HoldsFrame) = 0 /\ In(sender[q].pc, {"direct"}) = 0
    BY <1>1, SenderHoldings
  <1>7. frames' \in Nat /\ bufs' \in Nat /\ inflight' \in Nat
    BY <1>1 DEF PoolTypes
  <1>8. /\ frames' + Total(accnt') + In(r.pc, HoldsFrame)
             = frames + Total(accnt) + In(sender[q].pc, HoldsFrame)
        /\ bufs' + inflight' + In(r.pc, {"direct"})
             = bufs + inflight + In(sender[q].pc, {"direct"})
    BY <1>1, <1>2, <1>5, <1>6
  <1> QED
    BY <1>1, <1>2, <1>4, <1>7, <1>8, SenderKeeps

LEMMA rtw_xmitKeeps ==
    ASSUME PoolInv, NEW q \in AC, rtw_xmit(q)
    PROVE  PoolInv'
  <1>1. /\ QueueInv /\ PoolTypes /\ StationKnown /\ sender[q].pc = "alloc"
        /\ UNCHANGED <<bufs, inflight, tasklet>> /\ UNCHANGED queues
    BY DEF PoolInv, rtw_xmit, NoSchedule
  <1>2. QueueInv' /\ Total(accnt') = Total(accnt) /\ Total(accnt) \in Nat
    <2>1. accnt \in [AC -> Nat]
      BY <1>1 DEF QueueInv, QueueTypes
    <2> QED
      BY <1>1, <2>1, QueuesSame, ACFinite, PlacesFinite
  <1>3. In(sender[q].pc, HoldsFrame) = 0 /\ In(sender[q].pc, {"direct"}) = 0
    BY <1>1, SenderHoldings
  <1>4. frames \in Nat /\ bufs' \in Nat /\ inflight' \in Nat
    BY <1>1 DEF PoolTypes
  <1>5. CASE /\ frames > 0 /\ frames' = frames - 1
             /\ \E a \in Classes[q] : sender' = [sender EXCEPT ![q].pc = "pre", ![q].ac = a]
    <2>a. PICK a \in Classes[q] : sender' = [sender EXCEPT ![q].pc = "pre", ![q].ac = a]
      BY <1>5
    <2>0. "pre" \in SenderSteps /\ sender[q].pc # "idle" /\ a \in AC
      BY <1>1, InxAssumption DEF SenderSteps, AC
    <2>1. PICK r \in SenderState : /\ sender' = [sender EXCEPT ![q] = r]
                                   /\ r.pc = "pre" /\ r.sta \in Sta
      BY <1>1, <2>a, <2>0, GotoSets
    <2>2. In(r.pc, HoldsFrame) = 1 /\ In(r.pc, {"direct"}) = 0
      BY <2>1, SenderHoldings
    <2>3. frames' \in Nat
      BY <1>4, <1>5
    <2>4. /\ frames' + Total(accnt') + In(r.pc, HoldsFrame)
               = frames + Total(accnt) + In(sender[q].pc, HoldsFrame)
          /\ bufs' + inflight' + In(r.pc, {"direct"})
               = bufs + inflight + In(sender[q].pc, {"direct"})
      BY <1>1, <1>2, <1>3, <1>4, <1>5, <2>2
    <2> QED
      BY <1>1, <1>2, <1>4, <2>1, <2>3, <2>4, SenderKeeps
  <1>6. CASE Return(q) /\ UNCHANGED frames
    <2>1. PICK r \in SenderState : sender' = [sender EXCEPT ![q] = r] /\ r.pc = "idle"
      BY <1>6, ReturnSets
    <2>2. In(r.pc, HoldsFrame) = 0 /\ In(r.pc, {"direct"}) = 0
      BY <2>1, SenderHoldings
    <2>3. /\ frames' + Total(accnt') + In(r.pc, HoldsFrame)
               = frames + Total(accnt) + In(sender[q].pc, HoldsFrame)
          /\ bufs' + inflight' + In(r.pc, {"direct"})
               = bufs + inflight + In(sender[q].pc, {"direct"})
          /\ frames' \in Nat
      BY <1>1, <1>2, <1>3, <1>4, <1>6, <2>2
    <2> QED
      BY <1>1, <1>2, <1>4, <2>1, <2>3, SenderKeeps
  <1> QED
    BY <1>5, <1>6 DEF rtw_xmit

LEMMA pre_xmitframeKeeps ==
    ASSUME PoolInv, NEW q \in AC, pre_xmitframe(q)
    PROVE  PoolInv'
  <1>1. /\ QueueInv /\ PoolTypes /\ StationKnown /\ sender[q].pc = "pre"
        /\ sender[q].sta \in Sta /\ sender[q].ac \in AC /\ UNCHANGED <<inflight, tasklet>>
    BY DEF PoolInv, PoolTypes, SenderState, StationKnown, pre_xmitframe, NoSchedule
  <1>2. Total(accnt) \in Nat
    <2>1. accnt \in [AC -> Nat]
      BY <1>1 DEF QueueInv, QueueTypes
    <2> QED
      BY <2>1, ACFinite, PlacesFinite
  <1>3. In(sender[q].pc, HoldsFrame) = 1 /\ In(sender[q].pc, {"direct"}) = 0
    BY <1>1, SenderHoldings
  <1>4. frames \in Nat /\ bufs \in Nat /\ inflight \in Nat /\ inflight' \in Nat
    BY <1>1 DEF PoolTypes
  <1>5. CASE /\ rtw_xmit_classifier(sender[q].ac, sender[q].sta, q)
             /\ Return(q) /\ UNCHANGED pools
    <2>1. PICK r \in SenderState : sender' = [sender EXCEPT ![q] = r] /\ r.pc = "idle"
      BY <1>5, ReturnSets
    <2>2. In(r.pc, HoldsFrame) = 0 /\ In(r.pc, {"direct"}) = 0
      BY <2>1, SenderHoldings
    <2>3. QueueInv' /\ Total(accnt') = Total(accnt) + 1
      BY <1>1, <1>5, ClassifierKeeps
    <2>4. frames' = frames /\ bufs' = bufs
      BY <1>5 DEF pools
    <2>5. /\ frames' + Total(accnt') + In(r.pc, HoldsFrame)
               = frames + Total(accnt) + In(sender[q].pc, HoldsFrame)
          /\ bufs' + inflight' + In(r.pc, {"direct"})
               = bufs + inflight + In(sender[q].pc, {"direct"})
          /\ frames' \in Nat /\ bufs' \in Nat
      BY <1>1, <1>2, <1>3, <1>4, <2>2, <2>3, <2>4
    <2> QED
      BY <1>1, <1>4, <2>1, <2>3, <2>5, SenderKeeps
  <1>6. CASE rtw_free_xmitframe(q) /\ Return(q) /\ UNCHANGED <<bufs, queues>>
    <2>1. PICK r \in SenderState : sender' = [sender EXCEPT ![q] = r] /\ r.pc = "idle"
      BY <1>6, ReturnSets
    <2>2. In(r.pc, HoldsFrame) = 0 /\ In(r.pc, {"direct"}) = 0
      BY <2>1, SenderHoldings
    <2>3. QueueInv' /\ Total(accnt') = Total(accnt)
      BY <1>1, <1>6, QueuesSame
    <2>4. frames' = frames + 1 /\ bufs' = bufs
      BY <1>6 DEF rtw_free_xmitframe
    <2>5. /\ frames' + Total(accnt') + In(r.pc, HoldsFrame)
               = frames + Total(accnt) + In(sender[q].pc, HoldsFrame)
          /\ bufs' + inflight' + In(r.pc, {"direct"})
               = bufs + inflight + In(sender[q].pc, {"direct"})
          /\ frames' \in Nat /\ bufs' \in Nat
      BY <1>1, <1>2, <1>3, <1>4, <2>2, <2>3, <2>4
    <2> QED
      BY <1>1, <1>4, <2>1, <2>3, <2>5, SenderKeeps
  <1>7. CASE /\ ~Enqueues(q) /\ bufs' = bufs - 1
             /\ sender' = [sender EXCEPT ![q].pc = "direct", ![q].ac = q]
             /\ UNCHANGED <<frames, queues>>
    <2>0. "direct" \in SenderSteps /\ sender[q].pc # "idle" /\ bufs # 0
      BY <1>1, <1>7 DEF SenderSteps, Enqueues
    <2>a. sender' = [sender EXCEPT ![q].pc = "direct", ![q].ac = q]
      BY <1>7
    <2>b. PoolTypes /\ StationKnown
      BY <1>1
    <2>1. PICK r \in SenderState : /\ sender' = [sender EXCEPT ![q] = r]
                                   /\ r.pc = "direct" /\ r.sta \in Sta
      BY ONLY <2>a, <2>b, <2>0, q \in AC, GotoSets
    <2>2. In(r.pc, HoldsFrame) = 1 /\ In(r.pc, {"direct"}) = 1
      BY <2>1, SenderHoldings
    <2>3. QueueInv' /\ Total(accnt') = Total(accnt)
      BY <1>1, <1>7, QueuesSame
    <2>4. frames' = frames /\ bufs' = bufs - 1
      BY <1>7
    <2>5. /\ frames' + Total(accnt') + In(r.pc, HoldsFrame)
               = frames + Total(accnt) + In(sender[q].pc, HoldsFrame)
          /\ bufs' + inflight' + In(r.pc, {"direct"})
               = bufs + inflight + In(sender[q].pc, {"direct"})
          /\ frames' \in Nat /\ bufs' \in Nat
      BY <1>1, <1>2, <1>3, <1>4, <2>0, <2>2, <2>3, <2>4
    <2> QED
      BY <1>1, <1>4, <2>1, <2>3, <2>5, SenderKeeps
  <1> QED
    BY <1>5, <1>6, <1>7 DEF pre_xmitframe

(* The buffer of a write goes to the USB core or back to the pool.         *)
LEMMA WriteMoves ==
    ASSUME PoolTypes, Submitted \/ NotSubmitted
    PROVE  bufs' \in Nat /\ inflight' \in Nat /\ bufs' + inflight' = bufs + inflight + 1
  <1>1. bufs \in Nat /\ inflight \in Nat
    BY DEF PoolTypes
  <1>2. \/ inflight' = inflight + 1 /\ bufs' = bufs
        \/ bufs' = bufs + 1 /\ inflight' = inflight
    BY Zenon DEF Submitted, NotSubmitted
  <1> QED
    BY <1>1, <1>2

LEMMA xmitframe_directKeeps ==
    ASSUME PoolInv, NEW q \in AC, xmitframe_direct(q)
    PROVE  PoolInv'
  <1>1. /\ QueueInv /\ PoolTypes /\ StationKnown /\ sender[q].pc = "direct"
        /\ UNCHANGED <<frames, tasklet>> /\ UNCHANGED queues
        /\ Goto(q, "free") /\ (Submitted \/ NotSubmitted)
    BY DEF PoolInv, xmitframe_direct
  <1>2. QueueInv' /\ Total(accnt') = Total(accnt)
    BY <1>1, QueuesSame
  <1>3. In(sender[q].pc, HoldsFrame) = 1 /\ In(sender[q].pc, {"direct"}) = 1
    BY <1>1, SenderHoldings
  <1>4. frames \in Nat /\ frames' \in Nat /\ bufs \in Nat /\ inflight \in Nat
    BY <1>1 DEF PoolTypes
  <1>5. "free" \in SenderSteps /\ sender[q].pc # "idle"
    BY <1>1 DEF SenderSteps
  <1>6. PICK r \in SenderState : /\ sender' = [sender EXCEPT ![q] = r]
                                 /\ r.pc = "free" /\ r.sta \in Sta
    BY <1>1, <1>5, GotoSets
  <1>7. In(r.pc, HoldsFrame) = 1 /\ In(r.pc, {"direct"}) = 0
    BY <1>6, SenderHoldings
  <1>8. bufs' \in Nat /\ inflight' \in Nat /\ bufs' + inflight' = bufs + inflight + 1
    BY <1>1, WriteMoves
  <1>9. /\ frames' + Total(accnt') + In(r.pc, HoldsFrame)
             = frames + Total(accnt) + In(sender[q].pc, HoldsFrame)
        /\ bufs' + inflight' + In(r.pc, {"direct"})
             = bufs + inflight + In(sender[q].pc, {"direct"})
    BY <1>1, <1>2, <1>3, <1>4, <1>7, <1>8
  <1> QED
    BY <1>1, <1>2, <1>4, <1>6, <1>8, <1>9, SenderKeeps

LEMMA DumpDoneKeeps ==
    ASSUME PoolInv, NEW q \in AC, DumpDone(q)
    PROVE  PoolInv'
  <1>1. /\ QueueInv /\ PoolTypes /\ StationKnown /\ sender[q].pc = "free"
        /\ UNCHANGED <<bufs, inflight, tasklet>> /\ UNCHANGED queues
        /\ Return(q) /\ frames' = frames + 1
    BY DEF PoolInv, DumpDone, rtw_free_xmitframe, NoSchedule
  <1>2. QueueInv' /\ Total(accnt') = Total(accnt) /\ Total(accnt) \in Nat
    <2>1. accnt \in [AC -> Nat]
      BY <1>1 DEF QueueInv, QueueTypes
    <2> QED
      BY <1>1, <2>1, QueuesSame, ACFinite, PlacesFinite
  <1>3. In(sender[q].pc, HoldsFrame) = 1 /\ In(sender[q].pc, {"direct"}) = 0
    BY <1>1, SenderHoldings
  <1>4. frames \in Nat /\ frames' \in Nat /\ bufs' \in Nat /\ inflight' \in Nat
    BY <1>1 DEF PoolTypes
  <1>5. PICK r \in SenderState : sender' = [sender EXCEPT ![q] = r] /\ r.pc = "idle"
    BY <1>1, ReturnSets
  <1>6. In(r.pc, HoldsFrame) = 0 /\ In(r.pc, {"direct"}) = 0
    BY <1>5, SenderHoldings
  <1>7. /\ frames' + Total(accnt') + In(r.pc, HoldsFrame)
             = frames + Total(accnt) + In(sender[q].pc, HoldsFrame)
        /\ bufs' + inflight' + In(r.pc, {"direct"})
             = bufs + inflight + In(sender[q].pc, {"direct"})
    BY <1>1, <1>2, <1>3, <1>4, <1>6
  <1> QED
    BY <1>1, <1>2, <1>4, <1>5, <1>7, SenderKeeps

-----------------------------------------------------------------------------
(* The tasklet and the environment keep the pools.                         *)

LEMMA TaskletHoldings ==
    /\ In("idle", FrameSteps) = 0 /\ In("check", FrameSteps) = 0
    /\ In("alloc", FrameSteps) = 0 /\ In("dequeue", FrameSteps) = 0
    /\ In("coalesce", FrameSteps) = 1 /\ In("agg", FrameSteps) = 1
    /\ In("write", FrameSteps) = 1 /\ In("free", FrameSteps) = 1
    /\ In("release", FrameSteps) = 0
    /\ In("idle", BufSteps) = 0 /\ In("check", BufSteps) = 0
    /\ In("alloc", BufSteps) = 0 /\ In("dequeue", BufSteps) = 1
    /\ In("coalesce", BufSteps) = 1 /\ In("agg", BufSteps) = 1
    /\ In("write", BufSteps) = 1 /\ In("free", BufSteps) = 0
    /\ In("release", BufSteps) = 1
  BY DEF In, FrameSteps, BufSteps

LEMMA ToSets ==
    ASSUME PoolTypes, NEW pc \in TaskletSteps, To(pc)
    PROVE  /\ tasklet' \in TaskletState /\ tasklet'.pc = pc
           /\ tasklet'.sta = tasklet.sta /\ tasklet'.ac = tasklet.ac
           /\ tasklet'.sched = tasklet.sched
  BY DEF PoolTypes, TaskletState, To

(* A step of the tasklet that moves neither frame nor buffer.              *)
LEMMA IdleMoves ==
    ASSUME PoolInv, UNCHANGED <<frames, bufs, inflight, sender>>, UNCHANGED queues,
           tasklet' \in TaskletState,
           In(tasklet'.pc, FrameSteps) = In(tasklet.pc, FrameSteps),
           In(tasklet'.pc, BufSteps) = In(tasklet.pc, BufSteps),
           tasklet'.pc \in FrameSteps => tasklet'.sta \in Sta
    PROVE  PoolInv'
  <1>1. QueueInv /\ PoolTypes
    BY DEF PoolInv
  <1>2. QueueInv' /\ Total(accnt') = Total(accnt)
    BY <1>1, QueuesSame
  <1>3. frames' \in Nat /\ bufs' \in Nat /\ inflight' \in Nat
    BY <1>1 DEF PoolTypes
  <1>4. /\ frames' + Total(accnt') + In(tasklet'.pc, FrameSteps)
             = frames + Total(accnt) + In(tasklet.pc, FrameSteps)
        /\ bufs' + inflight' + In(tasklet'.pc, BufSteps)
             = bufs + inflight + In(tasklet.pc, BufSteps)
    BY <1>2
  <1> QED
    BY <1>2, <1>3, <1>4, TaskletKeeps

LEMMA RunTaskletKeeps == ASSUME PoolInv, RunTasklet PROVE PoolInv'
  <1>1. PoolTypes /\ tasklet.pc = "idle"
    BY DEF PoolInv, RunTasklet, At
  <1>2. UNCHANGED <<frames, bufs, inflight, sender>> /\ UNCHANGED queues
    BY DEF RunTasklet, pools
  <1>3. tasklet' \in TaskletState /\ tasklet'.pc = "check"
    BY <1>1 DEF RunTasklet, PoolTypes, TaskletState, TaskletSteps
  <1>4. "check" \notin FrameSteps
    BY DEF FrameSteps
  <1> QED
    BY <1>1, <1>2, <1>3, <1>4, TaskletHoldings, IdleMoves

LEMMA LoopKeeps == ASSUME PoolInv, rtl8812au_xmit_tasklet PROVE PoolInv'
  <1>1. PoolTypes /\ tasklet.pc = "check"
    BY DEF PoolInv, rtl8812au_xmit_tasklet, At
  <1>2. UNCHANGED <<frames, bufs, inflight, sender>> /\ UNCHANGED queues
    BY DEF rtl8812au_xmit_tasklet, pools
  <1>3. PICK pc \in {"idle", "alloc"} : To(pc)
    BY DEF rtl8812au_xmit_tasklet
  <1>4. pc \in TaskletSteps /\ pc \notin FrameSteps
    BY <1>3 DEF FrameSteps, TaskletSteps
  <1>5. tasklet' \in TaskletState /\ tasklet'.pc = pc
    BY <1>1, <1>3, <1>4, ToSets
  <1>6. In(pc, FrameSteps) = 0 /\ In(pc, BufSteps) = 0
    BY <1>3, TaskletHoldings
  <1>7. In(tasklet.pc, FrameSteps) = 0 /\ In(tasklet.pc, BufSteps) = 0
    BY <1>1, TaskletHoldings
  <1> QED
    BY <1>2, <1>4, <1>5, <1>6, <1>7, IdleMoves

LEMMA AllocKeeps == ASSUME PoolInv, rtw_alloc_xmitbuf PROVE PoolInv'
  <1>1. QueueInv /\ PoolTypes /\ tasklet.pc = "alloc"
    BY DEF PoolInv, rtw_alloc_xmitbuf, At
  <1>2. UNCHANGED <<frames, inflight, sender>> /\ UNCHANGED queues
    BY DEF rtw_alloc_xmitbuf
  <1>3. In(tasklet.pc, FrameSteps) = 0 /\ In(tasklet.pc, BufSteps) = 0
    BY <1>1, TaskletHoldings
  <1>4. CASE bufs = 0
    <2>1. To("idle") /\ bufs' = bufs
      BY <1>4 DEF rtw_alloc_xmitbuf
    <2>2. "idle" \in TaskletSteps /\ "idle" \notin FrameSteps
      BY DEF TaskletSteps, FrameSteps
    <2>3. tasklet' \in TaskletState /\ tasklet'.pc = "idle"
      BY <1>1, <2>1, <2>2, ToSets
    <2>4. In(tasklet'.pc, FrameSteps) = 0 /\ In(tasklet'.pc, BufSteps) = 0
      BY <2>3, TaskletHoldings
    <2> QED
      BY <1>2, <1>3, <2>1, <2>2, <2>3, <2>4, IdleMoves
  <1>5. CASE bufs # 0
    <2>1. To("dequeue") /\ bufs' = bufs - 1
      BY <1>5 DEF rtw_alloc_xmitbuf
    <2>2. "dequeue" \in TaskletSteps /\ "dequeue" \notin FrameSteps
      BY DEF TaskletSteps, FrameSteps
    <2>3. tasklet' \in TaskletState /\ tasklet'.pc = "dequeue"
      BY <1>1, <2>1, <2>2, ToSets
    <2>4. In(tasklet'.pc, FrameSteps) = 0 /\ In(tasklet'.pc, BufSteps) = 1
      BY <2>3, TaskletHoldings
    <2>5. QueueInv' /\ Total(accnt') = Total(accnt)
      BY <1>1, <1>2, QueuesSame
    <2>6. frames' \in Nat /\ bufs' \in Nat /\ inflight' \in Nat /\ bufs \in Nat
      BY <1>1, <1>2, <1>5, <2>1 DEF PoolTypes
    <2>7. /\ frames' + Total(accnt') + In(tasklet'.pc, FrameSteps)
               = frames + Total(accnt) + In(tasklet.pc, FrameSteps)
          /\ bufs' + inflight' + In(tasklet'.pc, BufSteps)
               = bufs + inflight + In(tasklet.pc, BufSteps)
      BY <1>2, <1>3, <2>1, <2>4, <2>5, <2>6
    <2> QED
      BY <1>2, <2>2, <2>3, <2>5, <2>6, <2>7, TaskletKeeps
  <1> QED
    BY <1>4, <1>5

(* What rtw_dequeue_xframe chooses when a station is listed: a category,   *)
(* and the first station of its list, which has a frame.                   *)
LEMMA DequeueChoice ==
    ASSUME QueueInv, rtw_dequeue_xframe, \E p \in AC : staQueue[p] # <<>>
    PROVE  \E q \in AC, s \in Sta :
             /\ 1 \in 0 .. pending[s][q]
             /\ Take(q, s, 1)
             /\ skbs[s][q][1] \in AC
             /\ tasklet' = [tasklet EXCEPT !.pc = "coalesce", !.ac = q, !.sta = s,
                                           !.skb = skbs[s][q][1]]
  <1> DEFINE busy == {i \in DOMAIN Inx : staQueue[Inx[i]] # <<>>}
             q == Inx[Min(busy)]
             s == Head(staQueue[q])
  <1>1. busy # {}
    BY DEF AC, Range
  <1>2. busy \in SUBSET Nat
    BY InxAssumption
  <1>3. Min(busy) \in busy
    <2> HIDE DEF busy
    <2>1. PICK m \in busy : \A k \in busy : m <= k
      BY <1>1, <1>2, NatMin
    <2> QED
      BY <2>1 DEF Min
  <1>4. q \in AC /\ staQueue[q] # <<>>
    BY <1>3 DEF AC, Range
  <1>5. /\ Take(q, s, 1)
        /\ tasklet' = [tasklet EXCEPT !.pc = "coalesce", !.ac = q, !.sta = s,
                                      !.skb = Head(skbs[s][q])]
    BY <1>1 DEF rtw_dequeue_xframe
  <1> HIDE DEF busy, q
  <1>6. staQueue[q] \in Seq(Sta) /\ Range(staQueue[q]) = {t \in Sta : pending[t][q] > 0}
    BY <1>4 DEF QueueInv, QueueTypes, StationListed
  <1>7. s \in Range(staQueue[q])
    <2>1. 1 \in DOMAIN staQueue[q] /\ s = staQueue[q][1]
      BY <1>4, <1>6
    <2> QED
      BY <2>1 DEF Range
  <1> HIDE DEF s
  <1>8. s \in Sta /\ pending[s][q] > 0
    BY <1>6, <1>7
  <1>9. pending[s][q] \in Nat
    BY <1>4, <1>8, QueueBounds
  <1>10. 1 \in 0 .. pending[s][q]
    BY <1>8, <1>9
  <1>11. Head(skbs[s][q]) = skbs[s][q][1] /\ skbs[s][q][1] \in AC
    <2>1. skbs[s][q] \in Seq(AC) /\ Len(skbs[s][q]) = pending[s][q]
      BY <1>4, <1>8 DEF QueueInv, Held
    <2> QED
      BY <1>8, <1>9, <2>1
  <1> QED
    BY <1>4, <1>5, <1>8, <1>10, <1>11

LEMMA DequeueNone ==
    ASSUME rtw_dequeue_xframe, ~ \E p \in AC : staQueue[p] # <<>>
    PROVE  To("release") /\ UNCHANGED queues
  <1>1. {i \in DOMAIN Inx : staQueue[Inx[i]] # <<>>} = {}
    BY DEF AC, Range
  <1> QED
    BY <1>1 DEF rtw_dequeue_xframe

LEMMA DequeueKeeps == ASSUME PoolInv, rtw_dequeue_xframe PROVE PoolInv'
  <1>1. QueueInv /\ PoolTypes /\ tasklet.pc = "dequeue"
    BY DEF PoolInv, rtw_dequeue_xframe, At
  <1>2. UNCHANGED <<frames, bufs, inflight, sender>>
    BY DEF rtw_dequeue_xframe, pools
  <1>3. In(tasklet.pc, FrameSteps) = 0 /\ In(tasklet.pc, BufSteps) = 1
    BY <1>1, TaskletHoldings
  <1>4. CASE ~ \E p \in AC : staQueue[p] # <<>>
    <2>1. To("release") /\ UNCHANGED queues
      BY <1>4, DequeueNone
    <2>2. "release" \in TaskletSteps /\ "release" \notin FrameSteps
      BY DEF TaskletSteps, FrameSteps
    <2>3. tasklet' \in TaskletState /\ tasklet'.pc = "release"
      BY <1>1, <2>1, <2>2, ToSets
    <2>4. In(tasklet'.pc, FrameSteps) = 0 /\ In(tasklet'.pc, BufSteps) = 1
      BY <2>3, TaskletHoldings
    <2> QED
      BY <1>2, <1>3, <2>1, <2>2, <2>3, <2>4, IdleMoves
  <1>5. CASE \E p \in AC : staQueue[p] # <<>>
    <2>1. PICK q \in AC, s \in Sta :
             /\ 1 \in 0 .. pending[s][q]
             /\ Take(q, s, 1)
             /\ skbs[s][q][1] \in AC
             /\ tasklet' = [tasklet EXCEPT !.pc = "coalesce", !.ac = q, !.sta = s,
                                           !.skb = skbs[s][q][1]]
      BY <1>1, <1>5, DequeueChoice
    <2>2. tasklet' \in TaskletState /\ tasklet'.pc = "coalesce" /\ tasklet'.sta \in Sta
      BY <1>1, <2>1 DEF PoolTypes, TaskletState, TaskletSteps
    <2>3. In(tasklet'.pc, FrameSteps) = 1 /\ In(tasklet'.pc, BufSteps) = 1
      BY <2>2, TaskletHoldings
    <2>4. QueueInv' /\ Total(accnt) = Total(accnt') + 1
      BY <1>1, <2>1, TakeKeeps
    <2>5. accnt' \in [AC -> Nat]
      BY <2>4 DEF QueueInv, QueueTypes
    <2>6. Total(accnt') \in Nat
      BY <2>5, ACFinite, PlacesFinite
    <2>7. frames' \in Nat /\ bufs' \in Nat /\ inflight' \in Nat
      BY <1>1, <1>2 DEF PoolTypes
    <2>8. /\ frames' + Total(accnt') + In(tasklet'.pc, FrameSteps)
               = frames + Total(accnt) + In(tasklet.pc, FrameSteps)
          /\ bufs' + inflight' + In(tasklet'.pc, BufSteps)
               = bufs + inflight + In(tasklet.pc, BufSteps)
      BY <1>2, <1>3, <2>3, <2>4, <2>6, <2>7
    <2> QED
      BY <1>2, <2>2, <2>4, <2>7, <2>8, TaskletKeeps
  <1> QED
    BY <1>4, <1>5

LEMMA CoalesceKeeps == ASSUME PoolInv, CoalesceFirst PROVE PoolInv'
  <1>1. QueueInv /\ PoolTypes /\ tasklet.pc = "coalesce" /\ tasklet.sta \in Sta
    BY DEF PoolInv, StationKnown, CoalesceFirst, At, FrameSteps
  <1>2. UNCHANGED <<bufs, inflight, sender>> /\ UNCHANGED queues
    BY DEF CoalesceFirst
  <1>3. In(tasklet.pc, FrameSteps) = 1 /\ In(tasklet.pc, BufSteps) = 1
    BY <1>1, TaskletHoldings
  <1>4. CASE tasklet' = [tasklet EXCEPT !.pc = "agg", !.skb = NoSta] /\ UNCHANGED frames
    <2>2. tasklet' \in TaskletState /\ tasklet'.pc = "agg" /\ tasklet'.sta \in Sta
      BY <1>1, <1>4 DEF PoolTypes, TaskletState, TaskletSteps
    <2>3. In(tasklet'.pc, FrameSteps) = 1 /\ In(tasklet'.pc, BufSteps) = 1
      BY <2>2, TaskletHoldings
    <2> QED
      BY <1>2, <1>3, <1>4, <2>2, <2>3, IdleMoves
  <1>5. CASE tasklet' = [tasklet EXCEPT !.pc = "dequeue", !.skb = NoSta] /\ frames' = frames + 1
    <2>1. "dequeue" \in TaskletSteps /\ "dequeue" \notin FrameSteps
      BY DEF TaskletSteps, FrameSteps
    <2>2. tasklet' \in TaskletState /\ tasklet'.pc = "dequeue"
      BY <1>1, <1>5, <2>1 DEF PoolTypes, TaskletState
    <2>3. In(tasklet'.pc, FrameSteps) = 0 /\ In(tasklet'.pc, BufSteps) = 1
      BY <2>2, TaskletHoldings
    <2>4. QueueInv' /\ Total(accnt') = Total(accnt) /\ Total(accnt) \in Nat
      <3>1. accnt \in [AC -> Nat]
        BY <1>1 DEF QueueInv, QueueTypes
      <3> QED
        BY <1>1, <1>2, <3>1, QueuesSame, ACFinite, PlacesFinite
    <2>5. frames \in Nat /\ frames' \in Nat /\ bufs' \in Nat /\ inflight' \in Nat
      BY <1>1, <1>2, <1>5 DEF PoolTypes
    <2>6. /\ frames' + Total(accnt') + In(tasklet'.pc, FrameSteps)
               = frames + Total(accnt) + In(tasklet.pc, FrameSteps)
          /\ bufs' + inflight' + In(tasklet'.pc, BufSteps)
               = bufs + inflight + In(tasklet.pc, BufSteps)
      BY <1>2, <1>3, <1>5, <2>3, <2>4, <2>5
    <2> QED
      BY <1>2, <2>1, <2>2, <2>4, <2>5, <2>6, TaskletKeeps
  <1> QED
    BY <1>4, <1>5 DEF CoalesceFirst, rtw_free_xmitframe

LEMMA AggregateKeeps == ASSUME PoolInv, Aggregate PROVE PoolInv'
  <1>1. QueueInv /\ PoolTypes /\ tasklet.pc = "agg" /\ tasklet.sta \in Sta
    BY DEF PoolInv, StationKnown, Aggregate, At, FrameSteps
  <1>2. UNCHANGED <<bufs, inflight, sender>> /\ To("write")
    BY DEF Aggregate
  <1>3. tasklet.ac \in AC
    BY <1>1 DEF PoolTypes, TaskletState
  <1>4. PICK k \in 0 .. pending[tasklet.sta][tasklet.ac] :
          Take(tasklet.ac, tasklet.sta, k) /\ frames' = frames + k
    BY DEF Aggregate
  <1>5. QueueInv' /\ Total(accnt) = Total(accnt') + k
    BY <1>1, <1>3, <1>4, TakeKeeps
  <1>6. k \in Nat
    <2>1. pending[tasklet.sta][tasklet.ac] \in Nat
      BY <1>1, <1>3, QueueBounds
    <2> QED
      BY <2>1
  <1>7. "write" \in TaskletSteps
    BY DEF TaskletSteps
  <1>8. tasklet' \in TaskletState /\ tasklet'.pc = "write" /\ tasklet'.sta \in Sta
    BY <1>1, <1>2, <1>7, ToSets
  <1>9. /\ In(tasklet.pc, FrameSteps) = 1 /\ In(tasklet.pc, BufSteps) = 1
        /\ In(tasklet'.pc, FrameSteps) = 1 /\ In(tasklet'.pc, BufSteps) = 1
    BY <1>1, <1>8, TaskletHoldings
  <1>10. accnt' \in [AC -> Nat]
    BY <1>5 DEF QueueInv, QueueTypes
  <1>11. Total(accnt') \in Nat
    BY <1>10, ACFinite, PlacesFinite
  <1>12. frames \in Nat /\ frames' \in Nat /\ bufs' \in Nat /\ inflight' \in Nat
    BY <1>1, <1>2, <1>4, <1>6 DEF PoolTypes
  <1>13. /\ frames' + Total(accnt') + In(tasklet'.pc, FrameSteps)
              = frames + Total(accnt) + In(tasklet.pc, FrameSteps)
         /\ bufs' + inflight' + In(tasklet'.pc, BufSteps)
              = bufs + inflight + In(tasklet.pc, BufSteps)
    BY <1>2, <1>4, <1>5, <1>6, <1>9, <1>11, <1>12
  <1> QED
    BY <1>2, <1>5, <1>8, <1>12, <1>13, TaskletKeeps

LEMMA WriteKeeps == ASSUME PoolInv, TaskletWrite PROVE PoolInv'
  <1>1. QueueInv /\ PoolTypes /\ tasklet.pc = "write" /\ tasklet.sta \in Sta
    BY DEF PoolInv, StationKnown, TaskletWrite, At, FrameSteps
  <1>2. /\ UNCHANGED <<frames, sender>> /\ UNCHANGED queues /\ To("free")
        /\ Submitted \/ NotSubmitted
    BY DEF TaskletWrite
  <1>3. "free" \in TaskletSteps
    BY DEF TaskletSteps
  <1>4. tasklet' \in TaskletState /\ tasklet'.pc = "free" /\ tasklet'.sta \in Sta
    BY <1>1, <1>2, <1>3, ToSets
  <1>5. /\ In(tasklet.pc, FrameSteps) = 1 /\ In(tasklet.pc, BufSteps) = 1
        /\ In(tasklet'.pc, FrameSteps) = 1 /\ In(tasklet'.pc, BufSteps) = 0
    BY <1>1, <1>4, TaskletHoldings
  <1>6. QueueInv' /\ Total(accnt') = Total(accnt)
    BY <1>1, <1>2, QueuesSame
  <1>7. bufs' \in Nat /\ inflight' \in Nat /\ bufs' + inflight' = bufs + inflight + 1
    BY <1>1, <1>2, WriteMoves
  <1>8. frames' \in Nat /\ bufs \in Nat /\ inflight \in Nat
    BY <1>1, <1>2 DEF PoolTypes
  <1>9. /\ frames' + Total(accnt') + In(tasklet'.pc, FrameSteps)
             = frames + Total(accnt) + In(tasklet.pc, FrameSteps)
        /\ bufs' + inflight' + In(tasklet'.pc, BufSteps)
             = bufs + inflight + In(tasklet.pc, BufSteps)
    BY <1>2, <1>5, <1>6, <1>7, <1>8
  <1> QED
    BY <1>2, <1>4, <1>6, <1>7, <1>8, <1>9, TaskletKeeps

LEMMA FreeKeeps == ASSUME PoolInv, TaskletFree PROVE PoolInv'
  <1>1. QueueInv /\ PoolTypes /\ tasklet.pc = "free"
    BY DEF PoolInv, TaskletFree, At
  <1>2. /\ UNCHANGED <<bufs, inflight, sender>> /\ UNCHANGED queues
        /\ frames' = frames + 1
    BY DEF TaskletFree
  <1>3. tasklet' \in TaskletState /\ tasklet'.pc = "check"
    BY <1>1 DEF TaskletFree, PoolTypes, TaskletState, TaskletSteps
  <1>4. "check" \notin FrameSteps
    BY DEF FrameSteps
  <1>5. /\ In(tasklet.pc, FrameSteps) = 1 /\ In(tasklet.pc, BufSteps) = 0
        /\ In(tasklet'.pc, FrameSteps) = 0 /\ In(tasklet'.pc, BufSteps) = 0
    BY <1>1, <1>3, TaskletHoldings
  <1>6. QueueInv' /\ Total(accnt') = Total(accnt) /\ Total(accnt) \in Nat
    <2>1. accnt \in [AC -> Nat]
      BY <1>1 DEF QueueInv, QueueTypes
    <2> QED
      BY <1>1, <1>2, <2>1, QueuesSame, ACFinite, PlacesFinite
  <1>7. frames \in Nat /\ frames' \in Nat /\ bufs' \in Nat /\ inflight' \in Nat
    BY <1>1, <1>2 DEF PoolTypes
  <1>8. /\ frames' + Total(accnt') + In(tasklet'.pc, FrameSteps)
             = frames + Total(accnt) + In(tasklet.pc, FrameSteps)
        /\ bufs' + inflight' + In(tasklet'.pc, BufSteps)
             = bufs + inflight + In(tasklet.pc, BufSteps)
    BY <1>2, <1>5, <1>6, <1>7
  <1> QED
    BY <1>2, <1>3, <1>4, <1>6, <1>7, <1>8, TaskletKeeps

LEMMA ReleaseKeeps == ASSUME PoolInv, TaskletRelease PROVE PoolInv'
  <1>1. QueueInv /\ PoolTypes /\ tasklet.pc = "release"
    BY DEF PoolInv, TaskletRelease, At
  <1>2. /\ UNCHANGED <<frames, inflight, sender>> /\ UNCHANGED queues
        /\ bufs' = bufs + 1 /\ To("idle")
    BY DEF TaskletRelease
  <1>3. "idle" \in TaskletSteps /\ "idle" \notin FrameSteps
    BY DEF TaskletSteps, FrameSteps
  <1>4. tasklet' \in TaskletState /\ tasklet'.pc = "idle"
    BY <1>1, <1>2, <1>3, ToSets
  <1>5. /\ In(tasklet.pc, FrameSteps) = 0 /\ In(tasklet.pc, BufSteps) = 1
        /\ In(tasklet'.pc, FrameSteps) = 0 /\ In(tasklet'.pc, BufSteps) = 0
    BY <1>1, <1>4, TaskletHoldings
  <1>6. QueueInv' /\ Total(accnt') = Total(accnt)
    BY <1>1, <1>2, QueuesSame
  <1>7. frames' \in Nat /\ bufs \in Nat /\ bufs' \in Nat /\ inflight \in Nat /\ inflight' \in Nat
    BY <1>1, <1>2 DEF PoolTypes
  <1>8. /\ frames' + Total(accnt') + In(tasklet'.pc, FrameSteps)
             = frames + Total(accnt) + In(tasklet.pc, FrameSteps)
        /\ bufs' + inflight' + In(tasklet'.pc, BufSteps)
             = bufs + inflight + In(tasklet.pc, BufSteps)
    BY <1>2, <1>5, <1>6, <1>7
  <1> QED
    BY <1>2, <1>3, <1>4, <1>6, <1>7, <1>8, TaskletKeeps

LEMMA CompleteKeeps == ASSUME PoolInv, usb_write_port_complete PROVE PoolInv'
  <1>1. QueueInv /\ PoolTypes /\ StationKnown
    BY DEF PoolInv
  <1>2. /\ UNCHANGED <<frames, sender>> /\ UNCHANGED queues
        /\ bufs' = bufs + 1 /\ inflight > 0 /\ inflight' = inflight - 1
        /\ tasklet' = [tasklet EXCEPT !.sched = TRUE]
    BY DEF usb_write_port_complete, Schedule
  <1>3. tasklet' \in TaskletState /\ tasklet'.pc = tasklet.pc /\ tasklet'.sta = tasklet.sta
    BY <1>1, <1>2 DEF PoolTypes, TaskletState
  <1>4. tasklet'.pc \in FrameSteps => tasklet'.sta \in Sta
    BY <1>1, <1>3 DEF StationKnown
  <1>5. QueueInv' /\ Total(accnt') = Total(accnt)
    BY <1>1, <1>2, QueuesSame
  <1>6. /\ frames' \in Nat /\ bufs \in Nat /\ bufs' \in Nat
        /\ inflight \in Nat /\ inflight' \in Nat
    BY <1>1, <1>2 DEF PoolTypes
  <1>7. In(tasklet'.pc, FrameSteps) = In(tasklet.pc, FrameSteps)
    BY <1>3
  <1>8. In(tasklet'.pc, BufSteps) = In(tasklet.pc, BufSteps)
    BY <1>3
  <1>9. bufs' + inflight' = bufs + inflight
    BY <1>2, <1>6
  <1>10. /\ frames' + Total(accnt') + In(tasklet'.pc, FrameSteps)
              = frames + Total(accnt) + In(tasklet.pc, FrameSteps)
         /\ bufs' + inflight' + In(tasklet'.pc, BufSteps)
              = bufs + inflight + In(tasklet.pc, BufSteps)
    BY <1>2, <1>5, <1>7, <1>8, <1>9
  <1> QED
    BY <1>2, <1>3, <1>4, <1>5, <1>6, <1>10, TaskletKeeps

(* A step that touches neither pool nor queue, nor where the tasklet is.   *)
LEMMA OutsideKeeps ==
    ASSUME PoolInv, UNCHANGED <<frames, bufs, inflight, sender>>, UNCHANGED queues,
           \/ UNCHANGED tasklet
           \/ tasklet' = [tasklet EXCEPT !.sched = TRUE]
    PROVE  PoolInv'
  <1>1. PoolTypes /\ StationKnown
    BY DEF PoolInv
  <1>2. tasklet' \in TaskletState /\ tasklet'.pc = tasklet.pc /\ tasklet'.sta = tasklet.sta
    BY <1>1 DEF PoolTypes, TaskletState
  <1>3. tasklet'.pc \in FrameSteps => tasklet'.sta \in Sta
    BY <1>1, <1>2 DEF StationKnown
  <1>4. In(tasklet'.pc, FrameSteps) = In(tasklet.pc, FrameSteps)
    BY <1>2
  <1>5. In(tasklet'.pc, BufSteps) = In(tasklet.pc, BufSteps)
    BY <1>2
  <1> QED
    BY <1>2, <1>3, <1>4, <1>5, IdleMoves

LEMMA FreeStationKeeps ==
    ASSUME PoolInv, NEW s \in Sta, rtw_free_stainfo(s) PROVE PoolInv'
  <1>1. QueueInv /\ PoolTypes /\ StationKnown
    BY DEF PoolInv
  <1>2. /\ UNCHANGED <<bufs, inflight, sender, tasklet>>
        /\ frames' = frames + Total(pending[s])
    BY DEF rtw_free_stainfo, NoSchedule
  <1>3. /\ QueueInv' /\ Total(accnt) = Total(accnt') + Total(pending[s])
        /\ Total(pending[s]) \in Nat
    BY <1>1, FreeStaKeeps
  <1>4. accnt' \in [AC -> Nat]
    BY <1>3 DEF QueueInv, QueueTypes
  <1>5. Total(accnt') \in Nat
    BY <1>4, ACFinite, PlacesFinite
  <1>6. frames \in Nat /\ frames' \in Nat /\ bufs' \in Nat /\ inflight' \in Nat
    BY <1>1, <1>2, <1>3 DEF PoolTypes
  <1>7. In(tasklet.pc, FrameSteps) \in Nat
    BY InType
  <1>8. frames' + Total(accnt') = frames + Total(accnt)
    <2> DEFINE n == Total(pending[s])
               u == Total(accnt')
    <2>1. n \in Nat /\ u \in Nat /\ Total(accnt) = u + n /\ frames' = frames + n
      BY <1>2, <1>3, <1>5
    <2> HIDE DEF n, u
    <2>2. frames' + u = frames + (u + n)
      BY <1>6, <2>1
    <2> QED
      BY <2>1, <2>2, Zenon DEF u
  <1>9. tasklet' \in TaskletState /\ (tasklet'.pc \in FrameSteps => tasklet'.sta \in Sta)
    BY <1>1, <1>2 DEF PoolTypes, StationKnown
  <1>10. /\ frames' + Total(accnt') + In(tasklet'.pc, FrameSteps)
              = frames + Total(accnt) + In(tasklet.pc, FrameSteps)
         /\ bufs' + inflight' + In(tasklet'.pc, BufSteps)
              = bufs + inflight + In(tasklet.pc, BufSteps)
    BY <1>2, <1>8, Zenon
  <1> QED
    BY <1>2, <1>3, <1>6, <1>9, <1>10, TaskletKeeps

-----------------------------------------------------------------------------
(* The inductive invariant of the pools.                                   *)

LEMMA PoolInit == Init => PoolInv
  <1> SUFFICES ASSUME Init PROVE PoolInv
    OBVIOUS
  <1>1. /\ frames = NrXmitFrame /\ bufs = NrXmitBuff /\ inflight = 0
        /\ pending = [s \in Sta |-> [q \in AC |-> 0]]
        /\ skbs = [s \in Sta |-> [q \in AC |-> <<>>]]
        /\ staQueue = [q \in AC |-> <<>>]
        /\ accnt = [q \in AC |-> 0]
        /\ sender = [q \in AC |-> [pc |-> "idle", sta |-> NoSta, ac |-> q]]
        /\ tasklet = [sched |-> FALSE, pc |-> "idle", ac |-> Inx[1], sta |-> NoSta,
                      skb |-> NoSta]
    BY DEF Init
  <1>2. NrXmitFrame \in Nat /\ NrXmitBuff \in Nat
    BY PoolAssumption
  <1>3. QueueTypes
    BY <1>1 DEF QueueTypes
  <1>4. Counted
    <2> SUFFICES ASSUME NEW q \in AC PROVE accnt[q] = Total(Column(q))
      BY DEF Counted
    <2>1. Column(q) \in [Sta -> Nat] /\ \A s \in Sta : Column(q)[s] = pending[s][q]
      BY <1>3, ColumnType
    <2>2. \A s \in Sta : Column(q)[s] = 0
      BY <1>1, <2>1
    <2>3. Total(Column(q)) = 0
      BY <2>1, <2>2, TotalNone
    <2> QED
      BY <1>1, <2>3
  <1>5. StationListed
    BY <1>1 DEF StationListed, IsInjective, Range
  <1>6. PoolTypes
    <2>1. \A q \in AC : [pc |-> "idle", sta |-> NoSta, ac |-> q] \in SenderState
      BY DEF SenderState, SenderSteps
    <2>2. tasklet \in TaskletState
      BY <1>1, ACFinite DEF TaskletState, TaskletSteps
    <2> QED
      BY <1>1, <1>2, <2>1, <2>2 DEF PoolTypes
  <1>7. StationKnown
    BY <1>1 DEF StationKnown, FrameSteps
  <1>8. Total(accnt) = 0
    <2>1. accnt \in [AC -> Nat] /\ \A q \in AC : accnt[q] = 0
      BY <1>1
    <2> QED
      BY <2>1, TotalNone
  <1>9. Holds(FrameSteps) = 0 /\ Holds(BufSteps) = 0
    BY <1>1 DEF Holds, FrameSteps, BufSteps
  <1>10. Senders(HoldsFrame) = 0
    <2>1. {q \in AC : sender[q].pc \in HoldsFrame} = {}
      BY <1>1 DEF HoldsFrame
    <2> QED
      BY <2>1, FS_EmptySet DEF Senders
  <1>11. Senders({"direct"}) = 0
    <2>1. {q \in AC : sender[q].pc \in {"direct"}} = {}
      BY <1>1
    <2> QED
      BY <2>1, FS_EmptySet DEF Senders
  <1>12. FramesBalanced
    BY <1>1, <1>2, <1>8, <1>9, <1>10 DEF FramesBalanced
  <1>13. BufsBalanced
    BY <1>1, <1>2, <1>9, <1>11 DEF BufsBalanced
  <1>14. Held
    <2>1. <<>> \in Seq(AC) /\ Len(<<>>) = 0
      OBVIOUS
    <2> QED
      BY <1>1, <2>1 DEF Held
  <1> QED
    BY <1>3, <1>4, <1>5, <1>6, <1>7, <1>12, <1>13, <1>14 DEF PoolInv, QueueInv

LEMMA PoolNext == PoolInv /\ [Next]_vars => PoolInv'
  <1> SUFFICES ASSUME PoolInv, [Next]_vars PROVE PoolInv'
    OBVIOUS
  <1>1. ASSUME NEW q \in AC, NEW s \in Sta, _rtw_xmit_entry(q, s) PROVE PoolInv'
    BY <1>1, EntryKeeps
  <1>2. ASSUME NEW q \in AC, SenderStep(q) PROVE PoolInv'
    BY <1>2, rtw_xmitKeeps, pre_xmitframeKeeps, xmitframe_directKeeps, DumpDoneKeeps
       DEF SenderStep
  <1>3. CASE TaskletStep
    BY <1>3, RunTaskletKeeps, LoopKeeps, AllocKeeps, DequeueKeeps, CoalesceKeeps,
       AggregateKeeps, WriteKeeps, FreeKeeps, ReleaseKeeps DEF TaskletStep
  <1>4. CASE usb_write_port_complete
    BY <1>4, CompleteKeeps
  <1>5. CASE SetFwState \/ ClrFwState
    <2>1. UNCHANGED <<frames, bufs, inflight, sender, tasklet>> /\ UNCHANGED queues
      BY <1>5 DEF SetFwState, ClrFwState, pools, NoSchedule
    <2> QED
      BY <2>1, OutsideKeeps
  <1>6. CASE rtw_os_xmit_schedule
    <2>1. UNCHANGED <<frames, bufs, inflight, sender>> /\ UNCHANGED queues
      BY <1>6 DEF rtw_os_xmit_schedule, pools
    <2>2. UNCHANGED tasklet \/ tasklet' = [tasklet EXCEPT !.sched = TRUE]
      BY <1>6 DEF rtw_os_xmit_schedule, Schedule, NoSchedule
    <2> QED
      BY <2>1, <2>2, OutsideKeeps
  <1>7. CASE FwStateTimeout
    <2>1. UNCHANGED <<frames, bufs, inflight, sender, tasklet>> /\ UNCHANGED queues
      BY <1>7 DEF FwStateTimeout, pools
    <2> QED
      BY <2>1, OutsideKeeps
  <1>8. ASSUME NEW s \in Sta, rtw_free_stainfo(s) PROVE PoolInv'
    BY <1>8, FreeStationKeeps
  <1>9. CASE UNCHANGED vars
    <2>1. UNCHANGED <<frames, bufs, inflight, sender, tasklet>> /\ UNCHANGED queues
      BY <1>9 DEF vars, queues
    <2> QED
      BY <2>1, OutsideKeeps
  <1> QED
    BY <1>1, <1>2, <1>3, <1>4, <1>5, <1>6, <1>7, <1>8, <1>9 DEF Next

LEMMA PoolsKept == Spec => []PoolInv
  BY PoolInit, PoolNext, PTL DEF Spec

(* No frame and no buffer of the transmit path is lost or freed twice, and *)
(* qcnt and accnt count the queued frames: for any number of stations,     *)
(* categories, frames and buffers, through every failure of the senders,   *)
(* the tasklet and the URBs.                                               *)
THEOREM PoolsStayBalanced == Spec => []PoolsBalanced
  <1>1. PoolInv => PoolsBalanced
    <2> SUFFICES ASSUME PoolInv PROVE PoolsBalanced
      OBVIOUS
    <2>1. \A q \in AC : accnt[q] = Total([s \in Sta |-> pending[s][q]])
      BY DEF PoolInv, QueueInv, Counted, Column
    <2>2. FramesBalanced /\ BufsBalanced
      BY DEF PoolInv
    <2>3. \A q \in AC, s \in Sta : pending[s][q] = Len(skbs[s][q])
      BY DEF PoolInv, QueueInv, Held
    <2> QED
      BY <2>1, <2>2, <2>3 DEF PoolsBalanced, FramesBalanced, BufsBalanced
  <1> QED
    BY <1>1, PoolsKept, PTL

(* A station is on the list of a category exactly while it has frames      *)
(* queued there, and once, whatever the senders, the tasklet and           *)
(* rtw_free_stainfo do to the lists.                                       *)
THEOREM ListsFollowQueues == Spec => []StationListed
  <1>1. PoolInv => StationListed
    BY DEF PoolInv, QueueInv
  <1> QED
    BY <1>1, PoolsKept, PTL

-----------------------------------------------------------------------------
(* The other types.                                                        *)

RestTypes == /\ wifi_spec \in BOOLEAN
             /\ stopped \in [AC -> BOOLEAN]
             /\ mode \in {"open", "survey", "linking", "done"}
             /\ cannotTx \in BOOLEAN
             /\ unheralded \in BOOLEAN
             /\ sent \in 0 .. MaxPkts
             /\ scans \in 0 .. MaxScans

LEMMA RestInit == Init => RestTypes
  <1> SUFFICES ASSUME Init PROVE RestTypes
    OBVIOUS
  <1>1. sent \in 0 .. MaxPkts /\ scans \in 0 .. MaxScans
    BY PoolAssumption DEF Init
  <1>2. stopped \in [AC -> BOOLEAN]
    BY DEF Init
  <1> QED
    BY <1>1, <1>2 DEF Init, RestTypes

(* The first frame of the tasklet has a packet until it is coalesced.      *)
PacketKnown == tasklet.pc = "coalesce" => tasklet.skb \in AC

LEMMA PacketNext == PoolInv /\ PacketKnown /\ [Next]_vars => PacketKnown'
  <1> SUFFICES ASSUME PoolInv, PacketKnown, [Next]_vars PROVE PacketKnown'
    OBVIOUS
  <1>1. QueueInv /\ tasklet \in TaskletState
    BY DEF PoolInv, PoolTypes
  <1>2. CASE \/ UNCHANGED tasklet \/ tasklet' = [tasklet EXCEPT !.sched = TRUE]
    BY <1>1, <1>2 DEF PacketKnown, TaskletState
  <1>3. CASE \/ RunTasklet \/ rtl8812au_xmit_tasklet \/ rtw_alloc_xmitbuf
             \/ CoalesceFirst \/ Aggregate
             \/ TaskletWrite \/ TaskletFree \/ TaskletRelease
    <2>1. tasklet'.pc # "coalesce"
      BY <1>1, <1>3 DEF RunTasklet, rtl8812au_xmit_tasklet, rtw_alloc_xmitbuf, CoalesceFirst,
           Aggregate, TaskletWrite, TaskletFree, TaskletRelease, To, TaskletState
    <2> QED
      BY <2>1 DEF PacketKnown
  <1>4. CASE rtw_dequeue_xframe
    <2>1. CASE ~ \E p \in AC : staQueue[p] # <<>>
      <3>1. tasklet'.pc = "release"
        BY <1>1, <1>4, <2>1, DequeueNone DEF To, TaskletState
      <3> QED
        BY <3>1 DEF PacketKnown
    <2>2. CASE \E p \in AC : staQueue[p] # <<>>
      <3>1. PICK q \in AC, s \in Sta :
              /\ skbs[s][q][1] \in AC
              /\ tasklet' = [tasklet EXCEPT !.pc = "coalesce", !.ac = q, !.sta = s,
                                            !.skb = skbs[s][q][1]]
        BY <1>1, <1>4, <2>2, DequeueChoice
      <3>2. tasklet'.skb \in AC
        BY <1>1, <3>1 DEF TaskletState
      <3> QED
        BY <3>2 DEF PacketKnown
    <2> QED
      BY <2>1, <2>2
  <1>5. ASSUME NEW q \in AC, SenderStep(q) PROVE UNCHANGED tasklet
    BY <1>5 DEF SenderStep, rtw_xmit, pre_xmitframe, xmitframe_direct, DumpDone, NoSchedule
  <1>6. ASSUME NEW q \in AC, NEW s \in Sta, _rtw_xmit_entry(q, s) PROVE UNCHANGED tasklet
    BY <1>6 DEF _rtw_xmit_entry, NoSchedule
  <1>7. ASSUME NEW s \in Sta, rtw_free_stainfo(s) PROVE UNCHANGED tasklet
    BY <1>7 DEF rtw_free_stainfo, NoSchedule
  <1>8. CASE \/ usb_write_port_complete \/ SetFwState \/ ClrFwState
             \/ rtw_os_xmit_schedule \/ FwStateTimeout
    <2>1. UNCHANGED tasklet \/ tasklet' = [tasklet EXCEPT !.sched = TRUE]
      BY <1>8 DEF usb_write_port_complete, SetFwState, ClrFwState,
                  rtw_os_xmit_schedule, FwStateTimeout, Schedule, NoSchedule
    <2> QED
      BY <1>2, <2>1
  <1>9. UNCHANGED vars => UNCHANGED tasklet
    BY DEF vars
  <1> QED
    BY <1>2, <1>3, <1>4, <1>5, <1>6, <1>7, <1>8, <1>9 DEF Next, TaskletStep

LEMMA PacketKept == Spec => []PacketKnown
  <1>1. Init => PacketKnown
    BY DEF Init, PacketKnown
  <1> QED
    BY <1>1, PacketNext, PoolsKept, PTL DEF Spec

(* stopped is always assigned Boolean values.                              *)
LEMMA CompleteTyped ==
    ASSUME stopped \in [AC -> BOOLEAN], NEW q \in AC, rtw_os_pkt_complete(q)
    PROVE  stopped' \in [AC -> BOOLEAN]
  <1>1. (stopped[q] /\ ~rtw_os_need_wake_queue(q)) \in BOOLEAN
    OBVIOUS
  <1> QED
    BY <1>1 DEF rtw_os_pkt_complete


LEMMA UnheraldedTyped == ASSUME Unheralded PROVE unheralded' \in BOOLEAN
  <1>1. (unheralded \/ (rtw_txframes_pending /\ ~tasklet.sched)) \in BOOLEAN
    OBVIOUS
  <1> QED
    BY <1>1 DEF Unheralded

LEMMA RestNext == PoolInv /\ PacketKnown /\ RestTypes /\ [Next]_vars => RestTypes'
  <1> SUFFICES ASSUME PoolInv, PacketKnown, RestTypes, [Next]_vars PROVE RestTypes'
    OBVIOUS
  <1>1. /\ stopped \in [AC -> BOOLEAN] /\ cannotTx \in BOOLEAN
        /\ unheralded \in BOOLEAN /\ wifi_spec \in BOOLEAN
        /\ mode \in {"open", "survey", "linking", "done"}
        /\ sent \in 0 .. MaxPkts /\ scans \in 0 .. MaxScans
    BY DEF RestTypes
  <1>2. MaxPkts \in Nat /\ MaxScans \in Nat
    BY PoolAssumption
  <1>3. tasklet.ac \in AC
    BY DEF PoolInv, PoolTypes, TaskletState
  <1>4. ASSUME NEW q \in AC, NEW s \in Sta, _rtw_xmit_entry(q, s) PROVE RestTypes'
    <2>1. UNCHANGED <<wifi_spec, mode, scans, cannotTx, unheralded>>
      BY <1>4 DEF _rtw_xmit_entry, NoSchedule
    <2>2. sent' \in 0 .. MaxPkts
      BY <1>1, <1>2, <1>4 DEF _rtw_xmit_entry
    <2>3. stopped' \in [AC -> BOOLEAN]
      <3>1. rtw_os_need_stop_queue(q) \in BOOLEAN
        <4>1. /\ wifi_spec => rtw_os_need_stop_queue(q) = (accnt[q] > WmmThreshold)
              /\ ~wifi_spec => rtw_os_need_stop_queue(q) = (frames <= StopLevel)
          BY DEF rtw_os_need_stop_queue
        <4>2. (accnt[q] > WmmThreshold) \in BOOLEAN /\ (frames <= StopLevel) \in BOOLEAN
          OBVIOUS
        <4> QED
          BY <4>1, <4>2, Zenon
      <3>2. \/ stopped' = stopped
            \/ stopped' = [stopped EXCEPT ![q] = rtw_os_need_stop_queue(q)]
        BY <1>4 DEF _rtw_xmit_entry
      <3> QED
        BY <1>1, <3>1, <3>2
    <2> QED
      BY <1>1, <2>1, <2>2, <2>3 DEF RestTypes
  <1>5. ASSUME NEW q \in AC, rtw_xmit(q) \/ pre_xmitframe(q) \/ DumpDone(q)
        PROVE  RestTypes'
    <2>1. UNCHANGED <<wifi_spec, mode, sent, scans, cannotTx, unheralded>>
      BY <1>5 DEF rtw_xmit, pre_xmitframe, DumpDone, NoSchedule, env
    <2>2. stopped' = stopped \/ rtw_os_pkt_complete(q)
      BY <1>5 DEF rtw_xmit, pre_xmitframe, DumpDone, rtw_free_xmitframe
    <2>3. stopped' \in [AC -> BOOLEAN]
      BY <1>1, <2>2, CompleteTyped
    <2> QED
      BY <1>1, <2>1, <2>3 DEF RestTypes
  <1>6. ASSUME NEW q \in AC, xmitframe_direct(q) PROVE RestTypes'
    <2>1. UNCHANGED <<wifi_spec, mode, sent, scans, stopped>>
      BY <1>6 DEF xmitframe_direct, env
    <2>2. unheralded' = unheralded \/ Unheralded
      BY <1>6 DEF xmitframe_direct
    <2>3. unheralded' \in BOOLEAN
      BY <1>1, <2>2, UnheraldedTyped
    <2>4. cannotTx' = cannotTx \/ cannotTx' \in {cannotTx, TRUE}
      BY <1>6 DEF xmitframe_direct, Submitted, NotSubmitted
    <2>5. cannotTx' \in BOOLEAN
      BY <1>1, <2>4, Zenon
    <2> QED
      BY <1>1, <2>1, <2>3, <2>5 DEF RestTypes
  <1>7. CASE \/ RunTasklet \/ rtl8812au_xmit_tasklet \/ rtw_alloc_xmitbuf
             \/ rtw_dequeue_xframe \/ TaskletFree \/ TaskletRelease
    <2>1. UNCHANGED <<wifi_spec, mode, sent, scans, stopped, cannotTx, unheralded>>
      BY <1>7 DEF RunTasklet, rtl8812au_xmit_tasklet, rtw_alloc_xmitbuf,
                  rtw_dequeue_xframe, TaskletFree, TaskletRelease, env
    <2> QED
      BY <1>1, <2>1 DEF RestTypes
  <1>8. CASE CoalesceFirst
    <2>1. UNCHANGED <<wifi_spec, mode, sent, scans, cannotTx, unheralded>>
      BY <1>8 DEF CoalesceFirst, env
    <2>2. rtw_os_pkt_complete(tasklet.skb) /\ tasklet.skb \in AC
      BY <1>8 DEF CoalesceFirst, rtw_free_xmitframe, At, PacketKnown
    <2>3. stopped' \in [AC -> BOOLEAN]
      BY <1>1, <2>2, CompleteTyped
    <2> QED
      BY <1>1, <2>1, <2>3 DEF RestTypes
  <1>9. CASE Aggregate
    <2>1. UNCHANGED <<wifi_spec, mode, sent, scans, cannotTx, unheralded>>
      BY <1>9 DEF Aggregate, env
    <2>2. PICK k : stopped' = [i \in AC |-> stopped[i] /\ ~ \E n \in 1..k :
              /\ skbs[tasklet.sta][tasklet.ac][n] = i
              /\ wifi_spec => Left(tasklet.ac, n, i) < WmmThreshold]
      BY <1>9 DEF Aggregate
    <2> DEFINE b(i) == stopped[i] /\ ~ \E n \in 1..k :
              /\ skbs[tasklet.sta][tasklet.ac][n] = i
              /\ wifi_spec => Left(tasklet.ac, n, i) < WmmThreshold
    <2>3. \A i \in AC : b(i) \in BOOLEAN
      OBVIOUS
    <2>4. stopped' = [i \in AC |-> b(i)]
      BY <2>2
    <2> HIDE DEF b
    <2>5. stopped' \in [AC -> BOOLEAN]
      BY <1>1, <2>3, <2>4
    <2> QED
      BY <1>1, <2>1, <2>5 DEF RestTypes
  <1>10. CASE TaskletWrite
    <2>1. UNCHANGED <<wifi_spec, mode, sent, scans, stopped, unheralded>>
      BY <1>10 DEF TaskletWrite, env
    <2>2. cannotTx' = cannotTx \/ cannotTx' \in {cannotTx, TRUE}
      BY <1>10 DEF TaskletWrite, Submitted, NotSubmitted
    <2>3. cannotTx' \in BOOLEAN
      BY <1>1, <2>2, Zenon
    <2> QED
      BY <1>1, <2>1, <2>3 DEF RestTypes
  <1>11. CASE usb_write_port_complete
    <2>1. UNCHANGED <<wifi_spec, mode, sent, scans, stopped>>
      BY <1>11 DEF usb_write_port_complete, env
    <2>2. unheralded' \in BOOLEAN
      BY <1>11 DEF usb_write_port_complete, Schedule
    <2>3. cannotTx' \in {cannotTx, TRUE}
      BY <1>11 DEF usb_write_port_complete
    <2>4. cannotTx' \in BOOLEAN
      BY <1>1, <2>3, Zenon
    <2> QED
      BY <1>1, <2>1, <2>2, <2>4 DEF RestTypes
  <1>12. CASE SetFwState
    <2>1. UNCHANGED <<wifi_spec, sent, stopped, cannotTx, unheralded>>
      BY <1>12 DEF SetFwState, NoSchedule
    <2>2. scans' \in 0 .. MaxScans
      BY <1>1, <1>2, <1>12 DEF SetFwState
    <2>3. mode' \in {"open", "survey", "linking", "done"}
      BY <1>12 DEF SetFwState
    <2> QED
      BY <1>1, <2>1, <2>2, <2>3 DEF RestTypes
  <1>13. CASE ClrFwState
    <2>1. UNCHANGED <<wifi_spec, sent, scans, stopped, cannotTx, unheralded>> /\ mode' = "done"
      BY <1>13 DEF ClrFwState, NoSchedule
    <2> QED
      BY <1>1, <2>1 DEF RestTypes
  <1>14. CASE rtw_os_xmit_schedule
    <2>1. UNCHANGED <<wifi_spec, sent, scans, stopped, cannotTx>> /\ mode' = "open"
      BY <1>14 DEF rtw_os_xmit_schedule
    <2>2. unheralded' = FALSE \/ unheralded' = unheralded
      BY <1>14, Zenon DEF rtw_os_xmit_schedule, Schedule, NoSchedule
    <2>3. unheralded' \in BOOLEAN
      BY <1>1, <2>2, Zenon
    <2> QED
      BY <1>1, <2>1, <2>3 DEF RestTypes
  <1>15. CASE FwStateTimeout
    <2>1. UNCHANGED <<wifi_spec, sent, scans, stopped, cannotTx>> /\ mode' = "open"
      BY <1>15 DEF FwStateTimeout
    <2>2. Unheralded
      BY <1>15 DEF FwStateTimeout
    <2>3. unheralded' \in BOOLEAN
      BY <2>2, UnheraldedTyped
    <2> QED
      BY <1>1, <2>1, <2>3 DEF RestTypes
  <1>16. ASSUME NEW s \in Sta, rtw_free_stainfo(s) PROVE RestTypes'
    <2>1. UNCHANGED <<wifi_spec, mode, sent, scans, cannotTx, unheralded>>
      BY <1>16 DEF rtw_free_stainfo, env, NoSchedule
    <2> DEFINE b(q) == stopped[q] /\ ~( /\ q \in {p \in AC : pending[s][p] > 0}
                                                   \cup UNION {Range(skbs[s][p]) : p \in AC}
                                        /\ wifi_spec => accnt[q] - pending[s][q] < WmmThreshold)
    <2>2. stopped' = [q \in AC |-> b(q)]
      BY <1>16 DEF rtw_free_stainfo
    <2>3. \A q \in AC : b(q) \in BOOLEAN
      OBVIOUS
    <2> HIDE DEF b
    <2>4. stopped' \in [AC -> BOOLEAN]
      BY <2>2, <2>3
    <2> QED
      BY <1>1, <2>1, <2>4 DEF RestTypes
  <1>17. CASE UNCHANGED vars
    BY <1>1, <1>17 DEF vars, RestTypes
  <1> QED
    BY <1>4, <1>5, <1>6, <1>7, <1>8, <1>9, <1>10, <1>11, <1>12, <1>13, <1>14, <1>15,
       <1>16, <1>17 DEF Next, SenderStep, TaskletStep

LEMMA RestKept == Spec => []RestTypes
  BY RestInit, RestNext, PacketKept, PoolsKept, PTL DEF Spec

(* What Take, rtw_xmit_classifier and rtw_free_stainfo do to the packets of *)
(* the queues, place by place.                                              *)
LEMMA TakePackets ==
    ASSUME QueueInv, NEW q \in AC, NEW s \in Sta, NEW k \in 0 .. pending[s][q],
           Take(q, s, k), NEW t \in Sta, NEW p \in AC
    PROVE  /\ Len(skbs'[t][p]) = IF t = s /\ p = q THEN Len(skbs[t][p]) - k
                                                   ELSE Len(skbs[t][p])
           /\ \A n \in 1 .. Len(skbs'[t][p]) :
                skbs'[t][p][n] = IF t = s /\ p = q THEN skbs[t][p][n + k] ELSE skbs[t][p][n]
  <1>1. /\ skbs \in [Sta -> [AC -> Seq(AC)]] /\ skbs[s][q] \in Seq(AC)
        /\ pending[s][q] = Len(skbs[s][q])
    BY DEF QueueInv, Held
  <1>2. PICK u : u = SubSeq(skbs[s][q], k + 1, Len(skbs[s][q]))
    OBVIOUS
  <1>3. skbs' = [skbs EXCEPT ![s] = [skbs[s] EXCEPT ![q] = u]]
    BY <1>1, <1>2 DEF Take
  <1>4. CASE t = s /\ p = q
    <2>1. skbs'[t][p] = u
      BY <1>1, <1>3, <1>4
    <2>2. k \in Nat /\ k <= Len(skbs[s][q]) /\ Len(skbs[s][q]) \in Nat
      BY <1>1
    <2>3. /\ Len(u) = Len(skbs[s][q]) - k
          /\ \A n \in 1 .. Len(u) : u[n] = skbs[s][q][n + k]
      BY <1>1, <1>2, <2>2
    <2> QED
      BY <1>4, <2>1, <2>3
  <1>5. CASE ~ (t = s /\ p = q)
    <2>1. skbs'[t][p] = skbs[t][p]
      BY <1>1, <1>3, <1>5
    <2> QED
      BY <1>5, <2>1
  <1> QED
    BY <1>4, <1>5

LEMMA ClassifierPackets ==
    ASSUME QueueInv, NEW q \in AC, NEW s \in Sta, NEW i \in AC,
           rtw_xmit_classifier(q, s, i), NEW t \in Sta, NEW p \in AC
    PROVE  /\ Len(skbs'[t][p]) = IF t = s /\ p = q THEN Len(skbs[t][p]) + 1
                                                   ELSE Len(skbs[t][p])
           /\ \A n \in 1 .. Len(skbs'[t][p]) :
                skbs'[t][p][n] = IF t = s /\ p = q /\ n = Len(skbs[t][p]) + 1
                                   THEN i ELSE skbs[t][p][n]
  <1>1. /\ skbs \in [Sta -> [AC -> Seq(AC)]] /\ skbs[s][q] \in Seq(AC)
        /\ skbs[t][p] \in Seq(AC)
    BY DEF QueueInv, Held
  <1>2. PICK u : u = Append(skbs[s][q], i)
    OBVIOUS
  <1>3. skbs' = [skbs EXCEPT ![s] = [skbs[s] EXCEPT ![q] = u]]
    BY <1>1, <1>2 DEF rtw_xmit_classifier
  <1>4. CASE t = s /\ p = q
    <2>1. skbs'[t][p] = u
      BY <1>1, <1>3, <1>4
    <2>2. /\ Len(u) = Len(skbs[s][q]) + 1
          /\ \A n \in 1 .. Len(u) : u[n] = IF n = Len(skbs[s][q]) + 1 THEN i ELSE skbs[s][q][n]
      BY <1>1, <1>2
    <2> QED
      BY <1>4, <2>1, <2>2
  <1>5. CASE ~ (t = s /\ p = q)
    <2>1. skbs'[t][p] = skbs[t][p]
      BY <1>1, <1>3, <1>5
    <2> QED
      BY <1>5, <2>1
  <1> QED
    BY <1>4, <1>5

LEMMA FreePackets ==
    ASSUME QueueInv, NEW s \in Sta, rtw_free_stainfo(s), NEW t \in Sta, NEW p \in AC
    PROVE  skbs'[t][p] = IF t = s THEN <<>> ELSE skbs[t][p]
  BY DEF QueueInv, Held, rtw_free_stainfo

(* Under wifi_spec a category that has held no other queue's packets holds *)
(* none.                                                                   *)
OwnPackets ==
    /\ foreign \in SUBSET AC
    /\ wifi_spec => \A s \in Sta, q \in AC : q \notin foreign =>
                      \A n \in 1 .. Len(skbs[s][q]) : skbs[s][q][n] = q

LEMMA SpecFixed == [Next]_vars => UNCHANGED wifi_spec
  <1> SUFFICES ASSUME [Next]_vars PROVE UNCHANGED wifi_spec
    OBVIOUS
  <1>1. ASSUME NEW q \in AC, NEW s \in Sta, _rtw_xmit_entry(q, s) PROVE UNCHANGED wifi_spec
    BY <1>1 DEF _rtw_xmit_entry
  <1>2. ASSUME NEW q \in AC, SenderStep(q) PROVE UNCHANGED wifi_spec
    BY <1>2 DEF SenderStep, rtw_xmit, pre_xmitframe, xmitframe_direct, DumpDone, env
  <1>3. CASE TaskletStep
    BY <1>3 DEF TaskletStep, RunTasklet, rtl8812au_xmit_tasklet, rtw_alloc_xmitbuf,
         rtw_dequeue_xframe, CoalesceFirst, Aggregate, TaskletWrite, TaskletFree,
         TaskletRelease, env
  <1>4. CASE \/ usb_write_port_complete \/ SetFwState \/ ClrFwState
             \/ rtw_os_xmit_schedule \/ FwStateTimeout
    BY <1>4 DEF usb_write_port_complete, SetFwState, ClrFwState, rtw_os_xmit_schedule,
         FwStateTimeout, env
  <1>5. ASSUME NEW s \in Sta, rtw_free_stainfo(s) PROVE UNCHANGED wifi_spec
    BY <1>5 DEF rtw_free_stainfo, env
  <1>6. CASE UNCHANGED vars
    BY <1>6 DEF vars
  <1> QED
    BY <1>1, <1>2, <1>3, <1>4, <1>5, <1>6 DEF Next

LEMMA OwnNext == PoolInv /\ OwnPackets /\ [Next]_vars => OwnPackets'
  <1> SUFFICES ASSUME PoolInv, OwnPackets, [Next]_vars PROVE OwnPackets'
    OBVIOUS
  <1>1. /\ QueueInv /\ QueueTypes /\ tasklet \in TaskletState /\ tasklet.ac \in AC
        /\ sender \in [AC -> SenderState]
    BY DEF PoolInv, QueueInv, PoolTypes, TaskletState
  <1>2. wifi_spec' = wifi_spec
    BY SpecFixed
  <1>3. CASE UNCHANGED queues
    BY <1>2, <1>3 DEF queues, OwnPackets
  <1>4. ASSUME NEW q \in AC, NEW s \in Sta, NEW k \in 0 .. pending[s][q], Take(q, s, k)
        PROVE  OwnPackets'
    <2>1. foreign' = foreign
      BY <1>4 DEF Take
    <2>2. k \in Nat /\ k <= Len(skbs[s][q]) /\ Len(skbs[s][q]) \in Nat
      <3>1. skbs[s][q] \in Seq(AC) /\ pending[s][q] = Len(skbs[s][q])
        BY <1>1 DEF QueueInv, Held
      <3> QED
        BY <3>1
    <2>3. ASSUME NEW t \in Sta, NEW p \in AC, wifi_spec, p \notin foreign,
                 NEW n \in 1 .. Len(skbs'[t][p])
          PROVE  skbs'[t][p][n] = p
      <3>1. \A m \in 1 .. Len(skbs[t][p]) : skbs[t][p][m] = p
        BY <2>3 DEF OwnPackets
      <3>2. /\ Len(skbs'[t][p]) = IF t = s /\ p = q THEN Len(skbs[t][p]) - k
                                                    ELSE Len(skbs[t][p])
            /\ skbs'[t][p][n] = IF t = s /\ p = q THEN skbs[t][p][n + k] ELSE skbs[t][p][n]
        <4>1. /\ Len(skbs'[t][p]) = IF t = s /\ p = q THEN Len(skbs[t][p]) - k
                                                      ELSE Len(skbs[t][p])
              /\ \A m \in 1 .. Len(skbs'[t][p]) :
                   skbs'[t][p][m] = IF t = s /\ p = q THEN skbs[t][p][m + k] ELSE skbs[t][p][m]
          BY <1>1, <1>4, TakePackets
        <4> QED
          BY <4>1
      <3>3. CASE t = s /\ p = q
        <4>1. n + k \in 1 .. Len(skbs[t][p])
          BY <2>2, <3>2, <3>3
        <4> QED
          BY <3>1, <3>2, <3>3, <4>1
      <3>4. CASE ~ (t = s /\ p = q)
        <4>1. Len(skbs'[t][p]) = Len(skbs[t][p]) /\ skbs'[t][p][n] = skbs[t][p][n]
          BY <3>2, <3>4
        <4>2. n \in 1 .. Len(skbs[t][p])
          BY <4>1
        <4> QED
          BY <3>1, <4>1, <4>2
      <3> QED
        BY <3>3, <3>4
    <2> QED
      BY <1>2, <2>1, <2>3 DEF OwnPackets
  <1>5. ASSUME NEW q \in AC, NEW s \in Sta, NEW i \in AC, rtw_xmit_classifier(q, s, i)
        PROVE  OwnPackets'
    <2>1. foreign' = IF i = q \/ ~wifi_spec THEN foreign ELSE foreign \cup {q}
      BY <1>5 DEF rtw_xmit_classifier
    <2>2. foreign' \in SUBSET AC
      BY <2>1 DEF OwnPackets
    <2>3. ASSUME NEW t \in Sta, NEW p \in AC, wifi_spec, p \notin foreign',
                 NEW n \in 1 .. Len(skbs'[t][p])
          PROVE  skbs'[t][p][n] = p
      <3>1. p \notin foreign /\ (p = q => i = q)
        BY <2>1, <2>3
      <3>2. \A m \in 1 .. Len(skbs[t][p]) : skbs[t][p][m] = p
        BY <2>3, <3>1 DEF OwnPackets
      <3>3. /\ Len(skbs'[t][p]) = IF t = s /\ p = q THEN Len(skbs[t][p]) + 1
                                                    ELSE Len(skbs[t][p])
            /\ skbs'[t][p][n] = IF t = s /\ p = q /\ n = Len(skbs[t][p]) + 1
                                  THEN i ELSE skbs[t][p][n]
        BY <1>1, <1>5, ClassifierPackets
      <3>4. Len(skbs[t][p]) \in Nat
        <4>1. skbs[t][p] \in Seq(AC)
          BY <1>1 DEF QueueInv, Held
        <4> QED
          BY <4>1
      <3>5. CASE t = s /\ p = q /\ n = Len(skbs[t][p]) + 1
        BY <3>1, <3>3, <3>5
      <3>6. CASE ~ (t = s /\ p = q /\ n = Len(skbs[t][p]) + 1)
        <4>1. n \in 1 .. Len(skbs[t][p])
          BY <3>3, <3>4, <3>6
        <4> QED
          BY <3>2, <3>3, <3>6, <4>1
      <3> QED
        BY <3>5, <3>6
    <2> QED
      BY <1>2, <2>2, <2>3 DEF OwnPackets
  <1>6. ASSUME NEW s \in Sta, rtw_free_stainfo(s) PROVE OwnPackets'
    <2>1. foreign' = foreign
      BY <1>6 DEF rtw_free_stainfo
    <2>2. ASSUME NEW t \in Sta, NEW p \in AC, wifi_spec, p \notin foreign,
                 NEW n \in 1 .. Len(skbs'[t][p])
          PROVE  skbs'[t][p][n] = p
      <3>1. skbs'[t][p] = IF t = s THEN <<>> ELSE skbs[t][p]
        BY <1>1, <1>6, FreePackets
      <3>2. t # s
        BY <3>1
      <3> QED
        BY <2>2, <3>1, <3>2 DEF OwnPackets
    <2> QED
      BY <1>2, <2>1, <2>2 DEF OwnPackets
  <1>7. CASE rtw_dequeue_xframe
    <2>1. CASE ~ \E p \in AC : staQueue[p] # <<>>
      BY <1>3, <1>7, <2>1, DequeueNone
    <2>2. CASE \E p \in AC : staQueue[p] # <<>>
      BY <1>1, <1>4, <1>7, <2>2, DequeueChoice
    <2> QED
      BY <2>1, <2>2
  <1>8. CASE Aggregate
    <2>1. tasklet.sta \in Sta
      BY <1>8 DEF PoolInv, StationKnown, Aggregate, At, FrameSteps
    <2>2. PICK k \in 0 .. pending[tasklet.sta][tasklet.ac] :
            Take(tasklet.ac, tasklet.sta, k)
      BY <1>8 DEF Aggregate
    <2> QED
      BY <1>1, <1>4, <2>1, <2>2
  <1>9. ASSUME NEW q \in AC, pre_xmitframe(q) PROVE OwnPackets'
    <2>1. sender[q].sta \in Sta /\ sender[q].ac \in AC
      BY <1>1, <1>9 DEF PoolInv, StationKnown, SenderState, pre_xmitframe
    <2>2. \/ rtw_xmit_classifier(sender[q].ac, sender[q].sta, q)
          \/ UNCHANGED queues
      BY <1>9 DEF pre_xmitframe
    <2> QED
      BY <1>3, <1>5, <2>1, <2>2
  <1>10. ASSUME NEW q \in AC, rtw_xmit(q) \/ xmitframe_direct(q) \/ DumpDone(q)
         PROVE  UNCHANGED queues
    BY <1>10 DEF rtw_xmit, xmitframe_direct, DumpDone
  <1>11. ASSUME NEW q \in AC, NEW s \in Sta, _rtw_xmit_entry(q, s) PROVE UNCHANGED queues
    BY <1>11 DEF _rtw_xmit_entry
  <1>12. CASE \/ RunTasklet \/ rtl8812au_xmit_tasklet \/ rtw_alloc_xmitbuf
              \/ CoalesceFirst \/ TaskletWrite \/ TaskletFree \/ TaskletRelease
              \/ usb_write_port_complete \/ SetFwState \/ ClrFwState
              \/ rtw_os_xmit_schedule \/ FwStateTimeout
    <2>1. UNCHANGED queues
      BY <1>12 DEF RunTasklet, rtl8812au_xmit_tasklet, rtw_alloc_xmitbuf, CoalesceFirst,
           TaskletWrite, TaskletFree, TaskletRelease, usb_write_port_complete,
           SetFwState, ClrFwState, rtw_os_xmit_schedule, FwStateTimeout
    <2> QED
      BY <1>3, <2>1
  <1>13. UNCHANGED vars => UNCHANGED queues
    BY DEF vars, queues
  <1> QED
    BY <1>3, <1>6, <1>7, <1>8, <1>9, <1>10, <1>11, <1>12, <1>13
       DEF Next, SenderStep, TaskletStep

LEMMA OwnKept == Spec => []OwnPackets
  <1>1. Init => OwnPackets
    <2> SUFFICES ASSUME Init PROVE OwnPackets
      OBVIOUS
    <2>1. foreign = {} /\ skbs = [s \in Sta |-> [q \in AC |-> <<>>]]
      BY DEF Init
    <2>2. \A s \in Sta, q \in AC : Len(skbs[s][q]) = 0
      BY <2>1
    <2> QED
      BY <2>1, <2>2 DEF OwnPackets
  <1> QED
    BY <1>1, OwnNext, PoolsKept, PTL DEF Spec

(* Every variable keeps its type; the pools, the queues and the URBs in    *)
(* flight never exceed NR_XMITFRAME and NR_XMITBUFF, which follows from    *)
(* the balance of the pools and from nothing the code tests.               *)
THEOREM TypesKept == Spec => []TypeOK
  <1>1. PoolInv /\ RestTypes /\ OwnPackets => TypeOK
    <2> SUFFICES ASSUME PoolInv, RestTypes, OwnPackets PROVE TypeOK
      OBVIOUS
    <2>1. /\ QueueInv /\ QueueTypes /\ PoolTypes /\ FramesBalanced /\ BufsBalanced
          /\ NrXmitFrame \in Nat /\ NrXmitBuff \in Nat
      BY PoolAssumption DEF PoolInv, QueueInv
    <2>2. Total(accnt) \in Nat
      BY <2>1, ACFinite, PlacesFinite DEF QueueTypes
    <2>3. frames \in 0 .. NrXmitFrame /\ Total(accnt) <= NrXmitFrame
      <3>1. /\ Senders(HoldsFrame) \in Nat /\ Holds(FrameSteps) \in 0 .. 1
            /\ frames \in Nat
        BY <2>1, SendersType, HoldsType DEF PoolTypes
      <3>2. NrXmitFrame = frames + Total(accnt) + Senders(HoldsFrame) + Holds(FrameSteps)
        BY <2>1 DEF FramesBalanced
      <3> DEFINE T == Total(accnt)
                 G == Senders(HoldsFrame)
                 H == Holds(FrameSteps)
      <3>3. T \in Nat /\ G \in Nat /\ H \in Nat /\ NrXmitFrame = frames + T + G + H
        BY <2>2, <3>1, <3>2
      <3> HIDE DEF T, G, H
      <3>4. frames \in 0 .. NrXmitFrame /\ T <= NrXmitFrame
        BY <2>1, <3>1, <3>3
      <3> QED
        BY <3>4 DEF T
    <2>4. bufs \in 0 .. NrXmitBuff /\ inflight \in 0 .. NrXmitBuff
      <3> DEFINE G == Senders({"direct"})
                 H == Holds(BufSteps)
      <3>1. bufs \in Nat /\ inflight \in Nat
        BY <2>1 DEF PoolTypes
      <3>2. G \in Nat /\ H \in Nat
        BY SendersType, HoldsType
      <3>3. NrXmitBuff = bufs + inflight + G + H
        BY <2>1 DEF BufsBalanced
      <3> HIDE DEF G, H
      <3> QED
        BY <2>1, <3>1, <3>2, <3>3
    <2>5. \A q \in AC : accnt[q] \in 0 .. NrXmitFrame
      <3> SUFFICES ASSUME NEW q \in AC PROVE accnt[q] \in 0 .. NrXmitFrame
        OBVIOUS
      <3>1. accnt \in [AC -> Nat] /\ accnt[q] \in Nat
        BY <2>1 DEF QueueTypes
      <3>2. accnt[q] <= Total(accnt)
        BY <3>1, ACFinite, TotalBounds
      <3> QED
        BY <2>1, <2>2, <2>3, <3>1, <3>2
    <2>6. \A s \in Sta, q \in AC : pending[s][q] \in 0 .. NrXmitFrame
      <3> SUFFICES ASSUME NEW s \in Sta, NEW q \in AC
                   PROVE  pending[s][q] \in 0 .. NrXmitFrame
        OBVIOUS
      <3>1. pending[s][q] \in Nat /\ accnt[q] \in Nat /\ pending[s][q] <= accnt[q]
        BY <2>1, QueueBounds
      <3>2. accnt[q] <= NrXmitFrame
        BY <2>1, <2>5
      <3> QED
        BY <2>1, <3>1, <3>2
    <2>7. accnt \in [AC -> 0 .. NrXmitFrame]
      BY <2>1, <2>5 DEF QueueTypes
    <2>8. pending \in [Sta -> [AC -> 0 .. NrXmitFrame]]
      BY <2>1, <2>6 DEF QueueTypes
    <2>9. skbs \in [Sta -> [AC -> Seq(AC)]] /\ foreign \in SUBSET AC
      BY <2>1 DEF QueueInv, Held, OwnPackets
    <2> QED
      BY <2>1, <2>3, <2>4, <2>7, <2>8, <2>9
         DEF TypeOK, RestTypes, QueueTypes, PoolTypes, SenderState, TaskletState
  <1> QED
    BY <1>1, RestKept, PoolsKept, OwnKept, PTL

-----------------------------------------------------------------------------
(* A stopped transmit queue has a packet of its own in the driver.         *)

(* A packet of transmit queue i is in a queue of some station.             *)
Queued(i) == \E s \in Sta, q \in AC : \E n \in 1 .. Len(skbs[s][q]) : skbs[s][q][n] = i

LEMMA CarriedMeans ==
    ASSUME Held, NEW i \in AC
    PROVE  Carried(i) <=> \/ sender[i].pc # "idle"
                          \/ Queued(i)
                          \/ tasklet.pc = "coalesce" /\ tasklet.skb = i
  <1>1. ASSUME NEW s \in Sta, NEW q \in AC
        PROVE  i \in Range(skbs[s][q]) <=> \E n \in 1 .. Len(skbs[s][q]) : skbs[s][q][n] = i
    <2>1. skbs[s][q] \in Seq(AC)
      BY DEF Held
    <2>2. DOMAIN skbs[s][q] = 1 .. Len(skbs[s][q])
      BY <2>1
    <2> QED
      BY <2>2 DEF Range
  <1> QED
    BY <1>1 DEF Carried, Queued

(* A category with frames that are all of its own transmit queue.          *)
LEMMA OwnQueued ==
    ASSUME QueueInv, OwnPackets, wifi_spec, NEW i \in AC, i \notin foreign, accnt[i] > 0
    PROVE  Queued(i)
  <1>1. QueueTypes /\ accnt[i] = Total(Column(i)) /\ Held
    BY DEF QueueInv, Counted
  <1>2. Column(i) \in [Sta -> Nat] /\ \A s \in Sta : Column(i)[s] = pending[s][i]
    BY <1>1, ColumnType
  <1>3. PICK s \in Sta : Column(i)[s] # 0
    <2>1. ASSUME \A s \in Sta : Column(i)[s] = 0 PROVE FALSE
      <3>1. Total(Column(i)) = 0
        BY <1>2, <2>1, TotalNone
      <3> QED
        BY <1>1, <3>1
    <2> QED
      BY <2>1
  <1>4. Len(skbs[s][i]) \in Nat /\ Len(skbs[s][i]) # 0
    <2>1. skbs[s][i] \in Seq(AC) /\ pending[s][i] = Len(skbs[s][i])
      BY <1>1 DEF Held
    <2> QED
      BY <1>2, <1>3, <2>1
  <1>5. 1 \in 1 .. Len(skbs[s][i]) /\ skbs[s][i][1] = i
    BY <1>4 DEF OwnPackets
  <1> QED
    BY <1>5 DEF Queued

(* The packets that stay in the queues.                                    *)
LEMMA TakeLeaves ==
    ASSUME QueueInv, NEW q \in AC, NEW s \in Sta, NEW k \in 0 .. pending[s][q],
           Take(q, s, k), NEW i \in AC, Queued(i)
    PROVE  Queued(i)' \/ \E n \in 1 .. k : skbs[s][q][n] = i
  <1>0. PICK t \in Sta, p \in AC : \E n \in 1 .. Len(skbs[t][p]) : skbs[t][p][n] = i
    BY DEF Queued
  <1>1. PICK n \in 1 .. Len(skbs[t][p]) : skbs[t][p][n] = i
    BY <1>0
  <1>2. /\ Len(skbs'[t][p]) = IF t = s /\ p = q THEN Len(skbs[t][p]) - k
                                                ELSE Len(skbs[t][p])
        /\ \A m \in 1 .. Len(skbs'[t][p]) :
             skbs'[t][p][m] = IF t = s /\ p = q THEN skbs[t][p][m + k] ELSE skbs[t][p][m]
    BY TakePackets
  <1>3. skbs[t][p] \in Seq(AC) /\ pending[t][p] = Len(skbs[t][p]) /\ Len(skbs[t][p]) \in Nat
    BY DEF QueueInv, Held
  <1>4. CASE t = s /\ p = q
    <2>1. k \in Nat /\ k <= Len(skbs[t][p]) /\ n \in Nat
      BY <1>3, <1>4
    <2>2. CASE n <= k
      <3>1. n \in 1 .. k
        BY <2>1, <2>2
      <3> QED
        BY <1>1, <1>4, <3>1
    <2>3. CASE ~ (n <= k)
      <3>1. n - k \in 1 .. Len(skbs'[t][p]) /\ (n - k) + k = n
        BY <1>2, <1>3, <1>4, <2>1, <2>3
      <3>2. skbs'[t][p][n - k] = i
        BY <1>1, <1>2, <1>4, <3>1
      <3> QED
        BY <3>1, <3>2 DEF Queued
    <2> QED
      BY <2>2, <2>3
  <1>5. CASE ~ (t = s /\ p = q)
    <2>1. n \in 1 .. Len(skbs'[t][p]) /\ skbs'[t][p][n] = i
      BY <1>1, <1>2, <1>5
    <2> QED
      BY <2>1 DEF Queued
  <1> QED
    BY <1>4, <1>5

LEMMA ClassifierLeaves ==
    ASSUME QueueInv, NEW q \in AC, NEW s \in Sta, NEW i \in AC,
           rtw_xmit_classifier(q, s, i), NEW j \in AC, Queued(j) \/ j = i
    PROVE  Queued(j)'
  <1>1. CASE j = i
    <2>1. /\ Len(skbs'[s][q]) = Len(skbs[s][q]) + 1
          /\ \A m \in 1 .. Len(skbs'[s][q]) :
               skbs'[s][q][m] = IF m = Len(skbs[s][q]) + 1 THEN i ELSE skbs[s][q][m]
      BY ClassifierPackets
    <2>2. Len(skbs[s][q]) \in Nat
      <3>1. skbs[s][q] \in Seq(AC)
        BY DEF QueueInv, Held
      <3> QED
        BY <3>1
    <2>3. Len(skbs[s][q]) + 1 \in 1 .. Len(skbs'[s][q])
      BY <2>1, <2>2
    <2> QED
      BY <1>1, <2>1, <2>3 DEF Queued
  <1>2. CASE Queued(j)
    <2>0. PICK t \in Sta, p \in AC : \E n \in 1 .. Len(skbs[t][p]) : skbs[t][p][n] = j
      BY <1>2 DEF Queued
    <2>1. PICK n \in 1 .. Len(skbs[t][p]) : skbs[t][p][n] = j
      BY <2>0
    <2>2. /\ Len(skbs'[t][p]) = IF t = s /\ p = q THEN Len(skbs[t][p]) + 1
                                                  ELSE Len(skbs[t][p])
          /\ \A m \in 1 .. Len(skbs'[t][p]) :
               skbs'[t][p][m] = IF t = s /\ p = q /\ m = Len(skbs[t][p]) + 1
                                  THEN i ELSE skbs[t][p][m]
      BY ClassifierPackets
    <2>3. Len(skbs[t][p]) \in Nat
      <3>1. skbs[t][p] \in Seq(AC)
        BY DEF QueueInv, Held
      <3> QED
        BY <3>1
    <2>4. n \in 1 .. Len(skbs'[t][p]) /\ n # Len(skbs[t][p]) + 1
      BY <2>2, <2>3
    <2>5. skbs'[t][p][n] = j
      BY <2>1, <2>2, <2>4
    <2> QED
      BY <2>4, <2>5 DEF Queued
  <1> QED
    BY <1>1, <1>2

(* A completion wakes its queue, unless wifi_spec counts frames of its     *)
(* category.                                                               *)
LEMMA Completed ==
    ASSUME RestTypes, QueueTypes, NEW q \in AC, rtw_os_pkt_complete(q), NEW p \in AC,
           stopped'[p]
    PROVE  stopped[p] /\ (p = q => wifi_spec /\ accnt[q] > 0)
  <1>1. stopped \in [AC -> BOOLEAN] /\ accnt[q] \in Nat
    BY DEF RestTypes, QueueTypes
  <1>2. WmmThreshold \in Nat /\ WmmThreshold # 0
    BY PoolAssumption
  <1>3. CASE p = q
    <2>1. stopped[q] /\ ~rtw_os_need_wake_queue(q)
      BY <1>1, <1>3 DEF rtw_os_pkt_complete
    <2>2. wifi_spec /\ ~ (accnt[q] < WmmThreshold)
      BY <2>1 DEF rtw_os_need_wake_queue
    <2>3. accnt[q] > 0
      BY <1>1, <1>2, <2>2
    <2> QED
      BY <1>3, <2>1, <2>2, <2>3
  <1>4. CASE p # q
    BY <1>1, <1>4 DEF rtw_os_pkt_complete
  <1> QED
    BY <1>3, <1>4

(* Every step keeps a packet of a stopped queue in the driver, or leaves a *)
(* count behind that keeps the queue stopped.                              *)
LEMMA StoppedStep ==
    ASSUME PoolInv, PacketKnown, OwnPackets, RestTypes, [Next]_vars, NEW p \in AC,
           stopped'[p], p \notin foreign, stopped[p] => Carried(p)
    PROVE  \/ sender'[p].pc # "idle"
           \/ Queued(p)'
           \/ tasklet'.pc = "coalesce" /\ tasklet'.skb = p
           \/ wifi_spec /\ accnt'[p] > 0
  <1> DEFINE Kept == \/ sender'[p].pc # "idle"
                     \/ Queued(p)'
                     \/ tasklet'.pc = "coalesce" /\ tasklet'.skb = p
                     \/ wifi_spec /\ accnt'[p] > 0
  <1>1. /\ QueueInv /\ QueueTypes /\ Held /\ PoolTypes /\ sender \in [AC -> SenderState]
        /\ tasklet \in TaskletState /\ tasklet.ac \in AC
        /\ stopped \in [AC -> BOOLEAN] /\ accnt \in [AC -> Nat]
    BY DEF PoolInv, QueueInv, QueueTypes, PoolTypes, RestTypes, TaskletState
  <1>2. stopped[p] => \/ sender[p].pc # "idle"
                      \/ Queued(p)
                      \/ tasklet.pc = "coalesce" /\ tasklet.skb = p
    BY <1>1, CarriedMeans
  <1>3. WmmThreshold \in Nat /\ WmmThreshold # 0
    BY PoolAssumption
  <1>0. UNCHANGED queues => (Queued(p)' <=> Queued(p)) /\ UNCHANGED accnt
    BY DEF queues, Queued
  <1>4. ASSUME NEW q \in AC, NEW s \in Sta, _rtw_xmit_entry(q, s) PROVE Kept
    <2>1. UNCHANGED tasklet /\ UNCHANGED queues
      BY <1>4 DEF _rtw_xmit_entry, NoSchedule
    <2>2. CASE cannotTx
      <3>1. UNCHANGED <<sender, stopped>>
        BY <1>4, <2>2 DEF _rtw_xmit_entry
      <3> QED
        BY <1>2, <1>0, <2>1, <3>1
    <2>3. CASE ~cannotTx
      <3>1. /\ sender' = [sender EXCEPT ![q] = [pc |-> "alloc", sta |-> s, ac |-> q]]
            /\ stopped' = [stopped EXCEPT ![q] = rtw_os_need_stop_queue(q)]
        BY <1>4, <2>3 DEF _rtw_xmit_entry
      <3>2. CASE p = q
        BY <1>1, <3>1, <3>2
      <3>3. CASE p # q
        <4>1. stopped[p] /\ sender'[p] = sender[p]
          BY <1>1, <3>1, <3>3
        <4> QED
          BY <1>2, <1>0, <2>1, <4>1
      <3> QED
        BY <3>2, <3>3
    <2> QED
      BY <2>2, <2>3
  <1>5. ASSUME NEW q \in AC, rtw_xmit(q) \/ DumpDone(q) PROVE Kept
    <2>1. UNCHANGED tasklet /\ UNCHANGED queues
      BY <1>5 DEF rtw_xmit, DumpDone, NoSchedule
    <2>2. \/ /\ \E a \in Classes[q] : sender' = [sender EXCEPT ![q].pc = "pre", ![q].ac = a]
             /\ UNCHANGED stopped
          \/ Return(q) /\ rtw_os_pkt_complete(q)
      BY <1>5 DEF rtw_xmit, DumpDone, rtw_free_xmitframe
    <2>3. CASE /\ \E a \in Classes[q] : sender' = [sender EXCEPT ![q].pc = "pre", ![q].ac = a]
               /\ UNCHANGED stopped
      <3>1. stopped[p] /\ (sender'[p].pc # "idle" \/ sender'[p] = sender[p])
        BY <1>1, <2>3 DEF SenderState
      <3> QED
        BY <1>2, <1>0, <2>1, <3>1
    <2>4. CASE Return(q) /\ rtw_os_pkt_complete(q)
      <3>1. stopped[p] /\ (p = q => wifi_spec /\ accnt[q] > 0)
        BY <1>1, <2>4, Completed
      <3>2. p # q => sender'[p] = sender[p]
        BY <1>1, <2>4 DEF Return
      <3> QED
        BY <1>2, <1>0, <2>1, <3>1, <3>2
    <2> QED
      BY <2>2, <2>3, <2>4
  <1>6. ASSUME NEW q \in AC, pre_xmitframe(q) PROVE Kept
    <2>1. /\ UNCHANGED tasklet /\ sender[q].pc = "pre"
          /\ sender[q].sta \in Sta /\ sender[q].ac \in AC
      BY <1>1, <1>6 DEF pre_xmitframe, NoSchedule, PoolInv, StationKnown, SenderState
    <2>2. \/ /\ rtw_xmit_classifier(sender[q].ac, sender[q].sta, q) /\ Return(q)
             /\ UNCHANGED stopped
          \/ rtw_os_pkt_complete(q) /\ Return(q) /\ UNCHANGED queues
          \/ /\ sender' = [sender EXCEPT ![q].pc = "direct", ![q].ac = q]
             /\ UNCHANGED stopped /\ UNCHANGED queues
      BY <1>6 DEF pre_xmitframe, rtw_free_xmitframe
    <2>3. CASE /\ rtw_xmit_classifier(sender[q].ac, sender[q].sta, q) /\ Return(q)
               /\ UNCHANGED stopped
      <3>1. Queued(p) \/ p = q => Queued(p)'
        BY <1>1, <2>1, <2>3, ClassifierLeaves
      <3>2. CASE p = q
        BY <3>1, <3>2
      <3>3. CASE p # q
        <4>1. sender'[p] = sender[p] /\ stopped[p]
          BY <1>1, <2>3, <3>3 DEF Return
        <4> QED
          BY <1>2, <2>1, <3>1, <4>1
      <3> QED
        BY <3>2, <3>3
    <2>4. CASE rtw_os_pkt_complete(q) /\ Return(q) /\ UNCHANGED queues
      <3>1. stopped[p] /\ (p = q => wifi_spec /\ accnt[q] > 0)
        BY <1>1, <2>4, Completed
      <3>2. p # q => sender'[p] = sender[p]
        BY <1>1, <2>4 DEF Return
      <3> QED
        BY <1>2, <1>0, <2>1, <2>4, <3>1, <3>2
    <2>5. CASE /\ sender' = [sender EXCEPT ![q].pc = "direct", ![q].ac = q]
               /\ UNCHANGED stopped /\ UNCHANGED queues
      <3>1. stopped[p] /\ (sender'[p].pc # "idle" \/ sender'[p] = sender[p])
        BY <1>1, <2>5 DEF SenderState
      <3> QED
        BY <1>2, <1>0, <2>1, <2>5, <3>1
    <2> QED
      BY <2>2, <2>3, <2>4, <2>5
  <1>7. ASSUME NEW q \in AC, xmitframe_direct(q) PROVE Kept
    <2>1. UNCHANGED <<tasklet, stopped>> /\ UNCHANGED queues /\ Goto(q, "free")
      BY <1>7 DEF xmitframe_direct
    <2>2. stopped[p] /\ (sender'[p].pc # "idle" \/ sender'[p] = sender[p])
      BY <1>1, <2>1 DEF Goto, SenderState
    <2> QED
      BY <1>2, <1>0, <2>1, <2>2
  <1>8. CASE \/ RunTasklet \/ rtl8812au_xmit_tasklet \/ rtw_alloc_xmitbuf
             \/ TaskletWrite \/ TaskletFree \/ TaskletRelease
    <2>1. UNCHANGED <<stopped, sender>> /\ UNCHANGED queues
      BY <1>8 DEF RunTasklet, rtl8812au_xmit_tasklet, rtw_alloc_xmitbuf,
                  TaskletWrite, TaskletFree, TaskletRelease
    <2>2. tasklet.pc # "coalesce"
      BY <1>8 DEF RunTasklet, rtl8812au_xmit_tasklet, rtw_alloc_xmitbuf,
                  TaskletWrite, TaskletFree, TaskletRelease, At
    <2> QED
      BY <1>2, <1>0, <2>1, <2>2
  <1>9. CASE rtw_dequeue_xframe
    <2>1. UNCHANGED <<stopped, sender>> /\ tasklet.pc = "dequeue"
      BY <1>9 DEF rtw_dequeue_xframe, At
    <2>2. Queued(p) \/ sender[p].pc # "idle"
      BY <1>2, <2>1
    <2>3. CASE ~ \E q \in AC : staQueue[q] # <<>>
      <3>1. UNCHANGED queues
        BY <1>9, <2>3, DequeueNone
      <3> QED
        BY <1>0, <2>1, <2>2, <3>1
    <2>4. CASE \E q \in AC : staQueue[q] # <<>>
      <3>1. PICK q \in AC, s \in Sta :
               /\ 1 \in 0 .. pending[s][q]
               /\ Take(q, s, 1)
               /\ tasklet' = [tasklet EXCEPT !.pc = "coalesce", !.ac = q, !.sta = s,
                                             !.skb = skbs[s][q][1]]
        BY <1>1, <1>9, <2>4, DequeueChoice
      <3>2. tasklet'.pc = "coalesce" /\ tasklet'.skb = skbs[s][q][1]
        BY <1>1, <3>1 DEF TaskletState
      <3>3. Queued(p) => Queued(p)' \/ \E n \in 1 .. 1 : skbs[s][q][n] = p
        BY <1>1, <3>1, TakeLeaves
      <3>4. Queued(p) => Queued(p)' \/ tasklet'.skb = p
        BY <3>2, <3>3
      <3> QED
        BY <2>1, <2>2, <3>2, <3>4
    <2> QED
      BY <2>3, <2>4
  <1>10. CASE CoalesceFirst
    <2>1. UNCHANGED sender /\ UNCHANGED queues /\ tasklet.skb \in AC
      BY <1>10 DEF CoalesceFirst, PacketKnown, At
    <2>2. rtw_os_pkt_complete(tasklet.skb)
      BY <1>10 DEF CoalesceFirst, rtw_free_xmitframe
    <2>3. stopped[p] /\ (p = tasklet.skb => wifi_spec /\ accnt[p] > 0)
      BY <1>1, <2>1, <2>2, Completed
    <2> QED
      BY <1>2, <1>0, <2>1, <2>3
  <1>11. CASE Aggregate
    <2>1. UNCHANGED sender /\ tasklet.pc = "agg" /\ tasklet.sta \in Sta
      BY <1>11 DEF Aggregate, At, PoolInv, StationKnown, FrameSteps
    <2>2. PICK k \in 0 .. pending[tasklet.sta][tasklet.ac] :
            /\ Take(tasklet.ac, tasklet.sta, k)
            /\ stopped' = [i \in AC |-> stopped[i] /\ ~ \E n \in 1..k :
                 /\ skbs[tasklet.sta][tasklet.ac][n] = i
                 /\ wifi_spec => Left(tasklet.ac, n, i) < WmmThreshold]
      BY <1>11 DEF Aggregate
    <2>3. accnt' = [accnt EXCEPT ![tasklet.ac] = @ - k]
      BY <2>2 DEF Take
    <2>4. stopped[p] /\ ~ \E n \in 1..k :
                 /\ skbs[tasklet.sta][tasklet.ac][n] = p
                 /\ wifi_spec => Left(tasklet.ac, n, p) < WmmThreshold
      BY <2>2
    <2>5. CASE ~ \E n \in 1..k : skbs[tasklet.sta][tasklet.ac][n] = p
      <3>1. ASSUME Queued(p) PROVE Queued(p)'
        <4>1. Take(tasklet.ac, tasklet.sta, k) /\ QueueInv
          BY <1>1, <2>2
        <4>2. tasklet.sta \in Sta /\ tasklet.ac \in AC
          BY <1>1, <2>1
        <4>3. Queued(p)' \/ \E n \in 1 .. k : skbs[tasklet.sta][tasklet.ac][n] = p
          BY ONLY <3>1, <4>1, <4>2, p \in AC, k \in 0 .. pending[tasklet.sta][tasklet.ac],
                  TakeLeaves
        <4> QED
          BY <2>5, <4>3
      <3> QED
        BY <1>2, <2>1, <2>4, <3>1
    <2>6. CASE \E n \in 1..k : skbs[tasklet.sta][tasklet.ac][n] = p
      <3>1. PICK n \in 1..k : skbs[tasklet.sta][tasklet.ac][n] = p
        BY <2>6
      <3>2. wifi_spec
        BY <2>4, <3>1
      <3>3. /\ Len(skbs[tasklet.sta][tasklet.ac]) \in Nat /\ k \in Nat
            /\ k <= Len(skbs[tasklet.sta][tasklet.ac])
        <4>1. /\ skbs[tasklet.sta][tasklet.ac] \in Seq(AC)
              /\ pending[tasklet.sta][tasklet.ac] = Len(skbs[tasklet.sta][tasklet.ac])
          BY <1>1, <2>1 DEF Held
        <4> QED
          BY <4>1
      <3>4. k \in 1..k /\ k \in 1 .. Len(skbs[tasklet.sta][tasklet.ac])
        BY <3>3
      <3>5. ~ (accnt'[p] < WmmThreshold) /\ accnt'[p] \in Int
        <4>1. CASE p = tasklet.ac
          <5>1. skbs[tasklet.sta][tasklet.ac][k] = p
            BY <2>1, <3>2, <3>4, <4>1 DEF OwnPackets
          <5>2. ~ (Left(tasklet.ac, k, p) < WmmThreshold)
            BY <2>4, <3>4, <5>1
          <5>3. accnt'[p] = accnt[p] - k /\ Left(tasklet.ac, k, p) = accnt[p] - k
            BY <1>1, <2>3, <4>1 DEF Left
          <5> QED
            BY <1>1, <3>3, <5>2, <5>3
        <4>2. CASE p # tasklet.ac
          <5>1. ~ (Left(tasklet.ac, n, p) < WmmThreshold)
            BY <2>4, <3>1
          <5>2. accnt'[p] = accnt[p] /\ Left(tasklet.ac, n, p) = accnt[p]
            BY <1>1, <2>3, <4>2 DEF Left
          <5> QED
            BY <1>1, <5>1, <5>2
        <4> QED
          BY <4>1, <4>2
      <3>6. accnt'[p] > 0
        BY <1>3, <3>5
      <3> QED
        BY <3>2, <3>6
    <2> QED
      BY <2>5, <2>6
  <1>12. CASE \/ usb_write_port_complete \/ SetFwState \/ ClrFwState
              \/ rtw_os_xmit_schedule \/ FwStateTimeout
    <2>1. UNCHANGED <<stopped, sender>> /\ UNCHANGED queues
      BY <1>12 DEF usb_write_port_complete, SetFwState, ClrFwState,
                   rtw_os_xmit_schedule, FwStateTimeout
    <2>2. UNCHANGED tasklet \/ tasklet' = [tasklet EXCEPT !.sched = TRUE]
      BY <1>12 DEF usb_write_port_complete, SetFwState, ClrFwState,
                   rtw_os_xmit_schedule, FwStateTimeout, Schedule, NoSchedule
    <2>3. tasklet'.pc = tasklet.pc /\ tasklet'.skb = tasklet.skb
      BY <1>1, <2>2 DEF TaskletState
    <2> QED
      BY <1>2, <1>0, <2>1, <2>3
  <1>13. ASSUME NEW s \in Sta, rtw_free_stainfo(s) PROVE Kept
    <2>1. UNCHANGED <<sender, tasklet>>
      BY <1>13 DEF rtw_free_stainfo, NoSchedule
    <2>2. accnt'[p] = accnt[p] - pending[s][p]
      BY <1>13 DEF rtw_free_stainfo
    <2>3. /\ stopped[p]
          /\ ~( /\ p \in {q \in AC : pending[s][q] > 0}
                        \cup UNION {Range(skbs[s][q]) : q \in AC}
                /\ wifi_spec => accnt[p] - pending[s][p] < WmmThreshold)
      BY <1>1, <1>13 DEF rtw_free_stainfo
    <2>4. pending[s][p] \in Nat /\ accnt[p] \in Nat
      BY <1>1, QueueBounds
    <2>5. CASE p \notin UNION {Range(skbs[s][q]) : q \in AC}
      <3>1. ASSUME Queued(p) PROVE Queued(p)'
        <4>0. PICK t \in Sta, q \in AC : \E n \in 1 .. Len(skbs[t][q]) : skbs[t][q][n] = p
          BY <3>1 DEF Queued
        <4>1. PICK n \in 1 .. Len(skbs[t][q]) : skbs[t][q][n] = p
          BY <4>0
        <4>2. t # s
          <5>1. ASSUME t = s PROVE FALSE
            <6>1. skbs[s][q] \in Seq(AC)
              BY <1>1 DEF Held
            <6>2. n \in DOMAIN skbs[s][q]
              BY <4>1, <5>1, <6>1
            <6>3. p \in Range(skbs[s][q])
              BY <4>1, <5>1, <6>2 DEF Range
            <6> QED
              BY <2>5, <6>3
          <5> QED
            BY <5>1
        <4>3. skbs'[t][q] = skbs[t][q]
          BY <1>1, <1>13, <4>2, FreePackets
        <4> QED
          BY <4>1, <4>3 DEF Queued
      <3> QED
        BY <1>2, <2>1, <2>3, <3>1
    <2>6. CASE p \in UNION {Range(skbs[s][q]) : q \in AC}
      <3>1. wifi_spec /\ ~ (accnt[p] - pending[s][p] < WmmThreshold)
        BY <2>3, <2>6
      <3>2. accnt'[p] > 0
        BY <1>3, <2>2, <2>4, <3>1
      <3> QED
        BY <3>1, <3>2
    <2> QED
      BY <2>5, <2>6
  <1>14. CASE UNCHANGED vars
    <2>1. UNCHANGED <<stopped, sender, tasklet>> /\ UNCHANGED queues
      BY <1>14 DEF vars, queues
    <2> QED
      BY <1>2, <1>0, <2>1
  <1> QED
    BY <1>4, <1>5, <1>6, <1>7, <1>8, <1>9, <1>10, <1>11, <1>12, <1>13, <1>14
       DEF Next, SenderStep, TaskletStep

(* The ghost only grows.                                                   *)
LEMMA ForeignGrows == [Next]_vars => foreign \subseteq foreign'
  <1> SUFFICES ASSUME [Next]_vars PROVE foreign \subseteq foreign'
    OBVIOUS
  <1>1. ASSUME NEW q, NEW s, NEW i, rtw_xmit_classifier(q, s, i)
        PROVE  foreign \subseteq foreign'
    BY <1>1 DEF rtw_xmit_classifier
  <1>2. ASSUME NEW q \in AC, NEW s \in Sta, _rtw_xmit_entry(q, s) PROVE foreign' = foreign
    BY <1>2 DEF _rtw_xmit_entry, queues
  <1>3. ASSUME NEW q \in AC, SenderStep(q) PROVE foreign \subseteq foreign'
    BY <1>1, <1>3 DEF SenderStep, rtw_xmit, pre_xmitframe, xmitframe_direct, DumpDone, queues
  <1>4. CASE TaskletStep
    BY <1>4 DEF TaskletStep, RunTasklet, rtl8812au_xmit_tasklet, rtw_alloc_xmitbuf,
         rtw_dequeue_xframe, Take, CoalesceFirst, Aggregate, TaskletWrite, TaskletFree,
         TaskletRelease, queues
  <1>5. CASE \/ usb_write_port_complete \/ SetFwState \/ ClrFwState
             \/ rtw_os_xmit_schedule \/ FwStateTimeout
    BY <1>5 DEF usb_write_port_complete, SetFwState, ClrFwState, rtw_os_xmit_schedule,
         FwStateTimeout, queues
  <1>6. ASSUME NEW s \in Sta, rtw_free_stainfo(s) PROVE foreign' = foreign
    BY <1>6 DEF rtw_free_stainfo
  <1>7. CASE UNCHANGED vars
    BY <1>7 DEF vars
  <1> QED
    BY <1>2, <1>3, <1>4, <1>5, <1>6, <1>7 DEF Next

(* CarriedMeans and OwnQueued as one implication, for the state a step     *)
(* ends in.                                                                *)
Owed(i) == \/ sender[i].pc # "idle"
           \/ Queued(i)
           \/ tasklet.pc = "coalesce" /\ tasklet.skb = i
           \/ wifi_spec /\ accnt[i] > 0

OwedCarried == \A i \in AC : i \notin foreign /\ Owed(i) => Carried(i)

LEMMA CarriedOrCounted == QueueInv /\ OwnPackets => OwedCarried
  <1> SUFFICES ASSUME QueueInv, OwnPackets, NEW i \in AC, i \notin foreign, Owed(i)
               PROVE  Carried(i)
    BY DEF OwedCarried
  <1>1. Held
    BY DEF QueueInv
  <1>2. wifi_spec /\ accnt[i] > 0 => Queued(i)
    BY OwnQueued
  <1> QED
    BY <1>1, <1>2, CarriedMeans DEF Owed

LEMMA StoppedNext ==
    /\ PoolInv /\ PacketKnown /\ OwnPackets /\ RestTypes /\ StoppedHasPacket
    /\ [Next]_vars /\ OwedCarried'
    => StoppedHasPacket'
  <1> SUFFICES ASSUME PoolInv, PacketKnown, OwnPackets, RestTypes, StoppedHasPacket,
                      [Next]_vars, OwedCarried',
                      NEW p \in AC, stopped'[p], p \notin foreign'
               PROVE  Carried(p)'
    BY DEF StoppedHasPacket, Unmixed
  <1>1. p \notin foreign
    BY ForeignGrows
  <1>2. stopped[p] => Carried(p)
    BY <1>1 DEF StoppedHasPacket, Unmixed
  <1>3. \/ sender'[p].pc # "idle"
        \/ Queued(p)'
        \/ tasklet'.pc = "coalesce" /\ tasklet'.skb = p
        \/ wifi_spec /\ accnt'[p] > 0
    BY <1>1, <1>2, StoppedStep
  <1>4. wifi_spec' = wifi_spec
    BY SpecFixed
  <1>5. Owed(p)'
    BY <1>3, <1>4 DEF Owed
  <1> QED
    BY <1>5 DEF OwedCarried

(* A transmit queue the driver has stopped always has a packet of its own  *)
(* in the driver, whose completion wakes it: when free frames are counted, *)
(* whatever the categories of the packets are; under wifi_spec, when its   *)
(* category has held packets of that queue only.  This is for every value  *)
(* of the thresholds and every choice of the categories.                   *)
THEOREM StoppedIsCarried == Spec => []StoppedHasPacket
  <1>1. Init => StoppedHasPacket
    BY DEF Init, StoppedHasPacket
  <1>2. PoolInv => QueueInv
    BY DEF PoolInv
  <1> QED
    BY <1>1, <1>2, RestKept, OwnKept, PacketKept, CarriedOrCounted, StoppedNext, PoolsKept,
       PTL DEF Spec

-----------------------------------------------------------------------------
(* Queued frames are driven.                                               *)

(* Something is under way that schedules the tasklet, or is the tasklet.   *)
Driven == \/ tasklet.sched
          \/ tasklet.pc \notin {"idle", "release"}
          \/ inflight > 0
          \/ \E q \in AC : sender[q].pc = "direct"
          \/ mode # "open"
          \/ cannotTx
          \/ unheralded

(* With two buffers or more, when none is free one is with the USB core or *)
(* in the hands of a sender: the tasklet holds at most one.                *)
LEMMA BufferOut ==
    ASSUME PoolInv, bufs = 0
    PROVE  inflight > 0 \/ \E q \in AC : sender[q].pc = "direct"
  <1> SUFFICES ASSUME ~ \E q \in AC : sender[q].pc = "direct" PROVE inflight > 0
    OBVIOUS
  <1>1. Senders({"direct"}) = 0
    <2>1. {q \in AC : sender[q].pc \in {"direct"}} = {}
      OBVIOUS
    <2> QED
      BY <2>1, FS_EmptySet DEF Senders
  <1>2. NrXmitBuff = bufs + inflight + Senders({"direct"}) + Holds(BufSteps)
    BY DEF PoolInv, BufsBalanced
  <1>3. inflight \in Nat
    BY DEF PoolInv, PoolTypes
  <1>4. Holds(BufSteps) \in 0 .. 1 /\ NrXmitBuff \in Nat \ {0, 1}
    BY HoldsType, PoolAssumption
  <1> QED
    BY <1>1, <1>2, <1>3, <1>4

LEMMA DrivenNext ==
    PoolInv /\ RestTypes /\ PendingDriven /\ [Next]_vars => PendingDriven'
  <1> SUFFICES ASSUME PoolInv, RestTypes, PendingDriven, [Next]_vars,
                      rtw_txframes_pending'
               PROVE  Driven'
    BY DEF PendingDriven, Driven
  <1>1. /\ QueueInv /\ PoolTypes /\ sender \in [AC -> SenderState]
        /\ tasklet \in TaskletState /\ inflight \in Nat
    BY DEF PoolInv, PoolTypes
  <1>2. rtw_txframes_pending => Driven
    BY DEF PendingDriven, Driven
  <1>3. UNCHANGED staQueue => rtw_txframes_pending
    BY DEF rtw_txframes_pending
  <1>4. ASSUME NEW q \in AC, NEW s \in Sta, _rtw_xmit_entry(q, s) PROVE Driven'
    <2>1. UNCHANGED <<staQueue, tasklet, inflight, mode, cannotTx, unheralded>>
      BY <1>4 DEF _rtw_xmit_entry, queues, NoSchedule
    <2>2. \A p \in AC : sender[p].pc = "direct" => sender'[p].pc = "direct"
      <3>1. sender[q].pc = "idle"
        BY <1>4 DEF _rtw_xmit_entry
      <3>2. sender' = sender \/ sender' = [sender EXCEPT ![q] = [pc |-> "alloc", sta |-> s, ac |-> q]]
        BY <1>4 DEF _rtw_xmit_entry
      <3> QED
        BY <1>1, <3>1, <3>2
    <2> QED
      BY <1>2, <1>3, <2>1, <2>2 DEF Driven
  <1>5. ASSUME NEW q \in AC, rtw_xmit(q) \/ DumpDone(q) PROVE Driven'
    <2>1. UNCHANGED <<staQueue, tasklet, inflight, mode, cannotTx, unheralded>>
      BY <1>5 DEF rtw_xmit, DumpDone, queues, env, NoSchedule
    <2>2. sender[q].pc # "direct"
      BY <1>5 DEF rtw_xmit, DumpDone
    <2>3. \A p \in AC : p # q => sender'[p] = sender[p]
      BY <1>1, <1>5 DEF rtw_xmit, DumpDone, Goto, Return
    <2>4. \A p \in AC : sender[p].pc = "direct" => sender'[p].pc = "direct"
      BY <2>2, <2>3
    <2> QED
      BY <1>2, <1>3, <2>1, <2>4 DEF Driven
  <1>6. ASSUME NEW q \in AC, pre_xmitframe(q) PROVE Driven'
    <2>1. UNCHANGED <<tasklet, inflight, mode, cannotTx, unheralded>>
      BY <1>6 DEF pre_xmitframe, env, NoSchedule
    <2>2. sender[q].pc = "pre"
      BY <1>6 DEF pre_xmitframe
    <2>3. \A p \in AC : p # q => sender'[p] = sender[p]
      BY <1>1, <1>6 DEF pre_xmitframe, Return
    <2>4. \A p \in AC : sender[p].pc = "direct" => sender'[p].pc = "direct"
      BY <2>2, <2>3
    <2>5. CASE UNCHANGED staQueue
      BY <1>2, <1>3, <2>1, <2>4, <2>5 DEF Driven
    <2>6. CASE Enqueues(q)
      <3>1. CASE pending[sender[q].sta][sender[q].ac] > 0
        <4>1. sender[q].sta \in Sta /\ sender[q].ac \in AC
          BY <1>1, <2>2 DEF PoolInv, StationKnown, SenderState
        <4>2. sender[q].sta \in Range(staQueue[sender[q].ac])
          BY <1>1, <3>1, <4>1 DEF QueueInv, StationListed
        <4>3. staQueue[sender[q].ac] # <<>>
          BY <4>2 DEF Range
        <4>4. rtw_txframes_pending
          BY <4>1, <4>3 DEF rtw_txframes_pending
        <4> QED
          BY <1>2, <2>1, <2>4, <4>4 DEF Driven
      <3>2. CASE mode \in {"survey", "linking"}
        BY <2>1, <3>2 DEF Driven
      <3>3. CASE bufs = 0
        <4>1. inflight > 0 \/ \E p \in AC : sender[p].pc = "direct"
          BY <3>3, BufferOut
        <4> QED
          BY <2>1, <2>4, <4>1 DEF Driven
      <3> QED
        BY <2>6, <3>1, <3>2, <3>3 DEF Enqueues
    <2>7. Enqueues(q) \/ UNCHANGED staQueue
      BY <1>6 DEF pre_xmitframe, queues
    <2> QED
      BY <2>5, <2>6, <2>7
  <1>7. ASSUME NEW q \in AC, xmitframe_direct(q) PROVE Driven'
    <2>1. UNCHANGED <<staQueue, tasklet>>
      BY <1>7 DEF xmitframe_direct, queues
    <2>2. CASE Submitted
      <3>1. inflight' > 0
        BY <1>1, <2>2 DEF Submitted
      <3> QED
        BY <3>1 DEF Driven
    <2>3. CASE Unheralded
      <3>1. rtw_txframes_pending
        BY <1>3, <2>1
      <3>2. unheralded' = (unheralded \/ (rtw_txframes_pending /\ ~tasklet.sched))
        BY <2>3 DEF Unheralded
      <3>3. unheralded' \/ tasklet.sched
        BY <3>1, <3>2
      <3> QED
        BY <2>1, <3>3 DEF Driven
    <2> QED
      BY <1>7, <2>2, <2>3 DEF xmitframe_direct
  <1>8. CASE RunTasklet
    <2>1. tasklet'.pc = "check"
      BY <1>1, <1>8 DEF RunTasklet, TaskletState
    <2> QED
      BY <2>1 DEF Driven
  <1>9. CASE rtl8812au_xmit_tasklet
    <2>1. UNCHANGED <<cannotTx, mode>>
      BY <1>9 DEF rtl8812au_xmit_tasklet, env
    <2>2. CASE cannotTx \/ mode = "survey"
      BY <2>1, <2>2 DEF Driven
    <2>3. CASE ~ (cannotTx \/ mode = "survey")
      <3>1. To("alloc")
        BY <1>9, <2>3 DEF rtl8812au_xmit_tasklet
      <3>2. tasklet'.pc = "alloc"
        BY <1>1, <3>1 DEF To, TaskletState
      <3> QED
        BY <3>2 DEF Driven
    <2> QED
      BY <2>2, <2>3
  <1>10. CASE rtw_alloc_xmitbuf
    <2>1. UNCHANGED <<inflight, sender>>
      BY <1>10 DEF rtw_alloc_xmitbuf
    <2>2. CASE bufs = 0
      <3>1. inflight > 0 \/ \E p \in AC : sender[p].pc = "direct"
        BY <2>2, BufferOut
      <3> QED
        BY <2>1, <3>1 DEF Driven
    <2>3. CASE bufs # 0
      <3>1. To("dequeue")
        BY <1>10, <2>3 DEF rtw_alloc_xmitbuf
      <3>2. tasklet'.pc = "dequeue"
        BY <1>1, <3>1 DEF To, TaskletState
      <3> QED
        BY <3>2 DEF Driven
    <2> QED
      BY <2>2, <2>3
  <1>11. CASE rtw_dequeue_xframe
    <2>1. CASE ~ \E p \in AC : staQueue[p] # <<>>
      <3>1. UNCHANGED staQueue
        BY <1>11, <2>1, DequeueNone DEF queues
      <3> QED
        BY <1>3, <2>1, <3>1 DEF rtw_txframes_pending
    <2>2. CASE \E p \in AC : staQueue[p] # <<>>
      <3>1. PICK q \in AC, s \in Sta :
               tasklet' = [tasklet EXCEPT !.pc = "coalesce", !.ac = q, !.sta = s,
                                          !.skb = skbs[s][q][1]]
        BY <1>1, <1>11, <2>2, DequeueChoice
      <3>2. tasklet'.pc = "coalesce"
        BY <1>1, <3>1 DEF TaskletState
      <3> QED
        BY <3>2 DEF Driven
    <2> QED
      BY <2>1, <2>2
  <1>12. CASE CoalesceFirst \/ Aggregate \/ TaskletWrite
    <2>1. \E pc \in {"agg", "dequeue", "write", "free"} :
            To(pc) \/ tasklet' = [tasklet EXCEPT !.pc = pc, !.skb = NoSta]
      BY <1>12 DEF CoalesceFirst, Aggregate, TaskletWrite
    <2>2. tasklet'.pc \in {"agg", "dequeue", "write", "free"}
      BY <1>1, <2>1 DEF To, TaskletState
    <2> QED
      BY <2>2 DEF Driven
  <1>13. CASE TaskletFree
    <2>1. tasklet'.pc = "check"
      BY <1>1, <1>13 DEF TaskletFree, TaskletState
    <2> QED
      BY <2>1 DEF Driven
  <1>14. CASE TaskletRelease
    <2>1. UNCHANGED <<staQueue, inflight, sender, mode, cannotTx, unheralded>>
      BY <1>14 DEF TaskletRelease, queues, env
    <2>2. tasklet.pc = "release" /\ tasklet'.sched = tasklet.sched
      BY <1>1, <1>14 DEF TaskletRelease, At, To, TaskletState
    <2> QED
      BY <1>2, <1>3, <2>1, <2>2 DEF Driven
  <1>15. CASE usb_write_port_complete
    <2>1. tasklet'.sched
      BY <1>1, <1>15 DEF usb_write_port_complete, Schedule, TaskletState
    <2> QED
      BY <2>1 DEF Driven
  <1>16. CASE SetFwState
    <2>1. mode' # "open"
      BY <1>16 DEF SetFwState
    <2> QED
      BY <2>1 DEF Driven
  <1>17. CASE ClrFwState
    BY <1>17 DEF ClrFwState, Driven
  <1>18. CASE rtw_os_xmit_schedule
    <2>1. UNCHANGED staQueue
      BY <1>18 DEF rtw_os_xmit_schedule, queues
    <2>2. Schedule
      BY <1>3, <1>18, <2>1 DEF rtw_os_xmit_schedule
    <2>3. tasklet'.sched
      BY <1>1, <2>2 DEF Schedule, TaskletState
    <2> QED
      BY <2>3 DEF Driven
  <1>19. CASE FwStateTimeout
    <2>1. UNCHANGED <<staQueue, tasklet>> /\ Unheralded
      BY <1>19 DEF FwStateTimeout, queues
    <2>2. unheralded' = (unheralded \/ (rtw_txframes_pending /\ ~tasklet.sched))
      BY <2>1 DEF Unheralded
    <2>3. unheralded' \/ tasklet.sched
      BY <1>3, <2>1, <2>2
    <2> QED
      BY <2>1, <2>3 DEF Driven
  <1>20. ASSUME NEW s \in Sta, rtw_free_stainfo(s) PROVE Driven'
    <2>1. UNCHANGED <<tasklet, inflight, sender, mode, cannotTx, unheralded>>
      BY <1>20 DEF rtw_free_stainfo, env, NoSchedule
    <2>2. staQueue' = [q \in AC |-> rtw_list_delete(staQueue[q], s)]
      BY <1>20 DEF rtw_free_stainfo
    <2>3. PICK q \in AC : staQueue'[q] # <<>>
      BY DEF rtw_txframes_pending
    <2>4. staQueue[q] \in Seq(Sta) /\ IsInjective(staQueue[q])
      BY <1>1 DEF QueueInv, QueueTypes, StationListed
    <2>5. /\ staQueue'[q] \in Seq(Sta)
          /\ Range(staQueue'[q]) = Range(staQueue[q]) \ {s}
      BY <2>2, <2>4, Delisted
    <2>6. staQueue[q] # <<>>
      <3>1. 1 \in DOMAIN staQueue'[q]
        BY <2>3, <2>5
      <3>2. staQueue'[q][1] \in Range(staQueue'[q])
        BY <3>1 DEF Range
      <3>3. Range(staQueue[q]) # {}
        BY <2>5, <3>2
      <3> QED
        BY <3>3 DEF Range
    <2>7. rtw_txframes_pending
      BY <2>6 DEF rtw_txframes_pending
    <2> QED
      BY <1>2, <2>1, <2>7 DEF Driven
  <1>21. CASE UNCHANGED vars
    BY <1>2, <1>3, <1>21 DEF vars, Driven
  <1> QED
    BY <1>4, <1>5, <1>6, <1>7, <1>8, <1>9, <1>10, <1>11, <1>12, <1>13, <1>14, <1>15,
       <1>16, <1>17, <1>18, <1>19, <1>20, <1>21 DEF Next, SenderStep, TaskletStep

(* No wake-up is lost: while frames are queued the tasklet is scheduled or *)
(* running, or a buffer, a scan or a join is out whose end schedules it,   *)
(* unless a fault that tells nobody has passed.  This needs at least two   *)
(* transmit buffers.                                                       *)
THEOREM QueuedIsDriven == Spec => []PendingDriven
  <1>1. Init => PendingDriven
    BY DEF Init, PendingDriven, rtw_txframes_pending
  <1> QED
    BY <1>1, RestKept, DrivenNext, PoolsKept, PTL DEF Spec
=============================================================================
