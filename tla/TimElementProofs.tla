-------------------------- MODULE TimElementProofs --------------------------
(***************************************************************************)
(* The TIM element, for every set of association ids and all elements that *)
(* user space may give, a DS parameter set among them (Ds # <<>>; without  *)
(* it the element is written into another one).                            *)
(*                                                                         *)
(* TimInv says what the beacon is: the elements given, or, from the first  *)
(* update on, the first three of them (Hd), the TIM element of the present *)
(* bitmap and behind it as many bytes as were given, those that were given *)
(* as long as no allocation failed.  That it is inductive has two parts.  rtw_get_ie   *)
(* finds the elements where they are (HdSearch); its recursion looks only  *)
(* ahead, so that it has a solution by induction from the end of the       *)
(* buffer (SearchExists).  And tim_bitmap stays within 16 bits, because a  *)
(* bit is added only where it is clear (MaskSet, MaskClear).  What a       *)
(* station reads is then a matter of the bits of the two bytes (LowByte,   *)
(* HighByte): a number is taken apart around one bit (BitOf), and put      *)
(* together (BitIs).                                                       *)
(***************************************************************************)
EXTENDS TimElement, SeqInduction

(* The types by their bounds.                                              *)
LEMMA Widths ==
    /\ \A x : x \in u8 <=> x \in Nat /\ x <= 255
    /\ \A x : x \in u16 <=> x \in Nat /\ x <= 65535
<1>1. U8Max = 255 /\ U16Max = 65535
  BY DEF U8Max, U16Max
<1>2. ASSUME NEW n \in Nat, NEW x PROVE x \in 0..n <=> x \in Nat /\ x <= n
  OBVIOUS
<1>3. U8Max \in Nat /\ U16Max \in Nat
  BY <1>1
<1>4. /\ \A x : x \in u8 <=> x \in Nat /\ x <= U8Max
      /\ \A x : x \in u16 <=> x \in Nat /\ x <= U16Max
  BY <1>2, <1>3 DEF u8, u16
<1> QED BY <1>1, <1>4

-----------------------------------------------------------------------------
(* rtw_get_ie: what the search returns.                                    *)

(* One step of the search.                                                 *)
Searched(f, buf, id, i) ==
    IF i >= Len(buf) THEN 0
    ELSE IF buf[i] = id THEN i
    ELSE f[i + buf[i + 1] + 2]

Search(f, buf, id) == f = [i \in 1..(Len(buf) + 300) |-> Searched(f, buf, id, i)]

(* A step looks only ahead, and never further than find is defined.        *)
LEMMA LooksAhead ==
    ASSUME NEW buf \in Seq(u8), NEW id, NEW i \in 1..(Len(buf) + 300), NEW f, NEW h,
           \A j \in 1..(Len(buf) + 300) : j > i => f[j] = h[j]
    PROVE  Searched(f, buf, id, i) = Searched(h, buf, id, i)
<1>1. CASE i >= Len(buf)
  BY <1>1 DEF Searched
<1>2. CASE i < Len(buf)
  <2>1. buf[i + 1] \in Nat /\ buf[i + 1] <= 255
    <3>1. i + 1 \in 1..Len(buf)
      BY <1>2
    <3>2. buf[i + 1] \in u8
      BY <3>1
    <3> QED BY <3>2, Widths
  <2> DEFINE b == buf[i + 1]
             n == Len(buf)
  <2> HIDE DEF b, n
  <2>a. n \in Nat /\ b \in Nat /\ b <= 255 /\ i \in 1..(n + 300) /\ i < n
    BY <1>2, <2>1 DEF b, n
  <2>b. i + b + 2 \in 1..(n + 300) /\ i + b + 2 > i
    BY <2>a
  <2>2. i + buf[i + 1] + 2 \in 1..(Len(buf) + 300) /\ i + buf[i + 1] + 2 > i
    BY <2>b DEF b, n
  <2> QED BY <2>2 DEF Searched
<1> QED BY <1>1, <1>2

LEMMA SearchExists ==
    ASSUME NEW buf \in Seq(u8), NEW id
    PROVE  \E f : Search(f, buf, id)
<1> DEFINE N == Len(buf) + 300
           Solved(f, n) == /\ f = [i \in 1..N |-> f[i]]
                           /\ \A i \in 1..N : i > N - n => f[i] = Searched(f, buf, id, i)
           S == {n \in Nat : \E f : Solved(f, n)}
<1>0. N \in Nat
  OBVIOUS
<1> HIDE DEF N
<1>1. 0 \in S
  <2> DEFINE f == [i \in 1..N |-> 0]
  <2>1. Solved(f, 0)
    BY <1>0
  <2> QED BY <2>1
<1>2. ASSUME NEW n \in S PROVE n + 1 \in S
  <2>1. PICK f : Solved(f, n)
    OBVIOUS
  <2>6. n \in Nat /\ n + 1 \in Nat
    OBVIOUS
  <2> DEFINE h == [i \in 1..N |-> IF i = N - n THEN Searched(f, buf, id, i) ELSE f[i]]
  <2>2. ASSUME NEW i \in 1..N, i > N - (n + 1) PROVE h[i] = Searched(h, buf, id, i)
    <3>1. i >= N - n
      BY <1>0, <2>2
    <3>2. \A j \in 1..N : j > i => f[j] = h[j]
      BY <1>0, <3>1
    <3>3. Searched(f, buf, id, i) = Searched(h, buf, id, i)
      BY <3>2, LooksAhead DEF N
    <3>4. h[i] = Searched(f, buf, id, i)
      <4> HIDE DEF S
      <4>1. CASE i = N - n
        BY <4>1
      <4>2. CASE i # N - n
        <5>1. i > N - n
          BY <1>0, <2>6, <3>1, <4>2
        <5>2. f[i] = Searched(f, buf, id, i)
          BY <2>1, <5>1
        <5>3. h[i] = f[i]
          BY <4>2
        <5> QED BY <5>2, <5>3, Zenon
      <4> QED BY <4>1, <4>2
    <3> QED BY <3>3, <3>4
  <2>3. h = [i \in 1..N |-> h[i]]
    OBVIOUS
  <2>4. Solved(h, n + 1)
    BY <2>2, <2>3
  <2> HIDE DEF h
  <2>5. \E g : Solved(g, n + 1)
    BY <2>4
  <2> QED BY <2>5, <2>6, Zenon
<1>3. S = Nat
  <2> HIDE DEF S
  <2>1. S \in SUBSET Nat
    BY DEF S
  <2> QED BY <1>1, <1>2, <2>1, NatAll
<1>4. PICK f : Solved(f, N)
  BY <1>0, <1>3
<1>5. \A i \in 1..N : f[i] = Searched(f, buf, id, i)
  BY <1>0, <1>4
<1>6. f = [i \in 1..N |-> Searched(f, buf, id, i)]
  BY <1>4, <1>5
<1> QED BY <1>6 DEF Search, N

LEMMA SearchDef ==
    ASSUME NEW buf \in Seq(u8), NEW id
    PROVE  \E f : Search(f, buf, id) /\ rtw_get_ie(buf, id) = f[1]
<1> DEFINE find[i \in 1..(Len(buf) + 300)] ==
          IF i >= Len(buf) THEN 0
          ELSE IF buf[i] = id THEN i
          ELSE find[i + buf[i + 1] + 2]
<1>1. \E f : f = [i \in 1..(Len(buf) + 300) |->
          IF i >= Len(buf) THEN 0
          ELSE IF buf[i] = id THEN i
          ELSE f[i + buf[i + 1] + 2]]
  <2>1. PICK f : Search(f, buf, id)
    BY SearchExists
  <2>2. f = [i \in 1..(Len(buf) + 300) |->
          IF i >= Len(buf) THEN 0
          ELSE IF buf[i] = id THEN i
          ELSE f[i + buf[i + 1] + 2]]
    BY <2>1, Zenon DEF Search, Searched
  <2> QED BY <2>2, Zenon
<1>2. find = [i \in 1..(Len(buf) + 300) |->
          IF i >= Len(buf) THEN 0
          ELSE IF buf[i] = id THEN i
          ELSE find[i + buf[i + 1] + 2]]
  BY <1>1, Zenon
<1>3. rtw_get_ie(buf, id) = find[1]
  BY Zenon DEF rtw_get_ie
<1> HIDE DEF find
<1>4. Search(find, buf, id)
  BY <1>2, Zenon DEF Search, Searched
<1> QED BY <1>3, <1>4, Zenon

(* What the search finds from place i on.                                  *)
LEMMA SearchStep ==
    ASSUME NEW buf \in Seq(u8), NEW id, NEW f, Search(f, buf, id), NEW i \in 1..(Len(buf) - 1)
    PROVE  /\ buf[i] = id => f[i] = i
           /\ buf[i] # id => f[i] = f[i + buf[i + 1] + 2]
<1>1. i \in 1..(Len(buf) + 300) /\ ~(i >= Len(buf))
  OBVIOUS
<1>2. f[i] = Searched(f, buf, id, i)
  BY <1>1 DEF Search
<1> QED BY <1>1, <1>2 DEF Searched

-----------------------------------------------------------------------------
(* Pieces of a sequence of bytes.                                          *)

LEMMA Front ==
    ASSUME NEW s \in Seq(u8), NEW t \in Seq(u8)
    PROVE  SubSeq(s \o t, 1, Len(s)) = s
<1> DEFINE st == s \o t
<1>1. /\ st \in Seq(u8) /\ Len(st) = Len(s) + Len(t) /\ Len(s) \in Nat /\ Len(t) \in Nat
      /\ \A i \in 1..Len(s) : st[i] = s[i]
  OBVIOUS
<1> HIDE DEF st
<1>2. \A i \in 1..Len(s) : st[i] \in u8
  BY <1>1
<1>3. /\ SubSeq(st, 1, Len(s)) \in Seq(u8)
      /\ Len(SubSeq(st, 1, Len(s))) = Len(s)
      /\ \A i \in 1..Len(s) : SubSeq(st, 1, Len(s))[i] = st[i]
  BY <1>1, <1>2
<1> DEFINE r == SubSeq(st, 1, Len(s))
<1>4. r \in Seq(u8) /\ Len(r) = Len(s) /\ \A i \in 1..Len(s) : r[i] = s[i]
  BY <1>1, <1>3
<1> HIDE DEF r
<1>5. r = s
  BY <1>4, SeqEqual
<1> QED BY <1>5 DEF r, st

LEMMA Back ==
    ASSUME NEW s \in Seq(u8), NEW t \in Seq(u8)
    PROVE  SubSeq(s \o t, Len(s) + 1, Len(s \o t)) = t
<1> DEFINE st == s \o t
           k == Len(s)
           n == Len(t)
<1>1. /\ st \in Seq(u8) /\ Len(st) = k + n /\ k \in Nat /\ n \in Nat
      /\ \A i \in 1..n : st[k + i] = t[i]
  OBVIOUS
<1> HIDE DEF st, k, n
<1> DEFINE r == SubSeq(st, k + 1, k + n)
<1>2. \A i \in (k + 1)..(k + n) : st[i] \in u8
  BY <1>1
<1>3. k + 1 \in Int /\ k + n \in Int
  BY <1>1
<1>4. /\ r \in Seq(u8)
      /\ Len(r) = IF k + 1 <= k + n THEN (k + n) - (k + 1) + 1 ELSE 0
      /\ \A i \in 1..((k + n) - (k + 1) + 1) : r[i] = st[(k + 1) + i - 1]
  BY <1>2, <1>3, SubSeqProperties
<1> HIDE DEF r
<1>5. Len(r) = n
  BY <1>1, <1>4
<1>6. ASSUME NEW i \in 1..n PROVE r[i] = t[i]
  <2>1. i \in 1..((k + n) - (k + 1) + 1) /\ (k + 1) + i - 1 = k + i
    BY <1>1
  <2> QED BY <1>1, <1>4, <2>1
<1>7. r = t
  BY <1>4, <1>5, <1>6, SeqEqual DEF n
<1> QED BY <1>1, <1>7 DEF r, k, st

-----------------------------------------------------------------------------
(* The elements in front of the TIM element.                               *)

Hd == Element(_SSID_IE_, Ssid) \o Element(_SUPPORTEDRATES_IE_, Rates) \o Ds

(* Where the rates and the DS parameter set begin, less one.               *)
RatesAt == Len(Ssid) + 2
DsAt == RatesAt + Len(Rates) + 2

LEMMA ElementIs ==
    ASSUME NEW id \in u8, NEW body \in Seq(u8), Len(body) \in u8
    PROVE  /\ Element(id, body) \in Seq(u8)
           /\ Len(Element(id, body)) = Len(body) + 2
           /\ Element(id, body)[1] = id /\ Element(id, body)[2] = Len(body)
<1> DEFINE h == <<id, Len(body)>>
<1>2. h \in Seq(u8) /\ Len(h) = 2 /\ h[1] = id /\ h[2] = Len(body)
  OBVIOUS
<1> HIDE DEF h
<1>3. /\ h \o body \in Seq(u8) /\ Len(h \o body) = Len(body) + 2
      /\ (h \o body)[1] = id /\ (h \o body)[2] = Len(body)
  <2>1. /\ h \o body \in Seq(u8) /\ Len(h \o body) = Len(h) + Len(body)
        /\ \A i \in 1..(Len(h) + Len(body)) :
              (h \o body)[i] = IF i <= Len(h) THEN h[i] ELSE body[i - Len(h)]
    BY <1>2, ConcatProperties
  <2>2. /\ Len(h) + Len(body) = Len(body) + 2
        /\ 1 \in 1..(Len(h) + Len(body)) /\ 1 <= Len(h)
        /\ 2 \in 1..(Len(h) + Len(body)) /\ 2 <= Len(h)
    <3>1. Len(body) \in Nat
      OBVIOUS
    <3> QED BY <1>2, <3>1
  <2> QED BY <1>2, <2>1, <2>2
<1> QED BY <1>3 DEF Element, h

LEMMA HdIs ==
    ASSUME Ds # <<>>
    PROVE  /\ Hd \in Seq(u8) /\ Len(Hd) = DsAt + 3
           /\ RatesAt \in Nat /\ DsAt \in Nat /\ RatesAt >= 2 /\ DsAt >= RatesAt + 2
           /\ Hd[1] = 0 /\ Hd[2] = RatesAt - 2
           /\ Hd[RatesAt + 1] = 1 /\ Hd[RatesAt + 2] = DsAt - RatesAt - 2
           /\ Hd[DsAt + 1] = 3 /\ Hd[DsAt + 2] = 1
<1>0. PICK channel \in u8 : Ds = Element(_DSSET_IE_, <<channel>>)
  BY BodyAssumption
<1> DEFINE x == Element(_SSID_IE_, Ssid)
           y == Element(_SUPPORTEDRATES_IE_, Rates)
           z == Ds
<1>1. /\ _SSID_IE_ = 0 /\ _SUPPORTEDRATES_IE_ = 1 /\ _DSSET_IE_ = 3
      /\ _SSID_IE_ \in u8 /\ _SUPPORTEDRATES_IE_ \in u8 /\ _DSSET_IE_ \in u8
  BY Widths DEF _SSID_IE_, _SUPPORTEDRATES_IE_, _DSSET_IE_
<1>2. Ssid \in Seq(u8) /\ Rates \in Seq(u8)
  BY BodyAssumption
<1>3. x \in Seq(u8) /\ Len(x) = RatesAt /\ x[1] = 0 /\ x[2] = Len(Ssid)
  BY <1>1, <1>2, ElementIs, BodyAssumption DEF RatesAt
<1>4. y \in Seq(u8) /\ Len(y) = Len(Rates) + 2 /\ y[1] = 1 /\ y[2] = Len(Rates)
  BY <1>1, <1>2, ElementIs, BodyAssumption
<1>5. z \in Seq(u8) /\ Len(z) = 3 /\ z[1] = 3 /\ z[2] = 1
  <2> DEFINE w == <<channel>>
  <2>1. w \in Seq(u8) /\ Len(w) = 1 /\ Len(w) \in u8
    BY Widths
  <2> HIDE DEF w
  <2>2. /\ Element(_DSSET_IE_, w) \in Seq(u8)
        /\ Len(Element(_DSSET_IE_, w)) = Len(w) + 2
        /\ Element(_DSSET_IE_, w)[1] = _DSSET_IE_
        /\ Element(_DSSET_IE_, w)[2] = Len(w)
    BY <1>1, <2>1, ElementIs
  <2>3. z = Element(_DSSET_IE_, w)
    BY <1>0 DEF w
  <2> QED BY <1>1, <2>1, <2>2, <2>3
<1>6. Hd = (x \o y) \o z
  BY DEF Hd
<1> HIDE DEF x, y, z
<1>7. Len(Ssid) \in Nat /\ Len(Rates) \in Nat
  BY <1>2
<1>8. /\ RatesAt \in Nat /\ DsAt \in Nat /\ RatesAt >= 2 /\ DsAt >= RatesAt + 2
      /\ RatesAt - 2 = Len(Ssid) /\ DsAt - RatesAt - 2 = Len(Rates)
      /\ DsAt = RatesAt + Len(y)
  BY <1>4, <1>7 DEF RatesAt, DsAt
<1> DEFINE xy == x \o y
<1>9. /\ xy \in Seq(u8) /\ Len(xy) = DsAt
      /\ xy[1] = 0 /\ xy[2] = Len(Ssid)
      /\ xy[RatesAt + 1] = y[1] /\ xy[RatesAt + 2] = y[2]
  <2>1. xy \in Seq(u8) /\ Len(xy) = Len(x) + Len(y)
    BY <1>3, <1>4
  <2>0. x \in Seq(u8) /\ y \in Seq(u8)
    BY <1>3, <1>4
  <2>2. \A i \in 1..(Len(x) + Len(y)) : xy[i] = IF i <= Len(x) THEN x[i] ELSE y[i - Len(x)]
    BY <2>0, ConcatProperties
  <2>3. /\ 1 \in 1..(Len(x) + Len(y)) /\ 1 <= Len(x)
        /\ 2 \in 1..(Len(x) + Len(y)) /\ 2 <= Len(x)
        /\ RatesAt + 1 \in 1..(Len(x) + Len(y)) /\ ~(RatesAt + 1 <= Len(x))
        /\ RatesAt + 2 \in 1..(Len(x) + Len(y)) /\ ~(RatesAt + 2 <= Len(x))
        /\ (RatesAt + 1) - Len(x) = 1 /\ (RatesAt + 2) - Len(x) = 2
    BY <1>3, <1>4, <1>7, <1>8
  <2>4. xy[1] = x[1] /\ xy[2] = x[2] /\ xy[RatesAt + 1] = y[1] /\ xy[RatesAt + 2] = y[2]
    BY <2>2, <2>3
  <2> QED BY <1>3, <1>8, <2>1, <2>4
<1> HIDE DEF xy
<1>10. /\ xy \o z \in Seq(u8) /\ Len(xy \o z) = DsAt + 3
       /\ \A i \in 1..DsAt : (xy \o z)[i] = xy[i]
       /\ (xy \o z)[DsAt + 1] = z[1] /\ (xy \o z)[DsAt + 2] = z[2]
  <2>0. xy \in Seq(u8) /\ z \in Seq(u8)
    BY <1>5, <1>9
  <2>1. xy \o z \in Seq(u8) /\ Len(xy \o z) = Len(xy) + Len(z)
    BY <2>0, ConcatProperties
  <2>2. \A i \in 1..(Len(xy) + Len(z)) :
            (xy \o z)[i] = IF i <= Len(xy) THEN xy[i] ELSE z[i - Len(xy)]
    BY <2>0, ConcatProperties
  <2>3. /\ DsAt + 1 \in 1..(DsAt + 3) /\ ~(DsAt + 1 <= DsAt) /\ (DsAt + 1) - DsAt = 1
        /\ DsAt + 2 \in 1..(DsAt + 3) /\ ~(DsAt + 2 <= DsAt) /\ (DsAt + 2) - DsAt = 2
        /\ \A i \in 1..DsAt : i \in 1..(DsAt + 3) /\ i <= DsAt
    BY <1>8
  <2> QED BY <1>5, <1>9, <2>1, <2>2, <2>3
<1>11. 1 \in 1..DsAt /\ 2 \in 1..DsAt /\ RatesAt + 1 \in 1..DsAt /\ RatesAt + 2 \in 1..DsAt
  BY <1>8
<1> QED BY <1>4, <1>5, <1>6, <1>8, <1>9, <1>10, <1>11 DEF xy

(* Searches in elements that begin with these.                             *)
LEMMA HdSearch ==
    ASSUME Ds # <<>>, NEW t \in Seq(u8)
    PROVE  /\ Hd \o t \in Seq(u8)
           /\ HeadLen(Hd \o t) = Len(Hd)
           /\ Len(t) >= 2 /\ t[1] = _TIM_IE_ => rtw_get_ie(Hd \o t, _TIM_IE_) = Len(Hd) + 1
<1> DEFINE buf == Hd \o t
           n == Len(buf)
<1>1. /\ buf \in Seq(u8) /\ n = Len(Hd) + Len(t) /\ Len(t) \in Nat
      /\ \A i \in 1..Len(Hd) : buf[i] = Hd[i]
      /\ Len(t) >= 1 => buf[Len(Hd) + 1] = t[1]
  <2>1. Hd \in Seq(u8) /\ Len(Hd) \in Nat /\ Len(t) \in Nat
    BY HdIs
  <2>2. /\ buf \in Seq(u8) /\ n = Len(Hd) + Len(t)
        /\ \A i \in 1..(Len(Hd) + Len(t)) :
              buf[i] = IF i <= Len(Hd) THEN Hd[i] ELSE t[i - Len(Hd)]
    BY <2>1, ConcatProperties
  <2>3. /\ \A i \in 1..Len(Hd) : i \in 1..(Len(Hd) + Len(t)) /\ i <= Len(Hd)
        /\ Len(t) >= 1 => Len(Hd) + 1 \in 1..(Len(Hd) + Len(t))
        /\ ~(Len(Hd) + 1 <= Len(Hd)) /\ (Len(Hd) + 1) - Len(Hd) = 1
    BY <2>1
  <2> HIDE DEF buf
  <2> QED BY <2>1, <2>2, <2>3
<1> HIDE DEF buf
<1>2. /\ 1 \in 1..Len(Hd) /\ 2 \in 1..Len(Hd)
      /\ RatesAt + 1 \in 1..Len(Hd) /\ RatesAt + 2 \in 1..Len(Hd)
      /\ DsAt + 1 \in 1..Len(Hd) /\ DsAt + 2 \in 1..Len(Hd)
  BY HdIs
<1>3. /\ buf[1] = 0 /\ buf[1 + 1] = RatesAt - 2
      /\ buf[RatesAt + 1] = 1 /\ buf[RatesAt + 1 + 1] = DsAt - RatesAt - 2
      /\ buf[DsAt + 1] = 3 /\ buf[DsAt + 1 + 1] = 1
  <2>1. 1 + 1 = 2 /\ RatesAt + 1 + 1 = RatesAt + 2 /\ DsAt + 1 + 1 = DsAt + 2
    BY HdIs
  <2> QED BY <1>1, <1>2, <2>1, HdIs
<1>0. /\ RatesAt \in Nat /\ DsAt \in Nat /\ RatesAt >= 2 /\ DsAt >= RatesAt + 2
      /\ Len(Hd) = DsAt + 3
  BY HdIs
<1>4. 1 \in 1..(n - 1) /\ RatesAt + 1 \in 1..(n - 1) /\ DsAt + 1 \in 1..(n - 1)
  <2>1. n \in Nat /\ n >= DsAt + 3
    BY <1>0, <1>1
  <2> HIDE DEF n
  <2> QED BY <1>0, <2>1
<1>5. /\ 1 + (RatesAt - 2) + 2 = RatesAt + 1
      /\ (RatesAt + 1) + (DsAt - RatesAt - 2) + 2 = DsAt + 1
      /\ (DsAt + 1) + 1 + 2 = Len(Hd) + 1
  BY <1>0
<1>6. rtw_get_ie(buf, _SSID_IE_) = 1
  <2>1. PICK f : Search(f, buf, _SSID_IE_) /\ rtw_get_ie(buf, _SSID_IE_) = f[1]
    BY <1>1, SearchDef
  <2>2. f[1] = 1
    BY <1>1, <1>3, <1>4, <2>1, SearchStep DEF _SSID_IE_
  <2> QED BY <2>1, <2>2
<1>7. rtw_get_ie(buf, _SUPPORTEDRATES_IE_) = RatesAt + 1
  <2>1. PICK f : /\ Search(f, buf, _SUPPORTEDRATES_IE_)
                 /\ rtw_get_ie(buf, _SUPPORTEDRATES_IE_) = f[1]
    BY <1>1, SearchDef
  <2>2. buf[1] # _SUPPORTEDRATES_IE_ /\ buf[RatesAt + 1] = _SUPPORTEDRATES_IE_
    BY <1>3 DEF _SUPPORTEDRATES_IE_
  <2>3. f[1] = f[1 + buf[1 + 1] + 2]
    BY <1>1, <1>4, <2>1, <2>2, SearchStep
  <2>4. f[1] = f[RatesAt + 1]
    BY <1>3, <1>5, <2>3
  <2>5. f[RatesAt + 1] = RatesAt + 1
    <3>1. buf \in Seq(u8) /\ RatesAt + 1 \in 1..(Len(buf) - 1)
      BY <1>1, <1>4
    <3> QED BY <2>1, <2>2, <3>1, SearchStep
  <2> QED BY <2>1, <2>4, <2>5
<1>8. HeadLen(buf) = Len(Hd)
  <2>1. IeLen(buf, 1) = RatesAt
    BY <1>3, HdIs DEF IeLen
  <2>2. IeLen(buf, RatesAt + 1) = DsAt - RatesAt
    BY <1>3, HdIs DEF IeLen
  <2>3. RatesAt + (DsAt - RatesAt) + 3 = Len(Hd)
    BY HdIs
  <2> QED BY <1>6, <1>7, <2>1, <2>2, <2>3 DEF HeadLen
<1>9. ASSUME Len(t) >= 2, t[1] = _TIM_IE_ PROVE rtw_get_ie(buf, _TIM_IE_) = Len(Hd) + 1
  <2>1. PICK f : Search(f, buf, _TIM_IE_) /\ rtw_get_ie(buf, _TIM_IE_) = f[1]
    BY <1>1, SearchDef
  <2>2. /\ buf[1] # _TIM_IE_ /\ buf[RatesAt + 1] # _TIM_IE_ /\ buf[DsAt + 1] # _TIM_IE_
    BY <1>3 DEF _TIM_IE_
  <2>3. /\ f[1] = f[1 + buf[1 + 1] + 2]
        /\ f[RatesAt + 1] = f[(RatesAt + 1) + buf[RatesAt + 1 + 1] + 2]
        /\ f[DsAt + 1] = f[(DsAt + 1) + buf[DsAt + 1 + 1] + 2]
    <3>1. ASSUME NEW i \in 1..(n - 1), buf[i] # _TIM_IE_ PROVE f[i] = f[i + buf[i + 1] + 2]
      BY <1>1, <2>1, <3>1, SearchStep
    <3> QED BY <1>4, <2>2, <3>1
  <2>4. f[1] = f[Len(Hd) + 1]
    BY <1>3, <1>5, <2>3
  <2>5. Len(Hd) + 1 \in 1..(n - 1) /\ buf[Len(Hd) + 1] = _TIM_IE_
    BY <1>1, <1>9, HdIs
  <2>6. f[Len(Hd) + 1] = Len(Hd) + 1
    BY <1>1, <2>1, <2>5, SearchStep
  <2> QED BY <2>1, <2>4, <2>6
<1> QED BY <1>1, <1>8, <1>9 DEF buf

-----------------------------------------------------------------------------
(* The bits of a number.                                                   *)

LEMMA DivMod ==
    ASSUME NEW n \in Nat, NEW k \in Nat \ {0}
    PROVE  n \div k \in Nat /\ n % k \in Nat /\ n % k < k /\ n = k * (n \div k) + (n % k)
OBVIOUS

LEMMA DivModIs ==
    ASSUME NEW n \in Nat, NEW k \in Nat \ {0}, NEW q \in Nat, NEW r \in Nat, r < k, n = k * q + r
    PROVE  n \div k = q /\ n % k = r
OBVIOUS

(* A number around the bit of value k: e above it, b the bit, r below.     *)
LEMMA BitOf ==
    ASSUME NEW m \in Nat, NEW k \in Nat \ {0}
    PROVE  \E e \in Nat, b \in {0, 1}, r \in Nat :
              r < k /\ m = k * (2 * e + b) + r /\ (m \div k) % 2 = b
<1> DEFINE q == m \div k
           r == m % k
<1>1. q \in Nat /\ r \in Nat /\ r < k /\ m = k * q + r
  BY DivMod
<1> HIDE DEF q, r
<1> DEFINE e == q \div 2
           b == q % 2
<1>2. e \in Nat /\ b \in {0, 1} /\ q = 2 * e + b
  BY <1>1
<1> HIDE DEF e, b
<1>3. m = k * (2 * e + b) + r
  BY <1>1, <1>2
<1>4. (m \div k) % 2 = b
  BY DEF q, b
<1> QED BY <1>1, <1>2, <1>3, <1>4

LEMMA BitIs ==
    ASSUME NEW m \in Nat, NEW k \in Nat \ {0}, NEW e \in Nat, NEW b \in {0, 1}, NEW r \in Nat,
           r < k, m = k * (2 * e + b) + r
    PROVE  (m \div k) % 2 = b
<1> DEFINE q == 2 * e + b
<1>1. q \in Nat /\ q % 2 = b
  OBVIOUS
<1>2. m = k * q + r
  OBVIOUS
<1> HIDE DEF q
<1>3. m \div k = q
  BY <1>1, <1>2, DivModIs
<1> QED BY <1>1, <1>3

-----------------------------------------------------------------------------
(* tim_bitmap has 16 bits, and the element has them in two bytes.          *)

LowBits == {1, 2, 4, 8, 16, 32, 64, 128}
Bits == LowBits \cup {256, 512, 1024, 2048, 4096, 8192, 16384, 32768}

LEMMA BitValues ==
    /\ BIT(0) = 1
    /\ BIT(1) = 2
    /\ BIT(2) = 4
    /\ BIT(3) = 8
    /\ BIT(4) = 16
    /\ BIT(5) = 32
    /\ BIT(6) = 64
    /\ BIT(7) = 128
    /\ BIT(8) = 256
    /\ BIT(9) = 512
    /\ BIT(10) = 1024
    /\ BIT(11) = 2048
    /\ BIT(12) = 4096
    /\ BIT(13) = 8192
    /\ BIT(14) = 16384
    /\ BIT(15) = 32768
BY DEF BIT

LEMMA BitValue ==
    ASSUME NEW a \in 0..15
    PROVE  BIT(a) \in Bits /\ (a < 8 => BIT(a) \in LowBits /\ BIT(a + 8) = 256 * BIT(a))
<1>1. a < 8 => BIT(a) \in LowBits /\ BIT(a + 8) = 256 * BIT(a)
  <2>0. CASE a = 0
    BY <2>0, BitValues DEF LowBits
  <2>1. CASE a = 1
    BY <2>1, BitValues DEF LowBits
  <2>2. CASE a = 2
    BY <2>2, BitValues DEF LowBits
  <2>3. CASE a = 3
    BY <2>3, BitValues DEF LowBits
  <2>4. CASE a = 4
    BY <2>4, BitValues DEF LowBits
  <2>5. CASE a = 5
    BY <2>5, BitValues DEF LowBits
  <2>6. CASE a = 6
    BY <2>6, BitValues DEF LowBits
  <2>7. CASE a = 7
    BY <2>7, BitValues DEF LowBits
  <2> QED BY <2>0, <2>1, <2>2, <2>3, <2>4, <2>5, <2>6, <2>7
<1>2. a >= 8 => BIT(a) \in Bits
  <2>8. CASE a = 8
    BY <2>8, BitValues DEF Bits
  <2>9. CASE a = 9
    BY <2>9, BitValues DEF Bits
  <2>10. CASE a = 10
    BY <2>10, BitValues DEF Bits
  <2>11. CASE a = 11
    BY <2>11, BitValues DEF Bits
  <2>12. CASE a = 12
    BY <2>12, BitValues DEF Bits
  <2>13. CASE a = 13
    BY <2>13, BitValues DEF Bits
  <2>14. CASE a = 14
    BY <2>14, BitValues DEF Bits
  <2>15. CASE a = 15
    BY <2>15, BitValues DEF Bits
  <2> QED BY <2>8, <2>9, <2>10, <2>11, <2>12, <2>13, <2>14, <2>15
<1> QED BY <1>1, <1>2 DEF Bits

(* There is room for a bit that is clear.                                  *)
LEMMA Room ==
    ASSUME NEW k \in Bits, NEW e \in Nat, NEW r \in Nat, r < k, k * (2 * e) + r <= 65535
    PROVE  (k * (2 * e) + r) + k <= 65535
<1>0. CASE k = 1
  <2>1. r <= 0 /\ 2 * e + r <= 65535
    BY <1>0
  <2>2. 2 * e <= 65534
    BY <2>1
  <2> QED BY <1>0, <2>1, <2>2
<1>1. CASE k = 2
  <2>1. r <= 1 /\ 4 * e + r <= 65535
    BY <1>1
  <2>2. 4 * e <= 65532
    BY <2>1
  <2> QED BY <1>1, <2>1, <2>2
<1>2. CASE k = 4
  <2>1. r <= 3 /\ 8 * e + r <= 65535
    BY <1>2
  <2>2. 8 * e <= 65528
    BY <2>1
  <2> QED BY <1>2, <2>1, <2>2
<1>3. CASE k = 8
  <2>1. r <= 7 /\ 16 * e + r <= 65535
    BY <1>3
  <2>2. 16 * e <= 65520
    BY <2>1
  <2> QED BY <1>3, <2>1, <2>2
<1>4. CASE k = 16
  <2>1. r <= 15 /\ 32 * e + r <= 65535
    BY <1>4
  <2>2. 32 * e <= 65504
    BY <2>1
  <2> QED BY <1>4, <2>1, <2>2
<1>5. CASE k = 32
  <2>1. r <= 31 /\ 64 * e + r <= 65535
    BY <1>5
  <2>2. 64 * e <= 65472
    BY <2>1
  <2> QED BY <1>5, <2>1, <2>2
<1>6. CASE k = 64
  <2>1. r <= 63 /\ 128 * e + r <= 65535
    BY <1>6
  <2>2. 128 * e <= 65408
    BY <2>1
  <2> QED BY <1>6, <2>1, <2>2
<1>7. CASE k = 128
  <2>1. r <= 127 /\ 256 * e + r <= 65535
    BY <1>7
  <2>2. 256 * e <= 65280
    BY <2>1
  <2> QED BY <1>7, <2>1, <2>2
<1>8. CASE k = 256
  <2>1. r <= 255 /\ 512 * e + r <= 65535
    BY <1>8
  <2>2. 512 * e <= 65024
    BY <2>1
  <2> QED BY <1>8, <2>1, <2>2
<1>9. CASE k = 512
  <2>1. r <= 511 /\ 1024 * e + r <= 65535
    BY <1>9
  <2>2. 1024 * e <= 64512
    BY <2>1
  <2> QED BY <1>9, <2>1, <2>2
<1>10. CASE k = 1024
  <2>1. r <= 1023 /\ 2048 * e + r <= 65535
    BY <1>10
  <2>2. 2048 * e <= 63488
    BY <2>1
  <2> QED BY <1>10, <2>1, <2>2
<1>11. CASE k = 2048
  <2>1. r <= 2047 /\ 4096 * e + r <= 65535
    BY <1>11
  <2>2. 4096 * e <= 61440
    BY <2>1
  <2> QED BY <1>11, <2>1, <2>2
<1>12. CASE k = 4096
  <2>1. r <= 4095 /\ 8192 * e + r <= 65535
    BY <1>12
  <2>2. 8192 * e <= 57344
    BY <2>1
  <2> QED BY <1>12, <2>1, <2>2
<1>13. CASE k = 8192
  <2>1. r <= 8191 /\ 16384 * e + r <= 65535
    BY <1>13
  <2>2. 16384 * e <= 49152
    BY <2>1
  <2> QED BY <1>13, <2>1, <2>2
<1>14. CASE k = 16384
  <2>1. r <= 16383 /\ 32768 * e + r <= 65535
    BY <1>14
  <2>2. 32768 * e <= 32768
    BY <2>1
  <2> QED BY <1>14, <2>1, <2>2
<1>15. CASE k = 32768
  <2>1. r <= 32767 /\ 65536 * e + r <= 65535
    BY <1>15
  <2>2. 65536 * e <= 0
    BY <2>1
  <2> QED BY <1>15, <2>1, <2>2
<1> QED BY <1>0, <1>1, <1>2, <1>3, <1>4, <1>5, <1>6, <1>7, <1>8, <1>9, <1>10, <1>11, <1>12, <1>13, <1>14, <1>15 DEF Bits, LowBits

LEMMA BitTypes ==
    /\ \A k \in Bits : k \in Nat \ {0}
    /\ \A k \in LowBits : k \in Nat \ {0} /\ 256 * k \in Nat \ {0}
<1>1. \A k \in Bits : k \in Nat \ {0}
  BY DEF Bits, LowBits
<1>2. \A k \in LowBits : k \in Nat \ {0} /\ 256 * k \in Nat \ {0}
  BY DEF LowBits
<1> QED BY <1>1, <1>2

(* Setting a clear bit and clearing a set one stay within 16 bits.         *)
LEMMA MaskSet ==
    ASSUME NEW m \in u16, NEW k \in Bits
    PROVE  (m \div k) % 2 # 1 => m + k \in u16
<1> DEFINE bit == (m \div k) % 2
<1>1. m \in Nat /\ m <= 65535 /\ k \in Nat \ {0}
  BY Widths, BitTypes
<1>a. m \in Nat /\ k \in Nat \ {0}
  BY <1>1
<1>2. PICK e \in Nat, b \in {0, 1}, r \in Nat : r < k /\ m = k * (2 * e + b) + r /\ bit = b
  BY <1>a, BitOf, Zenon
<1> HIDE DEF bit
<1>3. ASSUME bit # 1 PROVE m + k \in u16
  <2>1. 2 * e + b = 2 * e
    BY <1>2, <1>3
  <2>2. m = k * (2 * e) + r
    BY <1>2, <2>1
  <2>a. k * (2 * e) + r <= 65535 /\ r < k
    BY <1>1, <1>2, <2>2
  <2>b. (k * (2 * e) + r) + k <= 65535
    BY <2>a, Room
  <2>3. m + k <= 65535
    BY <2>2, <2>b
  <2>4. m + k \in Nat
    BY <1>1
  <2> QED BY <2>3, <2>4, Widths
<1> QED BY <1>3 DEF bit

LEMMA MaskClear ==
    ASSUME NEW m \in u16, NEW k \in Bits
    PROVE  (m \div k) % 2 = 1 => m - k \in u16
<1> DEFINE bit == (m \div k) % 2
<1>1. m \in Nat /\ m <= 65535 /\ k \in Nat \ {0}
  BY Widths, BitTypes
<1>a. m \in Nat /\ k \in Nat \ {0}
  BY <1>1
<1>2. PICK e \in Nat, b \in {0, 1}, r \in Nat : r < k /\ m = k * (2 * e + b) + r /\ bit = b
  BY <1>a, BitOf, Zenon
<1> HIDE DEF bit
<1>3. ASSUME bit = 1 PROVE m - k \in u16
  <2> DEFINE q == 2 * e + b
             kq == k * q
  <2>1. q \in Nat /\ q >= 1
    BY <1>2, <1>3
  <2>2. m = kq + r
    BY <1>2
  <2> HIDE DEF q
  <2>3. kq >= k /\ kq \in Nat
    BY <1>1, <2>1
  <2> HIDE DEF kq
  <2>4. m - k \in Nat /\ m - k <= 65535
    BY <1>1, <1>2, <2>2, <2>3
  <2> QED BY <2>4, Widths
<1> QED BY <1>3 DEF bit

(* The lower byte has the lower bits of the mask.                          *)
LEMMA LowByte ==
    ASSUME NEW m \in u16, NEW k \in LowBits
    PROVE  ((m % 256) \div k) % 2 = (m \div k) % 2
<1>1. m \in Nat /\ k \in Nat \ {0}
  BY BitTypes, Widths
<1> DEFINE q == m \div 256
           l == m % 256
<1>2. q \in Nat /\ l \in Nat /\ m = 256 * q + l
  BY <1>1
<1> HIDE DEF q, l
<1>3. PICK e \in Nat, b \in {0, 1}, r \in Nat : r < k /\ l = k * (2 * e + b) + r /\ (l \div k) % 2 = b
  BY <1>1, <1>2, BitOf
<1>4. \E c \in Nat : m = k * (2 * (c * q + e) + b) + r
  <2>0. CASE k = 1
    <3>1. m = k * (2 * (128 * q + e) + b) + r
      BY <1>2, <1>3, <2>0
    <3> QED BY <3>1
  <2>1. CASE k = 2
    <3>1. m = k * (2 * (64 * q + e) + b) + r
      BY <1>2, <1>3, <2>1
    <3> QED BY <3>1
  <2>2. CASE k = 4
    <3>1. m = k * (2 * (32 * q + e) + b) + r
      BY <1>2, <1>3, <2>2
    <3> QED BY <3>1
  <2>3. CASE k = 8
    <3>1. m = k * (2 * (16 * q + e) + b) + r
      BY <1>2, <1>3, <2>3
    <3> QED BY <3>1
  <2>4. CASE k = 16
    <3>1. m = k * (2 * (8 * q + e) + b) + r
      BY <1>2, <1>3, <2>4
    <3> QED BY <3>1
  <2>5. CASE k = 32
    <3>1. m = k * (2 * (4 * q + e) + b) + r
      BY <1>2, <1>3, <2>5
    <3> QED BY <3>1
  <2>6. CASE k = 64
    <3>1. m = k * (2 * (2 * q + e) + b) + r
      BY <1>2, <1>3, <2>6
    <3> QED BY <3>1
  <2>7. CASE k = 128
    <3>1. m = k * (2 * (1 * q + e) + b) + r
      BY <1>2, <1>3, <2>7
    <3> QED BY <3>1
  <2> QED BY <2>0, <2>1, <2>2, <2>3, <2>4, <2>5, <2>6, <2>7 DEF LowBits
<1>5. PICK c \in Nat : m = k * (2 * (c * q + e) + b) + r
  BY <1>4
<1> DEFINE ee == c * q + e
<1>6. ee \in Nat /\ m = k * (2 * ee + b) + r
  BY <1>2, <1>5
<1> HIDE DEF ee
<1>7. (m \div k) % 2 = b
  BY <1>1, <1>3, <1>6, BitIs, Zenon
<1> QED BY <1>3, <1>7 DEF l

(* The upper byte has the upper bits of the mask.                          *)
LEMMA HighByte ==
    ASSUME NEW m \in u16, NEW k \in LowBits
    PROVE  ((m \div 256) \div k) % 2 = (m \div (256 * k)) % 2
<1>1. m \in Nat /\ k \in Nat \ {0} /\ 256 * k \in Nat \ {0}
  BY BitTypes, Widths
<1> DEFINE q == m \div 256
           l == m % 256
<1>2. q \in Nat /\ l \in Nat /\ l < 256 /\ m = 256 * q + l
  BY <1>1
<1> HIDE DEF q, l
<1>3. PICK e \in Nat, b \in {0, 1}, r \in Nat : r < k /\ q = k * (2 * e + b) + r /\ (q \div k) % 2 = b
  BY <1>1, <1>2, BitOf
<1>4. /\ m = (256 * k) * (2 * e + b) + (256 * r + l)
      /\ 256 * r + l \in Nat /\ 256 * r + l < 256 * k
  <2>0. CASE k = 1
    BY <1>2, <1>3, <2>0
  <2>1. CASE k = 2
    BY <1>2, <1>3, <2>1
  <2>2. CASE k = 4
    BY <1>2, <1>3, <2>2
  <2>3. CASE k = 8
    BY <1>2, <1>3, <2>3
  <2>4. CASE k = 16
    BY <1>2, <1>3, <2>4
  <2>5. CASE k = 32
    BY <1>2, <1>3, <2>5
  <2>6. CASE k = 64
    BY <1>2, <1>3, <2>6
  <2>7. CASE k = 128
    BY <1>2, <1>3, <2>7
  <2> QED BY <2>0, <2>1, <2>2, <2>3, <2>4, <2>5, <2>6, <2>7 DEF LowBits
<1>5. (m \div (256 * k)) % 2 = b
  <2> DEFINE kk == 256 * k
             rr == 256 * r + l
  <2>1. kk \in Nat \ {0} /\ rr \in Nat /\ rr < kk /\ m = kk * (2 * e + b) + rr
    BY <1>1, <1>4
  <2> HIDE DEF kk, rr
  <2>2. (m \div kk) % 2 = b
    BY <1>1, <2>1, BitIs
  <2> QED BY <2>2 DEF kk
<1> QED BY <1>3, <1>5 DEF q

-----------------------------------------------------------------------------
(* The TIM element.                                                        *)

LEMMA Halves ==
    ASSUME NEW m \in u16
    PROVE  /\ m % 256 \in u8 /\ m \div 256 \in u8
           /\ High(m) = 0 => m % 256 = m /\ m \div 256 = 0
<1> DEFINE q == m \div 256
           l == m % 256
<1>1. m \in Nat /\ m <= 65535
  BY Widths
<1>2. q \in Nat /\ l \in Nat /\ l < 256 /\ m = 256 * q + l
  BY <1>1, DivMod
<1>3. High(m) = m - l
  BY DEF High
<1> HIDE DEF q, l
<1>4. q <= 255 /\ l <= 255
  BY <1>1, <1>2
<1>5. High(m) = 0 => l = m /\ q = 0
  BY <1>1, <1>2, <1>3
<1>6. q \in u8 /\ l \in u8
  BY <1>2, <1>4, Widths
<1> QED BY <1>5, <1>6 DEF q, l

LEMMA PvbIs ==
    ASSUME NEW m \in u16
    PROVE  /\ TimLen(m) \in {4, 5}
           /\ Pvb(m) \in Seq(u8) /\ Len(Pvb(m)) = TimLen(m) - 3
<1>1. TimLen(m) \in {4, 5}
  BY DEF TimLen
<1>2. m % 256 \in u8 /\ m \div 256 \in u8
  BY Halves
<1> DEFINE q == m \div 256
           l == m % 256
<1>3. Pvb(m) = IF TimLen(m) = 5 THEN <<l, q>>
               ELSE IF Low(m) # 0 THEN <<l>> ELSE IF High(m) # 0 THEN <<q>> ELSE <<l>>
  BY DEF Pvb
<1>4. l \in u8 /\ q \in u8
  BY <1>2
<1> HIDE DEF q, l
<1>5. CASE TimLen(m) = 5
  <2>1. Pvb(m) = <<l, q>>
    BY <1>3, <1>5
  <2> QED BY <1>4, <1>5, <2>1
<1>6. CASE TimLen(m) = 4
  <2>1. Pvb(m) = <<l>> \/ Pvb(m) = <<q>>
    BY <1>3, <1>6
  <2> QED BY <1>4, <1>6, <2>1
<1> QED BY <1>1, <1>5, <1>6

LEMMA TimIs ==
    ASSUME NEW m \in u16
    PROVE  /\ Tim(m) \in Seq(u8) /\ Len(Tim(m)) = TimLen(m) + 2 /\ Len(Tim(m)) \in {6, 7}
           /\ Tim(m)[1] = _TIM_IE_ /\ Tim(m)[2] = TimLen(m)
           /\ Tim(m)[5] = IF Has(m, 0) THEN 1 ELSE 0
           /\ \A i \in 1..Len(Pvb(m)) : Tim(m)[5 + i] = Pvb(m)[i]
<1> DEFINE ctl == IF Has(m, 0) THEN 1 ELSE 0
           s == <<_TIM_IE_, TimLen(m), 0, 1, ctl>>
           t == Pvb(m)
<1>1. TimLen(m) \in {4, 5} /\ t \in Seq(u8) /\ Len(t) = TimLen(m) - 3
  BY PvbIs
<1>2. Tim(m) = s \o t
  <2>1. BIT(0) = 1
    BY BitValues
  <2> QED BY <2>1, Zenon DEF Tim
<1>3. ctl \in {0, 1}
  OBVIOUS
<1> HIDE DEF ctl, t
<1>4. _TIM_IE_ \in u8 /\ TimLen(m) \in u8 /\ 0 \in u8 /\ 1 \in u8 /\ ctl \in u8
  BY <1>1, <1>3, Widths DEF _TIM_IE_
<1>5. /\ s \in Seq(u8) /\ Len(s) = 5
      /\ s[1] = _TIM_IE_ /\ s[2] = TimLen(m) /\ s[5] = ctl
  BY <1>4
<1> HIDE DEF s
<1>6. s \o t \in Seq(u8) /\ Len(s \o t) = Len(s) + Len(t)
  BY <1>1, <1>5, ConcatProperties
<1>7. \A i \in 1..(Len(s) + Len(t)) : (s \o t)[i] = IF i <= Len(s) THEN s[i] ELSE t[i - Len(s)]
  BY <1>1, <1>5, ConcatProperties
<1>8. /\ (s \o t)[1] = s[1] /\ (s \o t)[2] = s[2] /\ (s \o t)[5] = s[5]
  <2>1. Len(s) = 5 /\ Len(t) \in Nat
    BY <1>1, <1>5
  <2>2. 1 \in 1..(Len(s) + Len(t)) /\ 2 \in 1..(Len(s) + Len(t)) /\ 5 \in 1..(Len(s) + Len(t))
    BY <2>1
  <2>3. 1 <= Len(s) /\ 2 <= Len(s) /\ 5 <= Len(s)
    BY <2>1
  <2> QED BY <1>7, <2>2, <2>3, Zenon
<1>9. ASSUME NEW i \in 1..Len(t) PROVE (s \o t)[5 + i] = t[i]
  <2>1. /\ 5 + i \in 1..(Len(s) + Len(t)) /\ ~(5 + i <= Len(s)) /\ (5 + i) - Len(s) = i
    BY <1>1, <1>5
  <2> QED BY <1>7, <2>1
<1>10. Len(s) + Len(t) = TimLen(m) + 2 /\ TimLen(m) + 2 \in {6, 7}
  BY <1>1, <1>5
<1>11. \A i \in 1..Len(t) : Tim(m)[5 + i] = t[i]
  BY <1>2, <1>9
<1>12. /\ Tim(m) \in Seq(u8) /\ Len(Tim(m)) = TimLen(m) + 2 /\ Len(Tim(m)) \in {6, 7}
       /\ Tim(m)[1] = _TIM_IE_ /\ Tim(m)[2] = TimLen(m) /\ Tim(m)[5] = ctl
  BY <1>2, <1>5, <1>6, <1>8, <1>10
<1> QED BY <1>11, <1>12 DEF t, ctl

-----------------------------------------------------------------------------
(* What update_BCNTIM makes of the elements.                               *)

Written(m, r) == (Hd \o Tim(m)) \o r

LEMMA GivenIs ==
    ASSUME Ds # <<>>
    PROVE  Given = Hd \o Rest /\ Rest \in Seq(u8) /\ Given \in Seq(u8)
<1>1. Given = Hd \o Rest
  BY DEF Given, Hd
<1>2. Rest \in Seq(u8)
  BY BodyAssumption
<1> QED BY <1>1, <1>2, HdIs, ConcatProperties

LEMMA WrittenIs ==
    ASSUME Ds # <<>>, NEW m \in u16, NEW r \in Seq(u8)
    PROVE  /\ Written(m, r) \in Seq(u8)
           /\ Written(m, r) = Hd \o (Tim(m) \o r)
           /\ Len(Hd \o Tim(m)) = Len(Hd) + Len(Tim(m))
           /\ Len(Written(m, r)) = Len(Hd) + Len(Tim(m)) + Len(r)
           /\ \A i \in 1..Len(Tim(m)) : Written(m, r)[Len(Hd) + i] = Tim(m)[i]
           /\ rtw_get_ie(Written(m, r), _TIM_IE_) = Len(Hd) + 1
           /\ TimAt(Written(m, r)) = Len(Hd) + 1
           /\ IeLen(Written(m, r), Len(Hd) + 1) = Len(Tim(m))
<1> DEFINE h == Len(Hd)
           t == Tim(m)
           tr == t \o r
           w == Hd \o tr
<1>1. Hd \in Seq(u8) /\ t \in Seq(u8) /\ h \in Nat
  BY HdIs, TimIs
<1>2. Written(m, r) = w
  BY <1>1, ConcatAssociative DEF Written
<1>3. Len(t) \in {6, 7} /\ t[1] = _TIM_IE_ /\ t[2] = TimLen(m) /\ Len(t) = TimLen(m) + 2
  BY TimIs
<1> HIDE DEF t
<1>4. /\ tr \in Seq(u8) /\ Len(tr) = Len(t) + Len(r)
      /\ \A i \in 1..(Len(t) + Len(r)) : tr[i] = IF i <= Len(t) THEN t[i] ELSE r[i - Len(t)]
  BY <1>1, ConcatProperties
<1>5. Len(t) \in Nat /\ Len(r) \in Nat
  BY <1>1, <1>3
<1> HIDE DEF tr
<1>6. \A i \in 1..Len(t) : tr[i] = t[i]
  BY <1>4, <1>5
<1>7. /\ w \in Seq(u8) /\ Len(w) = h + Len(tr)
      /\ \A i \in 1..(h + Len(tr)) : w[i] = IF i <= h THEN Hd[i] ELSE tr[i - h]
  <2>1. Hd \in Seq(u8) /\ tr \in Seq(u8)
    BY <1>1, <1>4
  <2> QED BY <2>1, ConcatProperties
<1> HIDE DEF w, h
<1>8. ASSUME NEW i \in 1..Len(t) PROVE w[h + i] = t[i]
  <2>1. h + i \in 1..(h + Len(tr)) /\ ~(h + i <= h) /\ (h + i) - h = i
    BY <1>1, <1>4, <1>5
  <2> QED BY <1>6, <1>7, <2>1
<1>9. rtw_get_ie(w, _TIM_IE_) = h + 1
  <2>1. Len(tr) >= 2 /\ tr[1] = _TIM_IE_
    BY <1>3, <1>4, <1>5, <1>6
  <2> QED BY <1>4, <2>1, HdSearch DEF w, h
<1>10. IeLen(w, h + 1) = Len(t) /\ TimAt(w) = h + 1
  <2>1. w[h + 2] = t[2]
    BY <1>3, <1>8
  <2>2. (h + 1) + 1 = h + 2 /\ h + 1 # 0
    BY <1>1
  <2>3. t[2] > 0
    BY <1>3, PvbIs
  <2>4. TimAt(w) = h + 1
    BY <1>9, <2>1, <2>2, <2>3 DEF TimAt
  <2> QED BY <1>3, <2>1, <2>2, <2>4 DEF IeLen
<1>11. Len(Hd \o t) = h + Len(t)
  BY <1>1, ConcatProperties DEF h
<1>12. Len(w) = h + Len(t) + Len(r)
  BY <1>1, <1>4, <1>5, <1>7
<1> QED BY <1>2, <1>7, <1>8, <1>9, <1>10, <1>11, <1>12 DEF w, tr, t, h

(* What is in front of the element and behind it.                          *)
LEMMA WrittenParts ==
    ASSUME Ds # <<>>, NEW m \in u16, NEW r \in Seq(u8)
    PROVE  /\ SubSeq(Written(m, r), 1, Len(Hd)) = Hd
           /\ SubSeq(Written(m, r), Len(Hd) + Len(Tim(m)) + 1, Len(Written(m, r))) = r
<1>1. Hd \in Seq(u8) /\ Tim(m) \in Seq(u8)
  BY HdIs, TimIs
<1>2. Tim(m) \o r \in Seq(u8) /\ Hd \o Tim(m) \in Seq(u8)
  BY <1>1, ConcatProperties
<1>3. SubSeq(Hd \o (Tim(m) \o r), 1, Len(Hd)) = Hd
  BY <1>1, <1>2, Front
<1> DEFINE ht == Hd \o Tim(m)
<1>4. SubSeq(ht \o r, Len(ht) + 1, Len(ht \o r)) = r
  BY <1>1, <1>2, Back
<1>5. Written(m, r) = ht \o r /\ Len(ht) = Len(Hd) + Len(Tim(m))
  BY WrittenIs DEF Written
<1>6. SubSeq(Written(m, r), 1, Len(Hd)) = Hd
  BY <1>3, WrittenIs
<1> HIDE DEF ht
<1>7. SubSeq(Written(m, r), Len(Hd) + Len(Tim(m)) + 1, Len(Written(m, r))) = r
  BY <1>4, <1>5
<1> QED BY <1>6, <1>7

LEMMA GivenParts ==
    ASSUME Ds # <<>>
    PROVE  /\ SubSeq(Given, 1, Len(Hd)) = Hd
           /\ SubSeq(Given, Len(Hd) + 1, Len(Given)) = Rest
           /\ Len(Given) = Len(Hd) + Len(Rest)
           /\ HeadLen(Given) = Len(Hd)
<1>1. Given = Hd \o Rest /\ Hd \in Seq(u8) /\ Rest \in Seq(u8)
  BY HdIs, GivenIs
<1>2. SubSeq(Hd \o Rest, 1, Len(Hd)) = Hd
  BY <1>1, Front
<1>3. SubSeq(Hd \o Rest, Len(Hd) + 1, Len(Hd \o Rest)) = Rest
  BY <1>1, Back
<1>4. HeadLen(Hd \o Rest) = Len(Hd)
  BY <1>1, HdSearch
<1>5. Len(Hd \o Rest) = Len(Hd) + Len(Rest)
  BY <1>1, ConcatProperties
<1> QED BY <1>1, <1>2, <1>3, <1>4, <1>5

(* A beacon the driver may have: what is in front of the element, and what *)
(* is behind it.                                                           *)
Beacon(buf, r) ==
    /\ buf \in Seq(u8) /\ r \in Seq(u8)
    /\ Before(buf) = Len(Hd) /\ SubSeq(buf, 1, Len(Hd)) = Hd
    /\ Remainder(buf) = r
    /\ Len(buf) >= Len(Hd) + Len(r)

LEMMA BeaconGiven ==
    ASSUME Ds # <<>>
    PROVE  Beacon(Given, Rest)
<1>0. Len(Hd) \in Nat /\ Given \in Seq(u8) /\ Rest \in Seq(u8)
  BY HdIs, GivenIs
<1>1. TimAt(Given) = 0
  BY BodyAssumption DEF TimAt
<1>2. IeLen(Given, 0) = 0
  BY DEF IeLen
<1>3. Before(Given) = Len(Hd)
  BY <1>1, GivenParts DEF Before
<1>4. Before(Given) + IeLen(Given, TimAt(Given)) + 1 = Len(Hd) + 1
  BY <1>0, <1>1, <1>2, <1>3
<1>5. Remainder(Given) = Rest
  BY <1>4, GivenParts DEF Remainder
<1>6. Len(Given) >= Len(Hd) + Len(Rest)
  BY <1>0, GivenParts
<1> QED BY <1>0, <1>3, <1>5, <1>6, GivenParts DEF Beacon

LEMMA BeaconWritten ==
    ASSUME Ds # <<>>, NEW k \in u16, NEW r \in Seq(u8)
    PROVE  Beacon(Written(k, r), r)
<1> DEFINE buf == Written(k, r)
<1>0. Len(Hd) \in Nat /\ Len(Tim(k)) \in Nat /\ Len(r) \in Nat
  BY HdIs, TimIs
<1>1. /\ TimAt(buf) = Len(Hd) + 1 /\ IeLen(buf, Len(Hd) + 1) = Len(Tim(k))
      /\ buf \in Seq(u8) /\ Len(buf) = Len(Hd) + Len(Tim(k)) + Len(r)
  BY WrittenIs
<1>2. /\ SubSeq(buf, 1, Len(Hd)) = Hd
      /\ SubSeq(buf, Len(Hd) + Len(Tim(k)) + 1, Len(buf)) = r
  BY WrittenParts
<1> HIDE DEF buf
<1>3. Len(Hd) + 1 # 0 /\ (Len(Hd) + 1) - 1 = Len(Hd)
  BY <1>0
<1>4. Before(buf) = Len(Hd)
  BY <1>1, <1>3 DEF Before
<1>5. Remainder(buf) = r
  BY <1>1, <1>2, <1>4 DEF Remainder
<1>6. Len(buf) >= Len(Hd) + Len(r)
  BY <1>0, <1>1
<1> QED BY <1>1, <1>2, <1>4, <1>5, <1>6 DEF Beacon, buf

(* The bytes that lie behind the element when they were not saved: as many *)
(* as were there.                                                          *)
LEMMA OverlaidIs ==
    ASSUME Ds # <<>>, NEW m \in u16, NEW buf, NEW r, Beacon(buf, r), NEW stale \in Tails
    PROVE  Overlaid(m, buf, stale) \in Seq(u8) /\ Len(Overlaid(m, buf, stale)) = Len(r)
<1> DEFINE st == buf \o stale
           h == Len(Hd)
           t == Len(Tim(m))
           n == Len(r)
           o == SubSeq(st, h + t + 1, h + t + n)
<1>1. h \in Nat /\ t \in {6, 7} /\ n \in Nat /\ r \in Seq(u8) /\ buf \in Seq(u8)
  BY HdIs, TimIs DEF Beacon
<1>2. stale \in Seq(u8) /\ Len(stale) = 7
  <2>1. \A i \in 1..7 : stale[i] \in u8
    BY BodyAssumption DEF Tails
  <2>2. stale \in [1..7 -> u8] /\ DOMAIN stale = 1..7
    BY <2>1 DEF Tails
  <2>3. stale \in Seq(u8)
    BY <2>2, SeqDef
  <2>4. Len(stale) \in Nat /\ 1..Len(stale) = 1..7
    BY <2>2, <2>3, LenProperties
  <2>5. \A k \in Nat : 1..k = 1..7 => k = 7
    <3> SUFFICES ASSUME NEW k \in Nat, 1..k = 1..7 PROVE k = 7
      OBVIOUS
    <3>1. 7 \in 1..7
      OBVIOUS
    <3>2. 7 \in 1..k
      BY <3>1
    <3>3. 8 \notin 1..7
      OBVIOUS
    <3>4. 8 \notin 1..k
      BY <3>3
    <3> QED BY <3>2, <3>4
  <2> QED BY <2>3, <2>4, <2>5
<1>3. st \in Seq(u8) /\ Len(st) = Len(buf) + 7
  <2>1. buf \in Seq(u8) /\ stale \in Seq(u8)
    BY <1>1, <1>2
  <2>2. st \in Seq(u8) /\ Len(st) = Len(buf) + Len(stale)
    BY <2>1, ConcatProperties
  <2> QED BY <1>2, <2>2
<1>4. Overlaid(m, buf, stale) = o
  BY DEF Overlaid, Beacon
<1>5. Len(buf) >= h + n /\ Len(buf) \in Nat
  BY <1>1 DEF Beacon
<1> HIDE DEF st, h, t, n
<1>6. \A i \in (h + t + 1)..(h + t + n) : st[i] \in u8
  <2>1. h + t + n <= Len(st) /\ Len(st) \in Nat
    BY <1>1, <1>3, <1>5
  <2>2. \A i \in (h + t + 1)..(h + t + n) : i \in 1..Len(st)
    BY <1>1, <2>1
  <2> QED BY <1>3, <2>2
<1>7. h + t + 1 \in Int /\ h + t + n \in Int
  BY <1>1
<1>8. /\ o \in Seq(u8)
      /\ Len(o) = IF h + t + 1 <= h + t + n THEN (h + t + n) - (h + t + 1) + 1 ELSE 0
  BY <1>6, <1>7, SubSeqProperties
<1> HIDE DEF o
<1>9. Len(o) = n
  BY <1>1, <1>8
<1> QED BY <1>4, <1>8, <1>9 DEF n

-----------------------------------------------------------------------------
(* The invariant: the elements are those given, before the first update,   *)
(* or the TIM element of the bitmap stands between the first three and as  *)
(* many bytes as the rest has, the rest itself while nothing is torn.      *)

Behind(r) ==
    /\ Len(r) = Len(Rest)
    /\ ies = Written(tim_bitmap, r)
    /\ ~torn => r = Rest

TimInv ==
    /\ tim_bitmap \in u16 /\ torn \in BOOLEAN
    /\ ies = Given \/ \E r \in Seq(u8) : Behind(r)

LEMMA TimInit == Init => TimInv
<1>1. 0 \in u16
  BY Widths
<1> QED BY <1>1 DEF Init, TimInv

LEMMA TimStep ==
    ASSUME Ds # <<>>
    PROVE  TimInv /\ [Next]_vars => TimInv'
<1> SUFFICES ASSUME TimInv, [Next]_vars PROVE TimInv'
  OBVIOUS
<1>1. CASE UNCHANGED vars
  <2>1. ASSUME NEW r PROVE Behind(r)' <=> Behind(r)
    BY <1>1 DEF Behind, vars
  <2> QED BY <1>1, <2>1 DEF TimInv, vars
<1>2. ASSUME NEW aid \in Aids, SetBit(aid) \/ ClearBit(aid) PROVE TimInv'
  <2>1. tim_bitmap \in u16 /\ aid \in 0..31
    BY AidAssumption DEF TimInv
  <2>2. tim_bitmap' \in u16
    <3>1. CASE tim_bitmap' = tim_bitmap
      BY <2>1, <3>1
    <3>2. CASE aid < 16 /\ ~Has(tim_bitmap, aid) /\ tim_bitmap' = tim_bitmap + BIT(aid)
      <4>1. BIT(aid) \in Bits
        BY <2>1, <3>2, BitValue
      <4>2. (tim_bitmap \div BIT(aid)) % 2 # 1
        BY <3>2 DEF Has
      <4> QED BY <2>1, <3>2, <4>1, <4>2, MaskSet
    <3>3. CASE aid < 16 /\ Has(tim_bitmap, aid) /\ tim_bitmap' = tim_bitmap - BIT(aid)
      <4>1. BIT(aid) \in Bits
        BY <2>1, <3>3, BitValue
      <4>2. (tim_bitmap \div BIT(aid)) % 2 = 1
        BY <3>3 DEF Has
      <4> QED BY <2>1, <3>3, <4>1, <4>2, MaskClear
    <3> QED BY <1>2, <3>1, <3>2, <3>3 DEF SetBit, ClearBit
  <2>3. update_BCNTIM(tim_bitmap')
    BY <1>2 DEF SetBit, ClearBit
  <2>4. PICK r \in Seq(u8) : Beacon(ies, r) /\ Len(r) = Len(Rest) /\ (~torn => r = Rest)
    <3>1. CASE ies = Given
      BY <3>1, BeaconGiven, GivenIs
    <3>2. ASSUME NEW r \in Seq(u8), Behind(r)
          PROVE  Beacon(ies, r) /\ Len(r) = Len(Rest) /\ (~torn => r = Rest)
      BY <2>1, <3>2, BeaconWritten DEF Behind
    <3> QED BY <3>1, <3>2 DEF TimInv
  <2>5. \A b : Replaced(tim_bitmap', ies, b) = Written(tim_bitmap', b)
    BY <2>4 DEF Replaced, Written, Beacon
  <2>6. CASE ies' = Replaced(tim_bitmap', ies, Remainder(ies)) /\ UNCHANGED torn
    <3>1. Behind(r)'
      BY <2>4, <2>5, <2>6 DEF Behind, Beacon
    <3>2. torn' \in BOOLEAN
      BY <2>6 DEF TimInv
    <3> QED BY <2>2, <3>1, <3>2 DEF TimInv
  <2>7. ASSUME NEW stale \in Tails, torn' = TRUE,
               ies' = Replaced(tim_bitmap', ies, Overlaid(tim_bitmap', ies, stale))
        PROVE  TimInv'
    <3>1. PICK o : o = Overlaid(tim_bitmap', ies, stale)
      OBVIOUS
    <3>2. o \in Seq(u8) /\ Len(o) = Len(Rest)
      BY <2>2, <2>4, <3>1, OverlaidIs
    <3>3. ies' = Written(tim_bitmap', o)
      BY <2>5, <2>7, <3>1
    <3>4. Behind(o)'
      BY <2>7, <3>2, <3>3 DEF Behind
    <3> QED BY <2>2, <2>7, <3>2, <3>4 DEF TimInv
  <2> QED BY <2>3, <2>6, <2>7 DEF update_BCNTIM
<1> QED BY <1>1, <1>2 DEF Next

LEMMA TimAlways ==
    ASSUME Ds # <<>>
    PROVE  Spec => []TimInv
<1>1. TimInv /\ [Next]_vars => TimInv'
  BY TimStep
<1> QED BY <1>1, TimInit, PTL DEF Spec

(* tim_bitmap stays within 16 bits, whatever bits are set and cleared, and *)
(* update_BCNTIM writes bytes.                                             *)
THEOREM TypesKept ==
    ASSUME Ds # <<>>
    PROVE  Spec => []TypeOK
<1>1. TimInv => TypeOK
  <2> SUFFICES ASSUME TimInv PROVE TypeOK
    OBVIOUS
  <2>1. ies \in Seq(u8)
    BY WrittenIs, GivenIs DEF TimInv, Behind
  <2> QED BY <2>1 DEF TypeOK, TimInv
<1>2. Spec => []TimInv
  BY TimAlways
<1> QED BY <1>1, <1>2, PTL

(* update_BCNTIM moves what is behind the element by as much as the        *)
(* element grows or shrinks: however often it does, and whichever of its   *)
(* allocations fail, the beacon has one TIM element behind the DS          *)
(* parameter set it was given with, and the length it should have; what    *)
(* is behind the element is what user space gave until one fails.          *)
THEOREM RestIsKept ==
    ASSUME Ds # <<>>
    PROVE  Spec => []RestKept
<1>1. TimInv => RestKept
  <2> SUFFICES ASSUME TimInv, NEW r \in Seq(u8), Behind(r) PROVE RestKept
    BY DEF TimInv, RestKept
  <2> DEFINE m == tim_bitmap
  <2>1. m \in u16 /\ ies = Written(m, r) /\ Len(r) = Len(Rest) /\ (~torn => r = Rest)
    BY DEF TimInv, Behind
  <2> HIDE DEF m
  <2>2. /\ At = Len(Hd) + 1 /\ Len(Hd) \in Nat /\ Len(Tim(m)) \in Nat
        /\ Len(ies) = Len(Hd) + Len(Tim(m)) + Len(r) /\ Len(r) \in Nat
    <3>1. Len(Hd) \in Nat /\ Len(Tim(m)) \in Nat /\ Len(r) \in Nat
      BY <2>1, HdIs, TimIs
    <3>2. /\ rtw_get_ie(Written(m, r), _TIM_IE_) = Len(Hd) + 1
          /\ Len(Written(m, r)) = Len(Hd) + Len(Tim(m)) + Len(r)
      BY <2>1, WrittenIs
    <3> QED BY <2>1, <3>1, <3>2 DEF At
  <2>3. At - 1 = Len(Hd) /\ At + Len(Tim(m)) = Len(Hd) + Len(Tim(m)) + 1
    BY <2>2
  <2>4. IeLen(ies, At) = Len(Tim(m))
    BY <2>1, <2>2, WrittenIs
  <2>5. At = HeadLen(Given) + 1
    BY <2>2, GivenParts
  <2>6. SubSeq(ies, 1, At - 1) = SubSeq(Given, 1, At - 1)
    <3>1. SubSeq(Written(m, r), 1, Len(Hd)) = Hd
      BY <2>1, WrittenParts
    <3> QED BY <2>1, <2>3, <3>1, GivenParts
  <2>7. ~torn => SubSeq(ies, At + IeLen(ies, At), Len(ies)) = SubSeq(Given, At, Len(Given))
    <3>1. SubSeq(Written(m, r), Len(Hd) + Len(Tim(m)) + 1, Len(Written(m, r))) = r
      BY <2>1, WrittenParts
    <3>2. SubSeq(ies, At + IeLen(ies, At), Len(ies)) = r
      BY <2>1, <2>3, <2>4, <3>1
    <3>3. SubSeq(Given, At, Len(Given)) = Rest
      BY <2>2, GivenParts
    <3> QED BY <2>1, <3>2, <3>3
  <2>8. Len(ies) = Len(Given) + IeLen(ies, At)
    <3>1. Len(Given) = Len(Hd) + Len(r)
      BY <2>1, GivenParts
    <3> QED BY <2>2, <2>4, <3>1
  <2> QED BY <2>5, <2>6, <2>7, <2>8 DEF RestKept
<1>2. Spec => []TimInv
  BY TimAlways
<1> QED BY <1>1, <1>2, PTL

-----------------------------------------------------------------------------
(* What a station reads.                                                   *)

LEMMA LowBit ==
    ASSUME NEW m \in u16, NEW a \in 0..7
    PROVE  Has(m % 256, a) <=> Has(m, a)
<1>1. BIT(a) \in LowBits
  BY BitValue
<1>2. ((m % 256) \div BIT(a)) % 2 = (m \div BIT(a)) % 2
  BY <1>1, LowByte
<1> QED BY <1>2 DEF Has

LEMMA HighBit ==
    ASSUME NEW m \in u16, NEW a \in 0..7
    PROVE  Has(m \div 256, a) <=> Has(m, a + 8)
<1>1. BIT(a) \in LowBits /\ BIT(a + 8) = 256 * BIT(a)
  BY BitValue
<1>2. ((m \div 256) \div BIT(a)) % 2 = (m \div (256 * BIT(a))) % 2
  BY <1>1, HighByte
<1> QED BY <1>1, <1>2 DEF Has

(* No bit of zero is set.                                                  *)
LEMMA ZeroBits ==
    ASSUME NEW a \in 0..7
    PROVE  ~Has(0, a)
<1> DEFINE k == BIT(a)
<1>1. k \in Nat \ {0}
  BY BitValue, BitTypes
<1>2. Has(0, a) <=> (0 \div k) % 2 = 1
  BY DEF Has
<1> HIDE DEF k
<1>3. 0 \div k = 0
  BY <1>1, DivModIs
<1> QED BY <1>2, <1>3

(* Bit a of the octets is bit a of the mask.                               *)
Read(octets, a) ==
    a \in 0..(8 * Len(octets) - 1) /\ Has(octets[(a \div 8) + 1], a % 8)

LEMMA OctetBit ==
    ASSUME NEW m \in u16, High(m) # 0 => Low(m) # 0, NEW a \in 1..31
    PROVE  Read(Pvb(m), a) <=> a \in 0..15 /\ Has(m, a)
<1> DEFINE q == m \div 256
           l == m % 256
<1>1. Pvb(m) = <<l, q>> \/ (Pvb(m) = <<l>> /\ High(m) = 0)
  BY DEF Pvb, TimLen
<1>2. \A b \in 0..7 : (Has(l, b) <=> Has(m, b)) /\ (Has(q, b) <=> Has(m, b + 8))
  BY LowBit, HighBit
<1>3. High(m) = 0 => q = 0
  BY Halves
<1> HIDE DEF q, l
<1>4. CASE a \in 1..7
  <2>1. a \div 8 = 0 /\ a % 8 = a
    BY <1>4
  <2>2. Len(Pvb(m)) \in {1, 2} /\ Pvb(m)[1] = l
    BY <1>1
  <2>3. a \in 0..(8 * Len(Pvb(m)) - 1) /\ (a \div 8) + 1 = 1
    BY <1>4, <2>1, <2>2
  <2>4. Read(Pvb(m), a) <=> Has(l, a)
    BY <2>1, <2>2, <2>3 DEF Read
  <2> QED BY <1>2, <1>4, <2>4
<1>5. CASE a \in 8..15
  <2>1. a \div 8 = 1 /\ a % 8 = a - 8 /\ a - 8 \in 0..7 /\ (a - 8) + 8 = a
    BY <1>5
  <2>2. Has(q, a - 8) <=> Has(m, a)
    BY <1>2, <2>1
  <2>3. CASE Pvb(m) = <<l, q>>
    <3>1. Len(Pvb(m)) = 2 /\ Pvb(m)[2] = q
      BY <2>3
    <3>2. a \in 0..(8 * Len(Pvb(m)) - 1) /\ (a \div 8) + 1 = 2
      BY <1>5, <2>1, <3>1
    <3>3. Read(Pvb(m), a) <=> Has(q, a - 8)
      BY <2>1, <3>1, <3>2 DEF Read
    <3> QED BY <1>5, <2>2, <3>3
  <2>4. CASE Pvb(m) = <<l>> /\ High(m) = 0
    <3>1. Len(Pvb(m)) = 1
      BY <2>4
    <3>2. ~(a \in 0..(8 * Len(Pvb(m)) - 1))
      BY <1>5, <3>1
    <3>3. ~Has(m, a)
      BY <1>3, <2>1, <2>2, <2>4, ZeroBits
    <3> QED BY <3>2, <3>3 DEF Read
  <2> QED BY <1>1, <2>3, <2>4
<1>6. CASE a \in 16..31
  <2>1. Len(Pvb(m)) \in {1, 2}
    BY <1>1
  <2> DEFINE k == Len(Pvb(m))
             n == 8 * k - 1
  <2> HIDE DEF k
  <2>2. n \in Int /\ n <= 15
    <3>1. k = 1 \/ k = 2
      BY <2>1 DEF k
    <3> QED BY <3>1
  <2>3. a \in Int /\ a > 15
    BY <1>6
  <2> HIDE DEF n
  <2>4. ~(a \in 0..n) /\ ~(a \in 0..15)
    BY <2>2, <2>3
  <2> QED BY <2>4 DEF Read, n, k
<1> QED BY <1>4, <1>5, <1>6

(* The bytes of the element where a station looks for them.                *)
LEMMA ReadIs ==
    ASSUME Ds # <<>>, NEW m \in u16, NEW r \in Seq(u8), ies = Written(m, r)
    PROVE  /\ Octets = Pvb(m)
           /\ Offset = 0
           /\ Has(ies[At + 4], 0) <=> Has(m, 0)
<1> DEFINE h == Len(Hd)
           t == Tim(m)
           p == Pvb(m)
<1>1. /\ h \in Nat /\ Len(t) = TimLen(m) + 2 /\ TimLen(m) \in {4, 5}
      /\ t[2] = TimLen(m) /\ t[5] = IF Has(m, 0) THEN 1 ELSE 0
      /\ p \in Seq(u8) /\ Len(p) = TimLen(m) - 3
      /\ \A i \in 1..Len(p) : t[5 + i] = p[i]
  BY HdIs, TimIs, PvbIs
<1>2. At = h + 1 /\ \A i \in 1..Len(t) : ies[h + i] = t[i]
  BY WrittenIs DEF At
<1>3. ies \in Seq(u8) /\ Len(ies) = h + Len(t) + Len(r) /\ Len(r) \in Nat
  BY WrittenIs
<1> HIDE DEF h, t, p
<1>4. At + 1 = h + 2 /\ At + 4 = h + 5 /\ At + 5 = h + 6
  BY <1>1, <1>2
<1>5. ies[At + 1] = TimLen(m) /\ ies[At + 4] = IF Has(m, 0) THEN 1 ELSE 0
  BY <1>1, <1>2, <1>4
<1>6. Offset = 0
  BY <1>5 DEF Offset
<1>7. Has(ies[At + 4], 0) <=> Has(m, 0)
  <2>1. BIT(0) = 1
    BY BitValues
  <2>2. Has(1, 0) /\ ~Has(0, 0)
    BY <2>1 DEF Has
  <2> QED BY <1>5, <2>2
<1>8. Octets = p
  <2> DEFINE n == h + Len(t)
             s == SubSeq(ies, h + 6, n)
  <2>1. At + ies[At + 1] + 1 = n
    BY <1>1, <1>2, <1>5
  <2>2. Octets = s
    BY <1>4, <2>1 DEF Octets
  <2>3. n \in Nat /\ n = h + 5 + Len(p) /\ n <= Len(ies) /\ Len(p) \in {1, 2}
    <3>1. Len(p) \in {1, 2}
      BY <1>1
    <3>2. Len(t) = 5 + Len(p) /\ h \in Nat
      BY <1>1
    <3> QED BY <1>3, <3>1, <3>2
  <2> HIDE DEF n
  <2>4. \A i \in (h + 6)..n : ies[i] \in u8
    BY <1>1, <1>3, <2>3
  <2>5. h + 6 \in Int /\ n \in Int
    BY <1>1, <2>3
  <2>6. /\ s \in Seq(u8)
        /\ Len(s) = IF h + 6 <= n THEN n - (h + 6) + 1 ELSE 0
        /\ \A i \in 1..(n - (h + 6) + 1) : s[i] = ies[(h + 6) + i - 1]
    BY <2>4, <2>5, SubSeqProperties
  <2> HIDE DEF s
  <2>7. n - (h + 6) + 1 = Len(p) /\ h + 6 <= n
    BY <1>1, <2>3
  <2>8. ASSUME NEW i \in 1..Len(p) PROVE s[i] = p[i]
    <3>1. (h + 6) + i - 1 = h + (5 + i) /\ 5 + i \in 1..Len(t)
      BY <1>1
    <3>2. s[i] = ies[(h + 6) + i - 1]
      BY <2>6, <2>7
    <3>3. ies[h + (5 + i)] = t[5 + i]
      BY <1>2, <3>1
    <3> QED BY <1>1, <3>1, <3>2, <3>3
  <2>9. Len(s) = Len(p)
    BY <2>6, <2>7
  <2>10. s = p
    BY <1>1, <2>6, <2>8, <2>9, SeqEqual
  <2> QED BY <2>2, <2>10
<1> QED BY <1>6, <1>7, <1>8 DEF p

(* A station that reads the beacon finds in it the bits of tim_bitmap, for *)
(* every value of the bitmap in which an id of 8 or more does not stand    *)
(* without a lower one: update_BCNTIM leaves out the bytes it may leave    *)
(* out.                                                                    *)
THEOREM LowAidsRead ==
    ASSUME Ds # <<>>
    PROVE  Spec => []LowAidsShown
<1>1. TimInv => LowAidsShown
  <2> SUFFICES ASSUME TimInv, At # 0, High(tim_bitmap) # 0 => Low(tim_bitmap) # 0
               PROVE  Announced = Wanted
    BY DEF LowAidsShown
  <2> DEFINE m == tim_bitmap
             ctl == ies[At + 4]
  <2>1. m \in u16 /\ \E r \in Seq(u8) : ies = Written(m, r)
    <3>1. ies # Given
      BY BodyAssumption DEF At
    <3> QED BY <3>1 DEF TimInv, Behind
  <2>2. Octets = Pvb(m) /\ Offset = 0 /\ (Has(ctl, 0) <=> Has(m, 0))
    BY <2>1, ReadIs
  <2>3. \A a \in 1..31 : a - Offset = a
    BY <2>2
  <2>4. \A a \in 1..31 : Read(Pvb(m), a) <=> a \in 0..15 /\ Has(m, a)
    BY <2>1, OctetBit
  <2>5. Announced = {a \in 1..31 : Read(Octets, a - Offset)}
                      \cup (IF Has(ctl, 0) THEN {0} ELSE {})
    BY DEF Announced, Read
  <2>6. Wanted = {a \in 0..15 : Has(m, a)}
    BY DEF Wanted
  <2> HIDE DEF m, ctl
  <2>7. ASSUME NEW a PROVE a \in Announced <=> a \in Wanted
    <3>1. CASE a \in 1..31
      <4>1. a \in Announced <=> Read(Pvb(m), a)
        <5>1. a # 0
          BY <3>1
        <5> QED BY <2>2, <2>3, <2>5, <3>1, <5>1
      <4> QED BY <2>4, <2>6, <3>1, <4>1
    <3>2. CASE a = 0
      <4>1. a \notin 1..31 /\ a \in 0..15
        BY <3>2
      <4>2. a \in Announced <=> Has(ctl, 0)
        BY <2>5, <3>2, <4>1
      <4>3. a \in Wanted <=> Has(m, 0)
        BY <2>6, <3>2, <4>1
      <4> QED BY <2>2, <4>2, <4>3
    <3>3. CASE a \notin 1..31 /\ a # 0
      <4>1. a \notin 0..15
        BY <3>3
      <4>2. a \notin Announced
        BY <2>5, <3>3
      <4>3. a \notin Wanted
        BY <2>6, <4>1
      <4> QED BY <4>2, <4>3
    <3> QED BY <3>1, <3>2, <3>3
  <2> QED BY <2>7
<1>2. Spec => []TimInv
  BY TimAlways
<1> QED BY <1>1, <1>2, PTL
=============================================================================
