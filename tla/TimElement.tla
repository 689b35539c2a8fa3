----------------------------- MODULE TimElement -----------------------------
(***************************************************************************)
(* update_BCNTIM (core/rtw_ap.c): the TIM element of the beacon is written *)
(* in place, between the other elements, from tim_bitmap, a 16 bit mask.   *)
(* The element is 6 or 7 bytes long, so what follows it moves: it is saved *)
(* in memory the kernel may refuse, and then it is not put back.           *)
(*                                                                         *)
(* A byte is a number; the elements other than the TIM element are those   *)
(* user space gave when it started the access point, after the 12 bytes of *)
(* fixed fields.                                                           *)
(***************************************************************************)
EXTENDS Integers, Sequences, FiniteSets

CONSTANTS Aids,      \* association ids in use; 0 stands for group frames
          Ssid,      \* the body of the SSID element
          Rates,     \* the body of the supported rates element
          Ds,        \* the DS parameter set, empty where user space gives none
          Rest,      \* the elements behind it
          Stale      \* bytes that may lie behind the elements in their array

ASSUME AidAssumption == Aids \subseteq 0..31

VARIABLES tim_bitmap,    \* pstapriv->tim_bitmap
          ies,           \* pnetwork_mlmeext->IEs, IELength bytes of them
          torn           \* ghost: an update could not save what is behind

vars == <<tim_bitmap, ies, torn>>

U8Max == 2 ^ 8 - 1
U16Max == 2 ^ 16 - 1
u8 == 0..U8Max
u16 == 0..U16Max

_SSID_IE_ == 0
_SUPPORTEDRATES_IE_ == 1
_DSSET_IE_ == 3
_TIM_IE_ == 5

Element(id, body) == <<id, Len(body)>> \o body
Given == Element(_SSID_IE_, Ssid) \o Element(_SUPPORTEDRATES_IE_, Rates)
           \o Ds \o Rest

Init ==
    /\ tim_bitmap = 0
    /\ ies = Given
    /\ torn = FALSE

-----------------------------------------------------------------------------
BIT(n) == 2 ^ n
Has(mask, n) == (mask \div BIT(n)) % 2 = 1
Low(mask)  == (mask % 256) - (mask % 2)      \* mask & 0x00fe
High(mask) == mask - (mask % 256)            \* mask & 0xff00

(* rtw_get_ie: where element id starts in buf, 0 when it is not there.     *)
rtw_get_ie(buf, id) ==
    LET find[i \in 1..(Len(buf) + 300)] ==
          IF i >= Len(buf) THEN 0
          ELSE IF buf[i] = id THEN i
          ELSE find[i + buf[i + 1] + 2]
    IN  find[1]

(* Bodies of elements fit their length bytes, and user space leaves the    *)
(* TIM element to the driver.  The DS parameter set names a channel; where *)
(* it is left out (a beacon at 5 GHz need not have it) something of its    *)
(* length follows.                                                         *)
ASSUME BodyAssumption ==
    /\ Ssid \in Seq(u8) /\ Len(Ssid) \in u8
    /\ Rates \in Seq(u8) /\ Len(Rates) \in u8
    /\ Ds = <<>> \/ \E channel \in u8 : Ds = Element(_DSSET_IE_, <<channel>>)
    /\ Rest \in Seq(u8) /\ (Ds = <<>> => Len(Rest) >= 3)
    /\ Stale \subseteq u8
    /\ rtw_get_ie(Given, _TIM_IE_) = 0

(* The length of the element at p with its two byte header.                *)
IeLen(buf, p) == IF p = 0 THEN 0 ELSE buf[p + 1] + 2

(* Where the element is put when there is none yet: behind the SSID, the   *)
(* rates and three bytes of DS parameter set.                              *)
HeadLen(buf) ==
    IeLen(buf, rtw_get_ie(buf, _SSID_IE_))
      + IeLen(buf, rtw_get_ie(buf, _SUPPORTEDRATES_IE_)) + 3

TimLen(mask) == IF High(mask) # 0 /\ Low(mask) # 0 THEN 5 ELSE 4

(* The partial virtual bitmap: one byte, or both in little endian order.   *)
Pvb_Word(mask) == <<mask>>              \* mutant: not cut to a byte
Pvb_Low(mask) ==                        \* mutant: the second byte is forgotten
    IF TimLen(mask) = 5 THEN <<mask % 256, 0>> ELSE <<mask % 256>>
Pvb(mask) ==
    IF TimLen(mask) = 5 THEN <<mask % 256, mask \div 256>>
    ELSE IF Low(mask) # 0 THEN <<mask % 256>>
    ELSE IF High(mask) # 0 THEN <<mask \div 256>>
    ELSE <<mask % 256>>

Tim(mask) ==
    <<_TIM_IE_, TimLen(mask), 0, 1, IF Has(mask, 0) THEN BIT(0) ELSE 0>> \o Pvb(mask)

(* The element that is replaced, if there is one, how many bytes stand in  *)
(* front of it, and the bytes behind it.                                   *)
TimAt(buf) ==
    LET p == rtw_get_ie(buf, _TIM_IE_) IN IF p # 0 /\ buf[p + 1] > 0 THEN p ELSE 0
Before(buf) == IF TimAt(buf) # 0 THEN TimAt(buf) - 1 ELSE HeadLen(buf)

Remainder_Old(buf) ==                   \* mutant: the old element is not skipped
    SubSeq(buf, Before(buf) + 1, Len(buf))
Remainder(buf) == SubSeq(buf, Before(buf) + IeLen(buf, TimAt(buf)) + 1, Len(buf))

(* What stands behind the new element when the remainder was not saved: as *)
(* many bytes of the array, from where the element now ends.               *)
Overlaid(mask, buf, stale) ==
    LET end == Before(buf) + Len(Tim(mask))
    IN  SubSeq(buf \o stale, end + 1, end + Len(Remainder(buf)))

Replaced(mask, buf, behind) == SubSeq(buf, 1, Before(buf)) \o Tim(mask) \o behind

(* The element grows by at most the seven bytes it is long.                *)
Tails == [1..7 -> Stale]

update_BCNTIM(mask) ==
    \/ /\ ies' = Replaced(mask, ies, Remainder(ies))
       /\ UNCHANGED torn
    \/ /\ Len(Remainder(ies)) > 0       \* rtw_malloc fails
       /\ \E stale \in Tails : ies' = Replaced(mask, ies, Overlaid(mask, ies, stale))
       /\ torn' = TRUE

(* tim_bitmap |= BIT(aid) and tim_bitmap &= ~BIT(aid), in 16 bits, each    *)
(* followed by the beacon update.                                          *)
SetBit(aid) ==
    /\ tim_bitmap' = IF aid < 16 /\ ~Has(tim_bitmap, aid)
                       THEN tim_bitmap + BIT(aid) ELSE tim_bitmap
    /\ update_BCNTIM(tim_bitmap')

ClearBit(aid) ==
    /\ tim_bitmap' = IF aid < 16 /\ Has(tim_bitmap, aid)
                       THEN tim_bitmap - BIT(aid) ELSE tim_bitmap
    /\ update_BCNTIM(tim_bitmap')

Next == \E aid \in Aids : SetBit(aid) \/ ClearBit(aid)

Spec == Init /\ [][Next]_vars

-----------------------------------------------------------------------------
(* What a station reads in the beacon (IEEE 802.11): bit 0 of the bitmap   *)
(* control announces group frames, the other bits say by how many pairs of *)
(* bytes the partial virtual bitmap is shifted.                            *)
At == rtw_get_ie(ies, _TIM_IE_)
Octets == SubSeq(ies, At + 5, At + ies[At + 1] + 1)
Offset == (ies[At + 4] \div 2) * 16
Announced ==
    {a \in 1..31 : LET n == a - Offset
                   IN  n \in 0..(8 * Len(Octets) - 1) /\ Has(Octets[(n \div 8) + 1], n % 8)}
      \cup (IF Has(ies[At + 4], 0) THEN {0} ELSE {})

Wanted == {a \in 0..15 : Has(tim_bitmap, a)}

TypeOK ==
    /\ tim_bitmap \in u16
    /\ \A i \in 1..Len(ies) : ies[i] \in u8
    /\ torn \in BOOLEAN

(* However often the element grows and shrinks, there is one TIM element,  *)
(* behind the DS parameter set, what is in front of it is what user space  *)
(* gave, and what is behind it has the length of what user space gave; it  *)
(* is what user space gave, nothing of it lost, repeated or moved into     *)
(* another element, as long as it could be saved at every update.          *)
RestKept ==
    \/ ies = Given
    \/ /\ At = HeadLen(Given) + 1
       /\ SubSeq(ies, 1, At - 1) = SubSeq(Given, 1, At - 1)
       /\ Len(ies) = Len(Given) + IeLen(ies, At)
       /\ ~torn => SubSeq(ies, At + IeLen(ies, At), Len(ies)) = SubSeq(Given, At, Len(Given))

(* A station reads in the element exactly the bits of tim_bitmap, unless   *)
(* all of the stations named have ids of 8 and more.                       *)
LowAidsShown ==
    (At # 0 /\ (High(tim_bitmap) # 0 => Low(tim_bitmap) # 0)) => Announced = Wanted

(* "aid=0~15 mapping bit0~bit15": the element names the association ids    *)
(* whose bits are set.                                                     *)
BitsAreAids == At # 0 => Announced = Wanted
=============================================================================
