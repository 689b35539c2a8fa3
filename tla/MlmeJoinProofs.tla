--------------------------- MODULE MlmeJoinProofs ---------------------------
(***************************************************************************)
(* Proofs about MlmeJoin for every number of roaming attempts, retries,    *)
(* channels and events: the types, the guard of a join by its timer, the   *)
(* chain that ends a scan, the roaming budget, and that no connection is   *)
(* abandoned in silence.                                                   *)
(*                                                                         *)
(* The locked sections are operators on struct mlme_priv and most are      *)
(* compositions of others, so each is given one lemma: what it yields,     *)
(* related to what it was given by Grows or Keeps, both transitive.        *)
(***************************************************************************)
EXTENDS MlmeJoin, TLAPS

\* scan_to_timer runs, or another scan is known to have cancelled it.
Timing(s) == s.scan_to_timer \/ s.orphaned

Bounded(s) == s.to_roam <= MaxRoam \/ s.raced

\* From s to t: a scan that is carried on stays so; the survey flag is that of s,
\* with what is known of it, or comes with its command and its timer; to_roam
\* does not leave its budget and no write to it begins.
Follows(s, t) ==
    /\ t \in Mlme
    /\ Carried(s) => Carried(t)
    /\ "UNDER_SURVEY" \in t.fw =>
         \/ /\ "UNDER_SURVEY" \in s.fw
            /\ s.broken => t.broken \/ Carried(t)
            /\ Timing(s) => Timing(t)
         \/ Carried(t) /\ Timing(t)
    /\ t.zeroing => s.zeroing
    /\ Bounded(s) => Bounded(t)

\* ... and commands are only added.
Grows(s, t) ==
    /\ t \in Mlme
    /\ Follows(s, t)
    /\ s.cmds # <<>> => t.cmds # <<>> /\ Head(t.cmds) = Head(s.cmds)

\* ... and neither the flag of a join nor its timer is touched, unless the
\* flag is cleared.
Keeps(s, t) ==
    /\ Grows(s, t)
    /\ "UNDER_LINKING" \in t.fw => "UNDER_LINKING" \in s.fw
    /\ t.assoc_timer = s.assoc_timer

\* A state in which a join has its timer.
Timed(s) == "UNDER_LINKING" \in s.fw => s.assoc_timer

\* What Keeps is about, but the flags.
Alike(s, t) ==
    /\ t.cmds = s.cmds /\ t.assoc_timer = s.assoc_timer
    /\ t.scan_to_timer = s.scan_to_timer /\ t.broken = s.broken
    /\ t.orphaned = s.orphaned /\ t.zeroing = s.zeroing
    /\ t.to_roam = s.to_roam /\ t.raced = s.raced

-----------------------------------------------------------------------------
LEMMA FollowsTrans ==
    ASSUME NEW s, NEW t, NEW u, Follows(s, t), Follows(t, u)
    PROVE  Follows(s, u)
BY DEF Follows

LEMMA GrowsTrans ==
    ASSUME NEW s, NEW t, NEW u, Grows(s, t), Grows(t, u)
    PROVE  Grows(s, u)
BY FollowsTrans DEF Grows

LEMMA KeepsTrans ==
    ASSUME NEW s, NEW t, NEW u, Keeps(s, t), Keeps(t, u)
    PROVE  Keeps(s, u)
<1>1. Grows(s, u)
  BY GrowsTrans DEF Keeps
<1> QED
  BY <1>1 DEF Keeps

LEMMA KeepsTimed ==
    ASSUME NEW s, NEW t, Keeps(s, t), Timed(s)
    PROVE  Timed(t)
BY DEF Keeps, Timed

\* A section that leaves the commands alone and sets no flag.
LEMMA Altered ==
    ASSUME NEW s \in Mlme, NEW t \in Mlme,
           t.cmds = s.cmds, t.fw \subseteq s.fw, t.assoc_timer = s.assoc_timer,
           "UNDER_SURVEY" \in t.fw => (s.broken => t.broken),
           "UNDER_SURVEY" \in t.fw => (Timing(s) => Timing(t)),
           t.zeroing => s.zeroing,
           Bounded(s) => Bounded(t)
    PROVE  Keeps(s, t)
<1>1. Carried(t) <=> Carried(s)
  BY DEF Carried
<1>2. Follows(s, t)
  BY <1>1 DEF Follows
<1> QED
  BY <1>2 DEF Keeps, Grows

LEMMA SameCommands ==
    ASSUME NEW s \in Mlme, NEW t \in Mlme, t.fw \subseteq s.fw, Alike(s, t)
    PROVE  Keeps(s, t)
<1>1. (Timing(s) => Timing(t)) /\ (Bounded(s) => Bounded(t))
  BY DEF Alike, Timing, Bounded
<1> QED
  BY <1>1, Altered DEF Alike

LEMMA KeepsSelf ==
    ASSUME NEW s \in Mlme
    PROVE  Keeps(s, s) /\ Grows(s, s)
BY SameCommands DEF Alike, Keeps

LEMMA EnqueueKeeps ==
    ASSUME NEW s \in Mlme, NEW c \in Commands
    PROVE  /\ Keeps(s, rtw_enqueue_cmd(s, c))
           /\ c \in {"sitesurvey", "surveydone"} => Carried(rtw_enqueue_cmd(s, c))
           /\ rtw_enqueue_cmd(s, c).fw = s.fw
<1> DEFINE t == rtw_enqueue_cmd(s, c)
<1>1. s.cmds \in Seq(Commands)
  BY DEF Mlme
<1>2. /\ t.cmds = Append(s.cmds, c) /\ t.fw = s.fw
      /\ t.assoc_timer = s.assoc_timer
      /\ t.scan_to_timer = s.scan_to_timer /\ t.broken = s.broken
      /\ t.orphaned = s.orphaned /\ t.zeroing = s.zeroing
      /\ t.to_roam = s.to_roam /\ t.raced = s.raced
  BY DEF Mlme, rtw_enqueue_cmd
<1>3. t \in Mlme
  <2> DEFINE q == Append(s.cmds, c)
  <2>1. q \in Seq(Commands)
    BY <1>1
  <2> HIDE DEF q
  <2>2. t = [s EXCEPT !.cmds = q]
    BY DEF q, rtw_enqueue_cmd
  <2> QED
    BY <2>1, <2>2 DEF Mlme
<1>4. s.cmds # <<>> => t.cmds # <<>> /\ Head(t.cmds) = Head(s.cmds)
  BY <1>1, <1>2
<1>5. Carried(s) => Carried(t)
  BY <1>1, <1>2 DEF Carried
<1>6. c \in {"sitesurvey", "surveydone"} => Carried(t)
  <2>1. Len(t.cmds) \in 1 .. Len(t.cmds) /\ t.cmds[Len(t.cmds)] = c
    BY <1>1, <1>2
  <2> QED
    BY <2>1 DEF Carried, Carries
<1> HIDE DEF t
<1>7. (Timing(s) => Timing(t)) /\ (Bounded(s) => Bounded(t))
  BY <1>2 DEF Timing, Bounded
<1>8. Follows(s, t)
  BY <1>2, <1>3, <1>5, <1>7 DEF Follows
<1>9. Keeps(s, t)
  BY <1>2, <1>3, <1>4, <1>8 DEF Keeps, Grows
<1> QED
  BY <1>2, <1>6, <1>9 DEF t

\* A post that is lost is remembered, unless another command carries the scan on.
LEMMA PostLostKeeps ==
    ASSUME NEW s \in Mlme
    PROVE  /\ Keeps(s, PostLost(s))
           /\ PostLost(s).broken \/ Carried(PostLost(s))
<1> DEFINE b == s.broken \/ ~Carried(s)
           t == [s EXCEPT !.broken = b]
<1>1. b \in BOOLEAN
  OBVIOUS
<1>2. PostLost(s) = t
  BY DEF PostLost
<1>3. (s.broken => b) /\ (b \/ Carried(s))
  OBVIOUS
<1> HIDE DEF b
<1>4. /\ t \in Mlme /\ t.cmds = s.cmds /\ t.fw = s.fw /\ t.broken = b
      /\ t.assoc_timer = s.assoc_timer /\ t.scan_to_timer = s.scan_to_timer
      /\ t.orphaned = s.orphaned /\ t.zeroing = s.zeroing
      /\ t.to_roam = s.to_roam /\ t.raced = s.raced
  BY <1>1 DEF Mlme
<1> HIDE DEF t
<1>5. /\ Timing(s) => Timing(t)
      /\ Bounded(s) => Bounded(t)
      /\ Carried(s) => Carried(t)
  BY <1>4 DEF Timing, Bounded, Carried
<1>6. Keeps(s, t)
  BY <1>3, <1>4, <1>5, Altered
<1> QED
  BY <1>2, <1>3, <1>4, <1>5, <1>6

LEMMA FlagTypes ==
    ASSUME NEW s \in Mlme, NEW flag \in FwState
    PROVE  /\ Set(s, flag) \in Mlme /\ Clr(s, flag) \in Mlme
           /\ Set(s, flag).fw = s.fw \cup {flag} /\ Clr(s, flag).fw = s.fw \ {flag}
           /\ Alike(s, Set(s, flag)) /\ Alike(s, Clr(s, flag))
BY DEF Mlme, Set, Clr, Alike

LEMMA ClrKeeps ==
    ASSUME NEW s \in Mlme, NEW flag \in FwState
    PROVE  Keeps(s, Clr(s, flag))
BY FlagTypes, SameCommands

LEMMA SetLinkingGrows ==
    ASSUME NEW s \in Mlme
    PROVE  Grows(s, Set(s, "UNDER_LINKING"))
<1> DEFINE t == Set(s, "UNDER_LINKING")
<1>1. t \in Mlme /\ Alike(s, t) /\ t.fw = s.fw \cup {"UNDER_LINKING"}
  BY FlagTypes DEF FwState
<1> HIDE DEF t
<1>2. /\ Carried(t) <=> Carried(s)
      /\ Timing(s) => Timing(t)
      /\ Bounded(s) => Bounded(t)
  BY <1>1 DEF Alike, Carried, Timing, Bounded
<1>3. Grows(s, t)
  BY <1>1, <1>2 DEF Grows, Follows, Alike
<1> QED
  BY <1>3 DEF t

-----------------------------------------------------------------------------
(* The locked sections, from the small ones to those made of them.         *)

LEMMA RoamRange ==
    /\ 0 \in 0 .. RoamSize - 1 /\ MaxRoam \in 0 .. RoamSize - 1
    /\ RoamSize - 1 \in 0 .. RoamSize - 1
    /\ 0 <= MaxRoam /\ MaxRoam <= MaxRoam
BY MaxRoamAssumption

\* to_roam may take any value of its budget, or any up to the one it has.
LEMMA ToRoamKeeps ==
    ASSUME NEW s \in Mlme, NEW n \in 0 .. RoamSize - 1, n <= MaxRoam \/ n <= s.to_roam
    PROVE  /\ n <= MaxRoam => Keeps(s, rtw_set_to_roam(s, n))
           /\ rtw_set_to_roam(s, n).cmds = s.cmds
           /\ rtw_set_to_roam(s, n).fw = s.fw
           /\ rtw_set_to_roam(s, n).to_roam = n
           /\ rtw_set_to_roam(s, n) \in Mlme
           /\ Keeps(s, [s EXCEPT !.to_roam = n])
           /\ [s EXCEPT !.to_roam = n].to_roam = n
<1> USE MaxRoamAssumption
<1> DEFINE r == rtw_set_to_roam(s, n)
           t == [s EXCEPT !.to_roam = n]
<1>1. /\ r \in Mlme /\ r.cmds = s.cmds /\ r.fw = s.fw /\ r.assoc_timer = s.assoc_timer
      /\ r.scan_to_timer = s.scan_to_timer /\ r.broken = s.broken
      /\ r.orphaned = s.orphaned /\ r.zeroing = s.zeroing /\ r.to_roam = n
  BY DEF rtw_set_to_roam, Mlme
<1>2. /\ t \in Mlme /\ t.cmds = s.cmds /\ t.fw = s.fw /\ t.assoc_timer = s.assoc_timer
      /\ t.scan_to_timer = s.scan_to_timer /\ t.broken = s.broken
      /\ t.orphaned = s.orphaned /\ t.zeroing = s.zeroing /\ t.to_roam = n
      /\ t.raced = s.raced
  BY DEF Mlme
<1>3. s.to_roam \in 0 .. RoamSize - 1
  BY DEF Mlme
<1> HIDE DEF r, t
<1>4. (Timing(s) => Timing(r)) /\ (Timing(s) => Timing(t))
  BY <1>1, <1>2 DEF Timing
<1>5. n <= MaxRoam => Bounded(r)
  BY <1>1 DEF Bounded
<1>6. Bounded(s) => Bounded(t)
  BY <1>2, <1>3 DEF Bounded
<1>7. n <= MaxRoam => Keeps(s, r)
  BY <1>1, <1>4, <1>5, Altered
<1>8. Keeps(s, t)
  BY <1>2, <1>4, <1>6, Altered
<1> QED
  BY <1>1, <1>2, <1>7, <1>8 DEF r, t

\* The write of 0 to to_roam, wherever it becomes visible.
LEMMA ZeroedKeeps ==
    ASSUME NEW s \in Mlme, NEW t \in Zeroed(s)
    PROVE  /\ Keeps(s, t) /\ t.to_join = s.to_join /\ t.sme = s.sme
           /\ t = s \/ (s.zeroing /\ ~t.zeroing /\ t.to_roam = 0)
<1> DEFINE z == [s EXCEPT !.to_roam = 0, !.zeroing = FALSE, !.raced = FALSE]
<1>1. t = s \/ (s.zeroing /\ t = z)
  BY DEF Zeroed, Mlme
<1>2. /\ z \in Mlme /\ z.cmds = s.cmds /\ z.fw = s.fw /\ z.assoc_timer = s.assoc_timer
      /\ z.scan_to_timer = s.scan_to_timer /\ z.broken = s.broken
      /\ z.orphaned = s.orphaned /\ ~z.zeroing /\ z.to_roam = 0
      /\ z.to_join = s.to_join /\ z.sme = s.sme
  BY RoamRange DEF Mlme
<1> HIDE DEF z
<1>3. (Timing(s) => Timing(z)) /\ Bounded(z)
  BY <1>2, RoamRange DEF Timing, Bounded
<1>4. Keeps(s, z)
  BY <1>2, <1>3, Altered
<1> QED
  BY <1>1, <1>2, <1>4, KeepsSelf

\* A decrement that follows a test: it counts down, or meets the write of 0.
LEMMA DecKeeps ==
    ASSUME NEW s \in Mlme, s.to_roam > 0, NEW t \in rtw_dec_to_roam(s)
    PROVE  Keeps(s, t)
<1> USE MaxRoamAssumption
<1> DEFINE n == s.to_roam - 1
           d == [s EXCEPT !.to_roam = n]
           w == [d EXCEPT !.zeroing = FALSE]
           x == [d EXCEPT !.zeroing = FALSE, !.raced = TRUE, !.to_roam = RoamSize - 1]
<1>1. /\ s.to_roam \in 0 .. RoamSize - 1
      /\ n \in 0 .. RoamSize - 1 /\ n <= s.to_roam
      /\ ~(s.to_roam = 0)
  BY DEF Mlme
<1>2. t \in {d, w, x}
  <2> DEFINE dec == [s EXCEPT !.to_roam = IF @ = 0 THEN RoamSize - 1 ELSE @ - 1]
  <2>1. dec = d
    BY <1>1
  <2>2. t \in {dec, [dec EXCEPT !.zeroing = FALSE],
               [dec EXCEPT !.zeroing = FALSE, !.raced = TRUE, !.to_roam = RoamSize - 1]}
    BY DEF rtw_dec_to_roam
  <2> HIDE DEF dec, n
  <2> QED
    BY <2>1, <2>2
<1> HIDE DEF n
<1>3. Keeps(s, d) /\ d \in Mlme
  BY <1>1, ToRoamKeeps DEF Keeps, Grows
<1> HIDE DEF d
<1>4. /\ w \in Mlme /\ w.cmds = d.cmds /\ w.fw = d.fw /\ w.assoc_timer = d.assoc_timer
      /\ w.scan_to_timer = d.scan_to_timer /\ w.broken = d.broken
      /\ w.orphaned = d.orphaned /\ ~w.zeroing /\ w.to_roam = d.to_roam
      /\ w.raced = d.raced
  BY <1>3 DEF Mlme
<1>5. /\ x \in Mlme /\ x.cmds = d.cmds /\ x.fw = d.fw /\ x.assoc_timer = d.assoc_timer
      /\ x.scan_to_timer = d.scan_to_timer /\ x.broken = d.broken
      /\ x.orphaned = d.orphaned /\ ~x.zeroing /\ x.raced
  BY <1>3, RoamRange DEF Mlme
<1> HIDE DEF w, x
<1>6. Keeps(d, w)
  <2>1. (Timing(d) => Timing(w)) /\ (Bounded(d) => Bounded(w))
    BY <1>4 DEF Timing, Bounded
  <2> QED
    BY <1>3, <1>4, <2>1, Altered
<1>7. Keeps(d, x)
  <2>1. (Timing(d) => Timing(x)) /\ Bounded(x)
    BY <1>5 DEF Timing, Bounded
  <2> QED
    BY <1>3, <1>5, <2>1, Altered
<1> QED
  BY <1>2, <1>3, <1>6, <1>7, KeepsTrans

LEMMA ToJoinKeeps ==
    ASSUME NEW s \in Mlme, NEW b \in BOOLEAN
    PROVE  Keeps(s, [s EXCEPT !.to_join = b])
<1>1. /\ [s EXCEPT !.to_join = b] \in Mlme
      /\ [s EXCEPT !.to_join = b].fw = s.fw
      /\ Alike(s, [s EXCEPT !.to_join = b])
  BY DEF Mlme, Alike
<1> QED
  BY <1>1, SameCommands

LEMMA SmeKeeps ==
    ASSUME NEW s \in Mlme, NEW st \in {"idle", "connecting", "connected"}
    PROVE  Keeps(s, Sme(s, st)) /\ Sme(s, st).fw = s.fw
<1>1. Sme(s, st) \in Mlme /\ Alike(s, Sme(s, st)) /\ Sme(s, st).fw = s.fw
  BY DEF Sme, Mlme, Alike
<1> QED
  BY <1>1, SameCommands

LEMMA CfgDisconnectKeeps ==
    ASSUME NEW s \in Mlme
    PROVE  /\ Keeps(s, rtw_cfg80211_indicate_disconnect(s))
           /\ rtw_cfg80211_indicate_disconnect(s).fw = s.fw
<1> DEFINE t == [s EXCEPT !.muted = (s.sme # "idle")]
<1>1. t \in Mlme /\ Alike(s, t) /\ t.fw = s.fw
  BY DEF Mlme, Alike
<1>2. Keeps(s, t)
  BY <1>1, SameCommands
<1> QED
  BY <1>1, <1>2, SmeKeeps DEF rtw_cfg80211_indicate_disconnect

\* Either way the link and the join are gone.
LEMMA DisconnectKeeps ==
    ASSUME NEW s \in Mlme
    PROVE  /\ Keeps(s, rtw_indicate_disconnect(s))
           /\ "UNDER_LINKING" \notin rtw_indicate_disconnect(s).fw
<1> DEFINE down == [s EXCEPT !.fw = @ \ {"UNDER_LINKING", "LINKED"}]
<1>1. /\ down \in Mlme /\ Alike(s, down) /\ down.fw \subseteq s.fw
      /\ "UNDER_LINKING" \notin down.fw
  BY DEF Mlme, Alike
<1>2. Keeps(s, down)
  BY <1>1, SameCommands
<1> HIDE DEF down
<1>3. Keeps(s, rtw_cfg80211_indicate_disconnect(down))
  BY <1>1, <1>2, CfgDisconnectKeeps, KeepsTrans
<1> QED
  BY <1>1, <1>2, <1>3, CfgDisconnectKeeps DEF rtw_indicate_disconnect, down

LEMMA FreeScanKeeps ==
    ASSUME NEW s \in Mlme
    PROVE  Keeps(s, free_scanqueue(s)) /\ Keeps(s, rtw_free_assoc_resources(s))
<1> DEFINE f == free_scanqueue(s)
           r == rtw_free_assoc_resources(s)
<1>1. f \in Mlme /\ Alike(s, f) /\ f.fw = s.fw
  BY DEF free_scanqueue, Mlme, Alike
<1>2. r = [f EXCEPT !.stainfo = FALSE]
  BY DEF rtw_free_assoc_resources
<1> HIDE DEF f, r
<1>3. r \in Mlme /\ Alike(f, r) /\ r.fw = f.fw
  BY <1>1, <1>2 DEF Mlme, Alike
<1>4. Keeps(s, f) /\ Keeps(f, r)
  BY <1>1, <1>3, SameCommands
<1> QED
  BY <1>4, KeepsTrans DEF f, r

\* A scan sets its flag only together with the command that runs it and the
\* timer that ends it.
LEMMA SitesurveyKeeps ==
    ASSUME NEW s \in Mlme, NEW r \in rtw_sitesurvey_cmd(s)
    PROVE  r.ok \in BOOLEAN /\ Keeps(s, r.s)
<1> DEFINE Posted(t) == [rtw_enqueue_cmd(Set(t, "UNDER_SURVEY"), "sitesurvey")
                           EXCEPT !.scan_to_timer = TRUE,
                                  !.broken = FALSE, !.orphaned = FALSE]
<1>1. PICK t \in rtw_free_network_queue(s) :
        r \in {[ok |-> FALSE, s |-> t], [ok |-> TRUE, s |-> Posted(t)]}
  BY DEF rtw_sitesurvey_cmd
<1>2. Keeps(s, t)
  <2>1. t = s \/ t = [s EXCEPT !.scanned = FALSE]
    BY DEF rtw_free_network_queue
  <2>2. t \in Mlme /\ Alike(s, t) /\ t.fw = s.fw
    BY <2>1 DEF Mlme, Alike
  <2> QED
    BY <2>2, SameCommands
<1>3. t \in Mlme
  BY <1>2 DEF Keeps, Grows
<1> DEFINE m == Set(t, "UNDER_SURVEY")
           e == rtw_enqueue_cmd(m, "sitesurvey")
<1>4. "UNDER_SURVEY" \in FwState /\ "sitesurvey" \in Commands
  BY DEF FwState, Commands
<1>5. m \in Mlme /\ Alike(t, m) /\ m.fw = t.fw \cup {"UNDER_SURVEY"}
  BY <1>3, <1>4, FlagTypes
<1> HIDE DEF m
<1>6. Keeps(m, e) /\ Carried(e) /\ e.fw = m.fw
  BY <1>4, <1>5, EnqueueKeeps
<1> DEFINE p == Posted(t)
<1>7. /\ p \in Mlme /\ p.cmds = e.cmds /\ p.fw = e.fw
      /\ p.assoc_timer = e.assoc_timer /\ p.zeroing = e.zeroing
      /\ p.to_roam = e.to_roam /\ p.raced = e.raced /\ p.scan_to_timer
  <2>1. e \in Mlme
    BY <1>6 DEF Keeps, Grows
  <2>2. p = [e EXCEPT !.scan_to_timer = TRUE, !.broken = FALSE, !.orphaned = FALSE]
    BY DEF e, m
  <2> HIDE DEF e, Posted
  <2> QED
    BY <2>1, <2>2 DEF Mlme
<1> HIDE DEF e, p
<1>8. Carried(p) /\ (t.cmds # <<>> => p.cmds # <<>> /\ Head(p.cmds) = Head(t.cmds))
  BY <1>5, <1>6, <1>7 DEF Carried, Keeps, Grows, Alike
<1>9. Keeps(t, p)
  <2>1. Timing(p)
    BY <1>7 DEF Timing
  <2>2. Bounded(t) => Bounded(p)
    <3>1. Bounded(m) => Bounded(e)
      BY <1>6 DEF Keeps, Grows, Follows
    <3> QED
      BY <1>5, <1>7, <3>1 DEF Bounded, Alike
  <2>3. p.zeroing => t.zeroing
    <3>1. e.zeroing => m.zeroing
      BY <1>6 DEF Keeps, Grows, Follows
    <3> QED
      BY <1>5, <1>7, <3>1 DEF Alike
  <2>4. Grows(t, p)
    BY <1>7, <1>8, <2>1, <2>2, <2>3 DEF Grows, Follows
  <2>5. p.fw = t.fw \cup {"UNDER_SURVEY"}
    BY <1>5, <1>6, <1>7
  <2>6. p.assoc_timer = t.assoc_timer
    BY <1>5, <1>6, <1>7 DEF Keeps, Alike
  <2> QED
    BY <2>4, <2>5, <2>6 DEF Keeps
<1>10. Keeps(s, p)
  BY <1>2, <1>9, KeepsTrans
<1>11. CASE r = [ok |-> FALSE, s |-> t]
  BY <1>2, <1>11
<1>12. CASE r = [ok |-> TRUE, s |-> p]
  BY <1>10, <1>12
<1> QED
  BY <1>1, <1>11, <1>12 DEF p

\* Selecting a network may leave the flag of a join set: the callers either
\* arm the timer or clear the flag.
LEMMA SelectGrows ==
    ASSUME NEW s \in Mlme, NEW r \in rtw_select_and_join_from_scanned_queue(s)
    PROVE  r.ok \in BOOLEAN /\ Grows(s, r.s)
<1> DEFINE Left(t) == rtw_free_assoc_resources(rtw_indicate_disconnect(t))
           e == rtw_enqueue_cmd(s, "disconnect")
           left == IF "LINKED" \in s.fw THEN {Left(s), Left(e)} ELSE {s}
           linking == {Set(t, "UNDER_LINKING") : t \in left}
<1>1. \/ r = [ok |-> FALSE, s |-> s]
      \/ \E t \in left : r = [ok |-> FALSE, s |-> Set(t, "UNDER_LINKING")]
      \/ \E t \in left :
           r = [ok |-> TRUE, s |-> rtw_enqueue_cmd(Set(t, "UNDER_LINKING"), "joinbss")]
  <2>1. r \in {[ok |-> FALSE, s |-> s]}
          \cup IF s.scanned
               THEN {[ok |-> FALSE, s |-> t] : t \in linking}
                      \cup {[ok |-> TRUE, s |-> rtw_enqueue_cmd(t, "joinbss")] :
                            t \in linking}
               ELSE {}
    BY DEF rtw_select_and_join_from_scanned_queue
  <2> HIDE DEF left
  <2> QED
    BY <2>1
<1>2. "disconnect" \in Commands /\ "joinbss" \in Commands
  BY DEF Commands
<1>3. Grows(s, s)
  BY KeepsSelf
<1>4. ASSUME NEW t \in Mlme
      PROVE  Grows(t, Left(t))
  <2> DEFINE d == rtw_indicate_disconnect(t)
  <2>1. Keeps(t, d) /\ d \in Mlme
    BY DisconnectKeeps DEF Keeps, Grows
  <2> HIDE DEF d
  <2>2. Keeps(d, rtw_free_assoc_resources(d))
    BY <2>1, FreeScanKeeps
  <2>3. Keeps(t, rtw_free_assoc_resources(d))
    BY <2>1, <2>2, KeepsTrans
  <2> QED
    BY <2>3 DEF Keeps, d
<1>5. Grows(s, e) /\ e \in Mlme
  BY <1>2, EnqueueKeeps DEF Keeps, Grows
<1> HIDE DEF e, Left
<1>6. ASSUME NEW t \in left
      PROVE  Grows(s, t)
  BY <1>3, <1>4, <1>5, GrowsTrans
<1> HIDE DEF left
<1>7. ASSUME NEW t \in left
      PROVE  /\ Grows(s, Set(t, "UNDER_LINKING"))
             /\ Grows(s, rtw_enqueue_cmd(Set(t, "UNDER_LINKING"), "joinbss"))
  <2> DEFINE l == Set(t, "UNDER_LINKING")
  <2>1. Grows(s, t) /\ t \in Mlme
    BY <1>6, <1>7 DEF Grows
  <2>2. Grows(t, l) /\ l \in Mlme
    BY <2>1, SetLinkingGrows DEF Grows
  <2> HIDE DEF l
  <2>3. Grows(l, rtw_enqueue_cmd(l, "joinbss"))
    BY <1>2, <2>2, EnqueueKeeps DEF Keeps
  <2>4. Grows(s, l)
    BY <2>1, <2>2, GrowsTrans
  <2>5. Grows(s, rtw_enqueue_cmd(l, "joinbss"))
    BY <2>3, <2>4, GrowsTrans
  <2> QED
    BY <2>4, <2>5 DEF l
<1>8. CASE r = [ok |-> FALSE, s |-> s]
  BY <1>3, <1>8
<1>9. CASE \E t \in left : r = [ok |-> FALSE, s |-> Set(t, "UNDER_LINKING")]
  BY <1>7, <1>9
<1>10. CASE \E t \in left :
              r = [ok |-> TRUE, s |-> rtw_enqueue_cmd(Set(t, "UNDER_LINKING"), "joinbss")]
  BY <1>7, <1>10
<1> QED
  BY <1>1, <1>8, <1>9, <1>10

LEMMA ArmGrows ==
    ASSUME NEW s \in Mlme, NEW t, t = [s EXCEPT !.assoc_timer = TRUE]
    PROVE  Grows(s, t) /\ Timed(t)
<1>1. /\ t \in Mlme /\ t.cmds = s.cmds /\ t.fw = s.fw /\ t.assoc_timer
      /\ t.scan_to_timer = s.scan_to_timer /\ t.broken = s.broken
      /\ t.orphaned = s.orphaned /\ t.zeroing = s.zeroing
      /\ t.to_roam = s.to_roam /\ t.raced = s.raced
  BY DEF Mlme
<1>2. /\ Carried(t) <=> Carried(s)
      /\ Timing(s) => Timing(t)
      /\ Bounded(s) => Bounded(t)
  BY <1>1 DEF Carried, Timing, Bounded
<1> QED
  BY <1>1, <1>2 DEF Grows, Follows, Timed

\* A join, wherever it is called, ends with its timer armed or its flag clear.
LEMMA DoJoinTimed ==
    ASSUME NEW s \in Mlme, NEW q \in rtw_do_join(s)
    PROVE  q.ok \in BOOLEAN /\ Grows(s, q.s) /\ Timed(q.s)
<1> DEFINE flagged == Set(s, "UNDER_LINKING")
           wanted == [flagged EXCEPT !.to_join = TRUE]
           Sent(r) == [r.s EXCEPT !.to_join = FALSE, !.assoc_timer = TRUE]
           Scan(r) == rtw_sitesurvey_cmd(Clr(r.s, "UNDER_LINKING"))
<1>1. PICK r \in rtw_select_and_join_from_scanned_queue(wanted) :
        q \in IF r.ok
              THEN {[ok |-> TRUE, s |-> Sent(r)]}
              ELSE {IF p.ok THEN p
                            ELSE [ok |-> FALSE, s |-> [p.s EXCEPT !.to_join = FALSE]] :
                    p \in Scan(r)}
  BY DEF rtw_do_join
<1>2. Grows(s, wanted) /\ wanted \in Mlme
  <2>1. Grows(s, flagged) /\ flagged \in Mlme
    BY SetLinkingGrows DEF Grows
  <2> HIDE DEF flagged
  <2>2. Grows(flagged, wanted)
    BY <2>1, ToJoinKeeps DEF Keeps
  <2> QED
    BY <2>1, <2>2, GrowsTrans DEF Grows
<1> HIDE DEF wanted
<1>3. r.ok \in BOOLEAN /\ Grows(s, r.s) /\ r.s \in Mlme
  <2>1. r.ok \in BOOLEAN /\ Grows(wanted, r.s)
    BY <1>2, SelectGrows
  <2> QED
    BY <1>2, <2>1, GrowsTrans DEF Grows
<1>4. CASE r.ok
  <2> DEFINE j == [r.s EXCEPT !.to_join = FALSE]
  <2>1. Grows(r.s, j) /\ j \in Mlme
    BY <1>3, ToJoinKeeps DEF Keeps, Grows
  <2>2. Sent(r) = [j EXCEPT !.assoc_timer = TRUE]
    BY <1>3 DEF Mlme
  <2> HIDE DEF j, Sent
  <2>3. Grows(j, Sent(r)) /\ Timed(Sent(r))
    BY <2>1, <2>2, ArmGrows
  <2>4. Grows(s, Sent(r))
    BY <1>3, <2>1, <2>3, GrowsTrans
  <2>5. q = [ok |-> TRUE, s |-> Sent(r)]
    BY <1>1, <1>4
  <2> QED
    BY <2>3, <2>4, <2>5
<1>5. CASE ~r.ok
  <2> DEFINE c == Clr(r.s, "UNDER_LINKING")
  <2>1. PICK p \in Scan(r) :
          q = IF p.ok THEN p
                      ELSE [ok |-> FALSE, s |-> [p.s EXCEPT !.to_join = FALSE]]
    BY <1>1, <1>5
  <2>2. Keeps(r.s, c) /\ c \in Mlme /\ "UNDER_LINKING" \notin c.fw
    BY <1>3, ClrKeeps, FlagTypes DEF FwState, Keeps, Grows
  <2>3. p.ok \in BOOLEAN /\ Keeps(c, p.s) /\ p.s \in Mlme
    BY <2>1, <2>2, SitesurveyKeeps DEF Keeps, Grows
  <2> HIDE DEF c
  <2>4. Grows(s, p.s) /\ "UNDER_LINKING" \notin p.s.fw
    <3>1. Grows(r.s, p.s)
      BY <2>2, <2>3, GrowsTrans DEF Keeps
    <3> QED
      BY <1>3, <2>2, <2>3, <3>1, GrowsTrans DEF Keeps
  <2>5. CASE p.ok
    BY <2>1, <2>3, <2>4, <2>5 DEF Timed
  <2>6. CASE ~p.ok
    <3> DEFINE j == [p.s EXCEPT !.to_join = FALSE]
    <3>1. Keeps(p.s, j)
      BY <2>3, ToJoinKeeps
    <3> HIDE DEF j
    <3>2. Grows(s, j) /\ "UNDER_LINKING" \notin j.fw
      BY <2>4, <3>1, GrowsTrans DEF Keeps
    <3>3. q = [ok |-> FALSE, s |-> j]
      BY <2>1, <2>6 DEF j
    <3> QED
      BY <3>2, <3>3 DEF Timed
  <2> QED
    BY <2>5, <2>6
<1> QED
  BY <1>4, <1>5

LEMMA CountdownTimed ==
    ASSUME NEW s \in Mlme, NEW t \in Countdown(s)
    PROVE  Grows(s, t) /\ Timed(t)
<1> USE MaxRoamAssumption
<1> DEFINE Attempt(k) == rtw_do_join([s EXCEPT !.to_roam = k])
           n == s.to_roam
<1>0. n \in 0 .. RoamSize - 1
  BY DEF Mlme
<1> HIDE DEF n
<1>1. ASSUME NEW k \in 1 .. n, NEW q \in Attempt(k)
      PROVE  Grows(s, q.s) /\ Timed(q.s)
  <2> DEFINE b == [s EXCEPT !.to_roam = k]
  <2>1. Grows(s, b) /\ b \in Mlme
    <3>1. k \in 0 .. RoamSize - 1 /\ k <= s.to_roam
      BY <1>0 DEF n
    <3> QED
      BY <3>1, ToRoamKeeps DEF Keeps, Grows
  <2> HIDE DEF b
  <2>2. q \in rtw_do_join(b)
    BY <1>1 DEF b
  <2>3. Grows(b, q.s) /\ Timed(q.s)
    BY <2>1, <2>2, DoJoinTimed
  <2> QED
    BY <2>1, <2>3, GrowsTrans
<1>2. ASSUME NEW u \in Mlme, Grows(s, u),
             t = rtw_indicate_disconnect([u EXCEPT !.to_roam = 0])
      PROVE  Grows(s, t) /\ Timed(t)
  <2> DEFINE z == [u EXCEPT !.to_roam = 0]
  <2>1. Grows(u, z) /\ z \in Mlme
    BY RoamRange, ToRoamKeeps DEF Keeps, Grows
  <2> HIDE DEF z
  <2>2. t = rtw_indicate_disconnect(z)
    BY <1>2 DEF z
  <2>3. Grows(z, t) /\ "UNDER_LINKING" \notin t.fw
    BY <2>1, <2>2, DisconnectKeeps DEF Keeps
  <2> QED
    BY <1>2, <2>1, <2>3, GrowsTrans DEF Timed
<1>3. \/ \E k \in 1 .. n : \E q \in Attempt(k) : t = q.s
      \/ /\ n = 0
         /\ t = rtw_indicate_disconnect([s EXCEPT !.to_roam = 0])
      \/ /\ n # 0
         /\ \E q \in Attempt(1) : t = rtw_indicate_disconnect([q.s EXCEPT !.to_roam = 0])
  <2> HIDE DEF Attempt
  <2>1. Countdown(s) =
          {r.s : r \in {q \in UNION {Attempt(k) : k \in 1 .. n} : q.ok}}
            \cup {rtw_indicate_disconnect([r.s EXCEPT !.to_roam = 0]) :
                  r \in IF n = 0 THEN {[ok |-> FALSE, s |-> s]}
                                 ELSE {q \in Attempt(1) : ~q.ok}}
    BY DEF Countdown, Attempt, n
  <2> DEFINE Tried == {q \in UNION {Attempt(k) : k \in 1 .. n} : q.ok}
             Out == IF n = 0 THEN {[ok |-> FALSE, s |-> s]}
                             ELSE {q \in Attempt(1) : ~q.ok}
  <2>2. CASE \E r \in Tried : t = r.s
    BY <2>2
  <2>3. CASE \E r \in Out : t = rtw_indicate_disconnect([r.s EXCEPT !.to_roam = 0])
    <3>1. PICK r \in Out : t = rtw_indicate_disconnect([r.s EXCEPT !.to_roam = 0])
      BY <2>3
    <3>2. CASE n = 0
      <4>1. r.s = s
        BY <3>1, <3>2
      <4> QED
        BY <3>1, <3>2, <4>1
    <3>3. CASE n # 0
      BY <3>1, <3>3
    <3> QED
      BY <3>2, <3>3
  <2> HIDE DEF Tried, Out
  <2>4. Countdown(s) = {r.s : r \in Tried}
          \cup {rtw_indicate_disconnect([r.s EXCEPT !.to_roam = 0]) : r \in Out}
    BY <2>1 DEF Tried, Out
  <2> QED
    BY <2>2, <2>3, <2>4
<1>4. CASE \E k \in 1 .. n : \E q \in Attempt(k) : t = q.s
  <2> HIDE DEF Attempt
  <2> QED
    BY <1>1, <1>4
<1>5. CASE n = 0 /\ t = rtw_indicate_disconnect([s EXCEPT !.to_roam = 0])
  <2>1. Grows(s, s)
    BY KeepsSelf
  <2> QED
    BY <1>2, <1>5, <2>1
<1>6. CASE /\ n # 0
           /\ \E q \in Attempt(1) : t = rtw_indicate_disconnect([q.s EXCEPT !.to_roam = 0])
  <2> HIDE DEF Attempt
  <2>1. PICK q \in Attempt(1) : t = rtw_indicate_disconnect([q.s EXCEPT !.to_roam = 0])
    BY <1>6
  <2>2. 1 \in 1 .. n
    BY <1>0, <1>6
  <2>3. Grows(s, q.s) /\ q.s \in Mlme
    BY <1>1, <2>1, <2>2 DEF Grows
  <2> QED
    BY <1>2, <2>1, <2>3
<1> QED
  BY <1>3, <1>4, <1>5, <1>6

\* The write of 0 may meet a decrement of the loop: it goes on from 255.
LEMMA RacedKeeps ==
    ASSUME NEW s \in Mlme, NEW t,
           t = [s EXCEPT !.zeroing = FALSE, !.raced = TRUE, !.to_roam = RoamSize - 1]
    PROVE  Keeps(s, t) /\ t \in Mlme
<1>1. /\ t \in Mlme /\ t.cmds = s.cmds /\ t.fw = s.fw /\ t.assoc_timer = s.assoc_timer
      /\ t.scan_to_timer = s.scan_to_timer /\ t.broken = s.broken
      /\ t.orphaned = s.orphaned /\ ~t.zeroing /\ t.raced
  BY RoamRange DEF Mlme
<1>2. (Timing(s) => Timing(t)) /\ Bounded(t)
  BY <1>1 DEF Timing, Bounded
<1> QED
  BY <1>1, <1>2, Altered

LEMMA TryRoamingTimed ==
    ASSUME NEW s \in Mlme, NEW t \in TryRoaming(s)
    PROVE  Grows(s, t) /\ Timed(t)
<1> DEFINE x == [s EXCEPT !.zeroing = FALSE, !.raced = TRUE, !.to_roam = RoamSize - 1]
<1>1. t \in Countdown(s) \/ t \in Countdown(x)
  BY DEF TryRoaming
<1>2. Grows(s, x) /\ x \in Mlme
  BY RacedKeeps DEF Keeps
<1> HIDE DEF x
<1> QED
  BY <1>1, <1>2, CountdownTimed, GrowsTrans

LEMMA RoamingTimed ==
    ASSUME NEW s \in Mlme, Timed(s), NEW t \in _rtw_roaming(s)
    PROVE  Grows(s, t) /\ Timed(t)
<1>1. CASE s.to_roam > 0
  BY <1>1, TryRoamingTimed DEF _rtw_roaming
<1>2. CASE ~(s.to_roam > 0)
  BY <1>2, KeepsSelf DEF _rtw_roaming
<1> QED
  BY <1>1, <1>2

LEMMA JoinTimeoutTimed ==
    ASSUME NEW s \in Mlme, NEW t \in _rtw_join_timeout_handler(s)
    PROVE  Grows(s, t) /\ Timed(t)
<1>1. CASE s.to_roam > 0
  <2>1. PICK d \in rtw_dec_to_roam(s) : \E z \in Zeroed(d) : t \in TryRoaming(z)
    BY <1>1 DEF _rtw_join_timeout_handler
  <2>2. PICK z \in Zeroed(d) : t \in TryRoaming(z)
    BY <2>1
  <2>3. Grows(s, d) /\ d \in Mlme
    BY <1>1, <2>1, DecKeeps DEF Keeps, Grows
  <2>4. Grows(d, z) /\ z \in Mlme
    BY <2>2, <2>3, ZeroedKeeps DEF Keeps, Grows
  <2>5. Grows(z, t) /\ Timed(t)
    BY <2>2, <2>4, TryRoamingTimed
  <2> QED
    BY <2>3, <2>4, <2>5, GrowsTrans
<1>2. CASE ~(s.to_roam > 0)
  <2> DEFINE d == rtw_indicate_disconnect(s)
             f == free_scanqueue(d)
  <2>1. Keeps(s, d) /\ d \in Mlme /\ "UNDER_LINKING" \notin d.fw
    BY DisconnectKeeps DEF Keeps, Grows
  <2> HIDE DEF d
  <2>2. Keeps(d, f) /\ f \in Mlme
    BY <2>1, FreeScanKeeps DEF Keeps, Grows
  <2> HIDE DEF f
  <2>3. t = rtw_cfg80211_indicate_disconnect(f)
    BY <1>2 DEF _rtw_join_timeout_handler, JoinFailed, d, f
  <2>4. Keeps(f, t)
    BY <2>2, <2>3, CfgDisconnectKeeps
  <2>5. Keeps(s, t) /\ "UNDER_LINKING" \notin t.fw
    <3>1. Keeps(d, t)
      BY <2>2, <2>4, KeepsTrans
    <3> QED
      BY <2>1, <3>1, KeepsTrans DEF Keeps
  <2> QED
    BY <2>5 DEF Keeps, Timed
<1> QED
  BY <1>1, <1>2

\* A join result leaves the state alone or clears the flag of the join; when
\* the state is left alone the timer keeps running.
LEMMA PrehandleTimed ==
    ASSUME NEW s \in Mlme, NEW res, NEW t \in rtw_joinbss_event_prehandle(s, res)
    PROVE  /\ Grows(s, t)
           /\ t = s \/ "UNDER_LINKING" \notin t.fw
<1>1. CASE res # "ok"
  <2> DEFINE c == Clr(s, "UNDER_LINKING")
  <2>1. Grows(s, c) /\ c \in Mlme /\ "UNDER_LINKING" \notin c.fw
    BY ClrKeeps, FlagTypes DEF FwState, Keeps, Grows
  <2> HIDE DEF c
  <2>2. t = [c EXCEPT !.assoc_timer = TRUE]
    BY <1>1 DEF rtw_joinbss_event_prehandle, c
  <2>3. Grows(c, t) /\ t.fw = c.fw
    BY <2>1, <2>2, ArmGrows DEF Mlme
  <2> QED
    BY <2>1, <2>3, GrowsTrans
<1>2. CASE res = "ok" /\ t = s
  BY <1>2, KeepsSelf
<1>3. CASE res = "ok" /\ t # s
  <2> DEFINE u == [s EXCEPT !.fw = {}, !.fixed = TRUE]
             l == Set(u, "LINKED")
             c == IF "LINKED" \in u.fw THEN u ELSE rtw_cfg80211_indicate_connect(l)
             i == rtw_indicate_connect(u)
  <2>1. t = u \/ t = [i EXCEPT !.stainfo = TRUE, !.assoc_timer = FALSE]
    BY <1>3 DEF rtw_joinbss_event_prehandle
  <2>2. u \in Mlme /\ u.fw = {} /\ Alike(s, u)
    BY DEF Mlme, Alike
  <2> HIDE DEF u
  <2>3. l \in Mlme /\ l.fw = {"LINKED"} /\ Alike(u, l)
    BY <2>2, FlagTypes DEF FwState
  <2> HIDE DEF l
  <2>4. /\ c \in Mlme /\ c.fw = {"LINKED"} /\ c.cmds = s.cmds /\ c.zeroing = s.zeroing
    <3>1. c = l \/ c = Sme(l, "connected")
      BY <2>2 DEF rtw_cfg80211_indicate_connect
    <3>2. /\ Sme(l, "connected") \in Mlme /\ Sme(l, "connected").fw = {"LINKED"}
          /\ Sme(l, "connected").cmds = l.cmds /\ Sme(l, "connected").zeroing = l.zeroing
      BY <2>3 DEF Sme, Mlme
    <3>3. l.cmds = s.cmds /\ l.zeroing = s.zeroing
      BY <2>2, <2>3 DEF Alike
    <3> QED
      BY <2>3, <3>1, <3>2, <3>3
  <2>5. i = rtw_set_to_roam([c EXCEPT !.to_join = FALSE], 0)
    BY DEF rtw_indicate_connect, l
  <2> HIDE DEF c, i
  <2>6. /\ i \in Mlme /\ i.cmds = s.cmds /\ i.fw = {"LINKED"}
        /\ i.zeroing = s.zeroing /\ i.to_roam = 0
    <3> DEFINE j == [c EXCEPT !.to_join = FALSE]
    <3>1. j \in Mlme /\ j.cmds = s.cmds /\ j.fw = {"LINKED"} /\ j.zeroing = s.zeroing
      BY <2>4 DEF Mlme
    <3>2. i = rtw_set_to_roam(j, 0)
      BY <2>5
    <3> HIDE DEF j
    <3>3. i.zeroing = j.zeroing
      BY <3>1, <3>2 DEF rtw_set_to_roam, Mlme
    <3> QED
      BY <3>1, <3>2, <3>3, ToRoamKeeps, RoamRange
  <2>7. /\ t \in Mlme /\ t.cmds = s.cmds /\ t.fw \subseteq {"LINKED"}
        /\ t.zeroing = s.zeroing /\ (Bounded(s) => Bounded(t))
    <3>1. CASE t = u
      BY <2>2, <3>1 DEF Alike, Bounded
    <3>2. CASE t = [i EXCEPT !.stainfo = TRUE, !.assoc_timer = FALSE]
      <4>1. /\ t \in Mlme /\ t.cmds = i.cmds /\ t.fw = i.fw /\ t.zeroing = i.zeroing
            /\ t.to_roam = i.to_roam
        BY <2>6, <3>2 DEF Mlme
      <4> QED
        BY <2>6, <4>1, RoamRange DEF Bounded
    <3> QED
      BY <2>1, <3>1, <3>2
  <2>8. Carried(t) <=> Carried(s)
    BY <2>7 DEF Carried
  <2> QED
    BY <2>7, <2>8 DEF Grows, Follows
<1> QED
  BY <1>1, <1>2, <1>3

LEMMA RoamBudgetKeeps ==
    ASSUME NEW s \in Mlme, NEW expired \in BOOLEAN, NEW t \in RoamBudget(s, expired)
    PROVE  Keeps(s, t)
<1>1. CASE ~expired
  BY <1>1, ToRoamKeeps, RoamRange DEF RoamBudget
<1>2. CASE expired /\ s.to_roam > 0
  BY <1>2, DecKeeps DEF RoamBudget
<1>3. CASE expired /\ ~(s.to_roam > 0)
  BY <1>3, ToRoamKeeps, RoamRange DEF RoamBudget
<1> QED
  BY <1>1, <1>2, <1>3

\* After a scan made in order to join: the flag is set with the timer, or
\* cleared on every way of giving up and of trying again.
LEMMA JoinScannedTimed ==
    ASSUME NEW s \in Mlme, NEW t \in JoinScanned(s)
    PROVE  Grows(s, t) /\ Timed(t)
<1> USE MaxRoamAssumption
<1> DEFINE flagged == Set(s, "UNDER_LINKING")
           linking == [flagged EXCEPT !.to_join = FALSE]
           GiveUp(x) == rtw_indicate_disconnect(
                          rtw_free_assoc_resources(rtw_set_to_roam(x, 0)))
           Again(dec) == IF dec.to_roam = 0 THEN {GiveUp(dec)}
                         ELSE {IF q.ok THEN [q.s EXCEPT !.to_join = TRUE]
                                       ELSE GiveUp(q.s) :
                               q \in rtw_sitesurvey_cmd(dec)}
           Failed(x) == IF x.to_roam = 0 THEN {rtw_indicate_disconnect(x)}
                        ELSE UNION {Again(dec) :
                               dec \in UNION {Zeroed(d) : d \in rtw_dec_to_roam(x)}}
<1>1. PICK r \in rtw_select_and_join_from_scanned_queue(linking) :
        t \in IF r.ok THEN {[r.s EXCEPT !.assoc_timer = TRUE]}
                      ELSE {Clr(u, "UNDER_LINKING") : u \in Failed(r.s)}
  BY DEF JoinScanned
<1>2. Grows(s, linking) /\ linking \in Mlme
  <2>1. Grows(s, flagged) /\ flagged \in Mlme
    BY SetLinkingGrows DEF Grows
  <2> HIDE DEF flagged
  <2>2. Grows(flagged, linking)
    BY <2>1, ToJoinKeeps DEF Keeps
  <2> QED
    BY <2>1, <2>2, GrowsTrans DEF Grows
<1> HIDE DEF linking
<1>3. r.ok \in BOOLEAN /\ Grows(s, r.s) /\ r.s \in Mlme
  <2>1. r.ok \in BOOLEAN /\ Grows(linking, r.s)
    BY <1>2, SelectGrows
  <2> QED
    BY <1>2, <2>1, GrowsTrans DEF Grows
<1>4. ASSUME NEW x \in Mlme
      PROVE  Grows(x, GiveUp(x))
  <2> DEFINE z == rtw_set_to_roam(x, 0)
             f == rtw_free_assoc_resources(z)
  <2>1. Grows(x, z) /\ z \in Mlme
    BY ToRoamKeeps, RoamRange DEF Keeps, Grows
  <2> HIDE DEF z
  <2>2. Grows(z, f) /\ f \in Mlme
    BY <2>1, FreeScanKeeps DEF Keeps, Grows
  <2> HIDE DEF f
  <2>3. Grows(f, rtw_indicate_disconnect(f))
    BY <2>2, DisconnectKeeps DEF Keeps
  <2>4. Grows(x, rtw_indicate_disconnect(f))
    BY <2>1, <2>2, <2>3, GrowsTrans
  <2> QED
    BY <2>4 DEF f, z
<1> HIDE DEF GiveUp
<1>5. ASSUME NEW x \in Mlme, NEW u \in Failed(x)
      PROVE  Grows(x, u)
  <2>1. CASE x.to_roam = 0
    BY <1>5, <2>1, DisconnectKeeps DEF Keeps
  <2>2. CASE x.to_roam # 0
    <3>1. x.to_roam > 0
      BY <2>2 DEF Mlme
    <3>2. PICK d \in rtw_dec_to_roam(x) : \E dec \in Zeroed(d) : u \in Again(dec)
      BY <1>5, <2>2
    <3>3. PICK dec \in Zeroed(d) : u \in Again(dec)
      BY <3>2
    <3>4. Grows(x, d) /\ d \in Mlme
      BY <3>1, <3>2, DecKeeps DEF Keeps, Grows
    <3>5. Grows(x, dec) /\ dec \in Mlme
      BY <3>3, <3>4, ZeroedKeeps, GrowsTrans DEF Keeps, Grows
    <3>6. CASE u = GiveUp(dec)
      BY <1>4, <3>5, <3>6, GrowsTrans
    <3>7. CASE \E q \in rtw_sitesurvey_cmd(dec) :
                 u = IF q.ok THEN [q.s EXCEPT !.to_join = TRUE] ELSE GiveUp(q.s)
      <4>1. PICK q \in rtw_sitesurvey_cmd(dec) :
              u = IF q.ok THEN [q.s EXCEPT !.to_join = TRUE] ELSE GiveUp(q.s)
        BY <3>7
      <4>2. q.ok \in BOOLEAN /\ Grows(dec, q.s) /\ q.s \in Mlme
        BY <3>5, <4>1, SitesurveyKeeps DEF Keeps, Grows
      <4>3. Grows(q.s, u)
        <5>1. Grows(q.s, [q.s EXCEPT !.to_join = TRUE])
          BY <4>2, ToJoinKeeps DEF Keeps
        <5>2. Grows(q.s, GiveUp(q.s))
          BY <1>4, <4>2
        <5> QED
          BY <4>1, <4>2, <5>1, <5>2
      <4> QED
        BY <3>5, <4>2, <4>3, GrowsTrans
    <3> QED
      BY <3>3, <3>6, <3>7
  <2> QED
    BY <2>1, <2>2
<1> HIDE DEF Failed
<1>6. CASE r.ok
  BY <1>1, <1>3, <1>6, ArmGrows, GrowsTrans
<1>7. CASE ~r.ok
  <2>1. PICK u \in Failed(r.s) : t = Clr(u, "UNDER_LINKING")
    BY <1>1, <1>7
  <2>2. Grows(r.s, u) /\ u \in Mlme
    BY <1>3, <1>5, <2>1 DEF Grows
  <2>3. Grows(u, t) /\ "UNDER_LINKING" \notin t.fw
    <3>1. "UNDER_LINKING" \in FwState
      BY DEF FwState
    <3>2. Keeps(u, t) /\ t.fw = u.fw \ {"UNDER_LINKING"}
      BY <2>1, <2>2, <3>1, ClrKeeps, FlagTypes
    <3> QED
      BY <3>2 DEF Keeps
  <2> QED
    BY <1>3, <2>2, <2>3, GrowsTrans DEF Timed
<1> QED
  BY <1>3, <1>6, <1>7

-----------------------------------------------------------------------------
(* The inductive invariant.                                                *)

\* The parts of TypeOK beside mlme.  The survey timer's handler counts the
\* channel up, so while it is armed there is one left to count.
OtherTypes ==
    /\ ext \in Ext
    /\ survey \in Survey
    /\ survey.timer /\ survey.state = "PROCESS" => survey.channel_idx < ChNum
    /\ cmd \in CmdSteps
    /\ user \in UserSteps
    /\ scan \in [request : BOOLEAN, asked : BOOLEAN]
    /\ report \in [rx : {"none", "ok", "fail"}, link : {"none", "fail"}]
    /\ timeout \in {"idle", "running", "deadlock"}
    /\ events \in 0 .. MaxEvents

\* rtw_stadel_event_callback works on the command it was called for.
StaDelHead ==
    cmd = "stadel" => /\ mlme.cmds # <<>>
                      /\ Head(mlme.cmds) \in {"del_expired", "del_left"}

\* Only cfg80211_rtw_disconnect writes to to_roam without the lock.
Writing == mlme.zeroing => user = "leave_roam"

JoinInv ==
    /\ mlme \in Mlme
    /\ OtherTypes
    /\ LinkingGuarded
    /\ ScanNotForgotten
    /\ RoamBounded
    /\ StaDelHead
    /\ Writing

Drives == survey.state # "DISABLE" /\ survey.timer

\* A step preserves the invariant if ... (the head of the queue may go)
LEMMA Taken ==
    ASSUME JoinInv, OtherTypes', Follows(mlme, mlme'),
           Timed(mlme') \/ timeout' # "idle",
           Drives => Drives' \/ Carried(mlme') \/ mlme'.broken,
           cmd' # "stadel",
           user = "leave_roam" => user' = "leave_roam"
    PROVE  JoinInv'
<1>1. ScanNotForgotten'
  <2>1. ScanDriven <=> Drives \/ Carried(mlme)
    BY DEF ScanDriven, Drives
  <2>2. ScanDriven' <=> Drives' \/ Carried(mlme')
    BY DEF ScanDriven, Drives
  <2>3. (Timing(mlme) <=> mlme.scan_to_timer \/ mlme.orphaned)
        /\ (Timing(mlme') <=> mlme'.scan_to_timer \/ mlme'.orphaned)
    BY DEF Timing
  <2> QED
    BY <2>1, <2>2, <2>3 DEF JoinInv, ScanNotForgotten, Follows
<1>2. LinkingGuarded'
  BY DEF LinkingGuarded, Timed
<1>3. RoamBounded'
  BY DEF JoinInv, Follows, RoamBounded, Bounded
<1>4. Writing'
  BY DEF JoinInv, Follows, Writing
<1> QED
  BY <1>1, <1>2, <1>3, <1>4 DEF JoinInv, StaDelHead, Follows

\* ... (the head stays)
LEMMA Grown ==
    ASSUME JoinInv, OtherTypes', Grows(mlme, mlme'),
           Timed(mlme') \/ timeout' # "idle",
           Drives => Drives' \/ Carried(mlme') \/ mlme'.broken,
           cmd' = "stadel" => cmd = "stadel",
           user = "leave_roam" => user' = "leave_roam"
    PROVE  JoinInv'
<1>1. ScanNotForgotten'
  <2>1. ScanDriven <=> Drives \/ Carried(mlme)
    BY DEF ScanDriven, Drives
  <2>2. ScanDriven' <=> Drives' \/ Carried(mlme')
    BY DEF ScanDriven, Drives
  <2>3. (Timing(mlme) <=> mlme.scan_to_timer \/ mlme.orphaned)
        /\ (Timing(mlme') <=> mlme'.scan_to_timer \/ mlme'.orphaned)
    BY DEF Timing
  <2> QED
    BY <2>1, <2>2, <2>3 DEF JoinInv, ScanNotForgotten, Grows, Follows
<1>2. LinkingGuarded'
  BY DEF LinkingGuarded, Timed
<1>3. StaDelHead'
  BY DEF JoinInv, StaDelHead, Grows
<1>4. RoamBounded' /\ Writing'
  BY DEF JoinInv, Grows, Follows, RoamBounded, Bounded, Writing
<1> QED
  BY <1>1, <1>2, <1>3, <1>4 DEF JoinInv, Grows

\* A step that changes neither mlme nor the handler of its timer.
LEMMA Untouched ==
    ASSUME JoinInv, OtherTypes', mlme' = mlme, timeout' = timeout,
           Drives => Drives',
           cmd' = "stadel" => cmd = "stadel",
           user = "leave_roam" => user' = "leave_roam"
    PROVE  JoinInv'
<1>1. Grows(mlme, mlme')
  BY KeepsSelf DEF JoinInv
<1>2. Timed(mlme') \/ timeout' # "idle"
  BY DEF JoinInv, LinkingGuarded, Timed
<1> QED
  BY <1>1, <1>2, Grown

\* A step whose effect on mlme touches neither the join nor the timer.
LEMMA Kept ==
    ASSUME JoinInv, OtherTypes', Keeps(mlme, mlme'), timeout' = timeout,
           Drives => Drives' \/ Carried(mlme') \/ mlme'.broken,
           cmd' = "stadel" => cmd = "stadel",
           user = "leave_roam" => user' = "leave_roam"
    PROVE  JoinInv'
<1>1. Timed(mlme') \/ timeout' # "idle"
  BY DEF JoinInv, LinkingGuarded, Timed, Keeps
<1> QED
  BY <1>1, Grown DEF Keeps

\* Dequeuing any command.
LEMMA DequeuedType ==
    ASSUME mlme \in Mlme, mlme.cmds # <<>>
    PROVE  /\ Dequeued \in Mlme
           /\ Dequeued.cmds = Tail(mlme.cmds)
           /\ Dequeued.fw = mlme.fw
           /\ Dequeued.assoc_timer = mlme.assoc_timer
           /\ Dequeued.broken = mlme.broken
           /\ Dequeued.zeroing = mlme.zeroing
           /\ Timing(Dequeued) <=> Timing(mlme)
           /\ Bounded(Dequeued) <=> Bounded(mlme)
<1>1. Tail(mlme.cmds) \in Seq(Commands)
  BY DEF Mlme
<1>2. /\ Dequeued \in Mlme /\ Dequeued.cmds = Tail(mlme.cmds)
      /\ Dequeued.fw = mlme.fw /\ Dequeued.assoc_timer = mlme.assoc_timer
      /\ Dequeued.broken = mlme.broken /\ Dequeued.zeroing = mlme.zeroing
      /\ Dequeued.scan_to_timer = mlme.scan_to_timer
      /\ Dequeued.orphaned = mlme.orphaned
      /\ Dequeued.to_roam = mlme.to_roam /\ Dequeued.raced = mlme.raced
  BY <1>1 DEF Mlme, Dequeued
<1> QED
  BY <1>2 DEF Timing, Bounded

\* Dequeuing a command that has nothing to do with a scan.
LEMMA DequeuedFollows ==
    ASSUME mlme \in Mlme, mlme.cmds # <<>>,
           Head(mlme.cmds) \notin {"sitesurvey", "surveydone"}
    PROVE  Follows(mlme, Dequeued)
<1>1. mlme.cmds \in Seq(Commands)
  BY DEF Mlme
<1>2. Carried(mlme) => Carried(Dequeued)
  <2>1. SUFFICES ASSUME NEW i \in 1 .. Len(mlme.cmds), Carries(mlme.cmds[i])
                 PROVE  Carried(Dequeued)
    BY DEF Carried
  <2>2. i # 1
    BY <1>1, <2>1 DEF Carries
  <2>3. i - 1 \in 1 .. Len(Tail(mlme.cmds)) /\ Tail(mlme.cmds)[i - 1] = mlme.cmds[i]
    BY <1>1, <2>2
  <2> QED
    BY <2>1, <2>3, DequeuedType DEF Carried
<1> QED
  BY <1>2, DequeuedType DEF Follows

LEMMA FollowsGrows ==
    ASSUME NEW s, NEW t, NEW u, Follows(s, t), Grows(t, u)
    PROVE  Follows(s, u)
BY FollowsTrans DEF Grows

-----------------------------------------------------------------------------
(* The steps preserve the invariant: the user's thread.                    *)

LEMMA UserStarts ==
    ASSUME JoinInv, UserScan \/ UserConnect \/ UserDisconnect
    PROVE  JoinInv'
<1> USE MaxEventsAssumption
<1>0. mlme \in Mlme /\ OtherTypes
  BY DEF JoinInv
<1>1. CASE UserScan
  <2>1. OtherTypes'
    BY <1>0, <1>1 DEF UserScan, Request, Event, OtherTypes, UserSteps
  <2> QED
    BY <1>1, <2>1, Untouched DEF UserScan, Request, Drives
<1>2. CASE UserConnect
  <2> DEFINE n == [mlme EXCEPT !.not_indic_disco = TRUE]
  <2>1. OtherTypes'
    BY <1>0, <1>2 DEF UserConnect, Request, Event, OtherTypes, UserSteps
  <2>2. Keeps(mlme, n) /\ n \in Mlme
    <3>1. n \in Mlme /\ n.fw = mlme.fw /\ Alike(mlme, n)
      BY <1>0 DEF Mlme, Alike
    <3> QED
      BY <1>0, <3>1, SameCommands
  <2>3. mlme' = Sme(n, "connecting")
    BY <1>2 DEF UserConnect
  <2> HIDE DEF n
  <2>4. Keeps(mlme, mlme')
    BY <2>2, <2>3, SmeKeeps, KeepsTrans
  <2> QED
    BY <1>2, <2>1, <2>4, Kept DEF UserConnect, Request, Drives
<1>3. CASE UserDisconnect
  <2>1. OtherTypes' /\ UNCHANGED <<survey, cmd, timeout>> /\ user' = "leave_roam"
    <3>1. events' \in 0 .. MaxEvents
      BY <1>0, <1>3 DEF UserDisconnect, Request, Event, OtherTypes
    <3> QED
      BY <1>0, <1>3, <3>1 DEF UserDisconnect, OtherTypes, UserSteps
  <2>2. /\ mlme' \in Mlme /\ mlme'.cmds = mlme.cmds /\ mlme'.fw = mlme.fw
        /\ mlme'.assoc_timer = mlme.assoc_timer
        /\ mlme'.scan_to_timer = mlme.scan_to_timer /\ mlme'.broken = mlme.broken
        /\ mlme'.orphaned = mlme.orphaned
        /\ mlme'.to_roam = mlme.to_roam /\ mlme'.raced = mlme.raced
    BY <1>0, <1>3 DEF UserDisconnect, Mlme
  <2>3. LinkingGuarded'
    BY <2>1, <2>2 DEF JoinInv, LinkingGuarded
  <2>4. ScanNotForgotten'
    BY <2>1, <2>2 DEF JoinInv, ScanNotForgotten, ScanDriven, Carried
  <2>5. RoamBounded' /\ StaDelHead' /\ Writing'
    BY <2>1, <2>2 DEF JoinInv, RoamBounded, StaDelHead, Writing
  <2> QED
    BY <2>1, <2>2, <2>3, <2>4, <2>5 DEF JoinInv
<1> QED
  BY <1>1, <1>2, <1>3

LEMMA ScanSteps ==
    ASSUME JoinInv,
           ScanRefuse \/ ScanBusy \/ ScanAccept \/ ScanSubmit \/ ScanDone \/ ScanAbort
    PROVE  JoinInv'
<1>0. mlme \in Mlme /\ OtherTypes
  BY DEF JoinInv
<1>1. CASE ScanRefuse
  <2>1. OtherTypes'
    BY <1>0, <1>1 DEF ScanRefuse, OtherTypes, UserSteps
  <2> QED
    BY <1>1, <2>1, Untouched DEF ScanRefuse, Drives
<1>2. CASE ScanBusy
  <2>1. OtherTypes'
    BY <1>0, <1>2 DEF ScanBusy, OtherTypes, UserSteps
  <2> QED
    BY <1>2, <2>1, Untouched DEF ScanBusy, Drives
<1>3. CASE ScanAccept
  <2>1. OtherTypes'
    BY <1>0, <1>3 DEF ScanAccept, OtherTypes, UserSteps
  <2> QED
    BY <1>3, <2>1, Untouched DEF ScanAccept, Drives
<1>4. CASE ScanSubmit
  <2>1. PICK r \in rtw_sitesurvey_cmd(mlme) :
          mlme' = r.s /\ scan' = [scan EXCEPT !.asked = r.ok /\ @]
    BY <1>4 DEF ScanSubmit
  <2>2. r.ok \in BOOLEAN /\ Keeps(mlme, mlme')
    BY <1>0, <2>1, SitesurveyKeeps
  <2>3. (r.ok /\ scan.asked) \in BOOLEAN
    OBVIOUS
  <2>4. scan' \in [request : BOOLEAN, asked : BOOLEAN]
    BY <1>0, <2>1, <2>3 DEF OtherTypes
  <2>5. OtherTypes'
    BY <1>0, <1>4, <2>4 DEF ScanSubmit, OtherTypes, UserSteps
  <2> QED
    BY <1>4, <2>2, <2>5, Kept DEF ScanSubmit, Drives
<1>5. CASE ScanDone
  <2>1. OtherTypes'
    BY <1>0, <1>5 DEF ScanDone, IndicateScanDone, OtherTypes, UserSteps
  <2> QED
    BY <1>5, <2>1, Untouched DEF ScanDone, Drives
<1>6. CASE ScanAbort
  <2>1. scan' \in [request : BOOLEAN, asked : BOOLEAN]
    <3>1. scan' = scan \/ scan' = [request |-> FALSE, asked |-> FALSE]
      BY <1>6 DEF ScanAbort, IndicateScanDone
    <3>2. scan \in [request : BOOLEAN, asked : BOOLEAN]
      BY <1>0 DEF OtherTypes
    <3>3. CASE scan' = [request |-> FALSE, asked |-> FALSE]
      BY <3>3
    <3> QED
      BY <3>1, <3>2, <3>3
  <2>2. OtherTypes' /\ (Drives => Drives')
    BY <1>0, <1>6, <2>1 DEF ScanAbort, OtherTypes, UserSteps, Survey, Drives
  <2> QED
    BY <1>6, <2>2, Untouched DEF ScanAbort
<1> QED
  BY <1>1, <1>2, <1>3, <1>4, <1>5, <1>6

LEMMA ConnectSteps ==
    ASSUME JoinInv, ConnectCheck \/ ConnectBadCipher \/ ConnectSet \/ ConnectReturn
    PROVE  JoinInv'
<1>0. mlme \in Mlme /\ OtherTypes
  BY DEF JoinInv
<1>1. CASE ConnectCheck
  <2>1. /\ survey' \in Survey /\ survey'.state = survey.state /\ survey'.timer = survey.timer
        /\ survey'.channel_idx = survey.channel_idx
    <3>1. survey \in Survey
      BY <1>0 DEF OtherTypes
    <3>2. survey' = survey \/ survey' = [survey EXCEPT !.scan_abort = TRUE]
      BY <1>1 DEF ConnectCheck
    <3> QED
      BY <3>1, <3>2 DEF Survey
  <2>2. user' \in {"connect_fail", "connect_set", "connect_abort"} /\ user = "connect"
    BY <1>1 DEF ConnectCheck
  <2>3. UNCHANGED <<mlme, ext, cmd, scan, report, timeout, events>>
    BY <1>1 DEF ConnectCheck
  <2>4. OtherTypes'
    BY <1>0, <2>1, <2>2, <2>3 DEF OtherTypes, UserSteps
  <2>5. Drives => Drives'
    BY <2>1, <2>2, <2>3 DEF Drives
  <2> QED
    BY <2>2, <2>3, <2>4, <2>5, Untouched
<1>2. CASE ConnectBadCipher
  <2>1. OtherTypes'
    BY <1>0, <1>2 DEF ConnectBadCipher, OtherTypes, UserSteps
  <2>2. Keeps(mlme, mlme')
    BY <1>0, <1>2, SmeKeeps DEF ConnectBadCipher
  <2> QED
    BY <1>2, <2>1, <2>2, Kept DEF ConnectBadCipher, Drives
<1>3. CASE ConnectSet
  <2>1. user' \in {"connect_fail", "connect_ok"}
    BY <1>3 DEF ConnectSet
  <2>2. OtherTypes'
    BY <1>0, <1>3, <2>1 DEF ConnectSet, OtherTypes, UserSteps
  <2>3. \/ mlme' = mlme \/ mlme' = [mlme EXCEPT !.to_join = TRUE]
        \/ \E r \in rtw_do_join(mlme) : mlme' = r.s
    BY <1>3 DEF ConnectSet
  <2>4. CASE mlme' = mlme
    BY <1>3, <2>2, <2>4, Untouched DEF ConnectSet, Drives
  <2>5. CASE mlme' = [mlme EXCEPT !.to_join = TRUE]
    <3>1. Keeps(mlme, mlme')
      BY <1>0, <2>5, ToJoinKeeps
    <3> QED
      BY <1>3, <2>2, <3>1, Kept DEF ConnectSet, Drives
  <2>6. CASE \E r \in rtw_do_join(mlme) : mlme' = r.s
    <3>1. Grows(mlme, mlme') /\ Timed(mlme')
      BY <1>0, <2>6, DoJoinTimed
    <3> QED
      BY <1>3, <2>2, <3>1, Grown DEF ConnectSet, Drives
  <2> QED
    BY <2>3, <2>4, <2>5, <2>6
<1>4. CASE ConnectReturn
  <2> DEFINE d == [mlme EXCEPT !.not_indic_disco = FALSE]
  <2>1. OtherTypes'
    BY <1>0, <1>4 DEF ConnectReturn, OtherTypes, UserSteps
  <2>2. Keeps(mlme, d) /\ d \in Mlme
    <3>1. d \in Mlme /\ d.fw = mlme.fw /\ Alike(mlme, d)
      BY <1>0 DEF Mlme, Alike
    <3> QED
      BY <1>0, <3>1, SameCommands
  <2>3. mlme' = d \/ mlme' = Sme(d, "idle")
    BY <1>4 DEF ConnectReturn
  <2> HIDE DEF d
  <2>4. Keeps(mlme, mlme')
    BY <2>2, <2>3, SmeKeeps, KeepsTrans
  <2> QED
    BY <1>4, <2>1, <2>4, Kept DEF ConnectReturn, Drives
<1> QED
  BY <1>1, <1>2, <1>3, <1>4

LEMMA LeaveSteps ==
    ASSUME JoinInv,
           DisconnectClear \/ DisconnectHdl \/ DisconnectIndicate \/ DisconnectReturn
    PROVE  JoinInv'
<1>0. mlme \in Mlme /\ OtherTypes
  BY DEF JoinInv
<1>1. CASE DisconnectHdl
  <2>1. ext' \in Ext
    <3>1. ExtReset \in Ext
      BY RetryLimitAssumption DEF ExtReset, Ext
    <3> QED
      BY <1>0, <1>1, <3>1 DEF DisconnectHdl, OtherTypes
  <2>2. OtherTypes'
    BY <1>0, <1>1, <2>1 DEF DisconnectHdl, OtherTypes, UserSteps
  <2> QED
    BY <1>1, <2>2, Untouched DEF DisconnectHdl, Drives
<1>2. CASE DisconnectIndicate
  <2>1. OtherTypes'
    BY <1>0, <1>2 DEF DisconnectIndicate, OtherTypes, UserSteps
  <2>2. Keeps(mlme, mlme')
    BY <1>0, <1>2, DisconnectKeeps DEF DisconnectIndicate
  <2> QED
    BY <1>2, <2>1, <2>2, Kept DEF DisconnectIndicate, Drives
<1>3. CASE DisconnectReturn
  <2> DEFINE f == rtw_free_assoc_resources(mlme)
             n == [f EXCEPT !.not_indic_disco = FALSE]
  <2>1. OtherTypes'
    BY <1>0, <1>3 DEF DisconnectReturn, OtherTypes, UserSteps
  <2>2. Keeps(mlme, f) /\ f \in Mlme
    BY <1>0, FreeScanKeeps DEF Keeps, Grows
  <2>3. mlme' = Sme(n, "idle")
    BY <1>3 DEF DisconnectReturn
  <2> HIDE DEF f
  <2>4. Keeps(f, n) /\ n \in Mlme
    <3>1. n \in Mlme /\ n.fw = f.fw /\ Alike(f, n)
      BY <2>2 DEF Mlme, Alike
    <3> QED
      BY <2>2, <3>1, SameCommands
  <2> HIDE DEF n
  <2>5. Keeps(mlme, mlme')
    <3>1. Keeps(n, mlme')
      BY <2>3, <2>4, SmeKeeps
    <3> QED
      BY <2>2, <2>4, <3>1, KeepsTrans
  <2> QED
    BY <1>3, <2>1, <2>5, Kept DEF DisconnectReturn, Drives
<1>4. CASE DisconnectClear
  <2>1. mlme' \in Zeroed(mlme) /\ ~mlme'.zeroing
    BY <1>4 DEF DisconnectClear
  <2>2. Keeps(mlme, mlme')
    BY <1>0, <2>1, ZeroedKeeps
  <2>3. OtherTypes' /\ (Drives => Drives') /\ UNCHANGED <<cmd, timeout>>
    BY <1>0, <1>4 DEF DisconnectClear, OtherTypes, UserSteps, Survey, Drives
  <2>4. LinkingGuarded'
    BY <2>2, <2>3 DEF JoinInv, LinkingGuarded, Keeps
  <2>5. ScanNotForgotten'
    <3>1. (ScanDriven <=> Drives \/ Carried(mlme))
          /\ (ScanDriven' <=> Drives' \/ Carried(mlme'))
      BY DEF ScanDriven, Drives
    <3>2. (Timing(mlme) <=> mlme.scan_to_timer \/ mlme.orphaned)
          /\ (Timing(mlme') <=> mlme'.scan_to_timer \/ mlme'.orphaned)
      BY DEF Timing
    <3> QED
      BY <2>2, <2>3, <3>1, <3>2 DEF JoinInv, ScanNotForgotten, Keeps, Grows, Follows
  <2>6. RoamBounded' /\ StaDelHead'
    BY <2>2, <2>3 DEF JoinInv, RoamBounded, Bounded, StaDelHead, Keeps, Grows, Follows
  <2> QED
    BY <2>1, <2>2, <2>3, <2>4, <2>5, <2>6 DEF JoinInv, Writing, Keeps, Grows
<1> QED
  BY <1>1, <1>2, <1>3, <1>4

-----------------------------------------------------------------------------
(* The command thread.                                                     *)

LEMMA IndicateScanDoneType ==
    ASSUME scan \in [request : BOOLEAN, asked : BOOLEAN], IndicateScanDone
    PROVE  scan' \in [request : BOOLEAN, asked : BOOLEAN]
<1>1. CASE scan' = [request |-> FALSE, asked |-> FALSE]
  BY <1>1
<1> QED
  BY <1>1 DEF IndicateScanDone

LEMMA ExtTypes ==
    /\ ExtReset \in Ext
    /\ \A st \in {"NULL", "ASSOC_SUCCESS"} \cup Linking :
         [state |-> st, link_timer |-> TRUE, retries |-> 0] \in Ext
BY RetryLimitAssumption DEF ExtReset, Ext

LEMMA JoinCommands ==
    ASSUME JoinInv, JoinHdl \/ JoinStart \/ DisconnectCmd
    PROVE  JoinInv'
<1>0. mlme \in Mlme /\ OtherTypes
  BY DEF JoinInv
<1>1. CASE JoinHdl \/ DisconnectCmd
  <2>1. /\ mlme.cmds # <<>> /\ Head(mlme.cmds) \notin {"sitesurvey", "surveydone"}
        /\ mlme' = Dequeued
    BY <1>1 DEF JoinHdl, DisconnectCmd, Dequeue
  <2>2. Follows(mlme, mlme') /\ mlme'.fw = mlme.fw /\ mlme'.assoc_timer = mlme.assoc_timer
    BY <1>0, <2>1, DequeuedFollows, DequeuedType
  <2>3. OtherTypes' /\ cmd' # "stadel" /\ UNCHANGED <<user, timeout>> /\ (Drives => Drives')
    BY <1>0, <1>1, ExtTypes
       DEF JoinHdl, DisconnectCmd, Dequeue, OtherTypes, CmdSteps, Drives
  <2>4. Timed(mlme') \/ timeout' # "idle"
    BY <2>2, <2>3 DEF JoinInv, LinkingGuarded, Timed
  <2> QED
    BY <2>2, <2>3, <2>4, Taken
<1>2. CASE JoinStart
  <2>1. ext' \in Ext
    <3>1. [state |-> "AUTH_NULL", link_timer |-> TRUE, retries |-> 0] \in Ext
      BY ExtTypes DEF Linking
    <3>2. ext \in Ext
      BY <1>0 DEF OtherTypes
    <3> QED
      BY <1>2, <3>1, <3>2 DEF JoinStart
  <2>2. OtherTypes' /\ cmd' # "stadel" /\ timeout' = timeout /\ (Drives => Drives')
    BY <1>0, <1>2, <2>1 DEF JoinStart, OtherTypes, CmdSteps, Drives
  <2>3. \/ mlme' = mlme
        \/ mlme' \in rtw_joinbss_event_prehandle(mlme, "fail")
        \/ mlme' = [mlme EXCEPT !.assoc_timer = TRUE]
    BY <1>2 DEF JoinStart
  <2>4. Grows(mlme, mlme') /\ (Timed(mlme') \/ timeout' # "idle")
    <3>1. CASE mlme' \in rtw_joinbss_event_prehandle(mlme, "fail")
      BY <1>0, <2>2, <3>1, PrehandleTimed DEF JoinInv, LinkingGuarded, Timed
    <3>2. CASE mlme' = [mlme EXCEPT !.assoc_timer = TRUE]
      BY <1>0, <3>2, ArmGrows
    <3>3. CASE mlme' = mlme
      BY <1>0, <2>2, <3>3, KeepsSelf DEF JoinInv, LinkingGuarded, Timed
    <3> QED
      BY <2>3, <3>1, <3>2, <3>3
  <2> QED
    BY <1>2, <2>2, <2>4, Grown DEF JoinStart
<1> QED
  BY <1>1, <1>2

\* One link of the chain: the command is replaced by the timer or the event.
LEMMA SurveyHdlStep ==
    ASSUME JoinInv, SurveyHdl
    PROVE  JoinInv'
<1> USE ChNumAssumption, MaxEventsAssumption
<1> DEFINE idx == IF survey.state = "DISABLE" THEN 0 ELSE survey.channel_idx
<1>0. mlme \in Mlme /\ OtherTypes
  BY DEF JoinInv
<1>1. /\ Dequeued \in Mlme /\ Dequeued.fw = mlme.fw
      /\ Dequeued.assoc_timer = mlme.assoc_timer /\ Dequeued.zeroing = mlme.zeroing
      /\ Timing(Dequeued) <=> Timing(mlme)
      /\ Bounded(Dequeued) <=> Bounded(mlme)
  BY <1>0, DequeuedType DEF SurveyHdl, Dequeue
<1>2. Keeps(Dequeued, mlme') /\ (Drives' \/ Carried(mlme') \/ mlme'.broken)
  <2>1. CASE mlme' = Dequeued /\ survey'.state # "DISABLE" /\ survey'.timer
    BY <1>1, <2>1, KeepsSelf DEF Drives
  <2>2. CASE mlme' = rtw_enqueue_cmd(Dequeued, "surveydone")
    BY <1>1, <2>2, EnqueueKeeps DEF Commands
  <2>3. CASE mlme' = PostLost(Dequeued)
    BY <1>1, <2>3, PostLostKeeps
  <2>4. survey \in Survey
    BY <1>0 DEF OtherTypes
  <2> QED
    BY <2>1, <2>2, <2>3, <2>4 DEF SurveyHdl, Survey
<1>3. survey' \in Survey
      /\ (survey'.timer /\ survey'.state = "PROCESS" => survey'.channel_idx < ChNum)
  <2>1. survey \in Survey
    BY <1>0 DEF OtherTypes
  <2>2. idx \in 0 .. ChNum
    BY <2>1 DEF Survey
  <2>3. CASE survey' = [survey EXCEPT !.state = "TXNULL", !.channel_idx = 0, !.timer = TRUE]
    <3>1. 0 \in 0 .. ChNum
      OBVIOUS
    <3> QED
      BY <2>1, <2>3, <3>1 DEF Survey
  <2>4. CASE idx < ChNum /\ survey' = [survey EXCEPT !.state = "PROCESS",
                                                     !.channel_idx = idx, !.timer = TRUE]
    <3> HIDE DEF idx
    <3> QED
      BY <2>1, <2>2, <2>4 DEF Survey
  <2>5. CASE survey' = [survey EXCEPT !.state = "DISABLE"]
    BY <2>1, <2>5 DEF Survey
  <2> QED
    BY <2>3, <2>4, <2>5 DEF SurveyHdl
<1>4. OtherTypes' /\ cmd' # "stadel" /\ UNCHANGED <<user, timeout>>
  <2>1. events' \in 0 .. MaxEvents
    BY <1>0 DEF SurveyHdl, Event, OtherTypes
  <2> QED
    BY <1>0, <1>3, <2>1 DEF SurveyHdl, Dequeue, OtherTypes
<1>5. mlme' \in Mlme
  BY <1>2 DEF Keeps, Grows
<1>6. ScanNotForgotten'
  <2>1. "UNDER_SURVEY" \in mlme'.fw /\ ("UNDER_SURVEY" \in mlme.fw => Timing(mlme))
           => Timing(mlme')
    BY <1>1, <1>2 DEF Keeps, Grows, Follows
  <2>2. "UNDER_SURVEY" \in mlme.fw => Timing(mlme)
    BY DEF JoinInv, ScanNotForgotten, Timing
  <2> QED
    BY <1>2, <2>1, <2>2 DEF ScanNotForgotten, ScanDriven, Drives, Timing
<1>7. LinkingGuarded'
  BY <1>1, <1>2, <1>4 DEF JoinInv, LinkingGuarded, Keeps
<1>8. RoamBounded' /\ Writing'
  BY <1>1, <1>2, <1>4
     DEF JoinInv, RoamBounded, Writing, Bounded, Keeps, Grows, Follows
<1> QED
  BY <1>4, <1>5, <1>6, <1>7, <1>8 DEF JoinInv, StaDelHead

LEMMA SurveyEvents ==
    ASSUME JoinInv,
           SurveyEvent \/ SurveyDoneClear \/ SurveyDoneCancel
             \/ SurveyDoneJoin \/ SurveyDoneIndicate
    PROVE  JoinInv'
<1>0. mlme \in Mlme /\ OtherTypes
  BY DEF JoinInv
<1>1. CASE SurveyEvent
  <2>1. mlme.cmds # <<>> /\ Head(mlme.cmds) \notin {"sitesurvey", "surveydone"}
    BY <1>1 DEF SurveyEvent, Dequeue
  <2>2. /\ Dequeued \in Mlme /\ Dequeued.fw = mlme.fw
        /\ Dequeued.assoc_timer = mlme.assoc_timer /\ Follows(mlme, Dequeued)
    BY <1>0, <2>1, DequeuedFollows, DequeuedType
  <2>3. Keeps(Dequeued, mlme')
    <3>1. mlme' = Dequeued \/ mlme' = [Dequeued EXCEPT !.scanned = TRUE]
      BY <1>1 DEF SurveyEvent
    <3> HIDE DEF Dequeued
    <3>2. mlme' \in Mlme /\ Alike(Dequeued, mlme') /\ mlme'.fw = Dequeued.fw
      BY <2>2, <3>1 DEF Mlme, Alike
    <3> QED
      BY <2>2, <3>2, SameCommands
  <2>4. OtherTypes' /\ cmd' # "stadel" /\ UNCHANGED <<user, timeout>> /\ (Drives => Drives')
    BY <1>0, <1>1 DEF SurveyEvent, Dequeue, OtherTypes, Drives
  <2>5. Follows(mlme, mlme') /\ (Timed(mlme') \/ timeout' # "idle")
    BY <2>2, <2>3, <2>4, FollowsGrows DEF JoinInv, LinkingGuarded, Timed, Keeps
  <2> QED
    BY <2>4, <2>5, Taken
<1>2. CASE SurveyDoneClear
  <2>1. /\ Dequeued \in Mlme /\ Dequeued.fw = mlme.fw
        /\ Dequeued.assoc_timer = mlme.assoc_timer /\ Dequeued.zeroing = mlme.zeroing
        /\ Bounded(Dequeued) <=> Bounded(mlme)
    BY <1>0, <1>2, DequeuedType DEF SurveyDoneClear, Dequeue
  <2>2. /\ mlme' \in Mlme /\ mlme'.fw = Dequeued.fw \ {"UNDER_SURVEY"}
        /\ Alike(Dequeued, mlme')
    BY <1>2, <2>1, FlagTypes DEF SurveyDoneClear, FwState
  <2>3. OtherTypes' /\ cmd' # "stadel" /\ UNCHANGED <<user, timeout>>
    BY <1>0, <1>2 DEF SurveyDoneClear, OtherTypes, CmdSteps
  <2>4. ScanNotForgotten'
    BY <2>2 DEF ScanNotForgotten
  <2>5. LinkingGuarded'
    BY <2>1, <2>2, <2>3 DEF JoinInv, LinkingGuarded, Alike
  <2>6. RoamBounded' /\ Writing'
    BY <2>1, <2>2, <2>3 DEF JoinInv, RoamBounded, Bounded, Writing, Alike
  <2> QED
    BY <2>2, <2>3, <2>4, <2>5, <2>6 DEF JoinInv, StaDelHead
<1>3. CASE SurveyDoneCancel
  <2> DEFINE o == "UNDER_SURVEY" \in mlme.fw
  <2>1. o \in BOOLEAN
    OBVIOUS
  <2>2. mlme' = [mlme EXCEPT !.scan_to_timer = FALSE, !.orphaned = o]
    BY <1>3 DEF SurveyDoneCancel
  <2>3. o <=> "UNDER_SURVEY" \in mlme.fw
    OBVIOUS
  <2> HIDE DEF o
  <2>4. /\ mlme' \in Mlme /\ mlme'.cmds = mlme.cmds /\ mlme'.fw = mlme.fw
        /\ mlme'.assoc_timer = mlme.assoc_timer /\ mlme'.broken = mlme.broken
        /\ mlme'.orphaned = o /\ mlme'.zeroing = mlme.zeroing
        /\ mlme'.to_roam = mlme.to_roam /\ mlme'.raced = mlme.raced
    BY <1>0, <2>1, <2>2 DEF Mlme
  <2>5. /\ "UNDER_SURVEY" \in mlme'.fw => Timing(mlme')
        /\ Bounded(mlme) => Bounded(mlme')
    BY <2>3, <2>4 DEF Timing, Bounded
  <2>6. Keeps(mlme, mlme')
    BY <1>0, <2>4, <2>5, Altered
  <2>7. OtherTypes' /\ cmd' # "stadel"
    BY <1>0, <1>3 DEF SurveyDoneCancel, OtherTypes, CmdSteps
  <2> QED
    BY <1>3, <2>6, <2>7, Kept DEF SurveyDoneCancel, Drives
<1>4. CASE SurveyDoneJoin
  <2>1. OtherTypes' /\ cmd' # "stadel"
    BY <1>0, <1>4 DEF SurveyDoneJoin, OtherTypes, CmdSteps
  <2>2. mlme' = mlme \/ mlme' \in JoinScanned(mlme)
    BY <1>4 DEF SurveyDoneJoin
  <2>3. CASE mlme' = mlme
    BY <1>4, <2>1, <2>3, Untouched DEF SurveyDoneJoin, Drives
  <2>4. CASE mlme' \in JoinScanned(mlme)
    <3>1. Grows(mlme, mlme') /\ Timed(mlme')
      BY <1>0, <2>4, JoinScannedTimed
    <3> QED
      BY <1>4, <2>1, <3>1, Grown DEF SurveyDoneJoin, Drives
  <2> QED
    BY <2>2, <2>3, <2>4
<1>5. CASE SurveyDoneIndicate
  <2>1. OtherTypes' /\ cmd' # "stadel"
    BY <1>0, <1>5, IndicateScanDoneType DEF SurveyDoneIndicate, OtherTypes, CmdSteps
  <2> QED
    BY <1>5, <2>1, Untouched DEF SurveyDoneIndicate, Drives
<1> QED
  BY <1>1, <1>2, <1>3, <1>4, <1>5

LEMMA StaDelSteps ==
    ASSUME JoinInv, StaDel \/ StaDelRoam \/ LinkExpires
    PROVE  JoinInv'
<1> USE MaxEventsAssumption
<1>0. mlme \in Mlme /\ OtherTypes
  BY DEF JoinInv
<1>1. CASE StaDel
  <2>1. OtherTypes'
    BY <1>0, <1>1, ExtTypes DEF StaDel, OtherTypes, CmdSteps
  <2>2. StaDelHead'
    BY <1>1 DEF StaDel, Dequeue, StaDelHead
  <2>3. LinkingGuarded' /\ ScanNotForgotten' /\ mlme' \in Mlme
    BY <1>1 DEF StaDel, JoinInv, LinkingGuarded, ScanNotForgotten, ScanDriven
  <2>4. RoamBounded' /\ Writing'
    BY <1>1 DEF StaDel, JoinInv, RoamBounded, Writing
  <2> QED
    BY <2>1, <2>2, <2>3, <2>4 DEF JoinInv
<1>2. CASE StaDelRoam
  <2> DEFINE expired == Head(mlme.cmds) = "del_expired"
             Down(x) == rtw_indicate_disconnect(rtw_free_assoc_resources(x))
  <2>1. mlme.cmds # <<>> /\ Head(mlme.cmds) \notin {"sitesurvey", "surveydone"}
    BY <1>2 DEF StaDelRoam, JoinInv, StaDelHead
  <2>2. PICK b \in RoamBudget(Dequeued, expired) :
          \E z \in Zeroed(b) : \E u \in Zeroed(Down(z)) : mlme' \in _rtw_roaming(u)
    BY <1>2 DEF StaDelRoam
  <2>3. PICK z \in Zeroed(b) : \E u \in Zeroed(Down(z)) : mlme' \in _rtw_roaming(u)
    BY <2>2
  <2>4. PICK u \in Zeroed(Down(z)) : mlme' \in _rtw_roaming(u)
    BY <2>3
  <2>5. Dequeued \in Mlme /\ Follows(mlme, Dequeued)
    BY <1>0, <2>1, DequeuedFollows, DequeuedType
  <2>6. expired \in BOOLEAN
    OBVIOUS
  <2> HIDE DEF expired, Down
  <2>7. Grows(Dequeued, b) /\ b \in Mlme
    BY <2>2, <2>5, <2>6, RoamBudgetKeeps DEF Keeps, Grows
  <2>8. Grows(b, z) /\ z \in Mlme
    BY <2>3, <2>7, ZeroedKeeps DEF Keeps, Grows
  <2>9. Grows(z, Down(z)) /\ Down(z) \in Mlme /\ "UNDER_LINKING" \notin Down(z).fw
    <3> DEFINE f == rtw_free_assoc_resources(z)
    <3>1. Grows(z, f) /\ f \in Mlme
      BY <2>8, FreeScanKeeps DEF Keeps, Grows
    <3> HIDE DEF f
    <3>2. /\ Grows(f, rtw_indicate_disconnect(f)) /\ rtw_indicate_disconnect(f) \in Mlme
          /\ "UNDER_LINKING" \notin rtw_indicate_disconnect(f).fw
      BY <3>1, DisconnectKeeps DEF Keeps, Grows
    <3>3. Down(z) = rtw_indicate_disconnect(f)
      BY DEF Down, f
    <3> QED
      BY <3>1, <3>2, <3>3, GrowsTrans
  <2>10. Grows(Down(z), u) /\ u \in Mlme /\ Timed(u)
    BY <2>4, <2>9, ZeroedKeeps DEF Keeps, Grows, Timed
  <2>11. Grows(u, mlme') /\ Timed(mlme')
    BY <2>4, <2>10, RoamingTimed
  <2>12. Grows(Dequeued, mlme')
    <3>1. Grows(Dequeued, Down(z))
      BY <2>7, <2>8, <2>9, GrowsTrans
    <3>2. Grows(Down(z), mlme')
      BY <2>10, <2>11, GrowsTrans
    <3> QED
      BY <3>1, <3>2, GrowsTrans
  <2>13. Follows(mlme, mlme')
    BY <2>5, <2>12, FollowsGrows
  <2>14. OtherTypes' /\ cmd' # "stadel" /\ (Drives => Drives') /\ user' = user
    BY <1>0, <1>2 DEF StaDelRoam, OtherTypes, CmdSteps, Drives
  <2> QED
    BY <2>11, <2>13, <2>14, Taken
<1>3. CASE LinkExpires
  <2>1. events' \in 0 .. MaxEvents
    BY <1>0, <1>3 DEF LinkExpires, Event, OtherTypes
  <2>2. OtherTypes'
    BY <1>0, <1>3, <2>1 DEF LinkExpires, OtherTypes, Ext
  <2>3. Keeps(mlme, mlme')
    BY <1>0, <1>3, EnqueueKeeps, KeepsSelf DEF LinkExpires, Commands
  <2> QED
    BY <1>3, <2>2, <2>3, Kept DEF LinkExpires, Drives
<1> QED
  BY <1>1, <1>2, <1>3

-----------------------------------------------------------------------------
(* The RX tasklet and the timers.                                          *)

LEMMA RadioSteps ==
    ASSUME JoinInv, Radio
    PROVE  JoinInv'
<1> USE MaxEventsAssumption
<1>0. mlme \in Mlme /\ OtherTypes
  BY DEF JoinInv
<1>1. CASE BeaconScanned
  <2>1. Keeps(mlme, mlme')
    BY <1>0, <1>1, EnqueueKeeps DEF BeaconScanned, Commands
  <2>2. OtherTypes'
    BY <1>0, <1>1 DEF BeaconScanned, OtherTypes
  <2> QED
    BY <1>1, <2>1, <2>2, Kept DEF BeaconScanned, Drives
<1>2. CASE OnBeacon \/ OnAuthClient
  <2>1. ext' \in Ext
    <3>1. /\ [state |-> "AUTH_STATE", link_timer |-> TRUE, retries |-> 0] \in Ext
          /\ [state |-> "ASSOC_STATE", link_timer |-> TRUE, retries |-> 0] \in Ext
      BY ExtTypes DEF Linking
    <3> QED
      BY <1>2, <3>1 DEF OnBeacon, OnAuthClient
  <2>2. OtherTypes'
    BY <1>0, <1>2, <2>1 DEF OnBeacon, OnAuthClient, OtherTypes
  <2> QED
    BY <1>2, <2>2, Untouched DEF OnBeacon, OnAuthClient, Drives
<1>3. CASE OnAssocRsp
  <2>1. ext' \in Ext
    BY <1>0, <1>3 DEF OnAssocRsp, OtherTypes, Ext
  <2>2. report' \in [rx : {"none", "ok", "fail"}, link : {"none", "fail"}]
    BY <1>0, <1>3 DEF OnAssocRsp, OtherTypes
  <2>3. OtherTypes'
    BY <1>0, <1>3, <2>1, <2>2 DEF OnAssocRsp, OtherTypes
  <2> QED
    BY <1>3, <2>3, Untouched DEF OnAssocRsp, Drives
<1>4. CASE OnDeAuth
  <2>1. ext' \in Ext
    BY <1>0, <1>4 DEF OnDeAuth, OtherTypes, Ext
  <2>2. report' \in [rx : {"none", "ok", "fail"}, link : {"none", "fail"}]
    BY <1>0, <1>4 DEF OnDeAuth, OtherTypes
  <2>3. events' \in 0 .. MaxEvents
    BY <1>0, <1>4 DEF OnDeAuth, Event, OtherTypes
  <2>4. OtherTypes'
    BY <1>0, <1>4, <2>1, <2>2, <2>3 DEF OnDeAuth, OtherTypes
  <2>5. mlme' = mlme \/ mlme' = rtw_enqueue_cmd(mlme, "del_left")
    BY <1>4 DEF OnDeAuth
  <2>6. Keeps(mlme, mlme')
    BY <1>0, <2>5, EnqueueKeeps, KeepsSelf DEF Commands
  <2> QED
    BY <1>4, <2>4, <2>6, Kept DEF OnDeAuth, Drives
<1> QED
  BY <1>1, <1>2, <1>3, <1>4 DEF Radio

LEMMA ReportSteps ==
    ASSUME JoinInv, ReportRx \/ ReportLink
    PROVE  JoinInv'
<1>0. mlme \in Mlme /\ OtherTypes
  BY DEF JoinInv
<1>1. Grows(mlme, mlme') /\ (mlme' = mlme \/ "UNDER_LINKING" \notin mlme'.fw)
  <2>1. CASE mlme' = mlme
    BY <1>0, <2>1, KeepsSelf
  <2> QED
    BY <1>0, <2>1, PrehandleTimed DEF ReportRx, ReportLink
<1>2. timeout' \in {timeout, "deadlock"}
  BY DEF ReportRx, ReportLink
<1>3. report' \in [rx : {"none", "ok", "fail"}, link : {"none", "fail"}]
  BY <1>0 DEF ReportRx, ReportLink, OtherTypes
<1>4. OtherTypes' /\ UNCHANGED <<cmd, user>> /\ (Drives => Drives')
  BY <1>0, <1>2, <1>3 DEF ReportRx, ReportLink, OtherTypes, Drives
<1>5. Timed(mlme') \/ timeout' # "idle"
  BY <1>1, <1>2 DEF JoinInv, LinkingGuarded, Timed
<1> QED
  BY <1>1, <1>4, <1>5, Grown

LEMMA LinkTimerStep ==
    ASSUME JoinInv, LinkTimer
    PROVE  JoinInv'
<1>0. mlme \in Mlme /\ OtherTypes
  BY DEF JoinInv
<1>1. ext' \in Ext
  <2>1. ext \in Ext
    BY <1>0 DEF OtherTypes
  <2>2. CASE ext' = [ext EXCEPT !.state = "NULL", !.link_timer = FALSE]
    BY <2>1, <2>2 DEF Ext
  <2>3. CASE ext' = [ext EXCEPT !.link_timer = FALSE]
    BY <2>1, <2>3 DEF Ext
  <2>4. CASE /\ ext' = [ext EXCEPT !.retries = @ + 1]
             /\ ~(ext.retries + 1 > RetryLimit)
    <3>1. ext.retries + 1 \in 0 .. RetryLimit
      BY <2>1, <2>4, RetryLimitAssumption DEF Ext
    <3> QED
      BY <2>1, <2>4, <3>1 DEF Ext
  <2> QED
    BY <2>2, <2>3, <2>4 DEF LinkTimer, Linking
<1>2. report' \in [rx : {"none", "ok", "fail"}, link : {"none", "fail"}]
  BY <1>0 DEF LinkTimer, OtherTypes
<1>3. OtherTypes'
  BY <1>0, <1>1, <1>2 DEF LinkTimer, OtherTypes
<1> QED
  BY <1>3, Untouched DEF LinkTimer, Drives

LEMMA SurveyTimerStep ==
    ASSUME JoinInv, SurveyTimer
    PROVE  JoinInv'
<1> USE ChNumAssumption, MaxEventsAssumption
<1>0. mlme \in Mlme /\ OtherTypes /\ survey \in Survey
  BY DEF JoinInv, OtherTypes
<1>1. CASE survey.state = "DISABLE"
  <2>1. survey' \in Survey /\ ~survey'.timer
    BY <1>0, <1>1 DEF SurveyTimer, Survey
  <2>2. OtherTypes'
    BY <1>0, <1>1, <2>1 DEF SurveyTimer, OtherTypes
  <2> QED
    BY <1>1, <2>2, Untouched DEF SurveyTimer, Drives
<1>2. CASE survey.state # "DISABLE"
  <2> DEFINE next == IF survey.scan_abort THEN ChNum
                     ELSE IF survey.state = "PROCESS" THEN survey.channel_idx + 1
                     ELSE survey.channel_idx
  <2>1. next \in 0 .. ChNum
    BY <1>0 DEF SurveyTimer, OtherTypes, Survey
  <2>2. /\ survey' = [survey EXCEPT !.timer = FALSE, !.channel_idx = next,
                                    !.scan_abort = FALSE]
        /\ mlme' = rtw_enqueue_cmd(mlme, "sitesurvey") \/ mlme' = PostLost(mlme)
        /\ events' \in 0 .. MaxEvents
    BY <1>0, <1>2 DEF SurveyTimer, Event, OtherTypes
  <2> HIDE DEF next
  <2>3. survey' \in Survey /\ ~survey'.timer
    BY <1>0, <2>1, <2>2 DEF Survey
  <2>4. OtherTypes'
    BY <1>0, <2>2, <2>3 DEF SurveyTimer, OtherTypes
  <2>5. Keeps(mlme, mlme') /\ (Carried(mlme') \/ mlme'.broken)
    BY <1>0, <2>2, EnqueueKeeps, PostLostKeeps DEF Commands
  <2> QED
    BY <2>4, <2>5, Kept DEF SurveyTimer
<1> QED
  BY <1>1, <1>2

LEMMA TimeoutSteps ==
    ASSUME JoinInv, ScanTimeout \/ AssocTimer \/ JoinTimeout
    PROVE  JoinInv'
<1> USE MaxEventsAssumption
<1>0. mlme \in Mlme /\ OtherTypes
  BY DEF JoinInv
<1>1. CASE ScanTimeout
  <2> DEFINE c == Clr(mlme, "UNDER_SURVEY")
  <2>1. c \in Mlme /\ Alike(mlme, c) /\ c.fw = mlme.fw \ {"UNDER_SURVEY"}
    BY <1>0, FlagTypes DEF FwState
  <2>2. mlme' = [c EXCEPT !.scan_to_timer = FALSE]
    BY <1>1 DEF ScanTimeout
  <2> HIDE DEF c
  <2>3. /\ mlme' \in Mlme /\ mlme'.cmds = c.cmds /\ mlme'.fw = c.fw
        /\ mlme'.assoc_timer = c.assoc_timer /\ mlme'.zeroing = c.zeroing
        /\ mlme'.to_roam = c.to_roam /\ mlme'.raced = c.raced
    BY <2>1, <2>2 DEF Mlme
  <2>4. Bounded(mlme) => Bounded(mlme')
    BY <2>1, <2>3 DEF Bounded, Alike
  <2>5. Keeps(mlme, mlme')
    BY <1>0, <2>1, <2>3, <2>4, Altered DEF Alike
  <2>6. events' \in 0 .. MaxEvents
    BY <1>0, <1>1 DEF ScanTimeout, Event, OtherTypes
  <2>7. OtherTypes'
    BY <1>0, <1>1, <2>6, IndicateScanDoneType DEF ScanTimeout, OtherTypes
  <2> QED
    BY <1>1, <2>5, <2>7, Kept DEF ScanTimeout, Drives
<1>2. CASE AssocTimer
  <2>1. /\ mlme' \in Mlme /\ mlme'.cmds = mlme.cmds /\ mlme'.fw = mlme.fw
        /\ mlme'.scan_to_timer = mlme.scan_to_timer /\ mlme'.broken = mlme.broken
        /\ mlme'.orphaned = mlme.orphaned /\ mlme'.zeroing = mlme.zeroing
        /\ mlme'.to_roam = mlme.to_roam /\ mlme'.raced = mlme.raced
    BY <1>0, <1>2 DEF AssocTimer, Mlme
  <2>2. /\ Carried(mlme') <=> Carried(mlme)
        /\ Timing(mlme) => Timing(mlme')
        /\ Bounded(mlme) => Bounded(mlme')
    BY <2>1 DEF Carried, Timing, Bounded
  <2>3. Grows(mlme, mlme')
    BY <2>1, <2>2 DEF Grows, Follows
  <2>4. OtherTypes'
    BY <1>0, <1>2 DEF AssocTimer, OtherTypes
  <2> QED
    BY <1>2, <2>3, <2>4, Grown DEF AssocTimer, Drives
<1>3. CASE JoinTimeout
  <2>1. Grows(mlme, mlme') /\ Timed(mlme')
    BY <1>0, <1>3, JoinTimeoutTimed DEF JoinTimeout
  <2>2. OtherTypes'
    BY <1>0, <1>3 DEF JoinTimeout, OtherTypes
  <2> QED
    BY <1>3, <2>1, <2>2, Grown DEF JoinTimeout, Drives
<1> QED
  BY <1>1, <1>2, <1>3

-----------------------------------------------------------------------------
LEMMA JoinInit == Init => JoinInv
<1> SUFFICES ASSUME Init PROVE JoinInv
  OBVIOUS
<1> USE MaxRoamAssumption, RetryLimitAssumption, ChNumAssumption, MaxEventsAssumption
<1>1. mlme \in Mlme
  BY DEF Init, Mlme
<1>2. OtherTypes
  BY DEF Init, OtherTypes, Ext, Survey, CmdSteps, UserSteps
<1>3. LinkingGuarded /\ ScanNotForgotten /\ StaDelHead /\ Writing
  BY DEF Init, LinkingGuarded, ScanNotForgotten, StaDelHead, Writing
<1>4. RoamBounded
  BY DEF Init, RoamBounded
<1> QED
  BY <1>1, <1>2, <1>3, <1>4 DEF JoinInv

LEMMA JoinStep == JoinInv /\ [Next]_vars => JoinInv'
<1> SUFFICES ASSUME JoinInv, [Next]_vars PROVE JoinInv'
  OBVIOUS
<1>1. CASE UserScan \/ UserConnect \/ UserDisconnect
  BY <1>1, UserStarts
<1>2. CASE User
  BY <1>2, ScanSteps, ConnectSteps, LeaveSteps DEF User
<1>3. CASE Command \/ LinkExpires
  BY <1>3, JoinCommands, SurveyHdlStep, SurveyEvents, StaDelSteps DEF Command
<1>4. CASE Radio
  BY <1>4, RadioSteps
<1>5. CASE ReportRx \/ ReportLink
  BY <1>5, ReportSteps
<1>6. CASE LinkTimer \/ SurveyTimer
  BY <1>6, LinkTimerStep, SurveyTimerStep
<1>7. CASE ScanTimeout \/ AssocTimer \/ JoinTimeout
  BY <1>7, TimeoutSteps
<1>8. CASE UNCHANGED vars
  <2>1. OtherTypes' /\ (Drives => Drives')
    BY <1>8 DEF JoinInv, OtherTypes, Drives, vars
  <2> QED
    BY <1>8, <2>1, Untouched DEF vars
<1> QED
  BY <1>1, <1>2, <1>3, <1>4, <1>5, <1>6, <1>7, <1>8 DEF Next

\* The flags, budgets, timers and the command queue of the MLME keep their
\* types: the survey does not go beyond its channels nor the retries beyond
\* their limits, whatever order join results, timeouts and operations come in.
\* to_roam keeps that of a u8; how far it may count is RoamStaysBounded.
THEOREM TypeCorrect == Spec => []TypeOK
<1>1. JoinInv => TypeOK
  BY DEF JoinInv, OtherTypes, TypeOK
<1> QED
  BY <1>1, JoinInit, JoinStep, PTL DEF Spec

\* Whoever sets _FW_UNDER_LINKING, assoc_timer is armed or its handler is on
\* the way for as long as the flag is set, for any number of roaming attempts,
\* retries, channels and events.
THEOREM JoinIsGuarded == Spec => []LinkingGuarded
<1>1. JoinInv => LinkingGuarded
  BY DEF JoinInv
<1> QED
  BY <1>1, JoinInit, JoinStep, PTL DEF Spec

\* While _FW_UNDER_SURVEY is set the chain of survey commands and timers that
\* clears it is broken only by a post of its own that fails, and scan_to_timer
\* runs unless another scan's surveydone event cancelled it, however scans,
\* aborts, lost posts and scan timeouts overlap.
THEOREM ScanIsDriven == Spec => []ScanNotForgotten
<1>1. JoinInv => ScanNotForgotten
  BY DEF JoinInv
<1> QED
  BY <1>1, JoinInit, JoinStep, PTL DEF Spec

\* No sequence of lost links, join timeouts and scans takes to_roam beyond
\* max_roaming_times or counts it down past 0; only the unlocked write of
\* cfg80211_rtw_disconnect, when it meets a decrement, does.
THEOREM RoamStaysBounded == Spec => []RoamBounded
<1>1. JoinInv => RoamBounded
  BY DEF JoinInv
<1> QED
  BY <1>1, JoinInit, JoinStep, PTL DEF Spec

-----------------------------------------------------------------------------
(* A connection cfg80211 counts on is a link or is being worked at.  Every  *)
(* locked section that ends an attempt yields a state that Settles; every   *)
(* other one leaves what cfg80211 and the join depend on the Same.          *)

Settles(t) ==
    \/ t.sme = "idle" \/ t.muted \/ t.assoc_timer
    \/ t.to_join /\ Carried(t)

Same(s, t) ==
    /\ t.sme = s.sme /\ t.muted = s.muted
    /\ t.assoc_timer = s.assoc_timer /\ t.to_join = s.to_join
    /\ "LINKED" \in s.fw => "LINKED" \in t.fw
    /\ s.broken => t.broken \/ Carried(t)

LEMMA EnqueueSame ==
    ASSUME NEW s \in Mlme, NEW c
    PROVE  Same(s, rtw_enqueue_cmd(s, c))
<1> DEFINE t == rtw_enqueue_cmd(s, c)
<1>1. /\ t.sme = s.sme /\ t.muted = s.muted /\ t.fw = s.fw
      /\ t.assoc_timer = s.assoc_timer /\ t.to_join = s.to_join /\ t.broken = s.broken
  BY DEF rtw_enqueue_cmd, Mlme
<1> QED
  BY <1>1 DEF Same

LEMMA PostLostSame ==
    ASSUME NEW s \in Mlme
    PROVE  Same(s, PostLost(s)) /\ (PostLost(s).broken \/ Carried(PostLost(s)))
<1> DEFINE t == PostLost(s)
<1>1. /\ t.sme = s.sme /\ t.muted = s.muted /\ t.fw = s.fw
      /\ t.assoc_timer = s.assoc_timer /\ t.to_join = s.to_join
  BY DEF PostLost, Mlme
<1>2. t.broken \/ Carried(t)
  BY PostLostKeeps
<1> HIDE DEF t
<1>3. Same(s, t)
  BY <1>1, <1>2 DEF Same
<1> QED
  BY <1>2, <1>3 DEF t

\* A scan that is posted has its command; either way the join is not touched.
LEMMA SitesurveySame ==
    ASSUME NEW s \in Mlme, NEW r \in rtw_sitesurvey_cmd(s)
    PROVE  Same(s, r.s) /\ (r.ok => Carried(r.s))
<1> DEFINE Posted(t) == [rtw_enqueue_cmd(Set(t, "UNDER_SURVEY"), "sitesurvey")
                           EXCEPT !.scan_to_timer = TRUE,
                                  !.broken = FALSE, !.orphaned = FALSE]
<1>1. PICK t \in rtw_free_network_queue(s) :
        r \in {[ok |-> FALSE, s |-> t], [ok |-> TRUE, s |-> Posted(t)]}
  BY DEF rtw_sitesurvey_cmd
<1>2. /\ t \in Mlme /\ t.sme = s.sme /\ t.muted = s.muted /\ t.fw = s.fw
      /\ t.assoc_timer = s.assoc_timer /\ t.to_join = s.to_join /\ t.broken = s.broken
  <2>1. t = s \/ t = [s EXCEPT !.scanned = FALSE]
    BY DEF rtw_free_network_queue
  <2> QED
    BY <2>1 DEF Mlme
<1> DEFINE m == Set(t, "UNDER_SURVEY")
           e == rtw_enqueue_cmd(m, "sitesurvey")
<1>3. /\ m \in Mlme /\ m.sme = t.sme /\ m.muted = t.muted
      /\ m.fw = t.fw \cup {"UNDER_SURVEY"}
      /\ m.assoc_timer = t.assoc_timer /\ m.to_join = t.to_join
  BY <1>2 DEF Set, Mlme, FwState
<1> HIDE DEF m
<1>4. e \in Mlme /\ Carried(e) /\ Same(m, e)
  BY <1>3, EnqueueKeeps, EnqueueSame DEF Commands, Keeps, Grows
<1>5. Posted(t) = [e EXCEPT !.scan_to_timer = TRUE, !.broken = FALSE, !.orphaned = FALSE]
  BY DEF e, m
<1> HIDE DEF e, Posted
<1>6. /\ Posted(t).sme = e.sme /\ Posted(t).muted = e.muted
      /\ Posted(t).fw = e.fw /\ Posted(t).cmds = e.cmds
      /\ Posted(t).assoc_timer = e.assoc_timer /\ Posted(t).to_join = e.to_join
  BY <1>4, <1>5 DEF Mlme
<1>7. Same(s, Posted(t)) /\ Carried(Posted(t))
  BY <1>2, <1>3, <1>4, <1>6 DEF Same, Carried
<1>8. Same(s, t)
  BY <1>2 DEF Same
<1>9. CASE r = [ok |-> FALSE, s |-> t]
  BY <1>8, <1>9
<1>10. CASE r = [ok |-> TRUE, s |-> Posted(t)]
  BY <1>7, <1>10
<1> QED
  BY <1>1, <1>9, <1>10

\* Unless it is roaming, cfg80211 is told or kept from being told.
LEMMA DisconnectSettles ==
    ASSUME NEW s \in Mlme
    PROVE  /\ s.to_roam = 0 => Settles(rtw_indicate_disconnect(s))
           /\ rtw_indicate_disconnect(s).to_roam = s.to_roam
           /\ rtw_indicate_disconnect(s).to_join = s.to_join
<1> DEFINE down == [s EXCEPT !.fw = @ \ {"UNDER_LINKING", "LINKED"}]
           told == Sme(down, "idle")
           kept == [down EXCEPT !.muted = (down.sme # "idle")]
<1>1. down \in Mlme /\ down.to_roam = s.to_roam /\ down.to_join = s.to_join
  BY DEF Mlme
<1>2. \/ s.to_roam > 0 /\ rtw_indicate_disconnect(s) = down
      \/ rtw_indicate_disconnect(s) = told
      \/ rtw_indicate_disconnect(s) = kept
  BY DEF rtw_indicate_disconnect, rtw_cfg80211_indicate_disconnect
<1> HIDE DEF down
<1>3. told.sme = "idle" /\ told.to_roam = down.to_roam /\ told.to_join = down.to_join
  BY <1>1 DEF Sme, Mlme
<1>4. /\ kept.to_roam = down.to_roam /\ kept.to_join = down.to_join
      /\ kept.sme = "idle" \/ kept.muted
  BY <1>1 DEF Mlme
<1> HIDE DEF told, kept
<1>5. CASE s.to_roam > 0 /\ rtw_indicate_disconnect(s) = down
  BY <1>1, <1>5
<1>6. CASE rtw_indicate_disconnect(s) = told
  BY <1>1, <1>3, <1>6 DEF Settles
<1>7. CASE rtw_indicate_disconnect(s) = kept
  BY <1>1, <1>4, <1>7 DEF Settles
<1> QED
  BY <1>2, <1>5, <1>6, <1>7

LEMMA SelectToJoin ==
    ASSUME NEW s \in Mlme, NEW r \in rtw_select_and_join_from_scanned_queue(s)
    PROVE  r.s.to_join = s.to_join /\ r.s.to_roam = s.to_roam
<1> DEFINE Left(t) == rtw_free_assoc_resources(rtw_indicate_disconnect(t))
           Alive(t) == t \in Mlme /\ t.to_join = s.to_join /\ t.to_roam = s.to_roam
           e == rtw_enqueue_cmd(s, "disconnect")
           left == IF "LINKED" \in s.fw THEN {Left(s), Left(e)} ELSE {s}
           linking == {Set(t, "UNDER_LINKING") : t \in left}
<1>1. \/ r = [ok |-> FALSE, s |-> s]
      \/ \E t \in left : r = [ok |-> FALSE, s |-> Set(t, "UNDER_LINKING")]
      \/ \E t \in left :
           r = [ok |-> TRUE, s |-> rtw_enqueue_cmd(Set(t, "UNDER_LINKING"), "joinbss")]
  <2>1. r \in {[ok |-> FALSE, s |-> s]}
          \cup IF s.scanned
               THEN {[ok |-> FALSE, s |-> t] : t \in linking}
                      \cup {[ok |-> TRUE, s |-> rtw_enqueue_cmd(t, "joinbss")] :
                            t \in linking}
               ELSE {}
    BY DEF rtw_select_and_join_from_scanned_queue
  <2> HIDE DEF left
  <2> QED
    BY <2>1
<1>2. Alive(e)
  <2>1. e \in Mlme
    BY EnqueueKeeps DEF Commands, Keeps, Grows
  <2> QED
    BY <2>1 DEF rtw_enqueue_cmd, Mlme
<1>3. ASSUME NEW t, Alive(t)
      PROVE  Alive(Left(t))
  <2> DEFINE d == rtw_indicate_disconnect(t)
             f == rtw_free_assoc_resources(d)
  <2>1. d \in Mlme /\ d.to_join = s.to_join /\ d.to_roam = s.to_roam
    BY <1>3, DisconnectKeeps, DisconnectSettles DEF Keeps, Grows
  <2> HIDE DEF d
  <2>2. f \in Mlme /\ f.to_join = d.to_join /\ f.to_roam = d.to_roam
    BY <2>1 DEF rtw_free_assoc_resources, free_scanqueue, Mlme
  <2>3. f = Left(t)
    BY DEF f, d
  <2> HIDE DEF f, Left
  <2> QED
    BY <2>1, <2>2, <2>3
<1> HIDE DEF e, Left
<1>4. ASSUME NEW t \in left
      PROVE  Alive(t)
  BY <1>2, <1>3, <1>4
<1> HIDE DEF left
<1>5. ASSUME NEW t \in left
      PROVE  /\ Set(t, "UNDER_LINKING").to_join = s.to_join
             /\ Set(t, "UNDER_LINKING").to_roam = s.to_roam
             /\ rtw_enqueue_cmd(Set(t, "UNDER_LINKING"), "joinbss").to_join = s.to_join
             /\ rtw_enqueue_cmd(Set(t, "UNDER_LINKING"), "joinbss").to_roam = s.to_roam
  <2> DEFINE l == Set(t, "UNDER_LINKING")
  <2>1. Alive(t)
    BY <1>4, <1>5
  <2>2. l \in Mlme /\ l.to_join = t.to_join /\ l.to_roam = t.to_roam
    BY <2>1 DEF Set, Mlme, FwState
  <2> HIDE DEF l
  <2>3. /\ rtw_enqueue_cmd(l, "joinbss").to_join = l.to_join
        /\ rtw_enqueue_cmd(l, "joinbss").to_roam = l.to_roam
    BY <2>2 DEF rtw_enqueue_cmd, Mlme
  <2> QED
    BY <2>1, <2>2, <2>3 DEF l
<1>6. CASE r = [ok |-> FALSE, s |-> s]
  BY <1>6
<1>7. CASE \E t \in left : r = [ok |-> FALSE, s |-> Set(t, "UNDER_LINKING")]
  BY <1>5, <1>7
<1>8. CASE \E t \in left :
             r = [ok |-> TRUE, s |-> rtw_enqueue_cmd(Set(t, "UNDER_LINKING"), "joinbss")]
  BY <1>5, <1>8
<1> QED
  BY <1>1, <1>6, <1>7, <1>8

\* A join that succeeds has its timer, or a scan that to_join turns into one.
LEMMA DoJoinSettles ==
    ASSUME NEW s \in Mlme, NEW q \in rtw_do_join(s), q.ok
    PROVE  Settles(q.s)
<1> DEFINE flagged == Set(s, "UNDER_LINKING")
           wanted == [flagged EXCEPT !.to_join = TRUE]
           Sent(r) == [r.s EXCEPT !.to_join = FALSE, !.assoc_timer = TRUE]
           Scan(r) == rtw_sitesurvey_cmd(Clr(r.s, "UNDER_LINKING"))
<1>1. PICK r \in rtw_select_and_join_from_scanned_queue(wanted) :
        q \in IF r.ok
              THEN {[ok |-> TRUE, s |-> Sent(r)]}
              ELSE {IF p.ok THEN p
                            ELSE [ok |-> FALSE, s |-> [p.s EXCEPT !.to_join = FALSE]] :
                    p \in Scan(r)}
  BY DEF rtw_do_join
<1>2. wanted \in Mlme /\ wanted.to_join
  <2>1. flagged \in Mlme
    BY FlagTypes DEF FwState
  <2> HIDE DEF flagged
  <2> QED
    BY <2>1 DEF Mlme
<1> HIDE DEF wanted
<1>3. r.s \in Mlme /\ r.s.to_join
  BY <1>2, SelectGrows, SelectToJoin DEF Grows
<1>4. CASE r.ok
  <2>1. q = [ok |-> TRUE, s |-> Sent(r)]
    BY <1>1, <1>4
  <2>2. Sent(r).assoc_timer
    BY <1>3 DEF Mlme
  <2> HIDE DEF Sent
  <2> QED
    BY <2>1, <2>2 DEF Settles
<1>5. CASE ~r.ok
  <2> DEFINE c == Clr(r.s, "UNDER_LINKING")
  <2>1. PICK p \in Scan(r) :
          q = IF p.ok THEN p
                      ELSE [ok |-> FALSE, s |-> [p.s EXCEPT !.to_join = FALSE]]
    BY <1>1, <1>5
  <2>2. c \in Mlme /\ c.to_join
    BY <1>3 DEF Clr, Mlme
  <2> HIDE DEF c
  <2>3. p \in rtw_sitesurvey_cmd(c)
    BY <2>1 DEF c
  <2>4. Same(c, p.s) /\ (p.ok => Carried(p.s))
    BY <2>2, <2>3, SitesurveySame
  <2>5. p.ok
    <3>1. CASE ~p.ok
      <4>1. q = [ok |-> FALSE, s |-> [p.s EXCEPT !.to_join = FALSE]]
        BY <2>1, <3>1
      <4> QED
        BY <4>1
    <3> QED
      BY <3>1
  <2>6. q = p
    BY <2>1, <2>5
  <2> QED
    BY <2>2, <2>4, <2>5, <2>6 DEF Settles, Same
<1> QED
  BY <1>4, <1>5

LEMMA CountdownSettles ==
    ASSUME NEW s \in Mlme, NEW t \in Countdown(s)
    PROVE  Settles(t)
<1> DEFINE n == s.to_roam
<1>0. n \in 0 .. RoamSize - 1
  BY DEF Mlme
<1> DEFINE Attempt(k) == rtw_do_join([s EXCEPT !.to_roam = k])
           Tried == {q \in UNION {Attempt(k) : k \in 1 .. n} : q.ok}
           Out == IF n = 0 THEN {[ok |-> FALSE, s |-> s]}
                           ELSE {q \in Attempt(1) : ~q.ok}
<1>1. ASSUME NEW k \in 1 .. n, NEW q \in Attempt(k)
      PROVE  q.s \in Mlme /\ (q.ok => Settles(q.s))
  <2> DEFINE b == [s EXCEPT !.to_roam = k]
  <2>1. b \in Mlme
    <3>1. k \in 0 .. RoamSize - 1 /\ k <= s.to_roam
      BY <1>0, MaxRoamAssumption
    <3> QED
      BY <3>1, ToRoamKeeps DEF Keeps, Grows
  <2> HIDE DEF b
  <2>2. q \in rtw_do_join(b)
    BY <1>1 DEF b
  <2> QED
    BY <2>1, <2>2, DoJoinTimed, DoJoinSettles DEF Grows
<1>2. ASSUME NEW u \in Mlme
      PROVE  Settles(rtw_indicate_disconnect([u EXCEPT !.to_roam = 0]))
  <2>1. [u EXCEPT !.to_roam = 0] \in Mlme /\ [u EXCEPT !.to_roam = 0].to_roam = 0
    BY ToRoamKeeps, RoamRange DEF Keeps, Grows
  <2> QED
    BY <2>1, DisconnectSettles
<1>3. Countdown(s) = {r.s : r \in Tried}
        \cup {rtw_indicate_disconnect([r.s EXCEPT !.to_roam = 0]) : r \in Out}
  BY DEF Countdown
<1> HIDE DEF Attempt, n
<1>4. CASE \E r \in Tried : t = r.s
  BY <1>1, <1>4
<1>5. CASE \E r \in Out : t = rtw_indicate_disconnect([r.s EXCEPT !.to_roam = 0])
  <2>1. PICK r \in Out : t = rtw_indicate_disconnect([r.s EXCEPT !.to_roam = 0])
    BY <1>5
  <2>2. r.s \in Mlme
    <3>1. CASE n = 0
      BY <2>1, <3>1
    <3>2. CASE n # 0
      <4>1. 1 \in 1 .. n /\ r \in Attempt(1)
        BY <1>0, <2>1, <3>2, MaxRoamAssumption
      <4> QED
        BY <1>1, <4>1
    <3> QED
      BY <3>1, <3>2
  <2> QED
    BY <1>2, <2>1, <2>2
<1> HIDE DEF Tried, Out
<1> QED
  BY <1>3, <1>4, <1>5

LEMMA TryRoamingSettles ==
    ASSUME NEW s \in Mlme, NEW t \in TryRoaming(s)
    PROVE  Settles(t)
<1> DEFINE x == [s EXCEPT !.zeroing = FALSE, !.raced = TRUE, !.to_roam = RoamSize - 1]
<1>1. t \in Countdown(s) \/ t \in Countdown(x)
  BY DEF TryRoaming
<1>2. x \in Mlme
  BY RacedKeeps
<1> HIDE DEF x
<1> QED
  BY <1>1, <1>2, CountdownSettles

LEMMA JoinTimeoutSettles ==
    ASSUME NEW s \in Mlme, NEW t \in _rtw_join_timeout_handler(s)
    PROVE  Settles(t)
<1>2. CASE s.to_roam > 0
  <2>1. PICK d \in rtw_dec_to_roam(s) : \E z \in Zeroed(d) : t \in TryRoaming(z)
    BY <1>2 DEF _rtw_join_timeout_handler
  <2>2. PICK z \in Zeroed(d) : t \in TryRoaming(z)
    BY <2>1
  <2>3. d \in Mlme
    BY <1>2, <2>1, DecKeeps DEF Keeps, Grows
  <2>4. z \in Mlme
    BY <2>2, <2>3, ZeroedKeeps DEF Keeps, Grows
  <2> QED
    BY <2>2, <2>4, TryRoamingSettles
<1>3. CASE ~(s.to_roam > 0)
  <2> DEFINE d == rtw_indicate_disconnect(s)
             f == free_scanqueue(d)
             told == Sme(f, "idle")
             kept == [f EXCEPT !.muted = (f.sme # "idle")]
  <2>1. d \in Mlme
    BY DisconnectKeeps DEF Keeps, Grows
  <2>2. f \in Mlme
    BY <2>1, FreeScanKeeps DEF Keeps, Grows
  <2>3. t = told \/ t = kept
    BY <1>3 DEF _rtw_join_timeout_handler, JoinFailed, rtw_cfg80211_indicate_disconnect
  <2> HIDE DEF f
  <2>4. told.sme = "idle" /\ (kept.sme = "idle" \/ kept.muted)
    BY <2>2 DEF Sme, Mlme
  <2> HIDE DEF told, kept
  <2> QED
    BY <2>3, <2>4 DEF Settles
<1> QED
  BY <1>2, <1>3

LEMMA ClrSettles ==
    ASSUME NEW s \in Mlme, NEW flag \in FwState
    PROVE  Settles(s) => Settles(Clr(s, flag))
<1> DEFINE t == Clr(s, flag)
<1>1. /\ t.sme = s.sme /\ t.muted = s.muted /\ t.assoc_timer = s.assoc_timer
      /\ t.to_join = s.to_join /\ t.cmds = s.cmds
  BY DEF Clr, Mlme
<1> HIDE DEF t
<1>2. Settles(s) => Settles(t)
  BY <1>1 DEF Settles, Carried
<1> QED
  BY <1>2 DEF t

\* After a scan made in order to join: joined, scanning again, or given up.
LEMMA JoinScannedSettles ==
    ASSUME NEW s \in Mlme, NEW t \in JoinScanned(s)
    PROVE  Settles(t)
<1> USE MaxRoamAssumption
<1> DEFINE flagged == Set(s, "UNDER_LINKING")
           linking == [flagged EXCEPT !.to_join = FALSE]
           GiveUp(x) == rtw_indicate_disconnect(
                          rtw_free_assoc_resources(rtw_set_to_roam(x, 0)))
           Again(dec) == IF dec.to_roam = 0 THEN {GiveUp(dec)}
                         ELSE {IF q.ok THEN [q.s EXCEPT !.to_join = TRUE]
                                       ELSE GiveUp(q.s) :
                               q \in rtw_sitesurvey_cmd(dec)}
           Failed(x) == IF x.to_roam = 0 THEN {rtw_indicate_disconnect(x)}
                        ELSE UNION {Again(dec) :
                               dec \in UNION {Zeroed(d) : d \in rtw_dec_to_roam(x)}}
<1>1. PICK r \in rtw_select_and_join_from_scanned_queue(linking) :
        t \in IF r.ok THEN {[r.s EXCEPT !.assoc_timer = TRUE]}
                      ELSE {Clr(u, "UNDER_LINKING") : u \in Failed(r.s)}
  BY DEF JoinScanned
<1>2. r.ok \in BOOLEAN /\ r.s \in Mlme
  <2>1. flagged \in Mlme
    BY FlagTypes DEF FwState
  <2> HIDE DEF flagged
  <2>2. linking \in Mlme
    BY <2>1 DEF Mlme
  <2> HIDE DEF linking
  <2> QED
    BY <1>1, <2>2, SelectGrows DEF Grows
<1> HIDE DEF linking
<1>3. ASSUME NEW x \in Mlme
      PROVE  GiveUp(x) \in Mlme /\ Settles(GiveUp(x))
  <2> DEFINE z == rtw_set_to_roam(x, 0)
             f == rtw_free_assoc_resources(z)
  <2>1. z \in Mlme /\ z.to_roam = 0
    <3>1. z \in Mlme
      BY ToRoamKeeps, RoamRange DEF Keeps, Grows
    <3> QED
      BY <3>1 DEF rtw_set_to_roam, Mlme
  <2> HIDE DEF z
  <2>2. f \in Mlme /\ f.to_roam = 0
    <3>1. f \in Mlme
      BY <2>1 DEF rtw_free_assoc_resources, free_scanqueue, Mlme
    <3>2. f.to_roam = z.to_roam
      BY <2>1 DEF rtw_free_assoc_resources, free_scanqueue, Mlme
    <3> QED
      BY <2>1, <3>1, <3>2
  <2> HIDE DEF f
  <2>3. rtw_indicate_disconnect(f) \in Mlme /\ Settles(rtw_indicate_disconnect(f))
    BY <2>2, DisconnectKeeps, DisconnectSettles DEF Keeps, Grows
  <2> QED
    BY <2>3 DEF f, z
<1> HIDE DEF GiveUp
<1>4. ASSUME NEW x \in Mlme, NEW u \in Failed(x)
      PROVE  u \in Mlme /\ Settles(u)
  <2>1. CASE x.to_roam = 0
    BY <1>4, <2>1, DisconnectKeeps, DisconnectSettles DEF Keeps, Grows
  <2>2. CASE x.to_roam # 0
    <3>1. x.to_roam > 0
      BY <2>2 DEF Mlme
    <3>2. PICK d \in rtw_dec_to_roam(x) : \E dec \in Zeroed(d) : u \in Again(dec)
      BY <1>4, <2>2
    <3>3. PICK dec \in Zeroed(d) : u \in Again(dec)
      BY <3>2
    <3>4. d \in Mlme
      BY <3>1, <3>2, DecKeeps DEF Keeps, Grows
    <3>5. dec \in Mlme
      BY <3>3, <3>4, ZeroedKeeps DEF Keeps, Grows
    <3>6. CASE u = GiveUp(dec)
      BY <1>3, <3>5, <3>6
    <3>7. CASE \E q \in rtw_sitesurvey_cmd(dec) :
                 u = IF q.ok THEN [q.s EXCEPT !.to_join = TRUE] ELSE GiveUp(q.s)
      <4>1. PICK q \in rtw_sitesurvey_cmd(dec) :
              u = IF q.ok THEN [q.s EXCEPT !.to_join = TRUE] ELSE GiveUp(q.s)
        BY <3>7
      <4>2. q.ok \in BOOLEAN /\ q.s \in Mlme /\ (q.ok => Carried(q.s))
        BY <3>5, <4>1, SitesurveyKeeps, SitesurveySame DEF Keeps, Grows
      <4>3. CASE q.ok
        <5>1. u = [q.s EXCEPT !.to_join = TRUE]
          BY <4>1, <4>3
        <5>2. u \in Mlme /\ u.to_join /\ u.cmds = q.s.cmds
          BY <4>2, <5>1 DEF Mlme
        <5> QED
          BY <4>2, <4>3, <5>2 DEF Settles, Carried
      <4>4. CASE ~q.ok
        BY <1>3, <4>1, <4>2, <4>4
      <4> QED
        BY <4>3, <4>4
    <3> QED
      BY <3>3, <3>6, <3>7
  <2> QED
    BY <2>1, <2>2
<1> HIDE DEF Failed
<1>5. CASE r.ok
  <2>1. t = [r.s EXCEPT !.assoc_timer = TRUE]
    BY <1>1, <1>5
  <2>2. t.assoc_timer
    BY <1>2, <2>1 DEF Mlme
  <2> QED
    BY <2>2 DEF Settles
<1>6. CASE ~r.ok
  <2>1. PICK u \in Failed(r.s) : t = Clr(u, "UNDER_LINKING")
    BY <1>1, <1>6
  <2>2. u \in Mlme /\ Settles(u)
    BY <1>2, <1>4, <2>1
  <2> QED
    BY <2>1, <2>2, ClrSettles DEF FwState
<1> QED
  BY <1>2, <1>5, <1>6

\* A join result leaves the state alone, makes the link, or leaves the timer
\* to end the attempt.
LEMMA PrehandleSettles ==
    ASSUME NEW s \in Mlme, NEW res, NEW t \in rtw_joinbss_event_prehandle(s, res)
    PROVE  \/ t = s
           \/ "LINKED" \in t.fw
           \/ t.assoc_timer
           \/ "UNDER_LINKING" \in s.fw /\ t.assoc_timer = s.assoc_timer
<1>1. CASE res # "ok"
  <2> DEFINE c == Clr(s, "UNDER_LINKING")
  <2>1. c \in Mlme
    BY FlagTypes DEF FwState
  <2> HIDE DEF c
  <2>2. t = [c EXCEPT !.assoc_timer = TRUE]
    BY <1>1 DEF rtw_joinbss_event_prehandle, c
  <2> QED
    BY <2>1, <2>2 DEF Mlme
<1>2. CASE res = "ok" /\ t # s
  <2> DEFINE u == [s EXCEPT !.fw = {}, !.fixed = TRUE]
             l == Set(u, "LINKED")
             c == IF "LINKED" \in u.fw THEN u ELSE rtw_cfg80211_indicate_connect(l)
             i == rtw_indicate_connect(u)
  <2>1. /\ "UNDER_LINKING" \in s.fw
        /\ t = u \/ t = [i EXCEPT !.stainfo = TRUE, !.assoc_timer = FALSE]
    BY <1>2 DEF rtw_joinbss_event_prehandle
  <2>2. u \in Mlme /\ u.fw = {} /\ u.assoc_timer = s.assoc_timer
    BY DEF Mlme
  <2> HIDE DEF u
  <2>3. l \in Mlme /\ l.fw = {"LINKED"}
    BY <2>2, FlagTypes DEF FwState
  <2> HIDE DEF l
  <2>4. c \in Mlme /\ c.fw = {"LINKED"}
    <3>1. c = l \/ c = Sme(l, "connected")
      BY <2>2 DEF rtw_cfg80211_indicate_connect
    <3>2. Sme(l, "connected") \in Mlme /\ Sme(l, "connected").fw = {"LINKED"}
      BY <2>3 DEF Sme, Mlme
    <3> QED
      BY <2>3, <3>1, <3>2
  <2> DEFINE j == [c EXCEPT !.to_join = FALSE]
  <2>5. i = rtw_set_to_roam(j, 0)
    BY DEF rtw_indicate_connect, l
  <2> HIDE DEF c, i
  <2>6. j \in Mlme /\ j.fw = {"LINKED"}
    BY <2>4 DEF Mlme
  <2> HIDE DEF j
  <2>7. i \in Mlme /\ i.fw = {"LINKED"}
    BY <2>5, <2>6, ToRoamKeeps, RoamRange
  <2>8. CASE t = u
    BY <2>1, <2>2, <2>8
  <2>9. CASE t = [i EXCEPT !.stainfo = TRUE, !.assoc_timer = FALSE]
    BY <2>7, <2>9 DEF Mlme
  <2> QED
    BY <2>1, <2>8, <2>9
<1> QED
  BY <1>1, <1>2

-----------------------------------------------------------------------------
(* The invariant for it, at the places where cfg80211 waits: between its    *)
(* calls, in a scan request, and when a connect is about to succeed.        *)

Waits == {"idle", "scan", "scan_submit", "scan_done", "connect_ok"}

Working == Drives \/ Carried(mlme) \/ cmd \in {"done_cancel", "done_join"}

SettledInv ==
    user \in Waits =>
        \/ mlme.sme = "idle" \/ "LINKED" \in mlme.fw
        \/ mlme.muted \/ mlme.assoc_timer \/ timeout # "idle"
        \/ mlme.to_join /\ (Working \/ mlme.broken)

LEMMA Settling ==
    ASSUME Settles(mlme')
    PROVE  SettledInv'
BY DEF Settles, SettledInv, Working

LEMMA StaysSettled ==
    ASSUME SettledInv, user' \in Waits => user \in Waits,
           Same(mlme, mlme'), timeout' = timeout,
           mlme.to_join /\ Working => Working' \/ mlme'.broken
    PROVE  SettledInv'
<1>1. Carried(mlme') => Working'
  BY DEF Working
<1> QED
  BY <1>1 DEF SettledInv, Same

\* ... of which this is the common case.
LEMMA StaysSettledIdly ==
    ASSUME SettledInv, user' \in Waits => user \in Waits,
           UNCHANGED <<mlme, timeout, survey, cmd>>
    PROVE  SettledInv'
<1>1. Same(mlme, mlme')
  BY DEF Same
<1>2. Working => Working'
  BY DEF Working, Drives, Carried
<1> QED
  BY <1>1, <1>2, StaysSettled

LEMMA UserSettled ==
    ASSUME JoinInv, SettledInv,
           UserScan \/ UserConnect \/ UserDisconnect \/ User
    PROVE  SettledInv'
<1>0. mlme \in Mlme /\ OtherTypes
  BY DEF JoinInv
<1>1. CASE UserScan \/ ScanRefuse \/ ScanBusy \/ ScanAccept \/ ScanDone
  BY <1>1, StaysSettledIdly
     DEF UserScan, Request, ScanRefuse, ScanBusy, ScanAccept, ScanDone, Waits
<1>2. CASE ScanSubmit
  <2>1. PICK r \in rtw_sitesurvey_cmd(mlme) : mlme' = r.s
    BY <1>2 DEF ScanSubmit
  <2>2. Same(mlme, mlme') /\ Grows(mlme, mlme')
    BY <1>0, <2>1, SitesurveySame, SitesurveyKeeps DEF Keeps
  <2>3. Working => Working'
    BY <1>2, <2>2 DEF ScanSubmit, Working, Drives, Grows, Follows
  <2> QED
    BY <1>2, <2>2, <2>3, StaysSettled DEF ScanSubmit, Waits
<1>3. CASE \/ UserConnect \/ UserDisconnect \/ ConnectCheck \/ DisconnectClear
           \/ DisconnectHdl \/ DisconnectIndicate \/ ScanAbort
  <2>1. user' \notin Waits
    BY <1>3 DEF UserConnect, UserDisconnect, ConnectCheck, DisconnectClear, DisconnectHdl,
                DisconnectIndicate, ScanAbort, Waits
  <2> QED
    BY <2>1 DEF SettledInv
<1>4. CASE ConnectBadCipher
  <2>1. mlme'.sme = "idle"
    BY <1>0, <1>4 DEF ConnectBadCipher, Sme, Mlme
  <2> QED
    BY <2>1, Settling DEF Settles
<1>5. CASE ConnectSet
  <2>1. CASE user' = "connect_fail"
    BY <2>1 DEF SettledInv, Waits
  <2>2. CASE "UNDER_SURVEY" \in mlme.fw /\ mlme' = [mlme EXCEPT !.to_join = TRUE]
    <3>1. mlme'.to_join /\ mlme'.cmds = mlme.cmds /\ mlme'.broken = mlme.broken
      BY <1>0, <2>2 DEF Mlme
    <3>2. Drives \/ Carried(mlme) \/ mlme.broken
      BY <2>2 DEF JoinInv, ScanNotForgotten, ScanDriven, Drives
    <3>3. Drives' \/ Carried(mlme') \/ mlme'.broken
      BY <1>5, <3>1, <3>2 DEF ConnectSet, Drives, Carried
    <3> QED
      BY <3>1, <3>3 DEF SettledInv, Working
  <2>3. CASE "UNDER_LINKING" \in mlme.fw /\ mlme' = mlme
    <3>1. mlme'.assoc_timer \/ timeout' # "idle"
      BY <1>5, <2>3 DEF ConnectSet, JoinInv, LinkingGuarded
    <3> QED
      BY <3>1 DEF SettledInv
  <2>4. CASE \E r \in rtw_do_join(mlme) : r.ok /\ mlme' = r.s
    BY <1>0, <2>4, DoJoinSettles, Settling
  <2> QED
    BY <1>5, <2>1, <2>2, <2>3, <2>4 DEF ConnectSet
<1>6. CASE ConnectReturn
  <2> DEFINE d == [mlme EXCEPT !.not_indic_disco = FALSE]
  <2>1. /\ d \in Mlme /\ d.sme = mlme.sme /\ d.muted = mlme.muted /\ d.fw = mlme.fw
        /\ d.assoc_timer = mlme.assoc_timer /\ d.to_join = mlme.to_join
        /\ d.cmds = mlme.cmds /\ d.broken = mlme.broken
    BY <1>0 DEF Mlme
  <2>2. \/ user = "connect_fail" /\ mlme' = Sme(d, "idle")
        \/ user = "connect_ok" /\ mlme' = d
    BY <1>6 DEF ConnectReturn
  <2> HIDE DEF d
  <2>3. CASE mlme' = Sme(d, "idle")
    <3>1. mlme'.sme = "idle"
      BY <2>1, <2>3 DEF Sme, Mlme
    <3> QED
      BY <3>1, Settling DEF Settles
  <2>4. CASE user = "connect_ok" /\ mlme' = d
    <3>1. Same(mlme, mlme')
      BY <2>1, <2>4 DEF Same
    <3>2. Working => Working'
      BY <1>6, <2>1, <2>4 DEF ConnectReturn, Working, Drives, Carried
    <3> QED
      BY <1>6, <2>4, <3>1, <3>2, StaysSettled DEF ConnectReturn, Waits
  <2> QED
    BY <2>2, <2>3, <2>4
<1>7. CASE DisconnectReturn
  <2> DEFINE f == rtw_free_assoc_resources(mlme)
             n == [f EXCEPT !.not_indic_disco = FALSE]
  <2>1. f \in Mlme
    BY <1>0, FreeScanKeeps DEF Keeps, Grows
  <2>2. mlme' = Sme(n, "idle")
    BY <1>7 DEF DisconnectReturn
  <2> HIDE DEF f
  <2>3. n \in Mlme
    BY <2>1 DEF Mlme
  <2> HIDE DEF n
  <2>4. mlme'.sme = "idle"
    BY <2>2, <2>3 DEF Sme, Mlme
  <2> QED
    BY <2>4, Settling DEF Settles
<1> QED
  BY <1>1, <1>2, <1>3, <1>4, <1>5, <1>6, <1>7 DEF User

\* Dequeuing leaves what cfg80211 and the join depend on the same.
LEMMA DequeuedSame ==
    ASSUME mlme \in Mlme, mlme.cmds # <<>>
    PROVE  /\ Same(mlme, Dequeued)
           /\ Head(mlme.cmds) \notin {"sitesurvey", "surveydone"} =>
                (Carried(mlme) => Carried(Dequeued))
<1>1. /\ Dequeued.sme = mlme.sme /\ Dequeued.muted = mlme.muted
      /\ Dequeued.fw = mlme.fw /\ Dequeued.to_join = mlme.to_join
      /\ Dequeued.assoc_timer = mlme.assoc_timer /\ Dequeued.broken = mlme.broken
  BY DEF Dequeued, Mlme
<1> QED
  BY <1>1, DequeuedFollows DEF Same, Follows

LEMMA CommandSettled ==
    ASSUME JoinInv, SettledInv, Command \/ LinkExpires
    PROVE  SettledInv'
<1>0. mlme \in Mlme /\ OtherTypes
  BY DEF JoinInv
<1>1. CASE JoinHdl \/ DisconnectCmd
  <2>1. /\ mlme.cmds # <<>> /\ Head(mlme.cmds) \notin {"sitesurvey", "surveydone"}
        /\ mlme' = Dequeued /\ cmd = "idle"
    BY <1>1 DEF JoinHdl, DisconnectCmd, Dequeue
  <2>2. Same(mlme, mlme') /\ (Carried(mlme) => Carried(mlme'))
    BY <1>0, <2>1, DequeuedSame
  <2>3. Working => Working'
    BY <1>1, <2>1, <2>2 DEF JoinHdl, DisconnectCmd, Working, Drives
  <2> QED
    BY <1>1, <2>2, <2>3, StaysSettled DEF JoinHdl, DisconnectCmd
<1>2. CASE JoinStart
  <2>1. CASE mlme' \in rtw_joinbss_event_prehandle(mlme, "fail")
    <3> DEFINE c == Clr(mlme, "UNDER_LINKING")
    <3>1. c \in Mlme
      BY <1>0, FlagTypes DEF FwState
    <3>2. mlme' = [c EXCEPT !.assoc_timer = TRUE]
      BY <2>1 DEF rtw_joinbss_event_prehandle
    <3> HIDE DEF c
    <3>3. mlme'.assoc_timer
      BY <3>1, <3>2 DEF Mlme
    <3> QED
      BY <3>3, Settling DEF Settles
  <2>2. CASE mlme' = [mlme EXCEPT !.assoc_timer = TRUE]
    <3>1. mlme'.assoc_timer
      BY <1>0, <2>2 DEF Mlme
    <3> QED
      BY <3>1, Settling DEF Settles
  <2>3. CASE mlme' = mlme
    <3>1. Same(mlme, mlme')
      BY <2>3 DEF Same
    <3>2. Working => Working'
      BY <1>2, <2>3 DEF JoinStart, Working, Drives, Carried
    <3> QED
      BY <1>2, <3>1, <3>2, StaysSettled DEF JoinStart
  <2> QED
    BY <1>2, <2>1, <2>2, <2>3 DEF JoinStart
<1>3. CASE SurveyHdl
  <2>1. mlme.cmds # <<>> /\ Dequeued \in Mlme /\ Same(mlme, Dequeued)
    BY <1>0, <1>3, DequeuedSame, DequeuedType DEF SurveyHdl, Dequeue
  <2>2. survey \in Survey
    BY <1>0 DEF OtherTypes
  <2>3. CASE mlme' = Dequeued /\ survey'.state # "DISABLE" /\ survey'.timer
    BY <1>3, <2>1, <2>3, StaysSettled DEF SurveyHdl, Working, Drives
  <2>4. CASE mlme' = rtw_enqueue_cmd(Dequeued, "surveydone")
    <3>1. Same(Dequeued, mlme') /\ Carried(mlme')
      BY <2>1, <2>4, EnqueueSame, EnqueueKeeps DEF Commands
    <3>2. Same(mlme, mlme')
      BY <2>1, <3>1 DEF Same
    <3> QED
      BY <1>3, <3>1, <3>2, StaysSettled DEF SurveyHdl, Working
  <2>5. CASE mlme' = PostLost(Dequeued)
    <3>1. Same(Dequeued, mlme') /\ (mlme'.broken \/ Carried(mlme'))
      BY <2>1, <2>5, PostLostSame
    <3>2. Same(mlme, mlme')
      BY <2>1, <3>1 DEF Same
    <3> QED
      BY <1>3, <3>1, <3>2, StaysSettled DEF SurveyHdl, Working
  <2> QED
    BY <1>3, <2>2, <2>3, <2>4, <2>5 DEF SurveyHdl, Survey
<1>4. CASE SurveyEvent
  <2>1. mlme.cmds # <<>> /\ Head(mlme.cmds) \notin {"sitesurvey", "surveydone"}
    BY <1>4 DEF SurveyEvent, Dequeue
  <2>2. /\ Dequeued \in Mlme /\ Same(mlme, Dequeued)
        /\ Carried(mlme) => Carried(Dequeued)
    BY <1>0, <2>1, DequeuedSame, DequeuedType
  <2>3. mlme' = Dequeued \/ mlme' = [Dequeued EXCEPT !.scanned = TRUE]
    BY <1>4 DEF SurveyEvent
  <2> HIDE DEF Dequeued
  <2>4. /\ mlme'.sme = Dequeued.sme /\ mlme'.muted = Dequeued.muted
        /\ mlme'.fw = Dequeued.fw /\ mlme'.to_join = Dequeued.to_join
        /\ mlme'.assoc_timer = Dequeued.assoc_timer /\ mlme'.cmds = Dequeued.cmds
        /\ mlme'.broken = Dequeued.broken
    BY <2>2, <2>3 DEF Mlme
  <2>5. Same(mlme, mlme') /\ (Carried(mlme) => Carried(mlme'))
    BY <2>2, <2>4 DEF Same, Carried
  <2>6. Working => Working'
    BY <1>4, <2>5 DEF SurveyEvent, Working, Drives
  <2> QED
    BY <1>4, <2>5, <2>6, StaysSettled DEF SurveyEvent
<1>5. CASE SurveyDoneClear
  <2>1. Dequeued \in Mlme /\ Same(mlme, Dequeued)
    BY <1>0, <1>5, DequeuedSame, DequeuedType DEF SurveyDoneClear, Dequeue
  <2>2. mlme' = Clr(Dequeued, "UNDER_SURVEY") /\ cmd' = "done_cancel"
    BY <1>5 DEF SurveyDoneClear
  <2> HIDE DEF Dequeued
  <2>3. /\ mlme'.sme = Dequeued.sme /\ mlme'.muted = Dequeued.muted
        /\ mlme'.to_join = Dequeued.to_join
        /\ mlme'.fw = Dequeued.fw \ {"UNDER_SURVEY"}
        /\ mlme'.assoc_timer = Dequeued.assoc_timer /\ mlme'.cmds = Dequeued.cmds
        /\ mlme'.broken = Dequeued.broken
    BY <2>1, <2>2 DEF Clr, Mlme
  <2>4. Same(mlme, mlme')
    BY <2>1, <2>3 DEF Same, Carried
  <2> QED
    BY <1>5, <2>2, <2>4, StaysSettled DEF SurveyDoneClear, Working
<1>6. CASE SurveyDoneCancel
  <2>1. /\ mlme'.sme = mlme.sme /\ mlme'.muted = mlme.muted /\ mlme'.fw = mlme.fw
        /\ mlme'.to_join = mlme.to_join /\ mlme'.assoc_timer = mlme.assoc_timer
        /\ mlme'.broken = mlme.broken
    BY <1>0, <1>6 DEF SurveyDoneCancel, Mlme
  <2>2. Same(mlme, mlme')
    BY <2>1 DEF Same
  <2> QED
    BY <1>6, <2>2, StaysSettled DEF SurveyDoneCancel, Working
<1>7. CASE SurveyDoneJoin
  <2>1. CASE ~mlme.to_join
    <3>1. Same(mlme, mlme')
      BY <1>7, <2>1 DEF SurveyDoneJoin, Same
    <3> QED
      BY <1>7, <2>1, <3>1, StaysSettled DEF SurveyDoneJoin
  <2>2. CASE mlme.to_join
    <3>1. mlme' \in JoinScanned(mlme)
      BY <1>7, <2>2 DEF SurveyDoneJoin
    <3> QED
      BY <1>0, <3>1, JoinScannedSettles, Settling
  <2> QED
    BY <2>1, <2>2
<1>8. CASE SurveyDoneIndicate \/ StaDel
  <2>1. Same(mlme, mlme') /\ mlme' = mlme
    BY <1>8 DEF SurveyDoneIndicate, StaDel, Same
  <2>2. cmd \notin {"done_cancel", "done_join"}
    BY <1>8 DEF SurveyDoneIndicate, StaDel, Dequeue
  <2>3. Working => Working'
    BY <1>8, <2>1, <2>2 DEF SurveyDoneIndicate, StaDel, Working, Drives, Carried
  <2> QED
    BY <1>8, <2>1, <2>3, StaysSettled DEF SurveyDoneIndicate, StaDel
<1>9. CASE StaDelRoam
  <2> DEFINE expired == Head(mlme.cmds) = "del_expired"
             Down(x) == rtw_indicate_disconnect(rtw_free_assoc_resources(x))
  <2>1. PICK b \in RoamBudget(Dequeued, expired) :
          \E z \in Zeroed(b) : \E u \in Zeroed(Down(z)) : mlme' \in _rtw_roaming(u)
    BY <1>9 DEF StaDelRoam
  <2>2. PICK z \in Zeroed(b) : \E u \in Zeroed(Down(z)) : mlme' \in _rtw_roaming(u)
    BY <2>1
  <2>3. PICK u \in Zeroed(Down(z)) : mlme' \in _rtw_roaming(u)
    BY <2>2
  <2>4. Dequeued \in Mlme /\ Dequeued.zeroing = mlme.zeroing
    BY <1>0, <1>9, DequeuedType DEF StaDelRoam, JoinInv, StaDelHead
  <2>5. expired \in BOOLEAN
    OBVIOUS
  <2> HIDE DEF expired, Down
  <2>6. b \in Mlme /\ (b.zeroing => mlme.zeroing)
    BY <2>1, <2>4, <2>5, RoamBudgetKeeps DEF Keeps, Grows, Follows
  <2>7. z \in Mlme /\ (z.zeroing => mlme.zeroing)
    BY <2>2, <2>6, ZeroedKeeps DEF Keeps, Grows, Follows
  <2>8. /\ Down(z) \in Mlme /\ (Down(z).zeroing => mlme.zeroing)
        /\ Down(z).to_roam = 0 => Settles(Down(z))
    <3> DEFINE f == rtw_free_assoc_resources(z)
    <3>1. f \in Mlme /\ (f.zeroing => mlme.zeroing)
      BY <2>7, FreeScanKeeps DEF Keeps, Grows, Follows
    <3> HIDE DEF f
    <3>2. /\ rtw_indicate_disconnect(f) \in Mlme
          /\ rtw_indicate_disconnect(f).zeroing => mlme.zeroing
          /\ rtw_indicate_disconnect(f).to_roam = 0 => Settles(rtw_indicate_disconnect(f))
      BY <3>1, DisconnectKeeps, DisconnectSettles DEF Keeps, Grows, Follows
    <3>3. Down(z) = rtw_indicate_disconnect(f)
      BY DEF Down, f
    <3> QED
      BY <3>2, <3>3
  <2>9. u \in Mlme /\ (u = Down(z) \/ Down(z).zeroing)
    BY <2>3, <2>8, ZeroedKeeps DEF Keeps, Grows
  <2>10. CASE u.to_roam > 0
    BY <2>3, <2>9, <2>10, TryRoamingSettles, Settling DEF _rtw_roaming
  <2>11. CASE ~(u.to_roam > 0) /\ u = Down(z)
    <3>1. mlme' = u /\ u.to_roam = 0
      BY <2>3, <2>9, <2>11, MaxRoamAssumption DEF _rtw_roaming, Mlme
    <3> QED
      BY <2>8, <2>11, <3>1, Settling
  <2>12. CASE Down(z).zeroing      \* the user is leaving
    <3>1. user' \notin Waits
      BY <1>9, <2>8, <2>12 DEF StaDelRoam, JoinInv, Writing, Waits
    <3> QED
      BY <3>1 DEF SettledInv
  <2> QED
    BY <2>9, <2>10, <2>11, <2>12
<1>10. CASE LinkExpires
  <2>1. Same(mlme, mlme') /\ Grows(mlme, mlme')
    <3>1. CASE mlme' = mlme
      BY <1>0, <3>1, KeepsSelf DEF Same
    <3>2. CASE mlme' = rtw_enqueue_cmd(mlme, "del_expired")
      BY <1>0, <3>2, EnqueueSame, EnqueueKeeps DEF Commands, Keeps
    <3> QED
      BY <1>10, <3>1, <3>2 DEF LinkExpires
  <2>2. Working => Working'
    BY <1>10, <2>1 DEF LinkExpires, Working, Drives, Grows, Follows
  <2> QED
    BY <1>10, <2>1, <2>2, StaysSettled DEF LinkExpires
<1> QED
  BY <1>1, <1>2, <1>3, <1>4, <1>5, <1>6, <1>7, <1>8, <1>9, <1>10 DEF Command

LEMMA RadioSettled ==
    ASSUME JoinInv, SettledInv, Radio \/ ReportRx \/ ReportLink
    PROVE  SettledInv'
<1>0. mlme \in Mlme /\ OtherTypes
  BY DEF JoinInv
<1>1. CASE Radio
  <2>1. mlme' = mlme \/ \E c \in Commands : mlme' = rtw_enqueue_cmd(mlme, c)
    BY <1>1 DEF Radio, BeaconScanned, OnBeacon, OnAuthClient, OnAssocRsp, OnDeAuth,
                Commands
  <2>2. UNCHANGED <<survey, cmd, user, timeout>>
    BY <1>1 DEF Radio, BeaconScanned, OnBeacon, OnAuthClient, OnAssocRsp, OnDeAuth
  <2>3. CASE mlme' = mlme
    BY <2>2, <2>3, StaysSettledIdly
  <2>4. CASE \E c \in Commands : mlme' = rtw_enqueue_cmd(mlme, c)
    <3>1. Same(mlme, mlme') /\ Grows(mlme, mlme')
      BY <1>0, <2>4, EnqueueSame, EnqueueKeeps DEF Keeps
    <3>2. Working => Working'
      BY <2>2, <3>1 DEF Working, Drives, Grows, Follows
    <3> QED
      BY <2>2, <3>1, <3>2, StaysSettled
  <2> QED
    BY <2>1, <2>3, <2>4
<1>2. CASE ReportRx \/ ReportLink
  <2>1. /\ UNCHANGED <<survey, cmd, user>>
        /\ timeout # "idle" => timeout' # "idle"
    BY <1>2 DEF ReportRx, ReportLink
  <2>2. \/ mlme' = mlme
        \/ "LINKED" \in mlme'.fw
        \/ mlme'.assoc_timer
        \/ "UNDER_LINKING" \in mlme.fw /\ mlme'.assoc_timer = mlme.assoc_timer
    BY <1>0, <1>2, PrehandleSettles DEF ReportRx, ReportLink
  <2>3. CASE mlme' = mlme
    <3>1. Working => Working'
      BY <2>1, <2>3 DEF Working, Drives, Carried
    <3> QED
      BY <2>1, <2>3, <3>1 DEF SettledInv
  <2>4. CASE "LINKED" \in mlme'.fw \/ mlme'.assoc_timer
    BY <2>4 DEF SettledInv
  <2>5. CASE "UNDER_LINKING" \in mlme.fw /\ mlme'.assoc_timer = mlme.assoc_timer
    <3>1. mlme'.assoc_timer \/ timeout' # "idle"
      BY <2>1, <2>5 DEF JoinInv, LinkingGuarded
    <3> QED
      BY <3>1 DEF SettledInv
  <2> QED
    BY <2>2, <2>3, <2>4, <2>5
<1> QED
  BY <1>1, <1>2

LEMMA TimerSettled ==
    ASSUME JoinInv, SettledInv,
           LinkTimer \/ SurveyTimer \/ ScanTimeout \/ AssocTimer \/ JoinTimeout
    PROVE  SettledInv'
<1>0. mlme \in Mlme /\ OtherTypes
  BY DEF JoinInv
<1>1. CASE LinkTimer
  BY <1>1, StaysSettledIdly DEF LinkTimer
<1>2. CASE SurveyTimer
  <2>1. CASE survey.state = "DISABLE"
    <3>1. Same(mlme, mlme') /\ mlme' = mlme
      BY <1>2, <2>1 DEF SurveyTimer, Same
    <3>2. Working => Working'
      BY <1>2, <2>1, <3>1 DEF SurveyTimer, Working, Drives, Carried
    <3> QED
      BY <1>2, <3>1, <3>2, StaysSettled DEF SurveyTimer
  <2>2. CASE survey.state # "DISABLE"
    <3>1. mlme' = rtw_enqueue_cmd(mlme, "sitesurvey") \/ mlme' = PostLost(mlme)
      BY <1>2, <2>2 DEF SurveyTimer
    <3>2. Same(mlme, mlme') /\ (Carried(mlme') \/ mlme'.broken)
      BY <1>0, <3>1, EnqueueSame, EnqueueKeeps, PostLostSame DEF Commands
    <3> QED
      BY <1>2, <3>2, StaysSettled DEF SurveyTimer, Working
  <2> QED
    BY <2>1, <2>2
<1>3. CASE ScanTimeout
  <2> DEFINE c == Clr(mlme, "UNDER_SURVEY")
  <2>1. /\ c \in Mlme /\ c.sme = mlme.sme /\ c.muted = mlme.muted
        /\ c.fw = mlme.fw \ {"UNDER_SURVEY"} /\ c.to_join = mlme.to_join
        /\ c.assoc_timer = mlme.assoc_timer /\ c.cmds = mlme.cmds
        /\ c.broken = mlme.broken
    BY <1>0 DEF Clr, Mlme
  <2>2. mlme' = [c EXCEPT !.scan_to_timer = FALSE]
    BY <1>3 DEF ScanTimeout
  <2> HIDE DEF c
  <2>3. /\ mlme'.sme = c.sme /\ mlme'.muted = c.muted /\ mlme'.fw = c.fw
        /\ mlme'.to_join = c.to_join /\ mlme'.assoc_timer = c.assoc_timer
        /\ mlme'.cmds = c.cmds /\ mlme'.broken = c.broken
    BY <2>1, <2>2 DEF Mlme
  <2>4. Same(mlme, mlme') /\ (Carried(mlme) => Carried(mlme'))
    BY <2>1, <2>3 DEF Same, Carried
  <2>5. Working => Working'
    BY <1>3, <2>4 DEF ScanTimeout, Working, Drives
  <2> QED
    BY <1>3, <2>4, <2>5, StaysSettled DEF ScanTimeout
<1>4. CASE AssocTimer
  BY <1>4 DEF AssocTimer, SettledInv
<1>5. CASE JoinTimeout
  BY <1>0, <1>5, JoinTimeoutSettles, Settling DEF JoinTimeout
<1> QED
  BY <1>1, <1>2, <1>3, <1>4, <1>5

\* What cfg80211 takes for a connection is a link, or the driver is still at
\* it, or an indication was kept back by not_indic_disco, or the scan it waits
\* for lost a post: in no other way are roaming and joining abandoned in silence,
\* for any number of attempts, retries, channels and events, also when the
\* user's write of to_roam comes in between.
THEOREM NotAbandoned == Spec => []ConnectionDriven
<1>1. Init => SettledInv
  BY DEF Init, SettledInv
<1>2. JoinInv /\ SettledInv /\ [Next]_vars => SettledInv'
  <2> SUFFICES ASSUME JoinInv, SettledInv, [Next]_vars PROVE SettledInv'
    OBVIOUS
  <2>1. CASE UNCHANGED vars
    BY <2>1, StaysSettledIdly DEF vars
  <2> QED
    BY <2>1, UserSettled, CommandSettled, RadioSettled, TimerSettled DEF Next
<1>3. SettledInv => ConnectionDriven
  BY DEF SettledInv, ConnectionDriven, Attempting, Stranded, Working, ScanDriven,
         Drives, Waits
<1> QED
  BY <1>1, <1>2, <1>3, JoinInit, JoinStep, PTL DEF Spec
=============================================================================
