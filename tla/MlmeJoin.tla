------------------------------ MODULE MlmeJoin ------------------------------
(***************************************************************************)
(* Scanning, joining, roaming and leaving in station mode: the MLME        *)
(* (core/rtw_mlme.c), the MLME extension that talks to the access point    *)
(* (core/rtw_mlme_ext.c) and the cfg80211 operations that drive them       *)
(* (os_dep/linux/ioctl_cfg80211.c).                                        *)
(*                                                                         *)
(* Five parties run concurrently: the user's thread inside one cfg80211    *)
(* operation, the command thread, the RX tasklet, and the handlers of the  *)
(* join timer and of the link timer.  A section under mlmepriv.lock is one *)
(* step; code outside the lock is split where another party can come in    *)
(* between.  Timers are untimed: an armed timer may fire at any moment.    *)
(*                                                                         *)
(* One network is on the air.  The operators on mlme below translate the   *)
(* locked sections; one that can succeed or fail yields a set of results   *)
(* [ok, s].  The user's thread writes to_roam without the lock: where a    *)
(* section reads or counts down to_roam, its result is a set as well, with *)
(* that write before, inside or after.  Whatever is posted to the command  *)
(* queue may be lost for want of memory.                                   *)
(***************************************************************************)
EXTENDS Naturals, Sequences, FiniteSets

CONSTANTS
    MaxRoam,    \* registrypriv.max_roaming_times
    RoamSize,   \* the values of to_roam, a u8: 256
    RetryLimit, \* REAUTH_LIMIT and REASSOC_LIMIT
    ChNum,      \* sitesurvey_res.ch_num
    MaxEvents   \* bound: cfg80211 operations, lost links, scans that are
                \* overlong or lose a post

ASSUME MaxRoamAssumption == MaxRoam \in Nat /\ RoamSize \in Nat /\ MaxRoam < RoamSize
ASSUME RetryLimitAssumption == RetryLimit \in Nat
ASSUME ChNumAssumption == ChNum \in Nat \ {0}
ASSUME MaxEventsAssumption == MaxEvents \in Nat

VARIABLES
    mlme,   \* struct mlme_priv, with the command queue it posts to
    ext,    \* mlmext_info.state with link_timer and its retry count
    survey, \* sitesurvey_res, survey_timer and scan_abort
    cmd,    \* where the command thread is in a handler
    user,   \* where the user's thread is in a cfg80211 operation
    scan,   \* the scan request as the driver and as cfg80211 hold it
    report, \* join results on their way to rtw_joinbss_event_prehandle
    timeout,\* the handler of assoc_timer
    events     \* bound: how many of them there have been

vars == <<mlme, ext, survey, cmd, user, scan, report, timeout, events>>

-----------------------------------------------------------------------------
(* The state.                                                              *)

FwState == {"LINKED", "UNDER_LINKING", "UNDER_SURVEY"}

Commands == {"sitesurvey", "found", "surveydone", "joinbss", "disconnect",
             "del_expired", "del_left"}

Mlme ==
    [fw : SUBSET FwState,           \* fw_state
     to_join : BOOLEAN,
     to_roam : 0 .. RoamSize - 1,
     zeroing : BOOLEAN,             \* the user's write of 0 to it is pending
     raced : BOOLEAN,               \* ghost: that write met a decrement
     scanned : BOOLEAN,             \* the network is in scanned_queue
     fixed : BOOLEAN,               \* ... and is not to be aged out
     stainfo : BOOLEAN,             \* the access point is in the station table
     assoc_timer : BOOLEAN,
     scan_to_timer : BOOLEAN,
     not_indic_disco : BOOLEAN,
     sme : {"idle", "connecting", "connected"},   \* what cfg80211 believes
     muted : BOOLEAN,               \* ghost: it has not been told otherwise
     broken : BOOLEAN,              \* ghost: the scan lost the post it needs
     orphaned : BOOLEAN,            \* ghost: ... or scan_to_timer, to another
     cmds : Seq(Commands)]

Linking == {"AUTH_NULL", "AUTH_STATE", "ASSOC_STATE"}

Ext == [state : {"NULL", "ASSOC_SUCCESS"} \cup Linking,
        link_timer : BOOLEAN,
        retries : 0 .. RetryLimit]

Survey == [state : {"DISABLE", "TXNULL", "PROCESS"},
           channel_idx : 0 .. ChNum,
           timer : BOOLEAN,
           scan_abort : BOOLEAN]

CmdSteps == {"idle", "join", "done_cancel", "done_join", "done_indicate",
             "stadel"}

UserSteps == {"idle", "scan", "scan_submit", "scan_done",
              "connect", "connect_abort", "connect_set",
              "connect_ok", "connect_fail",
              "leave_roam", "leave_abort", "leave_hdl", "leave_indicate", "leave_free"}

TypeOK ==
    /\ mlme \in Mlme
    /\ ext \in Ext
    /\ survey \in Survey
    /\ cmd \in CmdSteps
    /\ user \in UserSteps
    /\ scan \in [request : BOOLEAN, asked : BOOLEAN]
    /\ report \in [rx : {"none", "ok", "fail"}, link : {"none", "fail"}]
    /\ timeout \in {"idle", "running", "deadlock"}
    /\ events \in 0 .. MaxEvents

Init ==
    /\ mlme = [fw |-> {}, to_join |-> FALSE, to_roam |-> 0,
               zeroing |-> FALSE, raced |-> FALSE,
               scanned |-> FALSE, fixed |-> FALSE, stainfo |-> FALSE,
               assoc_timer |-> FALSE, scan_to_timer |-> FALSE,
               not_indic_disco |-> FALSE, sme |-> "idle", muted |-> FALSE,
               broken |-> FALSE, orphaned |-> FALSE, cmds |-> <<>>]
    /\ ext = [state |-> "NULL", link_timer |-> FALSE, retries |-> 0]
    /\ survey = [state |-> "DISABLE", channel_idx |-> 0,
                 timer |-> FALSE, scan_abort |-> FALSE]
    /\ cmd = "idle"
    /\ user = "idle"
    /\ scan = [request |-> FALSE, asked |-> FALSE]
    /\ report = [rx |-> "none", link |-> "none"]
    /\ timeout = "idle"
    /\ events = 0

-----------------------------------------------------------------------------
(* Locked sections of the MLME, as operators on its state.                 *)

Set(s, flag) == [s EXCEPT !.fw = @ \cup {flag}]
Clr(s, flag) == [s EXCEPT !.fw = @ \ {flag}]

rtw_enqueue_cmd(s, c) == [s EXCEPT !.cmds = Append(@, c)]

\* The commands that carry a scan on, and what is known when one is lost.
Carries(c) == c \in {"sitesurvey", "surveydone"}
Carried(s) == \E i \in 1 .. Len(s.cmds) : Carries(s.cmds[i])
PostLost(s) == [s EXCEPT !.broken = @ \/ ~Carried(s)]

\* Clearing to_roam also gives up a join that waits for a scan.
rtw_set_to_roam(s, n) ==
    [s EXCEPT !.to_roam = n, !.raced = FALSE,
              !.to_join = IF n = 0 THEN FALSE ELSE @]

\* Here the user's write of 0 to to_roam may have become visible.
Zeroed(s) ==
    {s} \cup {[s EXCEPT !.to_roam = 0, !.zeroing = FALSE, !.raced = FALSE] :
              z \in {TRUE} \cap {s.zeroing}}

\* to_roam-- without the lock of the writer: its 0 is counted down to 255, or
\* overwritten.
rtw_dec_to_roam(s) ==
    LET dec == [s EXCEPT !.to_roam = IF @ = 0 THEN RoamSize - 1 ELSE @ - 1]
    IN  {dec} \cup IF s.zeroing
                   THEN {[dec EXCEPT !.zeroing = FALSE],
                         [dec EXCEPT !.zeroing = FALSE, !.raced = TRUE,
                                     !.to_roam = RoamSize - 1]}
                   ELSE {}

Sme(s, state) == [s EXCEPT !.sme = state, !.muted = FALSE]

\* cfg80211 is told unless an operation of its own is under way.
rtw_cfg80211_indicate_disconnect(s) ==
    IF s.not_indic_disco
    THEN [s EXCEPT !.muted = s.sme # "idle"]
    ELSE Sme(s, "idle")

\* While roaming the link is taken down without a word to cfg80211.
rtw_indicate_disconnect(s) ==
    LET down == [s EXCEPT !.fw = @ \ {"UNDER_LINKING", "LINKED"}]
    IN  IF s.to_roam > 0 THEN down
                         ELSE rtw_cfg80211_indicate_disconnect(down)

\* External: cfg80211 ignores a result it did not ask for.
rtw_cfg80211_indicate_connect(s) ==
    IF s.sme = "idle" THEN s ELSE Sme(s, "connected")

rtw_indicate_connect(s) ==
    LET linked == IF "LINKED" \in s.fw
                  THEN s
                  ELSE rtw_cfg80211_indicate_connect(Set(s, "LINKED"))
    IN  rtw_set_to_roam([linked EXCEPT !.to_join = FALSE], 0)

free_scanqueue(s) == [s EXCEPT !.scanned = FALSE, !.fixed = FALSE]

rtw_free_assoc_resources(s) == [free_scanqueue(s) EXCEPT !.stainfo = FALSE]

\* An entry of scanned_queue that is not fixed may have outlived its time.
rtw_free_network_queue(s) ==
    {s} \cup {[s EXCEPT !.scanned = FALSE] : f \in {s.fixed} \ {TRUE}}

rtw_sitesurvey_cmd(s) ==
    UNION {{[ok |-> FALSE, s |-> t],
            [ok |-> TRUE,
             s |-> [rtw_enqueue_cmd(Set(t, "UNDER_SURVEY"), "sitesurvey")
                      EXCEPT !.scan_to_timer = TRUE,
                             !.broken = FALSE, !.orphaned = FALSE]]} :
           t \in rtw_free_network_queue(s)}

\* Without a candidate the section fails and leaves the state alone; with one
\* an old link is taken down first, and posting the command may still fail.
rtw_select_and_join_from_scanned_queue(s) ==
    LET Left(t) == rtw_free_assoc_resources(rtw_indicate_disconnect(t))
        left == IF "LINKED" \in s.fw
                THEN {Left(s), Left(rtw_enqueue_cmd(s, "disconnect"))}
                ELSE {s}
        linking == {Set(t, "UNDER_LINKING") : t \in left}
    IN  {[ok |-> FALSE, s |-> s]}
          \cup IF s.scanned
               THEN {[ok |-> FALSE, s |-> t] : t \in linking}
                      \cup {[ok |-> TRUE, s |-> rtw_enqueue_cmd(t, "joinbss")] :
                            t \in linking}
               ELSE {}

\* Mutant: the join is sent without its timer.
rtw_do_join_NoTimer(s) ==
    LET wanted == [Set(s, "UNDER_LINKING") EXCEPT !.to_join = TRUE]
    IN  {IF r.ok THEN [r EXCEPT !.s.to_join = FALSE]
                 ELSE [ok |-> FALSE, s |-> Clr(r.s, "UNDER_LINKING")] :
         r \in rtw_select_and_join_from_scanned_queue(wanted)}

\* Join from what is scanned, or scan first and join when that is done.
rtw_do_join(s) ==
    LET wanted == [Set(s, "UNDER_LINKING") EXCEPT !.to_join = TRUE]
        AfterSelect(r) ==
          IF r.ok
          THEN {[ok |-> TRUE,
                 s |-> [r.s EXCEPT !.to_join = FALSE, !.assoc_timer = TRUE]]}
          ELSE {IF q.ok THEN q
                        ELSE [ok |-> FALSE, s |-> [q.s EXCEPT !.to_join = FALSE]] :
                q \in rtw_sitesurvey_cmd(Clr(r.s, "UNDER_LINKING"))}
    IN  UNION {AfterSelect(r) :
               r \in rtw_select_and_join_from_scanned_queue(wanted)}

\* Mutant: when to_roam has run out nobody is told.
TryRoaming_Silent(s) ==
    {r.s : r \in {q \in rtw_do_join(s) : q.ok}} \cup {[s EXCEPT !.to_roam = 0]}

\* rtw_do_join is tried with to_roam counting down; it succeeds at some k, or
\* to_roam reaches 0.
Countdown(s) ==
    LET Attempt(k) == rtw_do_join([s EXCEPT !.to_roam = k])
    IN  {r.s : r \in {q \in UNION {Attempt(k) : k \in 1 .. s.to_roam} : q.ok}}
          \cup {rtw_indicate_disconnect([r.s EXCEPT !.to_roam = 0]) :
                r \in IF s.to_roam = 0 THEN {[ok |-> FALSE, s |-> s]}
                                       ELSE {q \in Attempt(1) : ~q.ok}}

\* The loop of _rtw_roaming and of the join timeout, in which the user's write
\* may meet a decrement.
TryRoaming(s) ==
    Countdown(s)
      \cup IF s.zeroing /\ s.to_roam > 0
           THEN Countdown([s EXCEPT !.zeroing = FALSE, !.raced = TRUE,
                                    !.to_roam = RoamSize - 1])
           ELSE {}

_rtw_roaming(s) == IF s.to_roam > 0 THEN TryRoaming(s) ELSE {s}

JoinFailed(s) ==
    rtw_cfg80211_indicate_disconnect(free_scanqueue(rtw_indicate_disconnect(s)))

\* Mutant: a join that times out is not counted against to_roam.
_rtw_join_timeout_handler_NoDec(s) ==
    IF s.to_roam > 0 THEN TryRoaming(s) ELSE {JoinFailed(s)}

_rtw_join_timeout_handler(s) ==
    IF s.to_roam > 0
    THEN UNION {TryRoaming(t) : t \in UNION {Zeroed(d) : d \in rtw_dec_to_roam(s)}}
    ELSE {JoinFailed(s)}

\* The result of a join.  A good one counts only for a join still under way to
\* a network still known; without memory for the station the link is not made
\* and the running timer ends the attempt.
rtw_joinbss_event_prehandle(s, res) ==
    IF res = "ok"
    THEN IF "UNDER_LINKING" \in s.fw /\ s.scanned
         THEN LET updated == [s EXCEPT !.fw = {}, !.fixed = TRUE]
              IN  {updated,
                   [rtw_indicate_connect(updated)
                      EXCEPT !.stainfo = TRUE, !.assoc_timer = FALSE]}
         ELSE {s}
    ELSE {[Clr(s, "UNDER_LINKING") EXCEPT !.assoc_timer = TRUE]}

-----------------------------------------------------------------------------
(* Steps.  Free: nobody holds mlmepriv.lock for good.                      *)

Free == timeout # "deadlock"

Event == events < MaxEvents /\ events' = events + 1

Request == user = "idle" /\ Event

(* rtw_cfg80211_indicate_scan_done *)
IndicateScanDone ==
    scan' = IF scan.request THEN [request |-> FALSE, asked |-> FALSE] ELSE scan

(* rtw_mlmeext_disconnect, and the same reset in join_cmd_hdl *)
ExtReset == [state |-> "NULL", link_timer |-> FALSE, retries |-> 0]

-----------------------------------------------------------------------------
(* The user's thread.  cfg80211 (external) makes one call at a time, scans  *)
(* when it has no request out, connects when idle, disconnects otherwise;   *)
(* an operation that fails leaves it without a request or a connection.     *)

(* cfg80211_rtw_scan *)
UserScan ==
    /\ Request
    /\ ~scan.asked
    /\ scan' = [request |-> TRUE, asked |-> TRUE]
    /\ user' = "scan"
    /\ UNCHANGED <<mlme, ext, survey, cmd, report, timeout>>

\* Refused and done at once: a scan is running, traffic is busy, scanning is
\* denied or the chip does not wake up.
ScanRefuse ==
    /\ user = "scan"
    /\ user' = "scan_done"
    /\ UNCHANGED <<mlme, ext, survey, cmd, scan, report, timeout, events>>

\* -EBUSY returns at once; scan_request is left as it was set.
ScanBusy ==
    /\ user = "scan"
    /\ "UNDER_SURVEY" \notin mlme.fw
    /\ "UNDER_LINKING" \in mlme.fw
    /\ scan' = [scan EXCEPT !.asked = FALSE]
    /\ user' = "idle"
    /\ UNCHANGED <<mlme, ext, survey, cmd, report, timeout, events>>

ScanAccept ==
    /\ user = "scan"
    /\ mlme.fw \cap {"UNDER_SURVEY", "UNDER_LINKING"} = {}
    /\ user' = "scan_submit"
    /\ UNCHANGED <<mlme, ext, survey, cmd, scan, report, timeout, events>>

ScanSubmit ==
    /\ user = "scan_submit"
    /\ Free
    /\ \E r \in rtw_sitesurvey_cmd(mlme) :
         /\ mlme' = r.s
         /\ scan' = [scan EXCEPT !.asked = r.ok /\ @]
    /\ user' = "idle"
    /\ UNCHANGED <<ext, survey, cmd, report, timeout, events>>

ScanDone ==
    /\ user = "scan_done"
    /\ IndicateScanDone
    /\ user' = "idle"
    /\ UNCHANGED <<mlme, ext, survey, cmd, report, timeout, events>>

(* cfg80211_rtw_connect *)
UserConnect ==
    /\ Request
    /\ mlme.sme = "idle"
    /\ mlme' = Sme([mlme EXCEPT !.not_indic_disco = TRUE], "connecting")
    /\ user' = "connect"
    /\ UNCHANGED <<ext, survey, cmd, scan, report, timeout>>

ConnectCheck ==
    /\ user = "connect"
    /\ \/ user' = "connect_fail" /\ UNCHANGED survey
       \/ /\ mlme.fw \cap {"UNDER_LINKING", "UNDER_SURVEY"} = {}
          /\ user' = "connect_set" /\ UNCHANGED survey
       \/ /\ "UNDER_LINKING" \notin mlme.fw
          /\ "UNDER_SURVEY" \in mlme.fw
          /\ survey' = [survey EXCEPT !.scan_abort = TRUE]
          /\ user' = "connect_abort"
    /\ UNCHANGED <<mlme, ext, cmd, scan, report, timeout, events>>

\* The group cipher is refused by a plain return: not_indic_disco stays set.
ConnectBadCipher ==
    /\ user = "connect_set"
    /\ mlme' = Sme(mlme, "idle")
    /\ user' = "idle"
    /\ UNCHANGED <<ext, survey, cmd, scan, report, timeout, events>>

(* rtw_set_802_11_connect *)
ConnectSet ==
    /\ user = "connect_set"
    /\ Free
    /\ \/ /\ user' = "connect_fail"      \* TKIP countermeasures
          /\ "UNDER_SURVEY" \in mlme.fw \/ "UNDER_LINKING" \notin mlme.fw
          /\ UNCHANGED mlme
       \/ /\ "UNDER_SURVEY" \in mlme.fw
          /\ mlme' = [mlme EXCEPT !.to_join = TRUE]
          /\ user' = "connect_ok"
       \/ /\ "UNDER_SURVEY" \notin mlme.fw
          /\ "UNDER_LINKING" \in mlme.fw
          /\ user' = "connect_ok"
          /\ UNCHANGED mlme
       \/ /\ mlme.fw \cap {"UNDER_SURVEY", "UNDER_LINKING"} = {}
          /\ \E r \in rtw_do_join(mlme) :
               /\ mlme' = r.s
               /\ user' = IF r.ok THEN "connect_ok" ELSE "connect_fail"
    /\ UNCHANGED <<ext, survey, cmd, scan, report, timeout, events>>

ConnectReturn ==
    /\ user \in {"connect_ok", "connect_fail"}
    /\ LET done == [mlme EXCEPT !.not_indic_disco = FALSE]
       IN  mlme' = IF user = "connect_fail" THEN Sme(done, "idle") ELSE done
    /\ user' = "idle"
    /\ UNCHANGED <<ext, survey, cmd, scan, report, timeout, events>>

(* cfg80211_rtw_disconnect: to_join and the roaming budget are cleared      *)
(* without the lock, and disconnect_hdl is called here, not queued behind   *)
(* other commands (without memory for its parameter, not at all).           *)
UserDisconnect ==
    /\ Request
    /\ mlme.sme # "idle"
    /\ mlme' = [mlme EXCEPT !.not_indic_disco = TRUE, !.to_join = FALSE,
                            !.zeroing = TRUE]
    /\ user' = "leave_roam"
    /\ UNCHANGED <<ext, survey, cmd, scan, report, timeout>>

\* The write of 0 is over, if it was not before.
DisconnectClear ==
    /\ user = "leave_roam"
    /\ mlme' \in {s \in Zeroed(mlme) : ~s.zeroing}
    /\ survey' = [survey EXCEPT !.scan_abort = TRUE]
    /\ user' = "leave_abort"
    /\ UNCHANGED <<ext, cmd, scan, report, timeout, events>>

DisconnectHdl ==
    /\ user = "leave_hdl"
    /\ ext' \in {ext, ExtReset}
    /\ user' = "leave_indicate"
    /\ UNCHANGED <<mlme, survey, cmd, scan, report, timeout, events>>

DisconnectIndicate ==
    /\ user = "leave_indicate"
    /\ mlme' = rtw_indicate_disconnect(mlme)
    /\ user' = "leave_free"
    /\ UNCHANGED <<ext, survey, cmd, scan, report, timeout, events>>

DisconnectReturn ==
    /\ user = "leave_free"
    /\ mlme' = Sme([rtw_free_assoc_resources(mlme)
                      EXCEPT !.not_indic_disco = FALSE], "idle")
    /\ user' = "idle"
    /\ UNCHANGED <<ext, survey, cmd, scan, report, timeout, events>>

(* rtw_scan_abort: wait for the scan to end, for 200 ms at most.            *)
ScanAbort ==
    /\ user \in {"connect_abort", "leave_abort"}
    /\ IF "UNDER_SURVEY" \in mlme.fw THEN IndicateScanDone ELSE UNCHANGED scan
    /\ survey' = [survey EXCEPT !.scan_abort = FALSE]
    /\ user' = IF user = "connect_abort" THEN "connect_set" ELSE "leave_hdl"
    /\ UNCHANGED <<mlme, ext, cmd, report, timeout, events>>

User ==
    \/ ScanRefuse \/ ScanBusy \/ ScanAccept \/ ScanSubmit \/ ScanDone
    \/ ConnectCheck \/ ConnectBadCipher \/ ConnectSet \/ ConnectReturn
    \/ DisconnectClear \/ DisconnectHdl \/ DisconnectIndicate \/ DisconnectReturn
    \/ ScanAbort

-----------------------------------------------------------------------------
(* The command thread.                                                      *)

Dequeue(c) == cmd = "idle" /\ mlme.cmds # <<>> /\ Head(mlme.cmds) = c

Dequeued == [mlme EXCEPT !.cmds = Tail(@)]

(* join_cmd_hdl: an association of before is given up first *)
JoinHdl ==
    /\ Dequeue("joinbss")
    /\ mlme' = Dequeued
    /\ ext' = IF ext.state = "ASSOC_SUCCESS" THEN ExtReset ELSE ext
    /\ cmd' = "join"
    /\ UNCHANGED <<survey, user, scan, report, timeout, events>>

(* rtw_chk_start_clnt_join fails and is reported, memory permitting, or     *)
(* start_clnt_join.                                                         *)
JoinStart ==
    /\ cmd = "join"
    /\ \/ /\ Free
          /\ mlme' \in {mlme} \cup rtw_joinbss_event_prehandle(mlme, "fail")
          /\ UNCHANGED ext
       \/ /\ mlme' = [mlme EXCEPT !.assoc_timer = TRUE]
          /\ ext' = [state |-> "AUTH_NULL", link_timer |-> TRUE, retries |-> 0]
    /\ cmd' = "idle"
    /\ UNCHANGED <<survey, user, scan, report, timeout, events>>

(* disconnect_hdl from the queue *)
DisconnectCmd ==
    /\ Dequeue("disconnect")
    /\ mlme' = Dequeued
    /\ ext' = ExtReset
    /\ UNCHANGED <<survey, cmd, user, scan, report, timeout, events>>

\* Mutant: the last channel ends the survey without an event.
SurveyHdl_NoDone ==
    /\ Dequeue("sitesurvey")
    /\ LET idx == IF survey.state = "DISABLE" THEN 0 ELSE survey.channel_idx
       IN  survey' = IF idx < ChNum
                     THEN [survey EXCEPT !.state = "PROCESS",
                                         !.channel_idx = idx, !.timer = TRUE]
                     ELSE [survey EXCEPT !.state = "DISABLE"]
    /\ mlme' = Dequeued
    /\ UNCHANGED <<ext, cmd, user, scan, report, timeout, events>>

(* sitesurvey_cmd_hdl and site_survey: start a scan (behind a null frame    *)
(* when associated), dwell on a channel, or finish with an event that may   *)
(* be lost.                                                                 *)
SurveyHdl ==
    /\ Dequeue("sitesurvey")
    /\ LET idx == IF survey.state = "DISABLE" THEN 0 ELSE survey.channel_idx
       IN  IF survey.state = "DISABLE" /\ ext.state = "ASSOC_SUCCESS"
           THEN /\ survey' = [survey EXCEPT !.state = "TXNULL", !.channel_idx = 0,
                                            !.timer = TRUE]
                /\ mlme' = Dequeued
                /\ UNCHANGED events
           ELSE IF idx < ChNum
           THEN /\ survey' = [survey EXCEPT !.state = "PROCESS",
                                            !.channel_idx = idx, !.timer = TRUE]
                /\ mlme' = Dequeued
                /\ UNCHANGED events
           ELSE /\ survey' = [survey EXCEPT !.state = "DISABLE"]
                /\ \/ mlme' = rtw_enqueue_cmd(Dequeued, "surveydone") /\ UNCHANGED events
                   \/ mlme' = PostLost(Dequeued) /\ Event
    /\ UNCHANGED <<ext, cmd, user, scan, report, timeout>>

(* rtw_survey_event_callback: ignored while a join is under way *)
SurveyEvent ==
    /\ Dequeue("found")
    /\ Free
    /\ mlme' = IF "UNDER_LINKING" \in mlme.fw
               THEN Dequeued
               ELSE [Dequeued EXCEPT !.scanned = TRUE]
    /\ UNCHANGED <<ext, survey, cmd, user, scan, report, timeout, events>>

(* rtw_surveydone_event_callback: the flag under the lock, the timer without *)
(* it, the pending join under the lock again, the indication without it.     *)
SurveyDoneClear ==
    /\ Dequeue("surveydone")
    /\ Free
    /\ mlme' = Clr(Dequeued, "UNDER_SURVEY")
    /\ cmd' = "done_cancel"
    /\ UNCHANGED <<ext, survey, user, scan, report, timeout, events>>

\* By now the flag may be that of another scan, and so may be the timer.
SurveyDoneCancel ==
    /\ cmd = "done_cancel"
    /\ mlme' = [mlme EXCEPT !.scan_to_timer = FALSE,
                            !.orphaned = "UNDER_SURVEY" \in mlme.fw]
    /\ cmd' = "done_join"
    /\ UNCHANGED <<ext, survey, user, scan, report, timeout, events>>

\* What follows a scan made in order to join.
JoinScanned(s) ==
    LET linking == [Set(s, "UNDER_LINKING") EXCEPT !.to_join = FALSE]
        GiveUp(t) == rtw_indicate_disconnect(
                       rtw_free_assoc_resources(rtw_set_to_roam(t, 0)))
        Failed(t) ==
          IF t.to_roam = 0 THEN {rtw_indicate_disconnect(t)}
          ELSE LET Again(dec) ==
                     IF dec.to_roam = 0 THEN {GiveUp(dec)}
                     ELSE {IF q.ok THEN [q.s EXCEPT !.to_join = TRUE]
                                   ELSE GiveUp(q.s) :
                           q \in rtw_sitesurvey_cmd(dec)}
               IN  UNION {Again(dec) :
                          dec \in UNION {Zeroed(d) : d \in rtw_dec_to_roam(t)}}
    IN  UNION {IF r.ok THEN {[r.s EXCEPT !.assoc_timer = TRUE]}
                       ELSE {Clr(t, "UNDER_LINKING") : t \in Failed(r.s)} :
               r \in rtw_select_and_join_from_scanned_queue(linking)}

SurveyDoneJoin ==
    /\ cmd = "done_join"
    /\ Free
    /\ mlme' \in IF mlme.to_join THEN JoinScanned(mlme) ELSE {mlme}
    /\ cmd' = "done_indicate"
    /\ UNCHANGED <<ext, survey, user, scan, report, timeout, events>>

SurveyDoneIndicate ==
    /\ cmd = "done_indicate"
    /\ IndicateScanDone
    /\ cmd' = "idle"
    /\ UNCHANGED <<mlme, ext, survey, user, report, timeout, events>>

(* rtw_stadel_event_callback: mlmeext_sta_del_event_callback, then under the *)
(* lock the decision to roam, by the reason the event carries.               *)
StaDel ==
    /\ Dequeue("del_expired") \/ Dequeue("del_left")
    /\ ext' = IF ext.state = "ASSOC_SUCCESS" THEN ExtReset ELSE ext
    /\ cmd' = "stadel"
    /\ UNCHANGED <<mlme, survey, user, scan, report, timeout, events>>

\* Mutant: to_roam is counted down without a test.
RoamBudget_Wrap(s, expired) ==
    {IF expired THEN [s EXCEPT !.to_roam = @ - 1] ELSE rtw_set_to_roam(s, 0)}

\* Mutant: a lost link is not tested for a budget that has run out.
RoamBudget_NoTest(s, expired) ==
    IF expired THEN rtw_dec_to_roam(s) ELSE {rtw_set_to_roam(s, 0)}

RoamBudget(s, expired) ==
    IF ~expired THEN {rtw_set_to_roam(s, 0)}
    ELSE IF s.to_roam > 0 THEN rtw_dec_to_roam(s)
    ELSE {rtw_set_to_roam(s, MaxRoam)}

StaDelRoam ==
    /\ cmd = "stadel"
    /\ Free
    /\ \E b \in RoamBudget(Dequeued, Head(mlme.cmds) = "del_expired") :
       \E t \in Zeroed(b) :
       \E u \in Zeroed(rtw_indicate_disconnect(rtw_free_assoc_resources(t))) :
         mlme' \in _rtw_roaming(u)
    /\ cmd' = "idle"
    /\ UNCHANGED <<ext, survey, user, scan, report, timeout, events>>

(* linked_status_chk, run by the command thread, finds the AP silent *)
LinkExpires ==
    /\ Event
    /\ cmd = "idle"
    /\ ext.state = "ASSOC_SUCCESS"
    /\ mlme.stainfo
    /\ ext' = [ext EXCEPT !.state = "NULL"]
    /\ mlme' \in {mlme, rtw_enqueue_cmd(mlme, "del_expired")}
    /\ UNCHANGED <<survey, cmd, user, scan, report, timeout>>

Command ==
    \/ JoinHdl \/ JoinStart \/ DisconnectCmd
    \/ SurveyHdl \/ SurveyEvent
    \/ SurveyDoneClear \/ SurveyDoneCancel \/ SurveyDoneJoin \/ SurveyDoneIndicate
    \/ StaDel \/ StaDelRoam

-----------------------------------------------------------------------------
(* The RX tasklet.                                                          *)

RxIdle == report.rx = "none"

(* OnBeacon during a scan: report_survey_event.  Bound: once per queue.     *)
BeaconScanned ==
    /\ RxIdle
    /\ survey.state = "PROCESS"
    /\ ~mlme.scanned
    /\ \A i \in 1 .. Len(mlme.cmds) : mlme.cmds[i] # "found"
    /\ mlme' = rtw_enqueue_cmd(mlme, "found")
    /\ UNCHANGED <<ext, survey, cmd, user, scan, report, timeout, events>>

(* OnBeacon of the network to join: start_clnt_auth *)
OnBeacon ==
    /\ RxIdle
    /\ survey.state # "PROCESS"
    /\ ext.state = "AUTH_NULL"
    /\ ext' = [state |-> "AUTH_STATE", link_timer |-> TRUE, retries |-> 0]
    /\ UNCHANGED <<mlme, survey, cmd, user, scan, report, timeout, events>>

(* OnAuthClient: start_clnt_assoc.  reassoc_count is still 0.               *)
OnAuthClient ==
    /\ RxIdle
    /\ ext.state = "AUTH_STATE"
    /\ ext' = [state |-> "ASSOC_STATE", link_timer |-> TRUE, retries |-> 0]
    /\ UNCHANGED <<mlme, survey, cmd, user, scan, report, timeout, events>>

(* OnAssocRsp: rejected, or accepted; an aid of 0 is accepted and reported  *)
(* as a failure.                                                            *)
OnAssocRsp ==
    /\ RxIdle
    /\ ext.state = "ASSOC_STATE"
    /\ \/ /\ ext' = [ext EXCEPT !.state = "NULL", !.link_timer = FALSE]
          /\ report' = [report EXCEPT !.rx = "fail"]
       \/ /\ ext' = [ext EXCEPT !.state = "ASSOC_SUCCESS", !.link_timer = FALSE]
          /\ report' \in {[report EXCEPT !.rx = r] : r \in {"ok", "fail"}}
    /\ UNCHANGED <<mlme, survey, cmd, user, scan, timeout, events>>

(* OnDeAuth, OnDisassoc: receive_disconnect *)
OnDeAuth ==
    /\ RxIdle
    /\ \/ /\ ext.state = "ASSOC_SUCCESS"
          /\ Event
          /\ mlme' \in {mlme, rtw_enqueue_cmd(mlme, "del_left")}
          /\ UNCHANGED report
       \/ /\ ext.state \in Linking
          /\ report' = [report EXCEPT !.rx = "fail"]
          /\ UNCHANGED <<mlme, events>>
    /\ ext' = [ext EXCEPT !.state = "NULL"]
    /\ UNCHANGED <<survey, cmd, user, scan, timeout>>

(* report_join_res, or no memory for the event.  A link that is made cancels *)
(* assoc_timer under the lock and so waits for its handler; a handler that   *)
(* has started waits for the lock.                                           *)
ReportRx ==
    /\ report.rx # "none"
    /\ Free
    /\ \/ mlme' \in rtw_joinbss_event_prehandle(mlme, report.rx)
       \/ UNCHANGED mlme
    /\ timeout' = IF /\ timeout = "running"
                     /\ report.rx = "ok"
                     /\ "UNDER_LINKING" \in mlme.fw
                     /\ mlme'.fw = {"LINKED"}
                  THEN "deadlock" ELSE timeout
    /\ report' = [report EXCEPT !.rx = "none"]
    /\ UNCHANGED <<ext, survey, cmd, user, scan, events>>

Radio == BeaconScanned \/ OnBeacon \/ OnAuthClient \/ OnAssocRsp \/ OnDeAuth

-----------------------------------------------------------------------------
(* The timers.                                                              *)

(* link_timer_hdl: no beacon, or send the request again up to the limit *)
LinkTimer ==
    /\ ext.link_timer
    /\ report.link = "none"
    /\ LET GivesUp == \/ ext.state = "AUTH_NULL"
                      \/ /\ ext.state \in {"AUTH_STATE", "ASSOC_STATE"}
                         /\ ext.retries + 1 > RetryLimit
       IN  \/ /\ GivesUp
              /\ ext' = [ext EXCEPT !.state = "NULL", !.link_timer = FALSE]
              /\ report' = [report EXCEPT !.link = "fail"]
           \/ /\ ~GivesUp
              /\ ext' = IF ext.state \in Linking
                        THEN [ext EXCEPT !.retries = @ + 1]
                        ELSE [ext EXCEPT !.link_timer = FALSE]
              /\ UNCHANGED report
    /\ UNCHANGED <<mlme, survey, cmd, user, scan, timeout, events>>

ReportLink ==
    /\ report.link # "none"
    /\ Free
    /\ \/ mlme' \in rtw_joinbss_event_prehandle(mlme, report.link)
       \/ UNCHANGED mlme
    /\ report' = [report EXCEPT !.link = "none"]
    /\ UNCHANGED <<ext, survey, cmd, user, scan, timeout, events>>

\* Mutant: the survey stays on its channel.
SurveyTimer_Stay ==
    /\ survey.timer
    /\ survey' = [survey EXCEPT !.timer = FALSE, !.scan_abort = FALSE]
    /\ mlme' = IF survey.state = "DISABLE" THEN mlme
               ELSE rtw_enqueue_cmd(mlme, "sitesurvey")
    /\ UNCHANGED <<ext, cmd, user, scan, report, timeout, events>>

(* survey_timer_hdl: on to the next channel, or past the last one, by a     *)
(* command that may be lost.                                                *)
SurveyTimer ==
    /\ survey.timer
    /\ IF survey.state = "DISABLE"
       THEN /\ survey' = [survey EXCEPT !.timer = FALSE]
            /\ UNCHANGED <<mlme, events>>
       ELSE /\ survey' = [survey EXCEPT
                 !.timer = FALSE,
                 !.channel_idx = IF survey.scan_abort THEN ChNum
                                 ELSE IF survey.state = "PROCESS" THEN @ + 1
                                 ELSE @,
                 !.scan_abort = FALSE]
            /\ \/ mlme' = rtw_enqueue_cmd(mlme, "sitesurvey") /\ UNCHANGED events
               \/ mlme' = PostLost(mlme) /\ Event
    /\ UNCHANGED <<ext, cmd, user, scan, report, timeout>>

\* The chain of site survey commands and the timer that posts the next one.
ScanDriven == (survey.state # "DISABLE" /\ survey.timer) \/ Carried(mlme)

(* rtw_scan_timeout_handler, for a scan that is over its time or stuck *)
ScanTimeout ==
    /\ IF ScanDriven THEN Event ELSE UNCHANGED events
    /\ mlme.scan_to_timer
    /\ Free
    /\ mlme' = [Clr(mlme, "UNDER_SURVEY") EXCEPT !.scan_to_timer = FALSE]
    /\ IndicateScanDone
    /\ UNCHANGED <<ext, survey, cmd, user, report, timeout>>

(* assoc_timer fires and its handler starts ... *)
AssocTimer ==
    /\ mlme.assoc_timer
    /\ timeout = "idle"
    /\ mlme' = [mlme EXCEPT !.assoc_timer = FALSE]
    /\ timeout' = "running"
    /\ UNCHANGED <<ext, survey, cmd, user, scan, report, events>>

(* ... and gets the lock *)
JoinTimeout ==
    /\ timeout = "running"
    /\ mlme' \in _rtw_join_timeout_handler(mlme)
    /\ timeout' = "idle"
    /\ UNCHANGED <<ext, survey, cmd, user, scan, report, events>>

Next ==
    \/ UserScan \/ UserConnect \/ UserDisconnect \/ User
    \/ Command \/ LinkExpires
    \/ Radio \/ ReportRx
    \/ LinkTimer \/ ReportLink
    \/ SurveyTimer \/ ScanTimeout
    \/ AssocTimer \/ JoinTimeout

Spec == Init /\ [][Next]_vars

Fairness ==
    /\ WF_vars(User)
    /\ WF_vars(Command)
    /\ WF_vars(ReportRx)
    /\ WF_vars(LinkTimer)
    /\ WF_vars(ReportLink)
    /\ WF_vars(SurveyTimer)
    /\ WF_vars(ScanTimeout)
    /\ WF_vars(AssocTimer)
    /\ WF_vars(JoinTimeout)

FairSpec == Spec /\ Fairness

-----------------------------------------------------------------------------
(* Properties.                                                              *)

\* _FW_UNDER_LINKING blocks scans and connects, and a join that goes wrong is
\* ended by assoc_timer alone (MAX_JOIN_TIMEOUT, or 1 ms after a failure is
\* reported): whoever sets the flag, and whatever radio, timers and operations
\* do in between, the timer is armed or its handler is on the way.
LinkingGuarded ==
    "UNDER_LINKING" \in mlme.fw => mlme.assoc_timer \/ timeout # "idle"

\* _FW_UNDER_SURVEY is cleared at the end of a chain of commands, survey timers
\* and the surveydone event, or by scan_to_timer.  The chain is not broken by an
\* abort, by a scan timeout that lets a second scan start on top of the first,
\* or by the event of one scan clearing the flag and the timer of the next, but
\* only by a post of its own that fails; and the flag is without scan_to_timer
\* only when the surveydone event of another scan has cancelled it.
ScanNotForgotten ==
    "UNDER_SURVEY" \in mlme.fw => /\ ScanDriven \/ mlme.broken
                                  /\ mlme.scan_to_timer \/ mlme.orphaned

\* to_roam never exceeds the budget, unless the write of cfg80211_rtw_disconnect
\* met a decrement: no sequence of lost links, timeouts and scans counts it
\* down past 0.
RoamBounded == mlme.to_roam <= MaxRoam \/ mlme.raced

Attempting ==
    \/ mlme.assoc_timer \/ timeout # "idle"
    \/ mlme.to_join /\ (ScanDriven \/ cmd \in {"done_cancel", "done_join"})

\* The scan that was to find the network has lost a post.  rtw_scan_timeout_handler
\* clears the flag and leaves to_join to the next scan.
Stranded == mlme.to_join /\ mlme.broken

\* What cfg80211 takes for a connection, made or being made, is a link, or the
\* driver is still at it: a join with its timer, or a scan that to_join turns
\* into a join.  In particular roaming is never abandoned in silence.  The
\* exceptions are an indication that not_indic_disco kept from cfg80211, and a
\* scan that lost a post.
ConnectionDriven ==
    user = "idle" /\ mlme.sme # "idle" /\ "LINKED" \notin mlme.fw
        => Attempting \/ mlme.muted \/ Stranded

\* The join timer and the join result never wait for one another.
NoDeadlock == Free

\* A scan ends, although a post may fail or an older scan cancel scan_to_timer
\* (but not both): scans are refused while one is marked as running, and cfg80211
\* waits for its request.
ScanEnds ==
    "UNDER_SURVEY" \in mlme.fw
        ~> "UNDER_SURVEY" \notin mlme.fw \/ ~Free \/ (mlme.broken /\ mlme.orphaned)

\* A connection that is being made, or roams, comes about or is reported gone:
\* the retries of a join, of roaming and of the scans in between run out, also
\* when the count starts at 255.
ConnectionSettles ==
    mlme.sme # "idle" /\ "LINKED" \notin mlme.fw
        ~> \/ mlme.sme = "idle" \/ "LINKED" \in mlme.fw
           \/ mlme.muted \/ Stranded \/ ~Free
=============================================================================
