------------------------------ MODULE Heartbeat ------------------------------
(***************************************************************************)
(* KernelHeartbeat: the thread that looks once a minute whether the        *)
(* Telegram adapter runs, tells the founder through the NotificationBus    *)
(* when it does not, and sends the morning brief once a day; with the      *)
(* adapter and the process they share.                                     *)
(*                                                                         *)
(* Dates are compared with today only, so "today" is a flag that midnight  *)
(* clears; the window of the brief may be at any time of the day.          *)
(* Midnight may fall into the sending of a brief, not between two checks   *)
(* of a tick. The cadence alert is made as the channel's and is left out,  *)
(* except that it can fail. So are the notice of a brief that could not be *)
(* sent, send_now, the same sending without a schedule, and the wake of    *)
(* the project workers at the end of a tick. The bus has one producer      *)
(* here: a lookup and the insertion after it are one step, and so are a    *)
(* delivery and the status after it.                                       *)
(***************************************************************************)
EXTENDS TelegramAdapter

CONSTANT MaxFault      \* bound: crashes a day

ASSUME HeartbeatAssumption == MaxFault \in Nat

VARIABLES
    up,          \* is the kernel process running?
    token,       \* has it a bot token?
    grace,       \* does it still give the adapter time to connect?
    at,          \* where the tick is
    alerted,     \* _alerted_telegram_on is today
    attempted,   \* _brief_attempted_on is today
    audited,     \* the last brief in the audit trail is today's
    sent,        \* did the brief reach a chat?
    row,         \* the notification of the last hour under today's key,
                 \* unless suppressed: under way, left queued, or delivered
    faults,      \* crashes today
    briefs,      \* history: scheduled briefs the founder got today ...
    lost         \* ... and those of them no record tells of

tickVars == <<at, alerted, attempted, sent>>
historyVars == <<briefs, lost>>
vars == <<adapterVars, up, token, grace, tickVars, audited, row, faults,
          historyVars>>

Checking == {"channel", "brief"}
Notifying == {"notifying", "delivering"}

TypeOK ==
    /\ AdapterTypeOK
    /\ \A f \in {up, token, grace, alerted, attempted, audited, sent} : f \in BOOLEAN
    /\ at \in {"sleeping", "sending", "recording"} \cup Checking \cup Notifying
    /\ row \in {"none", "open", "queued", "delivered"}
    /\ faults \in 0..MaxFault
    /\ briefs \in Nat /\ lost \in Nat

Init ==
    /\ AdapterInit
    /\ up = FALSE /\ token = FALSE
    /\ grace = TRUE
    /\ at = "sleeping"
    /\ alerted = FALSE /\ attempted = FALSE /\ audited = FALSE
    /\ sent = FALSE
    /\ row = "none"
    /\ faults = 0
    /\ briefs = 0 /\ lost = 0

In(where) == up /\ at = where
Goto(where) == at' = where

----------------------------------------------------------------------------
(* tick, and the bus it tells                                              *)

Tick ==
    /\ In("sleeping")
    /\ Goto("channel")
    /\ UNCHANGED <<adapterVars, up, token, grace, alerted, attempted, sent,
                   audited, row, faults, historyVars>>

(* To the brief, unless the check of the cadence between fails.            *)
Onward == at' \in {"brief", "sleeping"}

ThreadGone == phase = "off"
ChannelDown == ~running

(* Once a day, and after the startup grace; the day is noted first.        *)
CheckChannel ==
    /\ In("channel")
    /\ IF ChannelDown /\ ~grace /\ ~alerted
       THEN /\ alerted' = TRUE
            /\ Goto("notifying")
       ELSE Onward /\ UNCHANGED alerted
    /\ UNCHANGED <<adapterVars, up, token, grace, attempted, sent, audited,
                   row, faults, historyVars>>

(* A duplicate is suppressed. A row still queued counts as one.            *)
Queue ==
    /\ In("notifying")
    /\ IF row = "none"
       THEN row' = "open" /\ Goto("delivering")
       ELSE Onward /\ UNCHANGED row
    /\ UNCHANGED <<adapterVars, up, token, grace, alerted, attempted, sent,
                   audited, faults, historyVars>>

(* One channel after the other: the founder's rules, limits and errors     *)
(* decide which deliver it, and the row says whether one did.              *)
Deliver(some) ==
    /\ In("delivering")
    /\ row' = IF some THEN "delivered" ELSE "none"
    /\ Onward
    /\ UNCHANGED <<adapterVars, up, token, grace, alerted, attempted, sent,
                   audited, faults, historyVars>>

Abandoned == IF row = "open" THEN "queued" ELSE row

(* A transaction of the bus fails: _run_forever drops the tick.            *)
NotifyRaises ==
    /\ up /\ at \in Notifying
    /\ row' = Abandoned
    /\ Goto("sleeping")
    /\ UNCHANGED <<adapterVars, up, token, grace, alerted, attempted, sent,
                   audited, faults, historyVars>>

----------------------------------------------------------------------------
(* _maybe_send_brief, _send_brief, _record_brief                           *)

Unaudited == FALSE
AuditedToday == audited

(* Not in the window, or the audit trail cannot be read; tried today; or   *)
(* the day is noted, and the brief sent unless a record tells of one.      *)
CheckBrief ==
    /\ In("brief")
    /\ \/ Goto("sleeping") /\ UNCHANGED attempted
       \/ /\ ~attempted
          /\ attempted' = TRUE
          /\ Goto(IF AuditedToday THEN "sleeping" ELSE "sending")
    /\ UNCHANGED <<adapterVars, up, token, grace, alerted, sent, audited, row, faults,
                   historyVars>>

(* No chat is bound, there is no client, the egress policy refuses, no     *)
(* chat gets it, or some chat does.                                        *)
SendBrief ==
    /\ In("sending")
    /\ sent' \in {FALSE, token}
    /\ briefs' = briefs + (IF sent' THEN 1 ELSE 0)
    /\ Goto("recording")
    /\ UNCHANGED <<adapterVars, up, token, grace, alerted, attempted,
                   audited, row, faults, lost>>

(* The dashboard the brief is made of cannot be read.                      *)
BriefRaises ==
    /\ In("sending") /\ token
    /\ Goto("sleeping")
    /\ UNCHANGED <<adapterVars, up, token, grace, alerted, attempted, sent,
                   audited, row, faults, historyVars>>

Unrecorded == sent /\ briefs > lost

(* An error of the audit is swallowed.                                     *)
Record(written) ==
    /\ In("recording")
    /\ audited' = (audited \/ written)
    /\ lost' = lost + (IF ~written /\ Unrecorded THEN 1 ELSE 0)
    /\ Goto("sleeping")
    /\ sent' = FALSE
    /\ UNCHANGED <<adapterVars, up, token, grace, alerted, attempted, row,
                   faults, briefs>>

Ticking ==
    \/ Tick \/ CheckChannel \/ CheckBrief \/ BriefRaises \/ SendBrief
    \/ \E written \in BOOLEAN : Record(written)
    \/ Queue \/ NotifyRaises
    \/ \E some \in BOOLEAN : Deliver(some)

----------------------------------------------------------------------------
(* Time                                                                    *)

EndGrace ==
    /\ up /\ grace
    /\ grace' = FALSE
    /\ UNCHANGED <<adapterVars, up, token, tickVars, audited, row, faults, historyVars>>

Midnight ==
    /\ at \notin Checking \cup Notifying
    /\ alerted' = FALSE /\ attempted' = FALSE /\ audited' = FALSE
    /\ row' = "none"
    /\ faults' = 0
    /\ briefs' = 0 /\ lost' = 0
    /\ UNCHANGED <<adapterVars, up, token, grace, at, sent>>

(* DEDUPE_WINDOW_MINUTES *)
HourPasses ==
    /\ row \in {"queued", "delivered"}
    /\ row' = "none"
    /\ UNCHANGED <<adapterVars, up, token, grace, tickVars, audited, faults, historyVars>>

----------------------------------------------------------------------------
(* The process. Whether it has the token depends on what started it.       *)
Boot ==
    /\ ~up
    /\ up' = TRUE
    /\ \E b \in BOOLEAN : token' = b
    /\ grace' = TRUE
    /\ IF token' THEN StartThread ELSE UNCHANGED adapterVars
    /\ UNCHANGED <<tickVars, audited, row, faults, historyVars>>

Crash ==
    /\ up /\ faults < MaxFault
    /\ faults' = faults + 1
    /\ up' = FALSE
    /\ token' = FALSE
    /\ grace' = TRUE
    /\ at' = "sleeping"
    /\ alerted' = FALSE /\ attempted' = FALSE
    /\ sent' = FALSE
    /\ row' = Abandoned
    /\ lost' = lost + (IF at = "recording" /\ Unrecorded THEN 1 ELSE 0)
    /\ EndThread
    /\ UNCHANGED <<audited, briefs>>

Channel ==
    /\ Arrive \/ (up /\ Adapting)
    /\ UNCHANGED <<up, token, grace, tickVars, audited, row, faults, historyVars>>

Next ==
    \/ Channel
    \/ Ticking
    \/ EndGrace \/ Midnight
    \/ HourPasses
    \/ Boot \/ Crash

Spec == Init /\ [][Next]_vars

(* The thread goes on and time passes. The database is not locked, and the *)
(* founder's rules do not silence every channel, each time there is        *)
(* something to tell. The adapter need do nothing.                         *)
Fairness ==
    /\ WF_vars(Ticking)
    /\ WF_vars(EndGrace) /\ SF_vars(Midnight)
    /\ WF_vars(HourPasses)
    /\ SF_vars(Queue) /\ SF_vars(Deliver(TRUE))

LiveSpec == Spec /\ Fairness

----------------------------------------------------------------------------
(* A message is routed once and in its turn, none sent since the process   *)
(* began is passed over, and one an earlier process routed is not routed   *)
(* again, unless the process could not learn where it began (_latest_      *)
(* offset, "so a restart does not replay").                                *)
RoutedInTurn ==
    [][\A u \in Update :
         Handle(u) => /\ begun < u
                      /\ routed = (begun + 1)..(u - 1)
                      /\ sighted => u \notin earlier]_vars

(* One scheduled brief a day reaches the founder, restarts or not          *)
(* (_brief_attempted_today_in_audit): a second only where the first left   *)
(* no record, because the process died or the audit failed in between.     *)
BriefOnce == briefs <= lost + 1

(* An adapter that is down and stays so is reported, although the day is   *)
(* noted before the bus is told and the bus takes a notification that a    *)
(* dead process left queued for a duplicate.                               *)
DownIsReported ==
    (up /\ ~running) ~> (~up \/ running \/ row = "delivered")

(* "Start from the latest update so a restart does not replay".            *)
NoReplay == [][\A u \in Update : Handle(u) => u \notin earlier]_vars
=============================================================================
