-------------------------- MODULE HeartbeatProofs ---------------------------
(***************************************************************************)
(* Theorems about Heartbeat and the TelegramAdapter it looks after, for    *)
(* any number of updates and of crashes.                                   *)
(***************************************************************************)
EXTENDS Heartbeat, TLAPS

HeartbeatTypes ==
    /\ up \in BOOLEAN /\ token \in BOOLEAN /\ grace \in BOOLEAN /\ alerted \in BOOLEAN
    /\ attempted \in BOOLEAN /\ audited \in BOOLEAN /\ sent \in BOOLEAN
    /\ at \in {"sleeping", "sending", "recording"} \cup Checking \cup Notifying
    /\ row \in {"none", "open", "queued", "delivered"}
    /\ faults \in 0..MaxFault
    /\ briefs \in Nat /\ lost \in Nat

(* Where the next update to be routed is.                                  *)
Due == IF offset = None THEN begun + 1 ELSE offset

(* A thread has routed what came after its beginning, up to its offset;    *)
(* Telegram has forgotten nothing of what is due, and an answer holds the  *)
(* updates from there on.                                                  *)
InTurn ==
    /\ phase \in {"off", "starting"} =>
         offset = None /\ batch = {} /\ routed = {} /\ begun = 0 /\ ~sighted
    /\ offset # None => begun < offset
    /\ routed = (begun + 1)..(Due - 1)
    /\ phase = "polling" => batch = {} /\ kept < Due /\ (offset = None => kept = begun)
    /\ phase = "handling" => kept < Due /\ (offset = None => kept = begun)
    /\ phase = "handling" => \E n \in 0..arrived : batch = Due..n

(* What an earlier process routed had arrived, and a process that learned  *)
(* of the latest update leaves it alone.                                   *)
Arrivals ==
    /\ Due <= arrived + 1
    /\ \A u \in earlier : u <= arrived
    /\ sighted => \A u \in earlier : u <= begun

(* A brief no record tells of is the one just being recorded.              *)
Briefs ==
    /\ briefs <= lost + 1
    /\ briefs > lost /\ ~audited => at = "recording" /\ sent
    /\ at = "sending" => ~audited

AdapterInv == AdapterTypeOK /\ InTurn /\ Arrivals
IInv == AdapterInv /\ HeartbeatTypes /\ Briefs

----------------------------------------------------------------------------
(* The adapter                                                             *)

LEMMA ArriveKeeps == AdapterInv /\ Arrive => AdapterInv'
  <1> SUFFICES ASSUME AdapterInv, Arrive PROVE AdapterInv'
    OBVIOUS
  <1> USE AdapterAssumption
  <1>1. AdapterTypeOK'
    BY DEF AdapterInv, AdapterTypeOK, Arrive, threadVars, routeVars, Update
  <1>2. InTurn'
    BY DEF AdapterInv, AdapterTypeOK, InTurn, Due, None, Arrive, threadVars, routeVars
  <1>3. Arrivals'
    BY DEF AdapterInv, AdapterTypeOK, Arrivals, Due, None, Arrive, threadVars, routeVars, Update
  <1> QED BY <1>1, <1>2, <1>3 DEF AdapterInv

LEMMA StartKeeps == AdapterInv /\ StartThread => AdapterInv'
  BY DEF AdapterInv, AdapterTypeOK, InTurn, Arrivals, Due, None, StartThread, serverVars, routeVars,
         Update

LEMMA SkipKeeps == AdapterInv /\ SkipBacklog => AdapterInv'
  <1> SUFFICES ASSUME AdapterInv, SkipBacklog PROVE AdapterInv'
    OBVIOUS
  <1> USE AdapterAssumption
  <1>a. /\ arrived \in Nat /\ kept \in Nat /\ kept <= arrived /\ arrived <= MaxUpdate
        /\ batch = {} /\ routed = {} /\ sighted = FALSE /\ offset = None
        /\ arrived' = arrived /\ batch' = batch /\ routed' = routed /\ earlier' = earlier
        /\ phase' = "polling" /\ running \in BOOLEAN /\ earlier \subseteq Update
        /\ \A u \in earlier : u <= arrived
    BY DEF AdapterInv, AdapterTypeOK, InTurn, Arrivals, SkipBacklog
  <1>1. CASE /\ offset' = Latest /\ running' = TRUE /\ kept' = LastOnly /\ begun' = arrived
             /\ sighted' = TRUE
    <2>1. AdapterTypeOK'
      BY <1>a, <1>1 DEF AdapterTypeOK, Latest, LastOnly, None, Update
    <2>2. InTurn'
      BY <1>a, <1>1 DEF InTurn, Due, Latest, LastOnly, None
    <2>3. Arrivals'
      BY <1>a, <1>1 DEF Arrivals, Due, Latest, None, Update
    <2> QED BY <2>1, <2>2, <2>3 DEF AdapterInv
  <1>2. CASE /\ offset' = None /\ Asked(LastOnly) /\ begun' = kept'
             /\ UNCHANGED <<running, sighted>>
    <2>0. PICK k \in 0..arrived : kept' = k
      BY <1>a, <1>2 DEF Asked, LastOnly
    <2>a. /\ running' \in BOOLEAN /\ sighted' \in BOOLEAN /\ ~sighted'
          /\ begun' = k /\ offset' = None
      BY <1>a, <1>2, <2>0, Zenon
    <2>1. AdapterTypeOK'
      BY <1>a, <2>a, <2>0 DEF AdapterTypeOK, None, Update
    <2>2. InTurn'
      BY <1>a, <2>a, <2>0 DEF InTurn, Due, None
    <2>3. Arrivals'
      BY <1>a, <2>a, <2>0 DEF Arrivals, Due, None
    <2> QED BY <2>1, <2>2, <2>3 DEF AdapterInv
  <1> QED BY <1>1, <1>2 DEF SkipBacklog

(* What Telegram confirms is what is not due.                              *)
LEMMA ConfirmedIsDone ==
    ASSUME AdapterInv, phase = "polling"
    PROVE  /\ Confirmed(offset) \in 0..arrived /\ Confirmed(offset) = Due - 1
           /\ Due \in Nat \ {0}
  BY AdapterAssumption DEF AdapterInv, AdapterTypeOK, InTurn, Arrivals, Due, None, Confirmed

LEMMA PollKeeps == AdapterInv /\ Poll => AdapterInv'
  <1> SUFFICES ASSUME AdapterInv, Poll PROVE AdapterInv'
    OBVIOUS
  <1> USE AdapterAssumption
  <1>1. /\ kept' \in 0..arrived /\ kept' = Due - 1 /\ Due \in Nat \ {0} /\ Due' = Due
    BY ConfirmedIsDone DEF Poll, Due, None, routeVars
  <1>2. \E n \in Nat : n <= arrived /\ batch' = Due..n
    <2>1. CASE batch' \in {(kept' + 1)..n : n \in (kept' + 1)..arrived}
      BY <1>1, <2>1 DEF AdapterInv, AdapterTypeOK
    <2>2. CASE batch' = {} /\ kept' = arrived
      <3>1. arrived \in Nat /\ arrived = Due - 1 /\ batch' = Due..arrived
        BY <1>1, <2>2 DEF AdapterInv, AdapterTypeOK
      <3> QED BY <3>1
    <2> QED BY <2>1, <2>2 DEF Poll, Answers
  <1>3. batch' \subseteq Update
    BY <1>1, <1>2 DEF AdapterInv, AdapterTypeOK, Update
  <1>4. AdapterTypeOK'
    BY <1>1, <1>3 DEF AdapterInv, AdapterTypeOK, Poll, routeVars, Update
  <1>5. InTurn'
    BY <1>1, <1>2 DEF AdapterInv, AdapterTypeOK, InTurn, Due, None, Poll, routeVars
  <1>6. Arrivals'
    BY <1>1 DEF AdapterInv, Arrivals, Poll, routeVars
  <1> QED BY <1>4, <1>5, <1>6 DEF AdapterInv

LEMMA FailKeeps == AdapterInv /\ PollFails => AdapterInv'
  <1> SUFFICES ASSUME AdapterInv, PollFails PROVE AdapterInv'
    OBVIOUS
  <1>1. /\ kept' \in 0..arrived /\ kept' < Due /\ Due' = Due
        /\ offset = None => kept' = begun
    BY ConfirmedIsDone, AdapterAssumption
       DEF PollFails, Asked, AdapterInv, AdapterTypeOK, InTurn, Due, None, routeVars
  <1>2. AdapterTypeOK'
    BY <1>1 DEF AdapterInv, AdapterTypeOK, PollFails, routeVars
  <1>3. InTurn'
    BY <1>1 DEF AdapterInv, InTurn, PollFails, routeVars
  <1>4. Arrivals'
    BY <1>1 DEF AdapterInv, Arrivals, PollFails, routeVars
  <1> QED BY <1>2, <1>3, <1>4 DEF AdapterInv

(* The update that is handled is the one that is due.                      *)
LEMMA HandlesDue ==
    ASSUME AdapterInv, NEW u \in Update, Handle(u)
    PROVE  u = Due /\ u <= arrived /\ begun < u /\ routed = (begun + 1)..(u - 1)
  <1>1. PICK n \in Nat : n <= arrived /\ batch = Due..n
    BY DEF AdapterInv, InTurn, Handle
  <1>2. Due \in Nat /\ begun < Due
    BY AdapterAssumption DEF AdapterInv, AdapterTypeOK, InTurn, Due, None
  <1>3. u \in Due..n /\ \A v \in Due..n : u <= v
    BY <1>1 DEF Handle
  <1>4. u = Due /\ u <= n
    BY <1>1, <1>2, <1>3
  <1> QED BY <1>1, <1>2, <1>4 DEF AdapterInv, AdapterTypeOK, InTurn

LEMMA HandleKeeps ==
    ASSUME AdapterInv, NEW u \in Update, Handle(u)
    PROVE  AdapterInv'
  <1> USE AdapterAssumption
  <1>1. u = Due /\ u <= arrived /\ begun < u /\ routed = (begun + 1)..(u - 1)
    BY HandlesDue
  <1>2. PICK n \in Nat : n <= arrived /\ batch = u..n
    BY <1>1 DEF AdapterInv, InTurn, Handle
  <1>3. u \in Nat \ {0} /\ arrived \in 0..MaxUpdate /\ begun \in Nat /\ kept < u
    BY <1>1 DEF AdapterInv, AdapterTypeOK, InTurn, Handle, Update
  <1>4. offset' = u + 1 /\ Due' = u + 1 /\ offset' # None
    BY <1>3 DEF Handle, Due, None
  <1>5. routed' = (begun + 1)..u
    BY <1>1, <1>3 DEF Handle
  <1>6. batch' = (u + 1)..n
    BY <1>2, <1>3 DEF Handle
  <1>7. AdapterTypeOK'
    BY <1>1, <1>3, <1>4, <1>5 DEF AdapterInv, AdapterTypeOK, Handle, Update, serverVars
  <1>8. InTurn'
    <2>1. /\ phase' = "handling" /\ kept' = kept /\ begun' = begun /\ arrived' = arrived
          /\ arrived \in Nat
      BY <1>3 DEF Handle, serverVars
    <2>2. kept' < Due' /\ begun' < offset'
      BY <1>1, <1>3, <1>4, <2>1 DEF AdapterInv, AdapterTypeOK
    <2>3. routed' = (begun' + 1)..(Due' - 1)
      BY <1>3, <1>4, <1>5, <2>1
    <2>4. \E m \in Nat : m <= arrived' /\ batch' = Due'..m
      BY <1>2, <1>4, <1>6, <2>1
    <2> QED BY <1>4, <2>1, <2>2, <2>3, <2>4 DEF InTurn
  <1>9. Arrivals'
    BY <1>1, <1>3, <1>4 DEF AdapterInv, Arrivals, Handle, serverVars
  <1> QED BY <1>7, <1>8, <1>9 DEF AdapterInv

LEMMA DoneKeeps == AdapterInv /\ PollDone => AdapterInv'
  <1> SUFFICES ASSUME AdapterInv, PollDone PROVE AdapterInv'
    OBVIOUS
  <1>1. Due' = Due
    BY DEF PollDone, Due, routeVars
  <1>2. AdapterTypeOK'
    BY DEF AdapterInv, AdapterTypeOK, PollDone, serverVars, routeVars
  <1>3. InTurn' /\ Arrivals'
    BY <1>1 DEF AdapterInv, InTurn, Arrivals, PollDone, serverVars, routeVars
  <1> QED BY <1>2, <1>3 DEF AdapterInv

LEMMA EndKeeps == AdapterInv /\ EndThread => AdapterInv'
  <1> SUFFICES ASSUME AdapterInv, EndThread PROVE AdapterInv'
    OBVIOUS
  <1> USE AdapterAssumption
  <1>1. \A u \in routed : u <= arrived
    BY DEF AdapterInv, AdapterTypeOK, InTurn, Arrivals, Due, None
  <1>2. AdapterTypeOK'
    <2>1. earlier' \subseteq Update /\ arrived' = arrived /\ kept' = kept
      BY DEF AdapterInv, AdapterTypeOK, EndThread, serverVars
    <2>2. running' \in BOOLEAN /\ sighted' \in BOOLEAN
      BY Zenon DEF EndThread
    <2> QED BY <2>1, <2>2 DEF AdapterInv, AdapterTypeOK, EndThread, None
  <1>3. InTurn'
    BY DEF EndThread, InTurn, Due, None
  <1>4. Arrivals'
    BY <1>1 DEF AdapterInv, AdapterTypeOK, Arrivals, EndThread, Due, None, serverVars
  <1> QED BY <1>2, <1>3, <1>4 DEF AdapterInv

LEMMA AdapterStutters == AdapterInv /\ UNCHANGED adapterVars => AdapterInv'
  BY DEF AdapterInv, AdapterTypeOK, InTurn, Arrivals, Due, adapterVars, serverVars, threadVars,
         routeVars

LEMMA ChannelKeeps == AdapterInv /\ (Arrive \/ Adapting) => AdapterInv'
  BY ArriveKeeps, SkipKeeps, PollKeeps, FailKeeps, HandleKeeps, DoneKeeps DEF Adapting

----------------------------------------------------------------------------
(* The tick                                                                *)

Ours == <<up, token, grace, at, alerted, attempted, sent, audited, row, faults, briefs, lost>>

LEMMA OursStutter == HeartbeatTypes /\ Briefs /\ UNCHANGED Ours => HeartbeatTypes' /\ Briefs'
  BY DEF HeartbeatTypes, Briefs, Ours

LEMMA TickKeeps == HeartbeatTypes /\ Briefs /\ Ticking => HeartbeatTypes' /\ Briefs'
  <1> SUFFICES ASSUME HeartbeatTypes, Briefs, Ticking PROVE HeartbeatTypes' /\ Briefs'
    OBVIOUS
  <1> USE DEF HeartbeatTypes, Briefs, In, Goto, Checking, Notifying, historyVars
  <1>1. CASE Tick
    BY <1>1 DEF Tick
  <1>2. CASE CheckChannel
    BY <1>2 DEF CheckChannel, Onward
  <1>3. CASE CheckBrief
    BY <1>3 DEF CheckBrief, AuditedToday
  <1>4. CASE BriefRaises
    BY <1>4 DEF BriefRaises
  <1>5. CASE SendBrief
    <2>1. /\ up' = up /\ token' = token /\ grace' = grace /\ alerted' = alerted
          /\ attempted' = attempted /\ audited' = audited /\ row' = row /\ faults' = faults
          /\ lost' = lost /\ at = "sending" /\ at' = "recording"
          /\ sent' \in {FALSE, token} /\ briefs' = briefs + (IF sent' THEN 1 ELSE 0)
      BY <1>5 DEF SendBrief
    <2>2. sent' \in BOOLEAN
      BY <2>1
    <2>3. briefs <= lost
      BY <2>1
    <2>4. CASE sent'
      BY <2>1, <2>2, <2>3, <2>4
    <2>5. CASE ~sent'
      BY <2>1, <2>2, <2>3, <2>5
    <2> QED BY <2>4, <2>5
  <1>6. ASSUME NEW written \in BOOLEAN, Record(written) PROVE HeartbeatTypes' /\ Briefs'
    <2>1. /\ up' = up /\ token' = token /\ grace' = grace /\ alerted' = alerted
          /\ attempted' = attempted /\ row' = row /\ faults' = faults /\ briefs' = briefs
          /\ at = "recording" /\ at' = "sleeping" /\ sent' = FALSE
          /\ audited' = (audited \/ written)
          /\ lost' = lost + (IF ~written /\ sent /\ briefs > lost THEN 1 ELSE 0)
      BY <1>6 DEF Record, Unrecorded
    <2>2. audited' \in BOOLEAN /\ sent' \in BOOLEAN
      BY <2>1, Zenon
    <2>3. CASE written
      <3>1. audited' /\ lost' = lost
        <4>1. audited' = (audited \/ written)
          BY <2>1
        <4>2. audited'
          BY <2>3, <4>1, Zenon
        <4>3. lost' = lost + 0
          BY <2>1, <2>3
        <4> QED BY <4>2, <4>3
      <3> QED BY <2>1, <2>2, <3>1
    <2>4. CASE ~written /\ sent /\ briefs > lost
      <3>1. lost' = lost + 1
        BY <2>1, <2>4
      <3> QED BY <2>1, <2>2, <3>1
    <2>5. CASE ~written /\ ~(sent /\ briefs > lost)
      <3>1. lost' = lost /\ audited' = audited
        BY <2>1, <2>5
      <3> QED BY <2>1, <2>2, <2>5, <3>1
    <2> QED BY <2>3, <2>4, <2>5
  <1>7. CASE Queue
    BY <1>7 DEF Queue, Onward
  <1>8. CASE NotifyRaises
    BY <1>8 DEF NotifyRaises, Abandoned
  <1>9. ASSUME NEW some \in BOOLEAN, Deliver(some) PROVE HeartbeatTypes' /\ Briefs'
    BY <1>9 DEF Deliver, Onward
  <1> QED BY <1>1, <1>2, <1>3, <1>4, <1>5, <1>6, <1>7, <1>8, <1>9 DEF Ticking

LEMMA TimeKeeps ==
    HeartbeatTypes /\ Briefs /\ (EndGrace \/ Midnight \/ HourPasses) => HeartbeatTypes' /\ Briefs'
  <1> SUFFICES ASSUME HeartbeatTypes, Briefs, EndGrace \/ Midnight \/ HourPasses
               PROVE  HeartbeatTypes' /\ Briefs'
    OBVIOUS
  <1> USE HeartbeatAssumption DEF HeartbeatTypes, Briefs
  <1>1. CASE EndGrace
    BY <1>1 DEF EndGrace, tickVars, historyVars
  <1>2. CASE Midnight
    <2>1. /\ up' = up /\ token' = token /\ grace' = grace /\ at' = at /\ sent' = sent
          /\ alerted' = FALSE /\ attempted' = FALSE /\ audited' = FALSE
          /\ row' = "none" /\ faults' = 0 /\ briefs' = 0 /\ lost' = 0
      BY <1>2 DEF Midnight
    <2>2. /\ alerted' \in BOOLEAN /\ attempted' \in BOOLEAN /\ audited' \in BOOLEAN
          /\ at' = "sending" => ~audited'
      BY <2>1, Zenon
    <2> QED BY <2>1, <2>2
  <1>3. CASE HourPasses
    BY <1>3 DEF HourPasses, tickVars, historyVars
  <1> QED BY <1>1, <1>2, <1>3

LEMMA ProcessKeeps ==
    HeartbeatTypes /\ Briefs /\ (Boot \/ Crash) => HeartbeatTypes' /\ Briefs'
  <1> SUFFICES ASSUME HeartbeatTypes, Briefs, Boot \/ Crash PROVE HeartbeatTypes' /\ Briefs'
    OBVIOUS
  <1> USE HeartbeatAssumption DEF HeartbeatTypes, Briefs
  <1>1. CASE Boot
    BY <1>1 DEF Boot, tickVars, historyVars
  <1>2. CASE Crash
    <2>1. /\ up' = FALSE /\ token' = FALSE /\ grace' = TRUE /\ at' = "sleeping" /\ sent' = FALSE
          /\ alerted' = FALSE /\ attempted' = FALSE /\ audited' = audited /\ briefs' = briefs
          /\ faults' \in 0..MaxFault
          /\ row' = IF row = "open" THEN "queued" ELSE row
          /\ lost' = lost + (IF at = "recording" /\ sent /\ briefs > lost THEN 1 ELSE 0)
      BY <1>2 DEF Crash, Abandoned, Unrecorded
    <2>2. /\ row' \in {"none", "open", "queued", "delivered"}
          /\ up' \in BOOLEAN /\ token' \in BOOLEAN /\ grace' \in BOOLEAN
          /\ sent' \in BOOLEAN /\ alerted' \in BOOLEAN /\ attempted' \in BOOLEAN
          /\ audited' \in BOOLEAN /\ (audited' => audited) /\ (audited => audited')
      BY <2>1, Zenon
    <2>3. CASE at = "recording" /\ sent /\ briefs > lost
      <3>1. lost' = lost + 1
        BY <2>1, <2>3
      <3> QED BY <2>1, <2>2, <3>1
    <2>4. CASE ~(at = "recording" /\ sent /\ briefs > lost)
      <3>1. lost' = lost
        BY <2>1, <2>4
      <3> QED BY <2>1, <2>2, <2>4, <3>1
    <2> QED BY <2>3, <2>4
  <1> QED BY <1>1, <1>2

----------------------------------------------------------------------------
(* The strengthening is inductive: it holds before the first start, and a  *)
(* step of the adapter's thread, of the tick, of time, or of the process   *)
(* preserves it.                                                           *)
THEOREM Invariant == Spec => []IInv
  <1>1. Init => IInv
    <2> SUFFICES ASSUME Init PROVE IInv
      OBVIOUS
    <2>0. running \in BOOLEAN /\ sighted \in BOOLEAN
      BY Zenon DEF Init, AdapterInit
    <2>1. AdapterTypeOK
      BY <2>0, AdapterAssumption DEF Init, AdapterInit, AdapterTypeOK, None
    <2>2. InTurn /\ Arrivals
      BY DEF Init, AdapterInit, InTurn, Arrivals, Due, None
    <2>3. /\ up \in BOOLEAN /\ token \in BOOLEAN /\ grace \in BOOLEAN /\ alerted \in BOOLEAN
          /\ attempted \in BOOLEAN /\ audited \in BOOLEAN /\ sent \in BOOLEAN
      BY Zenon DEF Init
    <2>4. HeartbeatTypes /\ Briefs
      BY <2>3, HeartbeatAssumption DEF Init, HeartbeatTypes, Briefs
    <2> QED BY <2>1, <2>2, <2>4 DEF IInv, AdapterInv
  <1>2. IInv /\ [Next]_vars => IInv'
    <2> SUFFICES ASSUME IInv, [Next]_vars PROVE IInv'
      OBVIOUS
    <2>1. CASE Channel
      <3>1. UNCHANGED Ours
        BY <2>1 DEF Channel, Ours, tickVars, historyVars
      <3> QED BY <2>1, <3>1, ChannelKeeps, OursStutter DEF Channel, IInv
    <2>2. CASE Ticking
      <3>1. UNCHANGED adapterVars
        BY <2>2 DEF Ticking, Tick, CheckChannel, CheckBrief, BriefRaises, SendBrief, Record, Queue,
           NotifyRaises, Deliver
      <3> QED BY <2>2, <3>1, TickKeeps, AdapterStutters DEF IInv
    <2>3. CASE EndGrace \/ Midnight \/ HourPasses
      <3>1. UNCHANGED adapterVars
        BY <2>3 DEF EndGrace, Midnight, HourPasses
      <3> QED BY <2>3, <3>1, TimeKeeps, AdapterStutters DEF IInv
    <2>4. CASE Boot \/ Crash
      <3>1. StartThread \/ EndThread \/ UNCHANGED adapterVars
        BY <2>4 DEF Boot, Crash
      <3> QED BY <2>4, <3>1, ProcessKeeps, StartKeeps, EndKeeps, AdapterStutters DEF IInv
    <2>5. CASE UNCHANGED vars
      <3>1. UNCHANGED adapterVars /\ UNCHANGED Ours
        BY <2>5 DEF vars, Ours, tickVars, historyVars
      <3> QED BY <3>1, OursStutter, AdapterStutters DEF IInv
    <2> QED BY <2>1, <2>2, <2>3, <2>4, <2>5 DEF Next
  <1> QED BY <1>1, <1>2, PTL DEF Spec

(* Every variable of the adapter, the heartbeat and the bus's row keeps    *)
(* its type.                                                               *)
THEOREM TypeCorrect == Spec => []TypeOK
  <1>1. IInv => TypeOK
    BY DEF IInv, AdapterInv, HeartbeatTypes, TypeOK
  <1> QED BY <1>1, Invariant, PTL

(* _maybe_send_brief reaches the founder once a day, for any number of     *)
(* restarts, but for briefs whose record was lost.                         *)
THEOREM BriefsOnce == Spec => []BriefOnce
  <1>1. IInv => BriefOnce
    BY DEF IInv, Briefs, BriefOnce
  <1> QED BY <1>1, Invariant, PTL

(* _poll_once routes every message that is due once and in its turn, and a *)
(* process that has found its beginning (_latest_offset) repeats none of   *)
(* an earlier one's, whatever answers of Telegram are lost.                *)
THEOREM RoutesInTurn == Spec => RoutedInTurn
  <1>1. ASSUME IInv, NEW u \in Update, Handle(u)
        PROVE  begun < u /\ routed = (begun + 1)..(u - 1) /\ (sighted => u \notin earlier)
    <2>1. begun < u /\ routed = (begun + 1)..(u - 1)
      BY <1>1, HandlesDue DEF IInv
    <2>2. begun \in Nat /\ u \in Nat
      BY <1>1 DEF IInv, AdapterInv, AdapterTypeOK, Update
    <2>3. sighted => \A v \in earlier : v <= begun
      BY <1>1 DEF IInv, AdapterInv, Arrivals
    <2>4. sighted => u \notin earlier
      BY <2>1, <2>2, <2>3
    <2> QED BY <2>1, <2>4
  <1>2. IInv => [\A u \in Update :
                   Handle(u) => /\ begun < u
                                /\ routed = (begun + 1)..(u - 1)
                                /\ sighted => u \notin earlier]_vars
    BY <1>1
  <1> QED BY <1>2, Invariant, PTL DEF RoutedInTurn
=============================================================================

