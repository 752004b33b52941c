----------------------------- MODULE BuildLease -----------------------------
(***************************************************************************)
(* The paid-request ledger of one build session and one provider: the rows *)
(* of build_leases and cloud_usage_events (BuildStore), the accounting     *)
(* around them (BuildBudgetService), the calls that spend money under them *)
(* (AnthropicBuildModelClient.chat, OpenAIReviewClient.review) and the     *)
(* approvals that create and enlarge a lease (BuildService.approve and the *)
(* review routes of the API).                                              *)
(*                                                                         *)
(* Input tokens, output tokens and microdollars are each checked and       *)
(* updated by the same formula, so one amount stands for the three; cloud  *)
(* turns are kept apart. Every BuildStore method is one transaction, so    *)
(* one step; a call is a sequence of them.                                 *)
(***************************************************************************)
EXTENDS Naturals, FiniteSets

CONSTANTS
    Provider,      \* "anthropic" or "openai": whose lease this is
    Orchestrated,  \* is BuildService wired to the orchestrator, as in api.py?
    Caller,        \* concurrent paid calls
    Request,       \* the usage request ids
    Upper,         \* Upper[r]: the worst case r reserves
    Bill,          \* what the provider may charge for one send
    MaxVersion,    \* bound: number of lease rows
    MaxSend,       \* bound: transmissions of one request id
    Grant,         \* the limit one approval adds
    TurnGrant,     \* the cloud turns one approval adds
    WarnPercent    \* config.build.warning_percent

Version == 1..MaxVersion

ASSUME LeaseAssumption ==
    /\ Provider \in {"anthropic", "openai"}
    /\ Orchestrated \in BOOLEAN
    /\ MaxVersion \in Nat \ {0}
    /\ MaxSend \in Nat \ {0}
    /\ IsFiniteSet(Request)
ASSUME AmountAssumption ==
    /\ Upper \in [Request -> Nat \ {0}]
    /\ Bill \subseteq Nat
    /\ Grant \in Nat \ {0}
    /\ TurnGrant \in Nat \ {0}
    /\ WarnPercent \in 1..100

VARIABLES
    lstate,     \* build_leases.state, "none" before the row exists
    foreign,    \* versions the other provider's leases of the session took
    limit,      \* the ceiling in limits_json
    turnLimit,  \* the ceiling on cloud turns in limits_json
    actual,     \* actual_*: settled usage
    reserved,   \* reserved_*: reserved usage
    turns,      \* build_leases.cloud_turns
    late,       \* leases whose expires_at has passed
    estatus,    \* cloud_usage_events.status, "none" while there is no row
    elease,     \* cloud_usage_events.lease_id
    eturn,      \* cloud_usage_events.turn_number
    asked,      \* pending approval requests: "lease", "upgrade"
    resolving,  \* those whose lease is written and whose answer is not
    seen,       \* the lease a run has found exhausted and not yet reported
    reported,   \* the lease whose exhaustion a run reported last, 0 for none
    quarantined, \* is the session quarantined?
    pc,         \* where each call is
    held,       \* the lease it was dispatched under
    req,        \* its request id
    target,     \* the lease it is about to close
    cost,       \* what the provider charged for the send it made
    meter,      \* history: what the provider charged per request
    sends,      \* history: transmissions per request
    answered,   \* history: requests whose answer reached a call
    carried     \* history: the reserved and settled usage a lease began with

leaseVars == <<lstate, foreign, limit, turnLimit, actual, reserved, turns, carried>>
eventVars == <<estatus, elease, eturn>>
founderVars == <<asked, resolving, seen, reported, quarantined>>
callVars == <<pc, held, req, target, cost>>
historyVars == <<meter, sends, answered>>
vars == <<lstate, foreign, limit, turnLimit, actual, reserved, turns, carried, late,
          estatus, elease, eturn, asked, resolving, seen, reported, quarantined,
          pc, held, req, target, cost, meter, sends, answered>>

----------------------------------------------------------------------------
OpenState == {"active", "warning", "paused", "exhausted"}
Usable == {"active", "warning"}
LeaseState == {"none", "expired", "superseded"} \cup OpenState
Outstanding == {"reserved", "uncertain_spend"}
EventStatus == {"none", "settled", "conservative_settlement", "provider_overage"}
                   \cup Outstanding
PC == {"idle", "dispatched", "expiring", "authorizing", "reserving", "expired",
       "unfit", "closing", "exhausting", "sending", "waiting", "doubting"}
NoRequest == "none"

LeaseTypes ==
    /\ lstate \in [Version -> LeaseState]
    /\ foreign \subseteq Version
    /\ limit \in [Version -> Nat]
    /\ turnLimit \in [Version -> Nat]
    /\ actual \in [Version -> Nat]
    /\ reserved \in [Version -> Nat]
    /\ turns \in [Version -> Nat]
    /\ carried \in [Version -> [reserved : Nat, actual : Nat]]
    /\ late \subseteq Version
EventTypes ==
    /\ estatus \in [Request -> EventStatus]
    /\ elease \in [Request -> 0..MaxVersion]
    /\ eturn \in [Request -> Nat]
    /\ \A r \in Request : estatus[r] = "none" <=> elease[r] = 0
FounderTypes ==
    /\ asked \subseteq {"lease", "upgrade"}
    /\ resolving \subseteq {"lease", "upgrade"}
    /\ seen \in 0..MaxVersion
    /\ reported \in 0..MaxVersion
    /\ quarantined \in BOOLEAN
CallTypes ==
    /\ pc \in [Caller -> PC]
    /\ held \in [Caller -> 0..MaxVersion]
    /\ req \in [Caller -> Request \cup {NoRequest}]
    /\ target \in [Caller -> 0..MaxVersion]
    /\ cost \in [Caller -> Nat]
HistoryTypes ==
    /\ meter \in [Request -> Nat]
    /\ sends \in [Request -> Nat]
    /\ answered \subseteq Request

TypeOK == LeaseTypes /\ EventTypes /\ FounderTypes /\ CallTypes /\ HistoryTypes

Init ==
    /\ lstate = [v \in Version |-> "none"]
    /\ foreign = {}
    /\ limit = [v \in Version |-> 0]
    /\ turnLimit = [v \in Version |-> 0]
    /\ actual = [v \in Version |-> 0]
    /\ reserved = [v \in Version |-> 0]
    /\ turns = [v \in Version |-> 0]
    /\ carried = [v \in Version |-> [reserved |-> 0, actual |-> 0]]
    /\ late = {}
    /\ estatus = [r \in Request |-> "none"]
    /\ elease = [r \in Request |-> 0]
    /\ eturn = [r \in Request |-> 0]
    /\ asked = {"lease"}
    /\ resolving = {}
    /\ seen = 0
    /\ reported = 0
    /\ quarantined = FALSE
    /\ pc = [c \in Caller |-> "idle"]
    /\ held = [c \in Caller |-> 0]
    /\ req = [c \in Caller |-> NoRequest]
    /\ target = [c \in Caller |-> 0]
    /\ cost = [c \in Caller |-> 0]
    /\ meter = [r \in Request |-> 0]
    /\ sends = [r \in Request |-> 0]
    /\ answered = {}

----------------------------------------------------------------------------
Open == {v \in Version : lstate[v] \in OpenState}
Written == {v \in Version : lstate[v] # "none"}
Taken == Written \cup foreign

(* get_active_lease: the open row of the highest version. *)
IsCurrent(v) == v \in Open /\ \A u \in Open : u <= v

(* uq_build_leases_open_session_provider: writing state s to v would leave *)
(* two open leases, so the statement raises and its transaction is undone. *)
Clash(v, s) == s \in OpenState /\ Open \ {v} # {}

AnyTurnFree(v) == TRUE

(* uq_cloud_usage_lease_turn, for the turn number create_reservation picks. *)
TurnFree(v) == \A r \in Request :
    estatus[r] # "none" /\ elease[r] = v => eturn[r] # turns[v] + 1

FitsUsed(r, v) == actual[v] + Upper[r] <= limit[v] /\ turns[v] + 1 <= turnLimit[v]
FitsAnyTurn(r, v) == actual[v] + reserved[v] + Upper[r] <= limit[v]

(* The ceilings, counting what is reserved. *)
Fits(r, v) ==
    /\ actual[v] + reserved[v] + Upper[r] <= limit[v]
    /\ turns[v] + 1 <= turnLimit[v]

AtWarning(v, total, n) ==
    \/ total * 100 >= limit[v] * WarnPercent
    \/ n * 100 >= turnLimit[v] * WarnPercent

Less(a, b) == IF a >= b THEN a - b ELSE 0

ReleasedNothing(r, v) == reserved[v]
(* What v still reserves once r's reservation is released or settled. *)
Released(r, v) == Less(reserved[v], Upper[r])

At(c, label) == pc[c] = label
Goto(c, label) == pc' = [pc EXCEPT ![c] = label]

(* The call is over, with a result or an exception. *)
Return(c) ==
    /\ pc' = [pc EXCEPT ![c] = "idle"]
    /\ held' = [held EXCEPT ![c] = 0]
    /\ req' = [req EXCEPT ![c] = NoRequest]
    /\ target' = [target EXCEPT ![c] = 0]
    /\ cost' = [cost EXCEPT ![c] = 0]

----------------------------------------------------------------------------
(* A paid call. *)

(* run_next routes a task to the cloud and execute_cloud_task captures the *)
(* lease it saw; a review begins with the request id the caller gave.      *)
Dispatch(c) ==
    /\ At(c, "idle")
    /\ IF Provider = "anthropic"
       THEN \E v \in Version :
            /\ Orchestrated => ~quarantined
            /\ IsCurrent(v)
            /\ lstate[v] \in Usable
            /\ held' = [held EXCEPT ![c] = v]
            /\ UNCHANGED req
       ELSE \E r \in Request : req' = [req EXCEPT ![c] = r] /\ UNCHANGED held
    /\ Goto(c, "dispatched")
    /\ UNCHANGED <<leaseVars, late, eventVars, founderVars, target, cost, historyVars>>

(* preflight: a usable lease whose time has not passed. A build turn draws *)
(* a fresh request id.                                                     *)
Preflight(c) ==
    /\ At(c, "dispatched")
    /\ \E v \in Version :
       /\ IsCurrent(v)
       /\ lstate[v] \in Usable
       /\ IF v \in late
          THEN Goto(c, "expiring") /\ target' = [target EXCEPT ![c] = v] /\ UNCHANGED req
          ELSE /\ Goto(c, "authorizing")
               /\ UNCHANGED target
               /\ IF Provider = "anthropic"
                  THEN \E r \in Request :
                       /\ estatus[r] = "none"
                       /\ sends[r] = 0
                       /\ \A d \in Caller : req[d] # r
                       /\ req' = [req EXCEPT ![c] = r]
                  ELSE UNCHANGED req
    /\ UNCHANGED <<leaseVars, late, eventVars, founderVars, held, cost, historyVars>>

(* The agent has no more turns to take, or preflight raised. *)
EndCall(c) ==
    /\ At(c, "dispatched")
    /\ Return(c)
    /\ UNCHANGED <<leaseVars, late, eventVars, founderVars, historyVars>>

(* expire_lease, from preflight or after a refused reservation. *)
Expire(c) ==
    /\ At(c, "expiring") \/ At(c, "closing")
    /\ lstate' = IF target[c] \in Open THEN [lstate EXCEPT ![target[c]] = "expired"] ELSE lstate
    /\ Return(c)
    /\ UNCHANGED <<foreign, limit, turnLimit, actual, reserved, turns, carried, late, eventVars,
                   founderVars, historyVars>>

(* authorize_build_egress under the lease that is current now; a build     *)
(* turn only under the one it was dispatched with.                         *)
Authorized(c) ==
    \E v \in Version :
        /\ IsCurrent(v)
        /\ Provider = "anthropic" => v = held[c]
        /\ lstate[v] \in Usable
        /\ v \notin late

Authorize(c) ==
    /\ At(c, "authorizing")
    /\ IF Authorized(c)
       THEN Goto(c, "reserving") /\ UNCHANGED <<held, req, target, cost>>
       ELSE Return(c)
    /\ UNCHANGED <<leaseVars, late, eventVars, founderVars, historyVars>>

(* create_reservation inserts the event and adds it to the totals. *)
Insert(r, v) ==
    /\ estatus' = [estatus EXCEPT ![r] = "reserved"]
    /\ elease' = [elease EXCEPT ![r] = v]
    /\ eturn' = [eturn EXCEPT ![r] = turns[v] + 1]
    /\ turns' = [turns EXCEPT ![v] = @ + 1]
    /\ reserved' = [reserved EXCEPT ![v] = @ + Upper[r]]
    /\ lstate' = [lstate EXCEPT ![v] =
           IF AtWarning(v, actual[v] + reserved[v] + Upper[r], turns[v] + 1)
           THEN "warning" ELSE @]
    /\ UNCHANGED <<foreign, limit, turnLimit, actual, carried>>

(* A request id that is still reserved gets its own reservation back; one  *)
(* that was settled, or a lease that cannot be used, refuses the call.     *)
Reserve(c) ==
    LET r == req[c] IN
    /\ At(c, "reserving")
    /\ \/ /\ estatus[r] = "reserved"
          /\ Goto(c, "sending")
          /\ UNCHANGED <<leaseVars, eventVars, held, req, target, cost>>
       \/ /\ \/ estatus[r] \notin {"none", "reserved"}
             \/ estatus[r] = "none" /\ \A v \in Version : ~(IsCurrent(v) /\ lstate[v] \in Usable)
          /\ Return(c)
          /\ UNCHANGED <<leaseVars, eventVars>>
       \/ \E v \in Version :
          /\ estatus[r] = "none" /\ IsCurrent(v) /\ lstate[v] \in Usable
          /\ \/ /\ v \in late
                /\ Goto(c, "expired")
                /\ UNCHANGED <<leaseVars, eventVars, held, req, target, cost>>
             \/ /\ v \notin late /\ ~Fits(r, v)
                /\ Goto(c, "unfit")
                /\ UNCHANGED <<leaseVars, eventVars, held, req, target, cost>>
             \/ /\ v \notin late /\ Fits(r, v) /\ TurnFree(v)
                /\ Insert(r, v)
                /\ Goto(c, "sending")
                /\ UNCHANGED <<held, req, target, cost>>
             \/ /\ v \notin late /\ Fits(r, v) /\ ~TurnFree(v)
                /\ Return(c)
                /\ UNCHANGED <<leaseVars, eventVars>>
    /\ UNCHANGED <<late, founderVars, meter, sends, answered>>

(* reserve catches the refusal and looks for the lease it came from. *)
FindRefused(c) ==
    /\ At(c, "expired") \/ At(c, "unfit")
    /\ \/ \E v \in Version :
          /\ IsCurrent(v)
          /\ lstate[v] \in Usable
          /\ target' = [target EXCEPT ![c] = v]
          /\ Goto(c, IF At(c, "expired") THEN "closing" ELSE "exhausting")
          /\ UNCHANGED <<held, req, cost>>
       \/ (\A v \in Version : ~(IsCurrent(v) /\ lstate[v] \in Usable)) /\ Return(c)
    /\ UNCHANGED <<leaseVars, late, eventVars, founderVars, historyVars>>

(* exhaust_lease writes the state whatever it has become meanwhile. *)
Exhaust(c) ==
    /\ At(c, "exhausting")
    /\ lstate' = IF Clash(target[c], "exhausted") THEN lstate
                 ELSE [lstate EXCEPT ![target[c]] = "exhausted"]
    /\ Return(c)
    /\ UNCHANGED <<foreign, limit, turnLimit, actual, reserved, turns, carried, late, eventVars,
                   founderVars, meter, sends, answered>>

Delete(r) ==
    /\ estatus' = [estatus EXCEPT ![r] = "none"]
    /\ elease' = [elease EXCEPT ![r] = 0]
    /\ eturn' = [eturn EXCEPT ![r] = 0]

Unanswered(c) == At(c, "sending") \/ At(c, "waiting")
Unsent(c) == At(c, "sending")

(* messages.stream raised before anything was sent: release_reservation    *)
(* deletes the row and takes its turn back. A review has no such path.     *)
ReleaseUnsent(c) ==
    LET r == req[c]  v == elease[r] IN
    /\ Provider = "anthropic"
    /\ Unsent(c)
    /\ estatus[r] = "reserved"
    /\ Delete(r)
    /\ reserved' = [reserved EXCEPT ![v] = Released(r, v)]
    /\ turns' = [turns EXCEPT ![v] = Less(@, 1)]
    /\ lstate' = [lstate EXCEPT ![v] = IF @ = "warning" THEN "active" ELSE @]
    /\ Return(c)
    /\ UNCHANGED <<foreign, limit, turnLimit, actual, carried, late, founderVars, historyVars>>

(* The request leaves the process and the provider meters it. *)
Send(c) ==
    /\ At(c, "sending")
    /\ sends[req[c]] < MaxSend
    /\ \E b \in Bill :
       /\ cost' = [cost EXCEPT ![c] = b]
       /\ meter' = [meter EXCEPT ![req[c]] = @ + b]
    /\ sends' = [sends EXCEPT ![req[c]] = @ + 1]
    /\ Goto(c, "waiting")
    /\ UNCHANGED <<leaseVars, late, eventVars, founderVars, held, req, target, answered>>

(* The state settle_reservation writes with the usage it settles. *)
SettledState(v, total, overage) ==
    IF overage THEN "paused"
    ELSE IF lstate[v] # "paused" /\ AtWarning(v, total, turns[v]) THEN "warning"
    ELSE lstate[v]

(* settle_reservation replaces the reservation by usage u; a request that  *)
(* was settled before keeps what it has.                                   *)
SettleRow(r, u, s, overage) ==
    LET v == elease[r] IN
    /\ estatus' = [estatus EXCEPT ![r] = s]
    /\ reserved' = [reserved EXCEPT ![v] = Released(r, v)]
    /\ actual' = [actual EXCEPT ![v] = @ + u]
    /\ lstate' = [lstate EXCEPT ![v] = SettledState(v, actual[v] + u, overage)]
    /\ UNCHANGED <<foreign, limit, turnLimit, turns, carried, elease, eturn>>

SettleableTwice(r) == estatus[r] # "none"
Settleable(r) == estatus[r] \in Outstanding

UsageToSettle(c, known) == IF known THEN cost[c] ELSE Upper[req[c]]

(* settle: the reported usage, or the whole reservation when there is none. *)
(* When the write is refused a build turn marks the spend uncertain; a      *)
(* review just raises.                                                      *)
Settle(c) ==
    LET r == req[c] IN
    /\ At(c, "waiting")
    /\ answered' = answered \cup {r}
    /\ \E known \in BOOLEAN :
       LET u == UsageToSettle(c, known)
           overage == u > Upper[r]
           s == IF ~known THEN "conservative_settlement"
                ELSE IF overage THEN "provider_overage" ELSE "settled"
           v == elease[r]
       IN
       IF ~Settleable(r)
       THEN UNCHANGED <<leaseVars, eventVars>> /\ Return(c)
       ELSE IF ~Clash(v, SettledState(v, actual[v] + u, overage))
       THEN /\ SettleRow(r, u, s, overage)
            /\ IF Provider = "anthropic"
               THEN /\ Goto(c, "dispatched")
                    /\ req' = [req EXCEPT ![c] = NoRequest]
                    /\ cost' = [cost EXCEPT ![c] = 0]
                    /\ UNCHANGED <<held, target>>
               ELSE Return(c)
       ELSE /\ UNCHANGED <<leaseVars, eventVars>>
            /\ IF Provider = "anthropic"
               THEN Goto(c, "doubting") /\ UNCHANGED <<held, req, target, cost>>
               ELSE Return(c)
    /\ UNCHANGED <<late, founderVars, meter, sends>>

(* mark_uncertain, after a failure of the transport or of the settlement:  *)
(* the reservation stays and the lease is paused, whatever its state. The  *)
(* reason given for a failed stream is the text of the failure, and one    *)
(* without a text is refused: the event stays as it was. A review has a    *)
(* reason of its own for that case.                                        *)
MarkUncertain(c) ==
    LET r == req[c]  v == elease[r] IN
    /\ At(c, "waiting") \/ At(c, "doubting")
    /\ \/ /\ estatus[r] = "reserved"
          /\ ~Clash(v, "paused")
          /\ estatus' = [estatus EXCEPT ![r] = "uncertain_spend"]
          /\ lstate' = [lstate EXCEPT ![v] = "paused"]
       \/ /\ \/ estatus[r] # "reserved"
             \/ Clash(v, "paused")
             \/ Provider = "anthropic" /\ At(c, "waiting")
          /\ UNCHANGED <<lstate, estatus>>
    /\ Return(c)
    /\ UNCHANGED <<foreign, limit, turnLimit, actual, reserved, turns, carried, late, elease, eturn,
                   founderVars, meter, sends, answered>>

----------------------------------------------------------------------------
(* The founder. *)

(* request_lease, and the prepare route of a review. *)
RequestLease ==
    /\ Open = {}
    /\ Provider = "anthropic" => ~quarantined
    /\ asked' = asked \cup {"lease"}
    /\ UNCHANGED <<leaseVars, late, eventVars, resolving, seen, reported, quarantined,
                   callVars, historyVars>>

(* deny, or the denial of any approval request. *)
Deny ==
    \E kind \in asked :
    /\ asked' = asked \ {kind}
    /\ UNCHANGED <<leaseVars, late, eventVars, resolving, seen, reported, quarantined,
                   callVars, historyVars>>

NextVersion(v) == v \in Version /\ Taken = 1..(v - 1)

(* approve, first half: create_lease, with nothing used yet. *)
CreateLease ==
    \E v \in Version :
    /\ NextVersion(v)
    /\ "lease" \in asked
    /\ Open = {}
    /\ lstate' = [lstate EXCEPT ![v] = "active"]
    /\ limit' = [limit EXCEPT ![v] = Grant]
    /\ turnLimit' = [turnLimit EXCEPT ![v] = TurnGrant]
    /\ resolving' = resolving \cup {"lease"}
    /\ UNCHANGED <<foreign, actual, reserved, turns, carried, late, eventVars, asked, seen,
                   reported, quarantined, callVars, historyVars>>

(* create_lease for the other provider: versions number all the leases of  *)
(* a session, of whatever provider.                                        *)
CreateForeignLease ==
    \E v \in Version :
    /\ NextVersion(v)
    /\ foreign' = foreign \cup {v}
    /\ UNCHANGED <<lstate, limit, turnLimit, actual, reserved, turns, carried, late, eventVars,
                   founderVars, callVars, historyVars>>

FreshUsage(u) == [reserved |-> 0, actual |-> actual[u]]
(* The usage an enlarged lease starts with: all of its predecessor's. *)
Usage(u) == [reserved |-> reserved[u], actual |-> actual[u]]

(* approve, first half, with an open lease: upgrade_lease writes the       *)
(* version after its own with the ceilings added up and the usage copied;  *)
(* uq_build_leases_session_version refuses a version that is taken.        *)
UpgradeLease ==
    \E u \in Version :
    /\ Provider = "anthropic"
    /\ IsCurrent(u)
    /\ "upgrade" \in asked
    /\ u + 1 \in Version \ Taken
    /\ LET v == u + 1 IN
       /\ lstate' = [lstate EXCEPT ![u] = "superseded", ![v] = "active"]
       /\ limit' = [limit EXCEPT ![v] = limit[u] + Grant]
       /\ turnLimit' = [turnLimit EXCEPT ![v] = turnLimit[u] + TurnGrant]
       /\ reserved' = [reserved EXCEPT ![v] = Usage(u).reserved]
       /\ actual' = [actual EXCEPT ![v] = Usage(u).actual]
       /\ turns' = [turns EXCEPT ![v] = turns[u]]
       /\ carried' = [carried EXCEPT ![v] = Usage(u)]
    /\ resolving' = resolving \cup {"upgrade"}
    /\ UNCHANGED <<foreign, late, eventVars, asked, seen, reported, quarantined, callVars,
                   historyVars>>

(* approve, second half: resolve_approval_request, a transaction later. *)
Resolve ==
    \E kind \in resolving :
    /\ resolving' = resolving \ {kind}
    /\ asked' = asked \ {kind}
    /\ UNCHANGED <<leaseVars, late, eventVars, seen, reported, quarantined, callVars,
                   historyVars>>

(* run finds the lease exhausted. *)
SeeExhausted ==
    \E v \in Version :
    /\ Provider = "anthropic"
    /\ Orchestrated => ~quarantined
    /\ IsCurrent(v)
    /\ lstate[v] = "exhausted"
    /\ seen' = v
    /\ UNCHANGED <<leaseVars, late, eventVars, asked, resolving, reported, quarantined,
                   callVars, historyVars>>

(* It reports that. Only the service's own run first files an upgrade      *)
(* request, for the lease that is open by then (_continue_after_exhaustion *)
(* after a local run); the orchestrator's, which api.py wires in, answers  *)
(* "lease_exhausted" and files nothing.                                    *)
ReportExhausted ==
    /\ seen # 0
    /\ seen' = 0
    /\ IF Orchestrated
       THEN reported' = seen /\ UNCHANGED asked
       ELSE \/ Open # {} /\ reported' = seen /\ asked' = asked \cup {"upgrade"}
            \/ Open = {} /\ UNCHANGED <<reported, asked>>
    /\ UNCHANGED <<leaseVars, late, eventVars, resolving, quarantined, callVars, historyVars>>

(* quarantine_session pauses the leases that could be used. *)
Quarantine ==
    /\ quarantined' = TRUE
    /\ lstate' = [v \in Version |-> IF lstate[v] \in Usable THEN "paused" ELSE lstate[v]]
    /\ UNCHANGED <<foreign, limit, turnLimit, actual, reserved, turns, carried, late, eventVars,
                   asked, resolving, seen, reported, callVars, historyVars>>

----------------------------------------------------------------------------
(* A lease's time passes. Tiers last differently long, so an older lease   *)
(* may outlast the one that superseded it.                                 *)
Tick ==
    \E v \in Written \ late :
    /\ late' = late \cup {v}
    /\ UNCHANGED <<leaseVars, eventVars, founderVars, callVars, historyVars>>

(* The kernel restarts: calls are gone, and nothing looks at the ledger. *)
Restart ==
    /\ resolving # {} \/ seen # 0 \/ \E c \in Caller : pc[c] # "idle"
    /\ pc' = [c \in Caller |-> "idle"]
    /\ held' = [c \in Caller |-> 0]
    /\ req' = [c \in Caller |-> NoRequest]
    /\ target' = [c \in Caller |-> 0]
    /\ cost' = [c \in Caller |-> 0]
    /\ resolving' = {}
    /\ seen' = 0
    /\ UNCHANGED <<leaseVars, late, eventVars, asked, reported, quarantined, historyVars>>

Call(c) ==
    \/ Dispatch(c) \/ Preflight(c) \/ EndCall(c) \/ Expire(c) \/ Authorize(c)
    \/ Reserve(c) \/ FindRefused(c) \/ Exhaust(c) \/ ReleaseUnsent(c)
    \/ Send(c) \/ Settle(c) \/ MarkUncertain(c)

Founder ==
    \/ RequestLease \/ Deny \/ CreateLease \/ CreateForeignLease \/ UpgradeLease
    \/ Resolve \/ SeeExhausted \/ ReportExhausted \/ Quarantine

Next == (\E c \in Caller : Call(c)) \/ Founder \/ Tick \/ Restart

Spec == Init /\ [][Next]_vars

----------------------------------------------------------------------------
(* What the ledger is for. *)

(* The sum of f over S counts its units: each x of S stands for f[x] of    *)
(* them.                                                                   *)
Units(f, S) == UNION {{x} \X (1..f[x]) : x \in S}
Sum(f, S) == Cardinality(Units(f, S))

Least(a, b) == IF a <= b THEN a ELSE b

(* What the provider charged, as far as the reservations allowed for it: a *)
(* charge above its reservation is an overage, recorded as such.           *)
Charged == [r \in Request |-> Least(meter[r], Upper[r])]
Granted == Grant * Cardinality(Written)
TurnsGranted == TurnGrant * Cardinality(Written)

(* The ledger never loses spend: the totals the ceilings are checked       *)
(* against cover what the provider charged, whatever was released, expired,*)
(* renewed, enlarged, left uncertain or cut by a restart. A superseded row *)
(* does not count: its successor carries its totals.                       *)
Ledger == {v \in Version : lstate[v] \notin {"none", "superseded"}}
SpendCovered ==
    Sum(Charged, Request) <= Sum(actual, Ledger) + Sum(reserved, Ledger)

(* The founder's envelope: calls that run concurrently with each other and *)
(* with renewals never spend more than all the approvals together granted. *)
(* Leases are taken as never enlarged: a settlement may reopen a superseded*)
(* lease, and the room left under its own limit is then granted twice.     *)
NeverEnlarged == \A v \in Version : limit[v] <= Grant
SpendWithinGrants == NeverEnlarged => Sum(Charged, Request) <= Granted

(* Nor send more requests than the turns that were granted. *)
TurnsWithinGrants == Cardinality({r \in Request : sends[r] > 0}) <= TurnsGranted

(* The totals of a lease agree with its events: what is reserved is what   *)
(* it began with and what its outstanding events reserve.                  *)
ReservedAgrees ==
    \A v \in Version :
        reserved[v] = carried[v].reserved
            + Sum(Upper, {r \in Request : elease[r] = v /\ estatus[r] \in Outstanding})

(* A request that left the process has a row in the ledger for ever: its   *)
(* reservation is released only when nothing was sent.                     *)
NothingUnrecorded == \A r \in Request : sends[r] > 0 => estatus[r] # "none"

(* A settled event is final (BuildStore.settle_reservation).               *)
SettledIsFinal ==
    [][\A r \in Request : estatus[r] \notin Outstanding \cup {"none"}
           => estatus'[r] = estatus[r] /\ elease'[r] = elease[r]]_vars

----------------------------------------------------------------------------
(* What documents and tests say and the code does not keep. *)

(* An exhausted lease that is reported has an upgrade request pending      *)
(* (delegation design: "creates one deduplicated founder upgrade request").*)
ExhaustionAsked == [][reported' # 0 /\ seen # 0 /\ seen' = 0 => "upgrade" \in asked']_vars

(* An expired lease stays closed (test_expired_lease_is_closed_durably).   *)
ExpiredIsClosed ==
    [][\A v \in Version : lstate[v] = "expired" => lstate'[v] = "expired"]_vars

(* An uncertain spend pauses new cloud calls for its lease.                *)
UncertainPauses ==
    \A r \in Request : estatus[r] = "uncertain_spend" => lstate[elease[r]] \notin Usable

(* A request whose answer arrived, and whose call is over, is settled.     *)
AnsweredIsSettled ==
    \A r \in answered :
        estatus[r] = "reserved" => \E c \in Caller : req[c] = r

(* Every transmission has a reservation of its own.                        *)
SentOnce == \A r \in Request : sends[r] <= 1

(* A refused reservation is refused as a budget decision, not by an index. *)
TurnsFresh ==
    \A c \in Caller, v \in Version :
        /\ At(c, "reserving") /\ estatus[req[c]] = "none"
        /\ IsCurrent(v) /\ lstate[v] \in Usable /\ v \notin late
        /\ Fits(req[c], v)
        => TurnFree(v)

(* An upgrade that is asked for can be written as a new version.           *)
UpgradeFits ==
    "upgrade" \in asked \ resolving => \A v \in Version : IsCurrent(v) => v + 1 \notin Taken

(* A quarantined session has no usable lease.                              *)
QuarantineStopsPaid == quarantined => \A v \in Version : lstate[v] \notin Usable
=============================================================================
